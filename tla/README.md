# indexedWatch: a TLA+ model of its storage layer

This directory models the storage code of indexedWatch: the write-ahead log
(`pkg/wal`), the LSM database (`pkg/lsm`) and the schema registry
(`pkg/schema`). The modules are checked with TLC on small instances; the safety
properties of group commit, the WAL, the database, the memtable and the registry
are proved with TLAPS for every value of the constants.
`PROJECT.json` lists the runs, the source lines each definition models, the
findings, the hazards and the theorems.

## The system

| Part | State | Operations | Interaction |
|---|---|---|---|
| WAL (`wal.go`) | segment files, current file, encoder, offset, `closed` | Open, Append, SaveSnapshot, Sync, ReadAll, Close, rotation | everything but Sync's queueing runs under `w.mu` |
| Group commit (`sync_group.go`) | `syncing`, `pending`, each leader's batch, one channel per follower | `sync` | called by Sync; calls back into the WAL for flush and fsync |
| Encoder, decoder, page writer | running CRC, offset, write buffer | Encode, Decode, Write, Flush | the CRC chain links all records of a segment, a checkpoint links segments |
| LSM database (`lsm.go`, `flush.go`) | active and sealed memtables, sequence number, table cache | Set, Delete, Get, NewIterator, NewSnapshot, Close, flush loop | writers and readers under `db.mu`; the flush goroutine woken through a channel |
| Version set (`version.go`) | current version, next file number, last sequence number, MANIFEST | logAndApply, recover | called by flush and compaction under `versions.mu` |
| Compaction (`compaction.go`) | the pick of a round | pick, merge, edit, removal of inputs | its own goroutine, woken by flush |
| Memtable, skiplist, arena | nodes, links of each level, list height, allocated bytes, range of sequence numbers | Set, Delete, iterators | the database writes under `db.mu` and reads without; the skiplist itself admits concurrent writers |
| SSTable (`pkg/lsm/sstable`) | data blocks, index of separators, bloom filter | writer, Get, table iterators | written by flush and compaction, read through the table cache |
| Block cache (`cache.go`) | a map and a list of blocks, their total size | Get, Set, Evict | shared by all tables; evicted from by compaction |
| Iterators (`DBIterator`, `merge_iterator.go`) | a heap of sources, the current key and value | First, SeekGE, Next | over the memtables and tables captured by NewIterator |
| Schema registry (`pkg/schema`) | map of types, a WAL of its own | Register, AddIndex, RemoveIndex, Get, Close, Open | each mutation appends and syncs before it changes the map |

What is hard in it: callers of Sync that join while a round is under way; crashes
between any two file operations; torn records; writes and readers interleaved
with flush and compaction, which move entries between memtables and files in
several steps; lock-free insertions that meet between the same two nodes; keys
whose bytes are compared with the trailers of other keys, and key buffers that are
overwritten while somebody still holds a slice of them; errors of a write or an fsync in the middle of an operation;
Close racing everything. The layers above (replication, watches, queries) are
described in `ARCHITECTURE.md` and have no code.

What makes each part correct: a Sync that returns nil has covered what was
appended before it, as far as no I/O error lost it; the log reads back exactly what was appended and not lost in a crash,
and never loses what was acknowledged; background work never changes what the
database contains, and a reader finds the newest version; a memtable is a sorted
set that loses no insertion, a table returns exactly what was added to it, an
iterator over all of them returns the live keys with their newest values; the
registry is what its WAL replays to.

## Modules

| Module | Models | Notes |
|---|---|---|
| `GroupCommit` | what Sync promises | abstract: a log with a durable prefix, each call on its own |
| `SyncGroup` | `sync_group.go`, and the WAL around it as counters | implements `GroupCommit` |
| `SyncGroupProofs` | | theorems about `SyncGroup` |
| `Wal` | `wal.go`, `encoder.go`, `decoder.go`, `pagewriter.go` | segments of frames, crashes, recovery |
| `WalProofs` | | theorems about `Wal` |
| `Loops` | a loop over a sequence, instantiated by `Wal`, `SchemaRegistry`, `SSTable`, `BlockCache` and others | with the facts their proofs need of it, proved there |
| `LsmStore` | what the database promises about its contents | abstract: a set of entries that grows, a durable subset |
| `LsmTables` | internal key order, lookup in tables and levels, overlap, compaction output | operators only |
| `LsmDB` | `lsm.go`, `flush.go`, `version.go`, `compaction.go` | implements `LsmStore` |
| `LsmDBProofs` | | lemmas about `LsmTables`, theorems about `LsmDB` |
| `OrderedSet` | what a memtable promises | abstract: one step per insertion and per movement of an iterator |
| `Memtable` | `memtable.go`, `skiplist.go`, `node.go`, `iterator.go`, `arena.go` | implements `OrderedSet` |
| `MemtableProofs` | | theorems about `Memtable` |
| `ByteKeys` | `internalkey.go`, key comparison, the shortened keys of an index | operators only |
| `Bloom` | `bloom.go` | operators only |
| `SSTable` | `block.go`, `writer.go`, `reader.go` | operators only, on `ByteKeys` and `Bloom` |
| `SSTableProofs` | | lemmas about `ByteKeys`, `Bloom`, `SSTable` and `BlockCache` |
| `LruCache` | what the block cache promises | abstract: the blocks used last that fit |
| `BlockCache` | `cache.go` | operators only |
| `DBIterator` | `DBIterator` in `lsm.go`, `merge_iterator.go`, `readDataBlock` | composes `SSTable` and `BlockCache`; its cache implements `LruCache` |
| `DBIteratorProofs` | | theorems about tables, iterators and the block cache |
| `SchemaRegistry` | `registry.go`, `schema.go`, `walentry.go` | uses the WAL through what `SyncGroup` and `Wal` show |
| `SchemaRegistryProofs` | | theorems about `SchemaRegistry` |
| `MC...` | | the module each `.cfg` is run with |

A definition named after a mutation of the code ("Mutant of ...") is used by no
specification. It replaces the definition it is named for in a separate run, which
shows that the property listed with it in `PROJECT.json` can be violated.

### SyncGroup

A process is a goroutine that appends and calls Sync; `pc` says where it is in
`syncGroup.sync`. One action is what happens between two points at which another
goroutine can run: `Follow` and `Lead` are the first critical section of `sg.mu`,
`SyncFunc` is flush and fsync under `w.mu`, `Notify` is one channel send, `Again`
and `Release` are the second critical section, `Receive` is a follower's return.
Records are counted: `appended`, `flushed` (left the buffer), `synced` (there when
an fsync last succeeded). An I/O error may lose records (`Lose`): a failed write
empties the buffer all the same, after any part of it has reached the file, and
after a failed fsync the pages are written by the next one or, as on Linux, taken
for clean, from any record on. `lost` is the set of these records, and `brokenAt`
the first that cannot be decoded because the CRC chain has counted one of them.
Errors come from Sync, Append (a spill of the page writer, the flush and fsync of
a rotation) and Close. `target[p]` is what had been appended when p called Sync,
`ret[p]` its result.

`SyncCovers` excepts the lost records, because the code does return nil for them, in
three ways: the error went to another goroutine's call; the caller queued during
the round that failed and got the result of the next one; or it is the leader,
which returns the result of its last round only (`sync_group.go:55, 75`). In the
last case nobody may be told.

### Wal

A payload is a unique number and the CRC of a frame is the sequence of payloads
it covers, so that two chains are equal exactly when they cover the same records.
A segment knows how many of its frames are written and fsynced. `createSegment`
is two actions because a crash can leave the file without its checkpoint, and a
failed one may leave it with or without; all else under `w.mu` is one. An Append
may spill the buffer, up to the new frame or to its end. Failing writes and fsyncs
of existing segments are in `SyncGroup`, not here. `Crash` keeps any prefix of the unsynced frames and
possibly a torn one, `Kill` keeps all that had been written. With the fault
`"zeroed"` a torn frame may still parse (preallocated segments). `encOff` and
`offset` are the two offsets of encoder and WAL, in frames. The second half of
SaveSnapshot is a call of Sync after `w.mu` is released, so that other calls may
come first.

### LsmDB

Keys are numbers, a value is identified by its sequence number, a table is its
set of entries and its size is their number. Memtables are numbered in the order
of their creation. A write is up to four actions (allocate the number, store it in
the version set, insert under `db.mu`, wake the flush goroutine after the unlock),
a flush four, a compaction four, a reader as
many as it has critical sections. Old versions and tombstones are never dropped,
as in `compaction.go`. The lookup in the memtables a Get holds is one action; the
numbers of a compaction's outputs are consecutive (a flush that takes a number in
between changes nothing else). `manifest` is what `recover` makes of the MANIFEST.
Faults: a flush or a compaction fails before its edit, or the edit is written and
its fsync fails. A reader takes memtables and version in the order of
`CaptureOrder`; `must` remembers which writes had completed when it started.

### Memtable

One action is one atomic load, addition or compare-and-swap together with the
private work up to the next one: `Walk` follows one link, `Link` and `LinkLost` are
the two outcomes of `casNext` (the store into the new node's own tower before it is
private, since nobody reaches the node in that level yet). Nodes are arena offsets,
computed as `Alloc` computes them, and `NewNode` is the only place where they come
from, so that overlapping allocations would be overlapping nodes. `blocks` and
`linked` are history: what was allocated, and what a successful compare-and-swap
has put into each level. The height of a node is any number up to `MaxHeight`. In
the refinement an insertion takes effect when the node is in the base level, a
SeekGE when its search ends there.

### SSTable, Bloom, BlockCache and DBIterator

Keys are sequences of bytes. A byte goes up to `MaxByte`, a trailer has two bytes
instead of eight; the complement, its order, prefixes and increments of maximal
bytes are as in the code. A block is the sequence of its encoded entries (length of
the shared prefix, suffix, value), sizes count the bytes the code would write. What
is a loop in the code and touches nothing shared is an operator: encoding, the
binary search over restart points, the scan, the two-level iterator.

In `DBIterator` a memtable and tables are filled (`MemtableSet`, `TableAdd`,
`TableClose`), an iterator is opened and then positioned and advanced, one action
per turn of the loops of `findNextVisible` and `skipUserKey`. The heap of the merge
iterator is a set with an order. Blocks go through the cache in two steps (lookup,
then read and insert), between which another reader and the eviction after a
compaction come in. The user key `skipUserKey` compares with is a slice: `seen` is
what it reads as now, `given` what it was when it was passed. `buf` and `cap` of a
block iterator say when the next key is assembled in the same memory; the growth of
a buffer is that of Go's `append` with smaller size classes. `clobbered` records
that the two differed in a comparison.

### SchemaRegistry

A mutation is `Begin` (checks and Append) and `Commit` (Sync, change of the map,
return) or `SyncFails`, or it ends with `AppendFails`; `r.mu` is held throughout, so
that no other mutation, Get or Close comes in between, but a crash can. As
`SyncGroup` shows, a failing call of the WAL may lose the entries that are not
durable, or leave them. `broken` is where the next entry then follows a gap in the
CRC chain: what is written from there on cannot be read again. Open recovers what
is in front of the gap, or refuses and changes nothing.

## Runs

Passing runs:

| Run | Bounds | Shows |
|---|---|---|
| `SyncGroup` | 3 goroutines, 2 records, failing writes and fsyncs that lose records or not, Close | `SyncCovers`, `OneLeader`; `SyncGroup` implements `GroupCommit`; no follower forgotten, all answered, the leader returns when calls stop |
| `WalRecovery` | segments of 3 frames, 4 records, 2 crashes, failing creation of a segment, torn frames that parse | exact read-back, acknowledged records survive, nothing is decoded that was not appended, Open succeeds |
| `LsmReaders` | Get, iterator and snapshot against 3 writes of one key, 4 files, all faults, Close, 1 crash or reopening | no completed write and no file is missed, the MANIFEST is recoverable, the database implements `LsmStore` |
| `LsmOrder` | 1 writer, 2 keys, 6 writes, memtables of 2 entries, 10 files, 1 crash | unique sequence numbers, disjoint files, newer on top, nothing lost in compactions |
| `LsmLive` | 2 writers, 3 writes or deletes, 6 files, Close and reopening or a crash | sealed memtables are flushed, Close returns, no write or tombstone is lost in flush or compaction (Close and a crash drop the memtables) |
| `Memtable` | 2 writers, one of which also iterates, 2 keys (two versions of a user key), 2 levels, an arena with room for three nodes at most | disjoint allocations, sound lists, no panic, the sequence range covers, calls return; `Memtable` implements `OrderedSet` |
| `Tables` | 5 writes over 3 keys (a tombstone; one key a prefix of another), a memtable and 2 tables, 3 entries in all or 5 in a single table, blocks of 1 to 3 entries, a cache of one or two blocks, 1 foreign read or eviction | each table reads back exactly, the iterator returns the newest live values, the cache is an LRU cache |
| `SchemaRecovery` | 2 types (symmetric), 3 paths, at most 1 index at registration, 4 entries, 1 crash, failing Append and Sync | recovery gives what was acknowledged, no duplicate indexes, types keep their primary key |

The bounds are enough for the cases that matter: three goroutines give a leader, a
follower in its batch and a latecomer; four records over segments of three frames
(one of them the checkpoint) rotate twice, and two crashes can hit a recovered log
again; in `LsmReaders` and `LsmLive` a memtable of one entry and L0 compaction at two
files make three writes seal two memtables and compact both; in `LsmOrder` memtables
of two entries, which can hold two versions of one key, L0 compaction at one file and
a base level of one entry make six writes fill L0, compact it more than once and go
on to L2, with outputs of L1 cut after two entries. Four files in `LsmReaders`
are two flushes, the compaction of both and one table left over from a failure.
Close is called before the first restart (`ClosingLives`): a reopened database is
in a state the first life can be in too, apart from tables left over on disk.
Deletes occur in `LsmLive` only: elsewhere a tombstone would be one more entry.
Two goroutines that insert the same key or neighbours in two levels give every
lost compare-and-swap of the skiplist: in the base level, in the upper one, on the
height and on the sequence range; the second of them also iterates, between its
insertions, over a list the first changes. Five entries in one table make several
blocks with more than one restart point. Three entries over three sources put two
versions and a tombstone of a key, or the same version twice (an iterator opened
during a flush), in every arrangement. The bound on files of `LsmOrder` and `LsmLive` is never the reason a flush or a
compaction waits.

Runs whose property, stated by a comment of the repository, does not hold of the
code (details and quotations under "findings" in `PROJECT.json`):

| Run | The code |
|---|---|
| `WalTornCrc` | recovery from a torn frame that parses seeds the encoder with a wrong CRC |
| `LsmGetMiss` | Get gives up at the first table that covers the key and holds no version of it that Get may see (none, or one newer than its sequence number, as in the trace) |
| `LsmLevelOrder` | overlap is decided on internal keys, so that two files of L1 hold versions of one key and a level compaction moves the newer below the older |
| `IterAlias` | `skipUserKey` compares with a slice of a buffer that decoding the next key overwrites, so that a key as long as the one before it is skipped |

`FreshOnTop` and `RangesDisjoint` are what remains true of the order of versions
and of the shape of the levels, with one writer and without MANIFEST errors.
`ReadAllExact`, `AckedSurvive`, `OpenSucceeds` and `OnlyTailsLost` are stated for a
log that no recovery has seeded with a wrong CRC (the history variable `poisoned`),
`IteratorExact` for iterations in which no overwritten key was compared
(`clobbered`) and for user keys none of which is a prefix of another: between such
keys the trailer of one is compared with bytes of the other, and they come out in
another order than that of the user keys. `GetFresh` has no passing run: what
`getFromTable` returns for a missing key makes it fail as soon as two tables exist.

The models follow the code in other places where it promises less than one might
expect, and the properties are stated around them (most are in the list of hazards
with a note): NewSnapshot takes the version before the memtables, so that a flush in
between hides a completed write from the snapshot, and `ReadCovers` leaves that case
out; a failed write or fsync loses records that a later Sync reports as safe; a
failed rotation leaves a WAL without a file; the offset that decides on rotation restarts inside
the page after Open; two writers may insert in the other order than their sequence
numbers, and may leave too low a number in the MANIFEST; a MANIFEST edit whose
fsync failed comes back at recovery; reads and writes that meet Close; a registry
mutation that reported an error may be there after the next Open, and one that
succeeded after such an error may not.

Deadlock is checked for the WAL, group commit, the memtable, the tables and the
registry. The runs of
`LsmDB` end when their bounds on sequence numbers, memtables and files are used
up, so it is switched off there.

## Fairness

`SyncGroup!FairSpec`: a goroutine inside Sync keeps running (the Go scheduler, and
channel operations that cannot block for ever: each channel has room for its one
answer). Nobody is obliged to call Sync, and `LeaderReleased` assumes that calls
stop arriving, because the code lets a leader serve latecomers without limit.
`LsmDB!FairSpec`: the two background goroutines, a write that has begun and Close
keep running (`SealedFlushed` is not claimed when flushes fail: nothing obliges a
further attempt). `Memtable!FairSpec`: a goroutine inside Set, Delete or SeekGE keeps
running; nobody is obliged to begin a call. Nothing stronger is needed, because a
compare-and-swap is only lost to another goroutine's progress, and the arena bounds
that. The bound on files is large enough for all flushes of the run.

## Proofs

All theorems hold for every value of the constants that satisfies the named
assumptions of the modules (sizes and bounds are numbers, pages are not
empty, level targets are numbers, a byte has an even number of values, the sequence
numbers of the writes fit into a trailer, ...), and with all the faults, unless they say otherwise.
Each safety property is derived from an inductive invariant, `Inv` in its module;
these were checked with TLC before they were proved.

**Group commit** (`SyncGroupProofs`). `TypeCorrect`, `DisciplineInvariant`,
`OneLeaderInvariant`, `WaitersOwnedInvariant` are the queueing discipline;
`SyncCoversInvariant` says that every record appended before a Sync that returned
nil is in a file a successful fsync has covered, or is one that an I/O error has
lost; `Refinement` that `SyncGroup` implements `GroupCommit`. The records from
`brokenAt` on are lost or behind a gap in the CRC chain; the abstract log promises
only what can be read back, and that no error takes it away again. `SyncCovers` speaks of results already returned and is
not inductive. The promise is carried by the results on their way: `RoundCovers`
says what a leader's "ok" is worth to itself and to its batch, `AnswerCovers` what
an "ok" in a channel is worth. They survive a new call only because the members of a
batch are still waiting and belong to one leader: that is `Discipline`, proved first.
The refinement maps the durable prefix of the abstract log to what is synced in front
of the gap, its lost records to those behind it, and a call to being inside `sync`.

**WAL** (`WalProofs`). `SealedStaysDurable`, `DecodedStaysGenuine`,
`ReadAllStaysExact`, `AckedRecordsSurvive`, `OpenNeverRefuses`, `OnlyTailsAreLost`,
for any segment size and any number of records, rotations, failed rotations, crashes
and kills. The properties speak of what the decoder returns, the steps change frames,
counters and the encoder's CRC; the invariant is between the two. `LogSound`: the
whole frames of all segments are exactly the log, and the acknowledged records are a
prefix of what is fsynced. `StatusSound`: only a crash leaves a torn frame, and only
at the very end. `ChainSound`: unless `poisoned`, every chain holds up to the torn
frame and the encoder goes on with it, so that the decoder stops nowhere else
(`CleanWhole`, `ChainClean`). The premise `~poisoned` is the finding of `WalTornCrc`
and nothing more: `ChainGoesOn` proves the property of that run up to it, and
`NeverPoisoned` proves that it is always true where torn frames do not parse.

**Database** (`LsmDBProofs`). `TypeCorrect`, `RecoveryPossible`,
`ReadersFindFiles`, `ReadersSeeWrites`, and `StoreRefined`: `LsmDB` implements
`LsmStore`. What a reader holds is complete and readable only because of what the
background goroutines have in hand between writing a table, logging the edit and
removing the inputs (`FlushSound`, `CompactSound`), because a file number is not used
twice between two restarts (`Numbered`), and because no table is empty (`FullSound`).
The lemmas about compaction outputs use that the ranks of the merged entries are 0, 1,
2, ... without a gap.

**Order of entries** (`LsmDBProofs`, last part). `NumbersUnique` assumes one writer,
`LevelsDisjoint` that an edit in the MANIFEST is also applied, `NewestOnTop` both.
The code needs them: two writers can store their numbers in the other order, which
takes `lastSeqNum` back (`lsm.go:136`), and a compaction repeated after a failed
fsync of the MANIFEST leaves the outputs of both attempts in it (`version.go:335-363`).
The attempt to prove `FreshOnTop` showed that its first form was wrong for memtables
of more than one entry: a memtable that is flushed and not yet dropped lies above a
file that has its own older entries and its own newer ones. `Newer` now says so, and
`LsmOrder` runs with memtables of two entries.

**Memtable** (`MemtableProofs`). `TypeCorrect`, `AllocationsDisjoint`,
`ListsStaySound`, `PanicUnreachable`, `SeqRangeStaysWide` and `MemtableRefines`:
`Memtable` implements `OrderedSet`, for any number of goroutines, keys and levels. A
compare-and-swap that succeeds keeps a level sorted only because the splice it is
based on, found many steps earlier, still brackets the key (`GoodSplice`), because the
node being linked is in exactly the levels below (`GoodNode`), and because a search
only stands on nodes of its level (`GoodPosition`). Each speaks of one goroutine; that
the steps of the others never disturb it is proved once (`Grows`).

**Registry** (`SchemaRegistryProofs`). `RecoveryStaysExact`, `IndexesStayDistinct`,
`TypesStay`. A failed Sync leaves entries in the WAL that the map does not have, so
the invariant speaks of the replay of every prefix of the WAL (`PrefixesDistinct`)
and, as long as the WAL has returned no error, of the entries behind the map
(`MemoryLogged`). `TypesPermanent` holds whatever Append and Sync return, and for
a restart unless the WAL went on behind a gap: a mutation acknowledged there is gone
after Open, which the code cannot notice. It rests on `KeysLogged`: what replays from
the durable entries, followed by any part of the others, has the map's types with
their primary keys. A registration whose Sync failed may be in the WAL too, with
another primary key, but only for a type that the map does not have; if the caller
registers the type again, the later entry is the one that counts.

**Tables** (`SSTableProofs`, `DBIteratorProofs`). `SeekIsExactAlways`,
`ScanIsExactAlways` and `GetIsExactAlways`, for any writes, targets, block size,
restart interval and hash function. A block is related to the sequence of pairs that
were added to it: an entry shares with the one before it exactly the bytes that are
equal, so that decoding from a restart point on gives the pairs back, and the binary
search over restart points and the scan after it end at the first pair that is not
below the target. A table is the sequence of its blocks' contents together with
an index whose keys separate them: `ShortSeparator` and `ShortSuccessor` are between
the keys they are made of, for any bytes. `BuildInv` carries this through the writer,
from `Add` to `Close`, including the separator that is only known when the next block
begins. The filter admits every key that was added because reader and writer set and
test the same bits, whatever `bloomHash` is.

**Iterators** (`DBIteratorProofs`). `IteratorIsExact`, for any number of tables and
any placement of the versions. Three layers, each with its own invariant:

- each source's iterator after First, SeekGE or Next stands at the first write of its
  source that is at, or behind, the place asked for (`SourceFirstIs`, `SourceSeekIs`,
  `SourceNextIs`); for the memtable this needs that it is sorted (`MemSound`);
- the merge has a set A of writes in front of it that is closed upwards in the order of
  internal keys, and each source in the heap stands at its first write of A (`Merges`).
  The top is then the least write of A, all sources that hold it are at it, and
  `merge.Next` takes exactly this write out of A (`SkipMerges`). This holds whatever
  the keys are, also after an overwritten key was compared;
- `DBIterator` has user keys V ahead of it, has returned the live keys that are not in
  V, and A is all versions of the keys in V; while it skips a key, A has some versions
  of that key too, and they are the smallest (`Controls`, `Skipping`). This layer uses
  that no user key is a prefix of another, for then internal keys are in the order of
  user keys and of descending sequence numbers (`WriteOrder`, `SeekKeyOrder`), and
  that no comparison has met an overwritten key. Each premise is used in one place.

The code's trailer has eight bytes; the proofs are for one of two bytes of any width.

**Block cache** (`SSTableProofs`, `DBIteratorProofs`). `CacheImplementsLru`: the map,
the doubly linked list and the byte count implement `LruCache`, for any capacity,
tables and number of readers. A cache is related to the sequence of its blocks:
`Chain` says that head, tail and the pointers of both directions list exactly these
blocks, each once, `Listed` that they are the keys of the map, `Caches` that the size
is what they take together. `PushFront` and `Unlink` are shown to keep the chain at
every place of the list (`Store` does nothing to nil, which is the end of the list);
the other operations are made of these two. What the loop of evictions leaves is the longest
prefix that fits (`EvictTailsIs`), and what `Evict` leaves is the sequence without the
blocks of the file, in whatever order the map gave them (`EvictIs`). `CacheInv` adds that a reader only asks for
blocks its table has, also one that missed a block, released the lock and puts the block in
later, when another reader may have put it in or the file may have been evicted. Every
step is then a Touch, Insert, Overflow or Drop of `LruCache`, or leaves it alone.

**Loops.** What the code computes in a loop (replay of a log, reading of segments,
binary search, scan of a block, eviction) is `Loop` of `Loops`, a recursive function.
Its laws, for the empty sequence, for one more element and for two sequences in a row
(`LoopConcat`), and the rule of the loop invariant (`LoopInvariant`) are proved there; other facts about whole sequences follow
by looking at a shortest counterexample (`NatMin`), which takes the place of an
induction rule with an operator parameter.

Left to TLC: liveness (`FollowerAnswered`, `LeaderReleased`, `SealedFlushed`,
`CloseCompletes`, `CallsReturn`), which needs fairness and ENABLED. Every invariant,
action property and refinement that a passing run checks is a theorem.

## Not modelled

- Bytes below entries and frames: length fields, varints, padding, sectors,
  checksums, block handles, footers, protobuf. A MANIFEST record torn by a crash and
  the zeroed but unsynced tail of a segment need them.
- `bloomHash`: a parameter of `Bloom`, since no property depends on it.
- An entry too large for an empty memtable (the second `mem.Set` of Set fails), and a
  WAL record above `maxRecordSize`.
- Read errors in a table's blocks, which end a source without a report.
- A memtable that grows while a `DBIterator` is open on it: each movement of the
  iterator sees the list as it is then, which `Memtable` shows.
- The choice of files for user keys that are prefixes of each other: keys are
  numbers in `LsmDB`.
- Reference counts: nothing is released when one reaches zero.
- The schema that `Get` of the registry returns and shares with later mutations.
- Generated code, the command stub, and the layers that have no code.

## Plan

1. Done: group commit with its proofs; WAL recovery; the database with flush,
   compaction, readers, Close and recovery; the schema registry; memtable, skiplist
   and arena; tables, bloom filter, block cache and iterators.
2. Done: proofs of all safety invariants and action properties the runs check, and of
   the refinements of `GroupCommit`, `LsmStore`, `OrderedSet` and `LruCache`.
3. Later: `Frame`, the bytes of a WAL record with padding and torn-sector detection;
   a MANIFEST with torn records; registry readers that share the index slice.
