------------------------------ MODULE SSTable ------------------------------
(***************************************************************************)
(* SSTables (pkg/lsm/sstable: block.go, writer.go, reader.go): blocks with *)
(* prefix compression and restart points, the writer that cuts the data    *)
(* into blocks and writes an index of separators, and the iterators over a *)
(* block and over a table.                                                 *)
(*                                                                         *)
(* A block is the sequence of its encoded entries; offsets are positions   *)
(* in it, and the handle of a data block is its number.  Sizes are counted *)
(* in bytes as the code does: three one-byte lengths, the key suffix and   *)
(* the value (one byte, none for a tombstone, which is the value 0).       *)
(***************************************************************************)
EXTENDS ByteKeys, Bloom

CONSTANTS BlockSize, RestartInterval

ASSUME WriterOptionsAssumption == BlockSize \in Nat \ {0} /\ RestartInterval \in Nat \ {0}

-----------------------------------------------------------------------------
(* blockWriter *)

NewBlockWriter(interval) ==
    [interval |-> interval, entries |-> <<>>, restarts |-> <<>>, prevKey |-> <<>>, buf |-> 0]

ValueLen(val) == IF val = 0 THEN 0 ELSE 1

BlockAdd(w, key, val) ==
    LET restart == Len(w.entries) % w.interval = 0
        shared == IF restart THEN 0 ELSE SharedPrefix(w.prevKey, key)
    IN  [w EXCEPT
            !.entries = Append(@, [shared |-> shared,
                                   suffix |-> SubSeq(key, shared + 1, Len(key)), val |-> val]),
            !.restarts = IF restart THEN Append(@, Len(w.entries) + 1) ELSE @,
            !.prevKey = key,
            !.buf = @ + 3 + (Len(key) - shared) + ValueLen(val)]

EstimatedSize(w) == w.buf + 4 * Len(w.restarts) + 4

\* finish
Finish(w) == [entries |-> w.entries, restarts |-> w.restarts, len |-> EstimatedSize(w)]

-----------------------------------------------------------------------------
(* Writer: pending is the data block whose index entry waits for the next key *)

NewWriter ==
    [data |-> NewBlockWriter(RestartInterval), index |-> NewBlockWriter(1), blocks |-> <<>>,
     hashes |-> <<>>, smallest |-> <<>>, largest |-> <<>>, pending |-> 0, pendingKey |-> <<>>]

AddIndexEntry(w, separator) ==
    IF w.pending = 0 THEN w
    ELSE [w EXCEPT !.index = BlockAdd(@, separator, w.pending), !.pending = 0]

FlushDataBlock(w) ==
    [w EXCEPT !.blocks = Append(@, Finish(w.data)),
              !.pending = Len(w.blocks) + 1,
              !.pendingKey = w.data.prevKey,
              !.data = NewBlockWriter(RestartInterval)]

\* Keys are refused unless they come in strictly increasing order.
MayAdd(w, key) == w.hashes = <<>> \/ Less(w.largest, key)

WriterAdd(w, key, val) ==
    LET i == AddIndexEntry(w, ShortSeparator(w.pendingKey, key))
        d == [i EXCEPT !.data = BlockAdd(@, key, val),
                       !.hashes = Append(@, BloomHash(key)),
                       !.smallest = IF i.hashes = <<>> THEN key ELSE @,
                       !.largest = key]
    IN  IF EstimatedSize(d.data) >= BlockSize THEN FlushDataBlock(d) ELSE d

\* Close: the last block, its index entry, the filter and the index.
WriterClose(w) ==
    LET d == IF w.data.entries # <<>> THEN FlushDataBlock(w) ELSE w
        i == AddIndexEntry(d, ShortSuccessor(d.pendingKey))
    IN  [blocks |-> i.blocks, index |-> Finish(i.index), filter |-> BuildFilter(i.hashes),
         smallest |-> i.smallest, largest |-> i.largest]

-----------------------------------------------------------------------------
(* blockIterator: offset is the next entry to decode.  The current key is   *)
(* assembled in a buffer that is reused while its capacity suffices; buf is *)
(* what the buffer holds, the remains of longer keys included.              *)

NewBlockIterator(block) ==
    [offset |-> Len(block.entries) + 1, key |-> <<>>, buf |-> <<>>, cap |-> 0,
     val |-> 0, valid |-> FALSE]

\* The capacity Go's append gives a buffer that must hold n bytes (size
\* classes of 4 bytes instead of 8).
GrownCap(cap, n) == 4 * (((IF n > 2 * cap THEN n ELSE 2 * cap) + 3) \div 4)

BlockNext(block, b) ==
    IF b.offset > Len(block.entries) THEN [b EXCEPT !.valid = FALSE]
    ELSE LET e == block.entries[b.offset]
             key == SubSeq(b.key, 1, e.shared) \o e.suffix
             grows == Len(key) > b.cap
         IN  [offset |-> b.offset + 1, key |-> key, val |-> e.val, valid |-> TRUE,
              buf |-> IF grows THEN key ELSE key \o SubSeq(b.buf, Len(key) + 1, Len(b.buf)),
              cap |-> IF grows THEN GrownCap(b.cap, Len(key)) ELSE b.cap]

BlockFirst(block, b) == BlockNext(block, [b EXCEPT !.offset = 1, !.key = <<>>])

\* One round of the binary search for x.target in the restart points of x.block.
SearchStep(s, x) ==
    LET mid == s.lo + ((s.hi - s.lo) \div 2)
    IN  IF s.lo >= s.hi THEN s
        ELSE IF Less(x.block.entries[x.block.restarts[mid + 1]].suffix, x.target)
        THEN [s EXCEPT !.lo = mid + 1] ELSE [s EXCEPT !.hi = mid]

Search == INSTANCE Loops WITH Step <- SearchStep

\* The number of restart points whose key is below target.
RestartsBelow(block, target) ==
    LET n == Len(block.restarts)
    IN  Search!Loop([lo |-> 0, hi |-> n],
                    Search!Times(n, [block |-> block, target |-> target])).lo

\* Mutant of StartRestart: the scan starts at the restart point found.
StartRestartLate(block, target) ==
    LET n == RestartsBelow(block, target)
    IN  IF n < Len(block.restarts) THEN n + 1 ELSE n

\* The restart point before the first that is not below target.
StartRestart(block, target) ==
    LET n == RestartsBelow(block, target) IN IF n = 0 THEN 1 ELSE n

\* One round of the scan for x.target in the entries of x.block.
ScanStep(b, x) == IF b.valid /\ Less(b.key, x.target) THEN BlockNext(x.block, b) ELSE b

Scan == INSTANCE Loops WITH Step <- ScanStep

\* Scan from there to the first key that is not below target.
BlockSeekGE(block, b, target) ==
    LET start == [b EXCEPT !.offset = block.restarts[StartRestart(block, target)], !.key = <<>>]
    IN  Scan!Loop(BlockNext(block, start),
                  Scan!Times(Len(block.entries), [block |-> block, target |-> target]))

-----------------------------------------------------------------------------
(* TableIterator: the iterator over the index, the one over the data block  *)
(* loaded last (blk, 0 for none), the result of the last call, and the      *)
(* blocks it loaded.                                                        *)

NewTableIterator(t, fileID) ==
    [fileID |-> fileID, idx |-> NewBlockIterator(t.index), dat |-> NewBlockIterator(t.index), blk |-> 0,
     ok |-> FALSE, loads |-> <<>>]

LoadDataBlock(t, it) ==
    [it EXCEPT !.blk = it.idx.val, !.dat = NewBlockIterator(t.blocks[it.idx.val]),
               !.loads = Append(@, <<it.fileID, it.idx.val>>)]

LoadAndFirst(t, it) ==
    LET l == LoadDataBlock(t, it)
        d == BlockFirst(t.blocks[l.blk], l.dat)
    IN  [l EXCEPT !.dat = d, !.ok = d.valid]

TableFirst(t, it) ==
    LET i == BlockFirst(t.index, NewBlockIterator(t.index))
        j == [it EXCEPT !.idx = i, !.ok = FALSE, !.loads = <<>>]
    IN  IF i.valid THEN LoadAndFirst(t, j) ELSE j

\* Mutant of NextBlock: the iterator stops at the end of a block.
NextBlockStops(t, it) == [it EXCEPT !.blk = 0, !.ok = FALSE]

NextBlock(t, it) ==
    LET i == BlockNext(t.index, it.idx)
    IN  IF i.valid THEN LoadAndFirst(t, [it EXCEPT !.idx = i])
        ELSE [it EXCEPT !.idx = i, !.blk = 0, !.ok = FALSE]

TableSeekGE(t, it, target) ==
    LET i == BlockSeekGE(t.index, NewBlockIterator(t.index), target)
        j == [it EXCEPT !.idx = i, !.ok = FALSE, !.loads = <<>>]
        l == LoadDataBlock(t, j)
        d == BlockSeekGE(t.blocks[l.blk], l.dat, target)
    IN  IF ~i.valid THEN j
        ELSE IF d.valid THEN [l EXCEPT !.dat = d, !.ok = TRUE]
        ELSE NextBlock(t, [l EXCEPT !.dat = d])

TableNext(t, it) ==
    LET d == BlockNext(t.blocks[it.blk], it.dat)
        j == [it EXCEPT !.dat = d, !.loads = <<>>]
    IN  IF it.blk = 0 THEN [it EXCEPT !.ok = FALSE, !.loads = <<>>]
        ELSE IF d.valid THEN [j EXCEPT !.ok = TRUE]
        ELSE NextBlock(t, j)

-----------------------------------------------------------------------------
(* Reader.Get *)

\* findDataBlock: the number of the block, 0 for none.  A key beyond all
\* separators is in none: the scan for the last block ends on an invalid
\* iterator.
FindDataBlock(t, key) ==
    LET i == BlockSeekGE(t.index, NewBlockIterator(t.index), key)
    IN  IF i.valid THEN i.val ELSE 0

\* The set of values found: one, or none.
ReaderGet(t, key) ==
    LET n == FindDataBlock(t, key)
        block == t.blocks[n]
        b == BlockSeekGE(block, NewBlockIterator(block), key)
    IN  IF MayContain(t.filter, key) /\ n # 0 /\ b.valid /\ b.key = key THEN {b.val} ELSE {}
=============================================================================
