------------------------------- MODULE LsmDB -------------------------------
(***************************************************************************)
(* The LSM database (pkg/lsm/lsm.go) with its version set and MANIFEST     *)
(* (version.go), flush (flush.go) and compaction (compaction.go): writers, *)
(* one reader, the flush goroutine, the compaction goroutine, Close, and   *)
(* crashes followed by a recovery from the MANIFEST.                       *)
(*                                                                         *)
(* What runs under db.mu or versions.mu is one action, and so is every     *)
(* atomic operation other goroutines can observe; between two of them any  *)
(* other goroutine may run.  Memtables are numbered: memId is the active   *)
(* one (db.mem), immLo..memId-1 are sealed (db.imm, oldest first).         *)
(***************************************************************************)
EXTENDS LsmTables

CONSTANTS
    Writers,          \* goroutines that call Set and Delete
    ReadOps,          \* what the reader calls: subset of {"get", "iter", "snap"}
    Keys,             \* user keys, a set of numbers
    Kinds,            \* the operations writers use: subset of {KindDelete, KindSet}
    MemCap,           \* entries a memtable holds
    L0Threshold,      \* L0CompactionThreshold
    NumLevels,        \* levels of the tree
    BaseLevelTarget,  \* BaseLevelTargetSize, in entries
    LevelMultiplier,
    FileTarget,       \* TargetFileSize, in entries
    MaxSeq,           \* bound on sequence numbers
    MaxMems,          \* bound on memtables between two restarts
    MaxFiles,         \* bound on file numbers
    MaxRestarts,      \* bound on crashes and reopenings
    ClosingLives,     \* Close is called before this many restarts only
    Faults            \* I/O errors: "flush", "compact", "manifest"

ASSUME KeysAssumption == Keys \subseteq Nat
ASSUME KindsAssumption == Kinds \subseteq {KindDelete, KindSet}
ASSUME SizesAssumption ==
    /\ MemCap \in Nat \ {0} /\ L0Threshold \in Nat \ {0} /\ FileTarget \in Nat \ {0}
    /\ NumLevels \in Nat \ {0, 1} /\ BaseLevelTarget \in Nat /\ LevelMultiplier \in Nat
ASSUME BoundsAssumption ==
    /\ MaxSeq \in Nat /\ MaxMems \in Nat \ {0} /\ MaxFiles \in Nat /\ MaxRestarts \in Nat
    /\ ClosingLives \in Nat
ASSUME ReadOpsAssumption == ReadOps \subseteq {"get", "iter", "snap"}
ASSUME LsmFaultsAssumption == Faults \subseteq {"flush", "compact", "manifest"}

VARIABLES
    up,           \* "open", "closing", "closed" or "down"
    seqNum,       \* db.seqNum
    lastSeqNum,   \* versions.lastSeqNum
    wr,           \* wr[w]: the call writer w is in
    table,        \* table[m]: entries of memtable m
    memId, immLo, \* active memtable, oldest sealed memtable
    flushCh, compactCh,  \* whether the wake-up channels hold a token
    fl,           \* the flush goroutine
    co,           \* the compaction goroutine
    version,      \* versions.current: numbers of the live files
    file,         \* file[n]: level and entries of SSTable n
    nextFileNum,
    manifest,     \* what recovery reads: live files, next file number, last sequence number
    onDisk,       \* SSTable files that exist
    tableCache,   \* db.tableCache: tables that are open
    rd,           \* the reader
    panic,        \* a goroutine wrote to the nil tableCache
    inserted,     \* history: entries that have been in a memtable
    restarts

writeVars == <<seqNum, lastSeqNum, wr, table, memId, immLo, inserted>>
treeVars == <<version, file, nextFileNum, manifest, onDisk>>
vars == <<up, writeVars, treeVars, flushCh, compactCh, fl, co, tableCache, rd, panic, restarts>>

Entry == [key : Keys, seq : 1 .. MaxSeq, kind : Kinds]

Idle == [pc |-> "idle", key |-> 0, kind |-> 0, seq |-> 0]
FlushIdle == [pc |-> "idle", num |-> 0, last |-> FALSE]
CompactIdle == [pc |-> "idle", inputs |-> {}, outputs |-> {}]
NoFile == [level |-> 0, entries |-> {}]

\* The reader: its call, its sequence number, the memtables and the version it
\* holds, the value it got, and (history) what it must be able to see and, for a
\* snapshot, the oldest sealed memtable at the moment it took the version.
ReadIdle == [pc |-> "idle", op |-> "get", key |-> 0, seq |-> 0,
             lo |-> 1, hi |-> 0, files |-> {}, val |-> 0, must |-> {}, oldest |-> 0]

Sealed == immLo .. memId - 1

Init ==
    /\ up = "open"
    /\ seqNum = 0 /\ lastSeqNum = 0
    /\ wr = [w \in Writers |-> Idle]
    /\ table = [m \in 1 .. MaxMems |-> {}]
    /\ memId = 1 /\ immLo = 1
    /\ flushCh = FALSE /\ compactCh = FALSE
    /\ fl = FlushIdle /\ co = CompactIdle
    /\ version = {}
    /\ file = [n \in 1 .. MaxFiles |-> NoFile]
    /\ nextFileNum = 1
    /\ manifest = [files |-> {}, next |-> 1, last |-> 0]
    /\ onDisk = {}
    /\ tableCache = {}
    /\ rd = ReadIdle
    /\ panic = FALSE
    /\ inserted = {}
    /\ restarts = 0

-----------------------------------------------------------------------------
(* Set and Delete *)

\* Mutant of WriteAlloc: the number given out is the one after the counter's.
WriteAllocMiscounts(w) ==
    /\ up = "open"
    /\ wr[w].pc = "idle"
    /\ seqNum < MaxSeq
    /\ seqNum' = seqNum + 1
    /\ \E k \in Keys, kind \in Kinds :
        wr' = [wr EXCEPT ![w] = [pc |-> "alloc", key |-> k, kind |-> kind, seq |-> seqNum + 2]]
    /\ UNCHANGED <<up, lastSeqNum, table, memId, immLo, inserted, treeVars, flushCh, compactCh,
                   fl, co, tableCache, rd, panic, restarts>>

\* Past the closed check: seqNum.Add(1).
WriteAlloc(w) ==
    /\ up = "open"
    /\ wr[w].pc = "idle"
    /\ seqNum < MaxSeq
    /\ seqNum' = seqNum + 1
    /\ \E k \in Keys, kind \in Kinds :
        wr' = [wr EXCEPT ![w] = [pc |-> "alloc", key |-> k, kind |-> kind, seq |-> seqNum + 1]]
    /\ UNCHANGED <<up, lastSeqNum, table, memId, immLo, inserted, treeVars, flushCh, compactCh,
                   fl, co, tableCache, rd, panic, restarts>>

\* lastSeqNum.Store(seq)
WriteStore(w) ==
    /\ up # "down"
    /\ wr[w].pc = "alloc"
    /\ lastSeqNum' = wr[w].seq
    /\ wr' = [wr EXCEPT ![w].pc = "stored"]
    /\ UNCHANGED <<up, seqNum, table, memId, immLo, inserted, treeVars, flushCh, compactCh,
                   fl, co, tableCache, rd, panic, restarts>>

\* Under db.mu: insert, into a new memtable if the active one is full.  The
\* insert into the new one succeeds, for MemCap > 0: an entry too large for an
\* empty memtable is not modelled.  shouldFlush is read before the unlock.
WriteInsert(w) ==
    LET e == [key |-> wr[w].key, seq |-> wr[w].seq, kind |-> wr[w].kind]
        full == Cardinality(table[memId]) >= MemCap
        m == IF full THEN memId + 1 ELSE memId
    IN  /\ up # "down"
        /\ wr[w].pc = "stored"
        /\ m <= MaxMems
        /\ memId' = m
        /\ table' = [table EXCEPT ![m] = @ \cup {e}]
        /\ inserted' = inserted \cup {e}
        /\ wr' = [wr EXCEPT ![w] = IF immLo < m THEN [Idle EXCEPT !.pc = "signal"] ELSE Idle]
        /\ UNCHANGED <<up, seqNum, lastSeqNum, immLo, treeVars, flushCh, compactCh,
                       fl, co, tableCache, rd, panic, restarts>>

\* Mutant of WriteSignal: the token is dropped although the channel is empty.
WriteSignalDropped(w) ==
    /\ up # "down"
    /\ wr[w].pc = "signal"
    /\ wr' = [wr EXCEPT ![w] = Idle]
    /\ UNCHANGED <<up, seqNum, lastSeqNum, table, memId, immLo, inserted, treeVars, flushCh, compactCh,
                   fl, co, tableCache, rd, panic, restarts>>

\* signalFlush, without db.mu: wake the flush goroutine, unless a token waits.
WriteSignal(w) ==
    /\ up # "down"
    /\ wr[w].pc = "signal"
    /\ flushCh' = TRUE
    /\ wr' = [wr EXCEPT ![w] = Idle]
    /\ UNCHANGED <<up, seqNum, lastSeqNum, table, memId, immLo, inserted, treeVars, compactCh,
                   fl, co, tableCache, rd, panic, restarts>>

-----------------------------------------------------------------------------
(* The version set *)

\* Mutant of LogEdit: the edit leaves out the file counter.
LogEditWithoutNext(new, deleted) ==
    manifest' = [files |-> (manifest.files \ deleted) \cup new,
                 next |-> manifest.next, last |-> lastSeqNum]

\* logAndApply writes the edit, with the counters of the moment, to the MANIFEST...
LogEdit(new, deleted) ==
    manifest' = [files |-> (manifest.files \ deleted) \cup new,
                 next |-> nextFileNum, last |-> lastSeqNum]

\* ...and applies it to the current version.
ApplyEdit(new, deleted) == version' = (version \ deleted) \cup new

-----------------------------------------------------------------------------
(* The flush goroutine *)

FlushFrame == <<up, writeVars, co, tableCache, rd, panic, restarts>>

\* case <-flushCh, or the last doFlush after closeCh is closed
FlushWake ==
    /\ up \in {"open", "closing"}
    /\ fl.pc = "idle"
    /\ \/ /\ flushCh
          /\ flushCh' = FALSE
          /\ fl' = [fl EXCEPT !.pc = "loop"]
       \/ /\ up = "closing"
          /\ fl' = [fl EXCEPT !.pc = "loop", !.last = TRUE]
          /\ UNCHANGED flushCh
    /\ UNCHANGED <<FlushFrame, treeVars, compactCh>>

\* doFlush returns, and with it flushLoop if it was the last one.
FlushReturn == fl' = [FlushIdle EXCEPT !.pc = IF fl.last THEN "done" ELSE "idle"]

FlushNothing ==
    /\ fl.pc = "loop"
    /\ immLo = memId
    /\ FlushReturn
    /\ UNCHANGED <<FlushFrame, treeVars, flushCh, compactCh>>

\* Mutant of FlushWrite: the newest sealed memtable is flushed, the oldest dropped.
FlushWriteNewest ==
    /\ fl.pc = "loop"
    /\ immLo < memId
    /\ nextFileNum <= MaxFiles
    /\ nextFileNum' = nextFileNum + 1
    /\ file' = [file EXCEPT ![nextFileNum] = [level |-> 0, entries |-> table[memId - 1]]]
    /\ onDisk' = onDisk \cup {nextFileNum}
    /\ fl' = [fl EXCEPT !.pc = "written", !.num = nextFileNum]
    /\ UNCHANGED <<FlushFrame, version, manifest, flushCh, compactCh>>

\* Write imm[0] to a new table and fsync it.
FlushWrite ==
    /\ fl.pc = "loop"
    /\ immLo < memId
    /\ nextFileNum <= MaxFiles
    /\ nextFileNum' = nextFileNum + 1
    /\ file' = [file EXCEPT ![nextFileNum] = [level |-> 0, entries |-> table[immLo]]]
    /\ onDisk' = onDisk \cup {nextFileNum}
    /\ fl' = [fl EXCEPT !.pc = "written", !.num = nextFileNum]
    /\ UNCHANGED <<FlushFrame, version, manifest, flushCh, compactCh>>

FlushLog ==
    /\ fl.pc = "written"
    /\ LogEdit({fl.num}, {})
    /\ ApplyEdit({fl.num}, {})
    /\ fl' = [fl EXCEPT !.pc = "logged"]
    /\ UNCHANGED <<FlushFrame, file, nextFileNum, onDisk, flushCh, compactCh>>

\* db.imm = db.imm[1:], after the table is in the current version.
FlushDrop ==
    /\ fl.pc = "logged"
    /\ immLo' = immLo + 1
    /\ compactCh' = TRUE
    /\ fl' = [fl EXCEPT !.pc = "loop"]
    /\ UNCHANGED <<up, seqNum, lastSeqNum, wr, table, memId, inserted, co, tableCache, rd, panic,
                   restarts, treeVars, flushCh>>

\* The table or the edit cannot be written: doFlush gives up until the next signal.
FlushFails ==
    /\ "flush" \in Faults
    /\ fl.pc = "written"
    /\ FlushReturn
    /\ UNCHANGED <<FlushFrame, treeVars, flushCh, compactCh>>

\* The edit is written but its fsync fails: it is not applied.
FlushUnapplied ==
    /\ "manifest" \in Faults
    /\ fl.pc = "written"
    /\ LogEdit({fl.num}, {})
    /\ FlushReturn
    /\ UNCHANGED <<FlushFrame, version, file, nextFileNum, onDisk, flushCh, compactCh>>

-----------------------------------------------------------------------------
(* The compaction goroutine *)

CompactFrame == <<up, writeVars, flushCh, fl, rd, panic, restarts>>

\* Mutant of CompactWake: the goroutine waits for compactCh only.
CompactWakeDeaf ==
    /\ up \in {"open", "closing"}
    /\ co.pc = "idle"
    /\ compactCh
    /\ compactCh' = FALSE
    /\ co' = [co EXCEPT !.pc = "loop"]
    /\ UNCHANGED <<CompactFrame, treeVars, tableCache>>

CompactWake ==
    /\ up \in {"open", "closing"}
    /\ co.pc = "idle"
    /\ \/ /\ compactCh
          /\ compactCh' = FALSE
          /\ co' = [co EXCEPT !.pc = "loop"]
       \/ /\ up = "closing"
          /\ co' = [co EXCEPT !.pc = "done"]
          /\ UNCHANGED compactCh
    /\ UNCHANGED <<CompactFrame, treeVars, tableCache>>

TargetLevelSize(l) == BaseLevelTarget * LevelMultiplier ^ (l - 1)
TargetFileSize(l) == FileTarget * 2 ^ l

\* The target sizes are numbers (the prover does not compute powers).
ASSUME LevelTargetsAssumption == \A l \in 1 .. NumLevels - 2 : TargetLevelSize(l) \in Nat

\* pickCompaction: all of L0 once it has enough files, else the first level
\* that is too large.
Oversized == {l \in 1 .. NumLevels - 2 : LevelSize(version, file, l) > TargetLevelSize(l)}
L0Full == Cardinality(Level(version, file, 0)) >= L0Threshold
CompactionNeeded == L0Full \/ Oversized # {}

SourceLevel == IF L0Full THEN 0 ELSE CHOOSE l \in Oversized : \A k \in Oversized : l <= k

\* Mutant of SourceFiles: the newest file of L0 alone is picked.
SourceFilesNewest ==
    IF L0Full THEN {CHOOSE n \in Level(version, file, 0) : \A m \in Level(version, file, 0) : m <= n}
    ELSE {LargestFile(version, file, SourceLevel)}

SourceFiles ==
    IF L0Full THEN Level(version, file, 0) ELSE {LargestFile(version, file, SourceLevel)}

\* Mutant of CompactionInputs: the overlapping files of the output level are left.
CompactionInputsAlone == SourceFiles

\* pick.inputs and pick.overlaps
CompactionInputs ==
    SourceFiles \cup Overlapping(version, file, SourceLevel + 1, Entries(SourceFiles, file))

CompactNothing ==
    /\ co.pc = "loop"
    /\ ~CompactionNeeded
    /\ co' = CompactIdle
    /\ UNCHANGED <<CompactFrame, treeVars, tableCache, compactCh>>

\* runCompaction up to its edit: open the inputs, merge them into new tables.
CompactMerge ==
    /\ co.pc = "loop"
    /\ CompactionNeeded
    /\ \E inputs \in {CompactionInputs} : \E es \in {Entries(inputs, file)} :
        LET target == TargetFileSize(SourceLevel + 1)
            count == OutputCount(es, target)
            outputs == nextFileNum .. nextFileNum + count - 1
        IN  /\ inputs \subseteq onDisk \cup tableCache
            /\ nextFileNum + count - 1 <= MaxFiles
            /\ tableCache' = tableCache \cup inputs
            /\ nextFileNum' = nextFileNum + count
            /\ file' = [n \in 1 .. MaxFiles |->
                            IF n \in outputs
                            THEN [level |-> SourceLevel + 1,
                                  entries |-> Output(es, target, n - nextFileNum)]
                            ELSE file[n]]
            /\ onDisk' = onDisk \cup outputs
            /\ co' = [pc |-> "written", inputs |-> inputs, outputs |-> outputs]
    /\ UNCHANGED <<CompactFrame, version, manifest, compactCh>>

CompactLog ==
    /\ co.pc = "written"
    /\ LogEdit(co.outputs, co.inputs)
    /\ ApplyEdit(co.outputs, co.inputs)
    /\ co' = [co EXCEPT !.pc = "logged"]
    /\ UNCHANGED <<CompactFrame, file, nextFileNum, onDisk, tableCache, compactCh>>

\* Mutant of CompactRemove: the readers of the removed tables are evicted too.
CompactRemoveEvicts ==
    /\ co.pc = "logged"
    /\ onDisk' = onDisk \ co.inputs
    /\ tableCache' = tableCache \ co.inputs
    /\ co' = [CompactIdle EXCEPT !.pc = "loop"]
    /\ UNCHANGED <<CompactFrame, version, file, nextFileNum, manifest, compactCh>>

\* os.Remove of the inputs; the tables stay open in the cache.
CompactRemove ==
    /\ co.pc = "logged"
    /\ onDisk' = onDisk \ co.inputs
    /\ co' = [CompactIdle EXCEPT !.pc = "loop"]
    /\ UNCHANGED <<CompactFrame, version, file, nextFileNum, manifest, tableCache, compactCh>>

CompactFails ==
    /\ "compact" \in Faults
    /\ co.pc = "written"
    /\ co' = CompactIdle
    /\ UNCHANGED <<CompactFrame, treeVars, tableCache, compactCh>>

CompactUnapplied ==
    /\ "manifest" \in Faults
    /\ co.pc = "written"
    /\ LogEdit(co.outputs, co.inputs)
    /\ co' = CompactIdle
    /\ UNCHANGED <<CompactFrame, version, file, nextFileNum, onDisk, tableCache, compactCh>>

-----------------------------------------------------------------------------
(* The reader: Get, NewIterator, NewSnapshot and Snapshot.Get *)

ReadFrame == <<up, writeVars, treeVars, flushCh, compactCh, fl, co, restarts>>

\* Mutant of CaptureOrder: NewIterator, too, takes the version first.
CaptureOrderVersionFirst(op) ==
    IF op = "get" THEN <<"mems", "lookup", "version", "ready">>
    ELSE <<"version", "mems", IF op = "iter" THEN "ready" ELSE "held">>

\* Get and NewIterator take the memtables and then the version, NewSnapshot the
\* other way round; Get looks into the memtables in between.
CaptureOrder(op) ==
    CASE op = "get" -> <<"mems", "lookup", "version", "ready">>
      [] op = "iter" -> <<"mems", "version", "ready">>
      [] op = "snap" -> <<"version", "mems", "held">>

AfterCapture ==
    LET order == CaptureOrder(rd.op)
        i == CHOOSE i \in DOMAIN order : order[i] = rd.pc
    IN  order[i + 1]

\* Get looks at db.closed; NewIterator and NewSnapshot do not.
ReadBegin(op, k) ==
    /\ up # "down"
    /\ op = "get" => up = "open"
    /\ rd.pc = "idle"
    /\ rd' = [ReadIdle EXCEPT !.pc = CaptureOrder(op)[1],
                              !.op = op, !.key = k, !.must = inserted,
                              !.seq = IF op = "iter" THEN MaxSeq ELSE seqNum]
    /\ UNCHANGED <<ReadFrame, tableCache, panic>>

\* Under db.mu: take references to the memtables.
ReadMems ==
    /\ rd.pc = "mems"
    /\ rd' = [rd EXCEPT !.lo = immLo, !.hi = memId, !.pc = AfterCapture]
    /\ UNCHANGED <<ReadFrame, tableCache, panic>>

\* versions.currentVersion
ReadVersion ==
    /\ rd.pc = "version"
    /\ rd' = [rd EXCEPT !.files = version, !.pc = AfterCapture,
                       !.oldest = IF rd.op = "snap" THEN immLo ELSE 0]
    /\ UNCHANGED <<ReadFrame, tableCache, panic>>

\* The memtables the reader holds that have a visible version of key k.
Holding(k) == {m \in rd.lo .. rd.hi : Visible(table[m], k, rd.seq) # {}}

\* The answer of the newest of them.
MemtableAnswer(k) ==
    LET m == CHOOSE m \in Holding(k) : \A o \in Holding(k) : o <= m
    IN  Found(Newest(Visible(table[m], k, rd.seq))).val

\* Get returns val; what it held goes out of scope.
GetReturns(val) ==
    rd' = [ReadIdle EXCEPT !.pc = "done", !.key = rd.key, !.must = rd.must, !.val = val]

GetMemtables ==
    /\ rd.pc = "lookup"
    /\ IF Holding(rd.key) = {} THEN rd' = [rd EXCEPT !.pc = AfterCapture]
       ELSE GetReturns(MemtableAnswer(rd.key))
    /\ UNCHANGED <<ReadFrame, tableCache, panic>>

\* getTableReader for the tables ns: they stay in the cache, unless Close has
\* set it to nil; then the first table that can be opened panics.
OpenTables(ns) ==
    IF up = "closed"
    THEN panic' = (panic \/ ns \cap onDisk # {}) /\ UNCHANGED tableCache
    ELSE tableCache' = tableCache \cup (ns \cap onDisk) /\ UNCHANGED panic

GetTables ==
    /\ rd.pc = "ready" /\ rd.op = "get"
    /\ OpenTables(Opened(rd.files, file, rd.key, rd.seq))
    /\ GetReturns(GetFromVersion(rd.files, file, rd.key, rd.seq))
    /\ UNCHANGED ReadFrame

\* NewIterator opens every table, skipping the ones that cannot be opened.
IterTables ==
    /\ rd.pc = "ready" /\ rd.op = "iter"
    /\ OpenTables(rd.files)
    /\ rd' = [rd EXCEPT !.pc = "held", !.files = rd.files \cap (onDisk \cup tableCache)]
    /\ UNCHANGED ReadFrame

SnapshotGet(k) ==
    /\ rd.pc = "held" /\ rd.op = "snap"
    /\ Holding(k) = {}
    /\ OpenTables(Opened(rd.files, file, k, rd.seq))
    /\ UNCHANGED <<ReadFrame, rd>>

ReadEnd ==
    /\ rd.pc \in {"done", "held"}
    /\ rd' = ReadIdle
    /\ UNCHANGED <<ReadFrame, tableCache, panic>>

-----------------------------------------------------------------------------
(* Close, crash, recovery *)

CloseBegin ==
    /\ restarts < ClosingLives
    /\ up = "open"
    /\ up' = "closing"
    /\ UNCHANGED <<writeVars, treeVars, flushCh, compactCh, fl, co, tableCache, rd, panic, restarts>>

\* closeWG.Wait is over: drop the table cache and close the MANIFEST.
CloseEnd ==
    /\ up = "closing"
    /\ fl.pc = "done" /\ co.pc = "done"
    /\ up' = "closed"
    /\ tableCache' = {}
    /\ UNCHANGED <<writeVars, treeVars, flushCh, compactCh, fl, co, rd, panic, restarts>>

\* Everything in memory is gone, and with it the removed tables that were open.
Restarted ==
    /\ file' = [n \in 1 .. MaxFiles |-> IF n \in onDisk THEN file[n] ELSE NoFile]
    /\ panic' = FALSE
    /\ wr' = [w \in Writers |-> Idle]
    /\ table' = [m \in 1 .. MaxMems |-> {}]
    /\ memId' = 1 /\ immLo' = 1
    /\ flushCh' = FALSE /\ compactCh' = FALSE
    /\ fl' = FlushIdle /\ co' = CompactIdle
    /\ tableCache' = {}
    /\ rd' = ReadIdle

Crash ==
    /\ up # "down"
    /\ restarts < MaxRestarts
    /\ restarts' = restarts + 1
    /\ up' = "down"
    /\ Restarted
    /\ seqNum' = 0 /\ lastSeqNum' = 0
    /\ version' = {} /\ nextFileNum' = 1
    /\ inserted' = Entries(manifest.files, file)
    /\ UNCHANGED <<manifest, onDisk>>

\* Mutant of Open: db.seqNum is not restored.
OpenFromZero ==
    /\ \/ up = "down" /\ UNCHANGED restarts
       \/ /\ up = "closed" /\ rd.pc = "idle" /\ \A w \in Writers : wr[w].pc = "idle"
          /\ restarts < MaxRestarts
          /\ restarts' = restarts + 1
    /\ up' = "open"
    /\ Restarted
    /\ version' = manifest.files
    /\ nextFileNum' = manifest.next
    /\ lastSeqNum' = manifest.last
    /\ seqNum' = 0
    /\ inserted' = Entries(manifest.files, file)
    /\ UNCHANGED <<manifest, onDisk>>

\* Open: recover the version set from the MANIFEST, start with an empty memtable.
Open ==
    /\ \/ up = "down" /\ UNCHANGED restarts
       \/ /\ up = "closed" /\ rd.pc = "idle" /\ \A w \in Writers : wr[w].pc = "idle"
          /\ restarts < MaxRestarts
          /\ restarts' = restarts + 1
    /\ up' = "open"
    /\ Restarted
    /\ version' = manifest.files
    /\ nextFileNum' = manifest.next
    /\ lastSeqNum' = manifest.last
    /\ seqNum' = manifest.last
    /\ inserted' = Entries(manifest.files, file)
    /\ UNCHANGED <<manifest, onDisk>>

-----------------------------------------------------------------------------
Flush == \/ FlushWake \/ FlushNothing \/ FlushWrite \/ FlushLog \/ FlushDrop
         \/ FlushFails \/ FlushUnapplied
Compact == \/ CompactWake \/ CompactNothing \/ CompactMerge \/ CompactLog \/ CompactRemove
           \/ CompactFails \/ CompactUnapplied
Read == \/ \E op \in ReadOps, k \in Keys : ReadBegin(op, k)
        \/ ReadMems \/ ReadVersion \/ GetMemtables \/ GetTables \/ IterTables
        \/ \E k \in Keys : SnapshotGet(k)
        \/ ReadEnd

Next ==
    \/ \E w \in Writers : WriteAlloc(w) \/ WriteStore(w) \/ WriteInsert(w) \/ WriteSignal(w)
    \/ Flush
    \/ Compact
    \/ Read
    \/ CloseBegin
    \/ CloseEnd
    \/ Crash
    \/ Open

\* The background goroutines, a write that has begun and Close keep running.
Fairness ==
    /\ WF_vars(Flush) /\ WF_vars(Compact) /\ WF_vars(CloseEnd)
    /\ \A w \in Writers : WF_vars(WriteStore(w)) /\ WF_vars(WriteInsert(w)) /\ WF_vars(WriteSignal(w))

Spec == Init /\ [][Next]_vars
FairSpec == Spec /\ Fairness

-----------------------------------------------------------------------------
TypeWrite ==
    /\ up \in {"open", "closing", "closed", "down"}
    /\ seqNum \in 0 .. MaxSeq /\ lastSeqNum \in 0 .. MaxSeq
    /\ wr \in [Writers -> [pc : {"idle", "alloc", "stored", "signal"}, key : Keys \cup {0},
                          kind : Kinds \cup {0}, seq : 0 .. MaxSeq]]
    /\ table \in [1 .. MaxMems -> SUBSET Entry]
    /\ memId \in 1 .. MaxMems /\ immLo \in 1 .. memId
    /\ inserted \subseteq Entry
    /\ restarts \in 0 .. MaxRestarts

TypeTree ==
    /\ version \subseteq 1 .. MaxFiles /\ onDisk \subseteq 1 .. MaxFiles /\ tableCache \subseteq 1 .. MaxFiles
    /\ file \in [1 .. MaxFiles -> [level : 0 .. NumLevels - 1, entries : SUBSET Entry]]
    /\ nextFileNum \in 1 .. MaxFiles + 1
    /\ manifest \in [files : SUBSET (1 .. MaxFiles), next : 1 .. MaxFiles + 1, last : 0 .. MaxSeq]

TypeWork ==
    /\ flushCh \in BOOLEAN /\ compactCh \in BOOLEAN /\ panic \in BOOLEAN
    /\ fl \in [pc : {"idle", "loop", "written", "logged", "done"}, num : 0 .. MaxFiles, last : BOOLEAN]
    /\ co \in [pc : {"idle", "loop", "written", "logged", "done"},
               inputs : SUBSET (1 .. MaxFiles), outputs : SUBSET (1 .. MaxFiles)]

TypeRead ==
    rd \in [pc : {"idle", "mems", "lookup", "version", "ready", "held", "done"}, op : {"get", "iter", "snap"},
            key : Keys \cup {0}, seq : 0 .. MaxSeq, lo : 1 .. MaxMems, hi : 0 .. MaxMems,
            files : SUBSET (1 .. MaxFiles), val : 0 .. MaxSeq, must : SUBSET Entry, oldest : 0 .. MaxMems]

TypeOK == TypeWrite /\ TypeTree /\ TypeWork /\ TypeRead

Durable == Entries(manifest.files, file)

\* The entries of memtables lo to hi.
Mems(lo, hi) == UNION {table[m] : m \in lo .. hi}

\* What a reader that captures everything at this moment would see.
Contents ==
    IF up = "down" THEN Durable
    ELSE Mems(immLo, memId) \cup Entries(version, file)

Store == INSTANCE LsmStore WITH contents <- Contents, durable <- Durable

\* Flush and compaction only move entries: at every step of both, and whatever
\* fails in them, no write is lost or invented, what the MANIFEST lists never
\* shrinks, and a crash loses nothing but what was still in memtables
\* (flush.go, compaction.go, version.go:334-415).
ImplementsStore == Store!Spec

\* Every table that the current version, or the version a reader still holds,
\* refers to can be read: runCompaction removes its inputs without looking at
\* version references (compaction.go:194-200), and only the table cache keeps
\* them readable.
FilesReadable ==
    up \in {"open", "closing"} =>
        version \cup rd.files \subseteq onDisk \cup tableCache

\* Recovery finds every file the MANIFEST lists, and the numbers it will give to
\* new files are not in use (version.go:396-411).
ManifestRecoverable ==
    /\ manifest.files \subseteq onDisk
    /\ \A n \in manifest.files : n < manifest.next
    /\ \A n \in version : n < nextFileNum

\* Two different writes never carry the same sequence number, across restarts
\* too: recovery restarts the counter at or above every number on disk
\* (lsm.go:115-116).
SeqUnique == \A a, b \in Contents : a.seq = b.seq => a = b

\* Two files of a level below L0 have disjoint ranges of internal keys: what a
\* compaction leaves alone in the output level does not meet what it adds there
\* (compaction.go:40-83, version.go:256-266).
RangesDisjoint ==
    \A m, n \in version :
        m # n /\ file[m].level = file[n].level /\ file[m].level > 0 =>
            ~Overlaps(file[m].entries, file[n].entries)

\* Where an entry is looked for: the active memtable, the sealed ones from the
\* newest to the oldest, the files of L0 likewise, then level by level.
MemPlaces == {[kind |-> "mem", depth |-> memId - m, entries |-> table[m]] : m \in immLo .. memId}
FilePlaces == {[kind |-> "file", depth |-> IF file[n].level = 0 THEN MaxFiles - n ELSE MaxFiles + file[n].level,
                entries |-> file[n].entries] : n \in version}
Above(p, q) == (p.kind = "mem" /\ q.kind = "file") \/ (p.kind = q.kind /\ p.depth < q.depth)

\* What q has of a key of p is older than what p has, or p has it too.
Newer(p, q) ==
    \A a \in p.entries, b \in q.entries : a.key = b.key => b.seq <= a.seq \/ b \in p.entries

\* With one writer, whatever is in a memtable or in L0 is newer than what lies
\* below it: memtables are flushed oldest first, and a compaction of L0 takes
\* all of it (lsm.go:517-549, compaction.go:40-58).  (A memtable that is being
\* dropped is also a file: it has newer versions of its keys itself.)
FreshOnTop ==
    \A p, q \in MemPlaces \cup FilePlaces :
        Above(p, q) /\ (p.kind = "mem" \/ p.depth < MaxFiles) => Newer(p, q)

Captured == Mems(rd.lo, rd.hi) \cup Entries(rd.files, file)

\* A Get or an iterator holds every write that completed before it was called,
\* however flush and compaction move entries between the moment it takes the
\* memtables and the moment it takes the version (lsm.go:187-226, 376-387).
\* NewSnapshot takes them in the other order, and what it holds is complete
\* only if no flush drops a memtable in between (lsm.go:434-444).
\* (Once Close has dropped the table cache an iterator skips removed files.)
ReadCovers ==
    /\ up \in {"open", "closing"}
    /\ \/ rd.op = "get" /\ rd.pc = "ready"
       \/ rd.op = "iter" /\ rd.pc \in {"ready", "held"}
       \/ rd.op = "snap" /\ rd.pc = "held" /\ rd.lo = rd.oldest
    => rd.must \subseteq Captured

\* The value of key rd.key after write e (0: not found).
Answer(e) == IF e.kind = KindSet THEN e.seq ELSE 0

\* "Reads are served at the latest sequence number" (lsm.go:178-179): Get
\* answers with the newest write completed before it was called, or with one
\* that is newer still.
GetFresh ==
    rd.op = "get" /\ rd.pc = "done" =>
        LET older == {e \in rd.must : e.key = rd.key}
            recent == {e \in inserted : e.key = rd.key /\ \A o \in older : o.seq <= e.seq}
        IN  \/ \E e \in recent : rd.val = Answer(e)
            \/ older = {} /\ rd.val = 0

\* A sealed memtable is flushed (lsm.go:503-549), unless the database is closed
\* or crashes.
SealedFlushed ==
    \A m \in 1 .. MaxMems : (up = "open" /\ m \in Sealed) ~> (m < immLo \/ up # "open")

\* Close returns: both goroutines notice closeCh whatever they were doing
\* (lsm.go:462-480).
CloseCompletes == up = "closing" ~> up \in {"closed", "down"}

-----------------------------------------------------------------------------
(* What the comments of the code say beyond that. *)

\* "index 0 = memtable = newest data, higher index = older data/deeper levels"
\* (merge_iterator.go:7): a version found earlier on the read path is newer,
\* which is what allows Get to stop at the first version it finds.
NewestFirst ==
    \A p, q \in MemPlaces \cup FilePlaces : Above(p, q) => Newer(p, q)
=============================================================================
