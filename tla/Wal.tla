-------------------------------- MODULE Wal --------------------------------
(***************************************************************************)
(* The write-ahead log: segments of CRC-chained frames, the page writer's  *)
(* buffer, rotation, recovery after a crash (pkg/wal: wal.go, encoder.go,  *)
(* decoder.go, pagewriter.go).                                             *)
(*                                                                         *)
(* A payload is a unique number.  The CRC of a frame covers every payload  *)
(* since the chain began, so it is modelled, free of collisions, by that   *)
(* sequence of payloads; <<>> is the CRC 0 a fresh chain starts from.      *)
(* Every frame is one unit long and a page holds PageUnits of them.  What  *)
(* runs under w.mu is one action, except that createSegment is cut in two: *)
(* a crash may come after the file exists and before its header does.      *)
(***************************************************************************)
EXTENDS Naturals, SequencesExt

CONSTANTS
    SegmentSize,   \* opts.SegmentSize in frames, 0 disables rotation
    PageUnits,     \* walPageBytes in frames
    MaxRecords,    \* bound on the number of records ever appended
    MaxCrashes,    \* bound on the number of crashes
    Faults         \* "zeroed": a torn frame may parse; "create": createSegment may fail

ASSUME SizesAssumption == SegmentSize \in Nat /\ PageUnits \in Nat \ {0}
ASSUME BoundsAssumption == MaxRecords \in Nat /\ MaxCrashes \in Nat
ASSUME WalFaultsAssumption == Faults \subseteq {"zeroed", "create"}

VARIABLES
    segs,       \* the segment files, oldest first: frames, how many of them
                \* have left the buffer, how many are fsynced
    status,     \* "down", "creating", "open", "closed", or "failed" (Open refused)
    op,         \* what createSegment was called for: "open", "data", "snap"
    fileOpen,   \* w.file is an open file
    encCrc,     \* the encoder's running CRC
    encOff,     \* the encoder's offset
    offset,     \* w.offset, which decides when to rotate
    saving,     \* a SaveSnapshot has written its marker and not yet synced
    nextId,     \* next payload
    log,        \* history: the records that a reader should find
    acked,      \* history: the records a Sync or Close has reported durable
    poisoned,   \* history: Open has seeded the encoder with a torn frame's payload
    crashes

walVars == <<segs, status, op, fileOpen, encCrc, encOff, offset, saving>>
vars == <<walVars, nextId, log, acked, poisoned, crashes>>

Init ==
    /\ segs = <<>>
    /\ status = "down"
    /\ op = "open"
    /\ fileOpen = FALSE
    /\ encCrc = <<>>
    /\ encOff = 0
    /\ offset = 0
    /\ saving = FALSE
    /\ nextId = 1
    /\ log = <<>>
    /\ acked = <<>>
    /\ poisoned = FALSE
    /\ crashes = 0

-----------------------------------------------------------------------------
(* Frames and segments *)

Frame(type, data, crc) == [type |-> type, data |-> data, crc |-> crc, form |-> "whole"]

EmptySegment == [frames |-> <<>>, written |-> 0, synced |-> 0]

Segment(frames) == [frames |-> frames, written |-> Len(frames), synced |-> Len(frames)]

\* flush and fsync of a segment
Durable(seg) == Segment(seg.frames)

LastSeg == segs[Len(segs)]

\* The segments after the last one is flushed and fsynced (syncLocked).
SyncedSegs == [segs EXCEPT ![Len(segs)] = Durable(@)]

-----------------------------------------------------------------------------
(* Decoder *)

\* The running CRC after the first n frames, all of them valid.
RunningCrc(frames, n) == IF n = 0 THEN <<>> ELSE frames[n].crc

\* Mutant of FrameValid: the CRC of a data frame is not compared.
FrameValidUnchecked(frames, i) == frames[i].form # "short"

\* Frame i decodes after the frames before it did: a checkpoint resets the
\* chain, any other frame must carry the CRC of the chain with its payload.
FrameValid(frames, i) ==
    /\ frames[i].form = "whole"
    /\ \/ frames[i].type = "crc"
       \/ frames[i].crc = Append(RunningCrc(frames, i - 1), frames[i].data)

\* How many frames Decode returns before it stops.
ValidLen(frames) ==
    CHOOSE n \in 0 .. Len(frames) :
        /\ \A i \in 1 .. n : FrameValid(frames, i)
        /\ n < Len(frames) => ~FrameValid(frames, n + 1)

ValidFrames(frames) == SubSeq(frames, 1, ValidLen(frames))

\* Decode stopped at a complete frame whose CRC does not match: corruption.
\* At the end of the file or at a torn frame it stops with EOF instead.
Corrupt(frames) ==
    LET n == ValidLen(frames)
    IN  n < Len(frames) /\ frames[n + 1].form = "whole"

\* Decode stopped at a torn frame that still parses (zeroed sectors inside it).
TornParses(frames) ==
    LET n == ValidLen(frames)
    IN  n < Len(frames) /\ frames[n + 1].form = "zeroed"

\* Mutant of LastCRC: the encoder is not seeded from the decoder.
LastCRCForgotten(frames) == <<>>

\* decoder.LastCRC: the payload of a torn frame that still parses has been fed
\* into the chain before the mismatch is noticed (0 stands for the torn payload).
LastCRC(frames) ==
    LET crc == RunningCrc(frames, ValidLen(frames))
    IN  IF TornParses(frames) THEN Append(crc, 0) ELSE crc

\* A reader's loop; snapshot markers are kept, which ReadAll passes over, so that
\* the properties are about them too.
AddFrame(acc, f) == IF f.type = "crc" THEN acc ELSE Append(acc, f)

Filter == INSTANCE Loops WITH Step <- AddFrame

\* The frames that hold records, without the checkpoints between them.
DataFrames(frames) == Filter!Loop(<<>>, frames)

\* The records in the valid part of a segment.
SegRecords(seg) == DataFrames(ValidFrames(seg.frames))

AddSegment(acc, seg) == acc \o SegRecords(seg)

Reader == INSTANCE Loops WITH Step <- AddSegment

\* Everything a reader decodes, segment after segment.
Records == Reader!Loop(<<>>, segs)

-----------------------------------------------------------------------------
(* Append and SaveSnapshot *)

MayAppend == status = "open" /\ fileOpen /\ nextId <= MaxRecords

NeedsRotation == SegmentSize > 0 /\ offset >= SegmentSize

\* encoder.Encode into the last of the segments ss, with the chain at crc and
\* the encoder at off.  A full buffer is written out up to a page boundary,
\* which may lie in front of the new frame, inside it or at its end.
Encode(ss, type, crc, off) ==
    LET n == Len(ss)
        before == Len(ss[n].frames)
        chain == Append(crc, nextId)
    IN  /\ \E w \in {ss[n].written, before, before + 1} :
            segs' = [ss EXCEPT ![n].frames = Append(@, Frame(type, nextId, chain)),
                               ![n].written = w]
        /\ encCrc' = chain
        /\ encOff' = off + 1
        /\ offset' = off + 1
        /\ log' = Append(log, Frame(type, nextId, chain))
        /\ nextId' = nextId + 1

AppendRecord(type) ==
    /\ MayAppend
    /\ ~NeedsRotation
    /\ Encode(segs, type, encCrc, encOff)
    /\ saving' = (saving \/ type = "snap")
    /\ UNCHANGED <<status, op, fileOpen, acked, poisoned, crashes>>

\* Mutant of RotateBegin: the full segment is closed without syncLocked.
RotateBeginUnsynced(type) ==
    /\ MayAppend
    /\ NeedsRotation
    /\ segs' = Append(segs, EmptySegment)
    /\ fileOpen' = FALSE
    /\ status' = "creating"
    /\ op' = type
    /\ UNCHANGED <<encCrc, encOff, offset, saving, nextId, log, acked, poisoned, crashes>>

\* Mutant of RotateBegin: w.seq is not advanced, O_TRUNC empties the old file.
RotateBeginSameSeq(type) ==
    /\ MayAppend
    /\ NeedsRotation
    /\ segs' = [segs EXCEPT ![Len(segs)] = EmptySegment]
    /\ fileOpen' = FALSE
    /\ status' = "creating"
    /\ op' = type
    /\ UNCHANGED <<encCrc, encOff, offset, saving, nextId, log, acked, poisoned, crashes>>

\* rotate: sync and close the full segment, create the file of the next one.
RotateBegin(type) ==
    /\ MayAppend
    /\ NeedsRotation
    /\ segs' = Append(SyncedSegs, EmptySegment)
    /\ fileOpen' = FALSE
    /\ status' = "creating"
    /\ op' = type
    /\ UNCHANGED <<encCrc, encOff, offset, saving, nextId, log, acked, poisoned, crashes>>

\* Mutant of CreateEnd: the checkpoint holds 0, the encoder goes on with its chain.
CreateEndUnbridged ==
    LET ss == [segs EXCEPT ![Len(segs)] = Segment(<<Frame("crc", 0, <<>>)>>)]
    IN  /\ status = "creating"
        /\ status' = "open"
        /\ fileOpen' = TRUE
        /\ IF op = "open"
           THEN /\ segs' = ss
                /\ encOff' = 1
                /\ offset' = 1
                /\ UNCHANGED <<encCrc, nextId, log>>
           ELSE Encode(ss, op, encCrc, 1)
        /\ saving' = (saving \/ op = "snap")
        /\ UNCHANGED <<op, acked, poisoned, crashes>>

\* The rest of createSegment: the checkpoint that carries the chain over is
\* written and fsynced, then the caller goes on (Append encodes its record).
CreateEnd ==
    LET ss == [segs EXCEPT ![Len(segs)] = Segment(<<Frame("crc", 0, encCrc)>>)]
    IN  /\ status = "creating"
        /\ status' = "open"
        /\ fileOpen' = TRUE
        /\ IF op = "open"
           THEN /\ segs' = ss
                /\ encOff' = 1
                /\ offset' = 1
                /\ UNCHANGED <<encCrc, nextId, log>>
           ELSE Encode(ss, op, encCrc, 1)
        /\ saving' = (saving \/ op = "snap")
        /\ UNCHANGED <<op, acked, poisoned, crashes>>

\* createSegment fails, with no file, an empty one, or one with its header not
\* yet fsynced.  After rotate the old file is closed already; Open just returns
\* the error.
CreateFails ==
    /\ "create" \in Faults
    /\ status = "creating"
    /\ status' = IF op = "open" THEN "down" ELSE "open"
    /\ segs' \in {segs, Front(segs),
                  [segs EXCEPT ![Len(segs)] = [Segment(<<Frame("crc", 0, encCrc)>>) EXCEPT !.synced = 0]]}
    /\ UNCHANGED <<op, fileOpen, encCrc, encOff, offset, saving, nextId, log, acked, poisoned, crashes>>

-----------------------------------------------------------------------------
(* Sync, ReadAll, Close *)

\* Mutant of Sync: the buffer is flushed but the file is not fsynced.
SyncWithoutFsync ==
    /\ status = "open" /\ fileOpen
    /\ segs' = [segs EXCEPT ![Len(segs)].written = Len(LastSeg.frames)]
    /\ acked' = log
    /\ saving' = FALSE
    /\ UNCHANGED <<status, op, fileOpen, encCrc, encOff, offset, nextId, log, poisoned, crashes>>

\* syncLocked: also the second half of a SaveSnapshot.
Sync ==
    /\ status = "open" /\ fileOpen
    /\ segs' = SyncedSegs
    /\ acked' = log
    /\ saving' = FALSE
    /\ UNCHANGED <<status, op, fileOpen, encCrc, encOff, offset, nextId, log, poisoned, crashes>>

\* ReadAll flushes the buffer, which a failed rotation has left empty, then reads
\* the segment files (ReadAllExact says what it returns).
ReadAll ==
    /\ status = "open"
    /\ segs' = [segs EXCEPT ![Len(segs)].written = Len(LastSeg.frames)]
    /\ UNCHANGED <<status, op, fileOpen, encCrc, encOff, offset, saving, nextId, log, acked, poisoned, crashes>>

\* Close flushes and fsyncs; on a file that a failed rotation closed it fails.
Close ==
    /\ status = "open"
    /\ status' = "closed"
    /\ IF fileOpen
       THEN segs' = SyncedSegs /\ acked' = log
       ELSE UNCHANGED <<segs, acked>>
    /\ fileOpen' = FALSE
    /\ saving' = FALSE
    /\ UNCHANGED <<op, encCrc, encOff, offset, nextId, log, poisoned, crashes>>

-----------------------------------------------------------------------------
(* Open *)

OpenEmpty ==
    /\ status \in {"down", "closed"}
    /\ segs = <<>>
    /\ segs' = <<EmptySegment>>
    /\ status' = "creating"
    /\ op' = "open"
    /\ encCrc' = <<>>
    /\ UNCHANGED <<fileOpen, encOff, offset, saving, nextId, log, acked, poisoned, crashes>>

\* openSegment on the last segment: the torn tail is zeroed, the chain goes on
\* from the decoder's CRC.  w.offset is the end of the valid frames, but the
\* encoder counts from that position inside its page.
OpenSegment ==
    LET n == ValidLen(LastSeg.frames)
    IN  /\ status \in {"down", "closed"}
        /\ segs # <<>>
        /\ ~Corrupt(LastSeg.frames)
        /\ segs' = [segs EXCEPT ![Len(segs)].frames = ValidFrames(@), ![Len(segs)].written = n]
        /\ encCrc' = LastCRC(LastSeg.frames)
        /\ poisoned' = (poisoned \/ TornParses(LastSeg.frames))
        /\ encOff' = n % PageUnits
        /\ offset' = n
        /\ status' = "open"
        /\ fileOpen' = TRUE
        /\ UNCHANGED <<op, saving, nextId, log, acked, crashes>>

\* Open returns an error, as will the next attempt.
OpenCorrupt ==
    /\ status \in {"down", "closed", "failed"}
    /\ segs # <<>>
    /\ Corrupt(LastSeg.frames)
    /\ status' = "failed"
    /\ UNCHANGED <<segs, op, fileOpen, encCrc, encOff, offset, saving, nextId, log, acked, poisoned, crashes>>

-----------------------------------------------------------------------------
(* Crashes *)

\* What is found of a frame that was being written: nothing, a short frame, or
\* (in preallocated space) one with zeroed sectors that still parses.
Torn(frames, k) ==
    {<<>>} \cup {<<[frames[k + 1] EXCEPT !.form = form]>> :
                 form \in IF k = Len(frames) THEN {}
                          ELSE {"short"} \cup (Faults \cap {"zeroed"})}

\* The first k frames of the last segment survive, s of them fsynced.
KeepFrames(k, s) ==
    LET frames == LastSeg.frames
        dropped == DataFrames(SubSeq(frames, k + 1, Len(frames)))
    IN  /\ \E tail \in Torn(frames, k) :
            LET kept == SubSeq(frames, 1, k) \o tail
            IN  segs' = [segs EXCEPT ![Len(segs)] =
                            [frames |-> kept, written |-> Len(kept), synced |-> s]]
        /\ log' = SubSeq(log, 1, Len(log) - Len(dropped))

Down ==
    /\ crashes < MaxCrashes
    /\ crashes' = crashes + 1
    /\ status' = "down"
    /\ fileOpen' = FALSE
    /\ saving' = FALSE
    /\ UNCHANGED <<op, encCrc, encOff, offset, nextId, acked, poisoned>>

\* The machine stops: of the frames written since the last fsync any prefix is
\* on disk, the buffered ones are lost.
Crash ==
    /\ status = "open"
    /\ \E k \in LastSeg.synced .. LastSeg.written : KeepFrames(k, k)
    /\ Down

\* Only the process dies: what it handed to the kernel is kept, unsynced.
Kill ==
    /\ status = "open"
    /\ KeepFrames(LastSeg.written, LastSeg.synced)
    /\ Down

\* A crash inside createSegment: no file, an empty one, or one with its header.
CrashCreating ==
    /\ status = "creating"
    /\ segs' \in {Front(segs), segs,
                  [segs EXCEPT ![Len(segs)] = Segment(<<Frame("crc", 0, encCrc)>>)]}
    /\ UNCHANGED log
    /\ Down

-----------------------------------------------------------------------------
Next ==
    \/ \E type \in {"data", "snap"} : AppendRecord(type) \/ RotateBegin(type)
    \/ CreateEnd
    \/ CreateFails
    \/ Sync
    \/ ReadAll
    \/ Close
    \/ OpenEmpty
    \/ OpenSegment
    \/ OpenCorrupt
    \/ Crash
    \/ Kill
    \/ CrashCreating

Spec == Init /\ [][Next]_vars

-----------------------------------------------------------------------------
TypeOK ==
    /\ \A i \in 1 .. Len(segs) :
        /\ \A j \in 1 .. Len(segs[i].frames) :
            segs[i].frames[j].type \in {"crc", "data", "snap"}
        /\ segs[i].synced <= segs[i].written
        /\ segs[i].written <= Len(segs[i].frames)
    /\ status \in {"down", "creating", "open", "closed", "failed"}
    /\ op \in {"open", "data", "snap"}
    /\ fileOpen \in BOOLEAN /\ saving \in BOOLEAN /\ poisoned \in BOOLEAN
    /\ encCrc \in Seq(Nat)
    /\ encOff \in Nat /\ offset \in Nat /\ nextId \in Nat /\ crashes \in Nat
    /\ \A f \in Range(log) \cup Range(acked) : f.type \in {"data", "snap"} /\ f.data \in 1 .. nextId - 1

\* An open WAL reads back exactly the records appended and not lost in a crash,
\* in order, through any number of rotations and recoveries: no segment is
\* reported corrupt and the CRC chain holds (ReadAll, wal.go:186-216), unless a
\* torn frame that parses has poisoned the encoder's CRC (decoder.go:94).
ReadAllExact ==
    status = "open" /\ ~poisoned =>
        /\ \A i \in 1 .. Len(segs) : ~Corrupt(segs[i].frames)
        /\ Records = log

\* A record that Sync, SaveSnapshot or Close has reported durable can be read
\* for ever after: whatever crashes and reopenings follow, the acknowledged
\* records are a prefix of what the decoder returns (wal.go:179-184).
AckedSurvive == ~poisoned => IsPrefix(acked, Records)

\* Whatever a crash leaves behind, nothing is ever read that was not appended:
\* if ReadAll returns without an error, a torn frame is never taken for a record
\* and no record is skipped in front of another (decoder.go:85-99).
DecodedGenuine ==
    (\A i \in 1 .. Len(segs) : ~Corrupt(segs[i].frames)) => IsPrefix(Records, log)

\* Open never refuses a log that only crashes have damaged (wal.go:357-359),
\* however often it crashes and is opened again.
OpenSucceeds == ~poisoned => status # "failed"

\* Only the last segment can lose frames: rotate leaves every earlier one
\* completely on disk (wal.go:415-427).
SealedDurable == \A i \in 1 .. Len(segs) - 1 : segs[i].synced = Len(segs[i].frames)

\* The log does not forget: while it is open it only grows, and a restart takes
\* away at most a tail of it (no reordering, no gap, no resurrection).
OnlyTailsLost ==
    [][ ~poisoned' =>
        /\ status = "open" /\ status' \in {"open", "creating", "closed"} => IsPrefix(log, Records')
        /\ status' = "down" => IsPrefix(Records', log) ]_vars

\* What recovery is documented to do (wal.go:403): the encoder of an open
\* segment goes on with the chain of the frames that are in it.
ChainContinuous ==
    status = "open" /\ fileOpen => encCrc = RunningCrc(LastSeg.frames, Len(LastSeg.frames))
=============================================================================
