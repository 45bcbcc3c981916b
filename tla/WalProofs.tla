----------------------------- MODULE WalProofs -----------------------------
(***************************************************************************)
(* Proofs about the write-ahead log: for any segment size, any number of   *)
(* records, rotations and crashes, with all the faults.                    *)
(*                                                                         *)
(* None of the properties is inductive.  They speak of what a decoder      *)
(* makes of the frames; the steps change frames, counters and the          *)
(* encoder's CRC.  LogSound says what the frames are worth: the whole ones *)
(* are the log, the acknowledged ones are among the fsynced.  StatusSound  *)
(* says where a torn frame can be, ChainSound why the decoder gets through *)
(* (CleanWhole): every segment's chain holds up to its torn frame.         *)
(***************************************************************************)
EXTENDS Wal, SequenceTheorems, TLAPS

-----------------------------------------------------------------------------
(* Prefixes *)

\* A prefix, element by element.
LEMMA PrefixPointwise ==
    ASSUME NEW T, NEW s \in Seq(T), NEW t \in Seq(T)
    PROVE  IsPrefix(s, t) <=> Len(s) <= Len(t) /\ \A i \in 1 .. Len(s) : s[i] = t[i]
<1>1. ASSUME Len(s) <= Len(t)
      PROVE  SubSeq(s, 1, Len(s)) = SubSeq(t, 1, Len(s)) <=> \A i \in 1 .. Len(s) : s[i] = t[i]
  <2> DEFINE u == SubSeq(s, 1, Len(s))
             v == SubSeq(t, 1, Len(s))
  <2>1. /\ u \in Seq(T) /\ v \in Seq(T) /\ Len(u) = Len(s) /\ Len(v) = Len(s)
        /\ \A i \in 1 .. Len(s) : u[i] = s[i] /\ v[i] = t[i]
    BY <1>1
  <2> HIDE DEF u, v
  <2>2. ASSUME \A i \in 1 .. Len(s) : s[i] = t[i] PROVE u = v
    BY <2>1, <2>2
  <2>3. QED
    BY <2>1, <2>2
<1>2. QED
  BY <1>1 DEF IsPrefix

\* Every sequence is a prefix of itself, and of itself with something behind it.
LEMMA PrefixConcat ==
    ASSUME NEW T, NEW s \in Seq(T), NEW t \in Seq(T)
    PROVE  IsPrefix(s, s) /\ IsPrefix(s, s \o t)
<1>1. s \o t \in Seq(T) /\ Len(s) <= Len(s \o t) /\ \A i \in 1 .. Len(s) : (s \o t)[i] = s[i]
  OBVIOUS
<1> DEFINE u == s \o t
<1> HIDE DEF u
<1>2. IsPrefix(s, u)
  BY <1>1, PrefixPointwise DEF u
<1>3. IsPrefix(s, s)
  BY PrefixPointwise
<1>4. QED
  BY <1>2, <1>3 DEF u

\* A prefix of a prefix is a prefix.
LEMMA PrefixTrans ==
    ASSUME NEW T, NEW s \in Seq(T), NEW t \in Seq(T), NEW u \in Seq(T), IsPrefix(s, t), IsPrefix(t, u)
    PROVE  IsPrefix(s, u)
<1>1. /\ Len(s) <= Len(t) /\ \A i \in 1 .. Len(s) : s[i] = t[i]
      /\ Len(t) <= Len(u) /\ \A i \in 1 .. Len(t) : t[i] = u[i]
  BY PrefixPointwise
<1>2. Len(s) <= Len(u) /\ \A i \in 1 .. Len(s) : s[i] = u[i]
  BY <1>1
<1>3. QED
  BY <1>2, PrefixPointwise

\* What is put in front of two sequences keeps one a prefix of the other.
LEMMA PrefixBehind ==
    ASSUME NEW T, NEW p \in Seq(T), NEW s \in Seq(T), NEW t \in Seq(T), IsPrefix(s, t)
    PROVE  IsPrefix(p \o s, p \o t)
<1>1. Len(s) <= Len(t) /\ \A i \in 1 .. Len(s) : s[i] = t[i]
  BY PrefixPointwise
<1> DEFINE a == p \o s
           b == p \o t
<1>2. /\ a \in Seq(T) /\ b \in Seq(T)
      /\ Len(a) = Len(p) + Len(s) /\ Len(b) = Len(p) + Len(t)
      /\ \A i \in 1 .. Len(a) : a[i] = IF i <= Len(p) THEN p[i] ELSE s[i - Len(p)]
      /\ \A i \in 1 .. Len(b) : b[i] = IF i <= Len(p) THEN p[i] ELSE t[i - Len(p)]
      /\ Len(p) \in Nat /\ Len(s) \in Nat /\ Len(t) \in Nat
  OBVIOUS
<1> HIDE DEF a, b
<1>3. ASSUME NEW i \in 1 .. Len(a) PROVE a[i] = b[i]
  <2>1. i \in 1 .. Len(b)
    BY <1>1, <1>2
  <2>2. CASE i <= Len(p)
    BY <1>2, <2>1, <2>2
  <2>3. CASE ~(i <= Len(p))
    <3>1. i - Len(p) \in 1 .. Len(s)
      BY <1>2, <2>3
    <3>2. QED
      BY <1>1, <1>2, <2>1, <2>3, <3>1
  <2>4. QED
    BY <2>2, <2>3
<1>4. Len(a) <= Len(b)
  BY <1>1, <1>2
<1>5. QED
  BY <1>2, <1>3, <1>4, PrefixPointwise DEF a, b

\* An element appended to two sequences in a row.
LEMMA ConcatAppend ==
    ASSUME NEW T, NEW s \in Seq(T), NEW t \in Seq(T), NEW x \in T
    PROVE  s \o Append(t, x) = Append(s \o t, x)
<1>1. <<x>> \in Seq(T) /\ s \o t \in Seq(T)
  OBVIOUS
<1>2. Append(t, x) = t \o <<x>> /\ Append(s \o t, x) = (s \o t) \o <<x>>
  BY <1>1, AppendIsConcat
<1>3. (s \o t) \o <<x>> = s \o (t \o <<x>>)
  BY <1>1, ConcatAssociative
<1>4. QED
  BY <1>2, <1>3

-----------------------------------------------------------------------------
(* Frames with records *)

Frames ==
    [type : {"crc", "data", "snap"}, data : Nat, crc : Seq(Nat), form : {"whole", "short", "zeroed"}]

\* No frames hold no records.
LEMMA DataEmpty == DataFrames(<<>>) = <<>>
  BY Filter!LoopEmpty DEF DataFrames

\* One more frame adds a record, unless it is a checkpoint.
LEMMA DataAppend ==
    ASSUME NEW s \in Seq(Frames), NEW f \in Frames
    PROVE  DataFrames(Append(s, f)) = IF f.type = "crc" THEN DataFrames(s) ELSE Append(DataFrames(s), f)
<1>1. DataFrames(Append(s, f)) = AddFrame(DataFrames(s), f)
  BY Filter!LoopAppend DEF DataFrames
<1>2. QED
  BY <1>1 DEF AddFrame

\* The records are frames.
LEMMA DataType ==
    ASSUME NEW s \in Seq(Frames)
    PROVE  DataFrames(s) \in Seq(Frames)
<1> DEFINE Bad == {n \in Nat : \E r \in Seq(Frames) : Len(r) = n /\ DataFrames(r) \notin Seq(Frames)}
<1> SUFFICES ASSUME Bad # {} PROVE FALSE
  OBVIOUS
<1>1. PICK n \in Bad : \A m \in Bad : n <= m
  BY Filter!NatMin
<1>2. PICK r \in Seq(Frames) : Len(r) = n /\ DataFrames(r) \notin Seq(Frames)
  BY <1>1
<1>3. CASE n = 0
  <2>1. r = <<>>
    BY <1>2, <1>3
  <2>2. QED
    BY <1>2, <2>1, DataEmpty
<1>4. CASE n # 0
  <2> DEFINE q == SubSeq(r, 1, n - 1)
             f == r[n]
  <2>1. q \in Seq(Frames) /\ Len(q) = n - 1 /\ f \in Frames /\ r = Append(q, f)
    BY <1>2, <1>4
  <2> HIDE DEF q, f
  <2>2. n - 1 \in Nat /\ n - 1 \notin Bad
    BY <1>1, <1>4
  <2>3. DataFrames(q) \in Seq(Frames)
    BY <2>1, <2>2
  <2>4. DataFrames(r) = IF f.type = "crc" THEN DataFrames(q) ELSE Append(DataFrames(q), f)
    BY <2>1, DataAppend
  <2>5. QED
    BY <1>2, <2>1, <2>3, <2>4
<1>5. QED
  BY <1>3, <1>4

\* A record appended to two runs of them.
LEMMA DataConcatAppend ==
    ASSUME NEW a \in Seq(Frames), NEW b \in Seq(Frames), NEW f \in Frames
    PROVE  Append(a \o b, f) = a \o Append(b, f)
<1> DEFINE T == Frames
<1>1. a \in Seq(T) /\ b \in Seq(T) /\ f \in T
  OBVIOUS
<1> HIDE DEF T
<1>2. <<f>> \in Seq(T) /\ a \o b \in Seq(T)
  BY <1>1
<1>3. Append(b, f) = b \o <<f>> /\ Append(a \o b, f) = (a \o b) \o <<f>>
  BY <1>1, <1>2, AppendIsConcat
<1>4. (a \o b) \o <<f>> = a \o (b \o <<f>>)
  BY <1>1, <1>2, ConcatAssociative
<1>5. QED
  BY <1>3, <1>4

\* The records of two runs of frames, one behind the other.
LEMMA DataConcat ==
    ASSUME NEW s \in Seq(Frames), NEW t \in Seq(Frames)
    PROVE  DataFrames(s \o t) = DataFrames(s) \o DataFrames(t)
<1> DEFINE Bad == {n \in Nat : \E r \in Seq(Frames) :
                    Len(r) = n /\ DataFrames(s \o r) # DataFrames(s) \o DataFrames(r)}
<1> SUFFICES ASSUME Bad # {} PROVE FALSE
  OBVIOUS
<1>1. PICK n \in Bad : \A m \in Bad : n <= m
  BY Filter!NatMin
<1>2. PICK r \in Seq(Frames) : Len(r) = n /\ DataFrames(s \o r) # DataFrames(s) \o DataFrames(r)
  BY <1>1
<1>3. CASE n = 0
  <2>1. r = <<>>
    BY <1>2, <1>3
  <2>2. s \o <<>> = s
    OBVIOUS
  <2>3. DataFrames(s) \o <<>> = DataFrames(s)
    BY DataType
  <2>4. QED
    BY <1>2, <2>1, <2>2, <2>3, DataEmpty
<1>4. CASE n # 0
  <2> DEFINE q == SubSeq(r, 1, n - 1)
             f == r[n]
  <2> HIDE DEF Bad
  <2>1. q \in Seq(Frames) /\ Len(q) = n - 1 /\ f \in Frames /\ r = Append(q, f) /\ n \in Nat
    BY <1>2, <1>4
  <2> HIDE DEF q, f
  <2>2. n - 1 \in Nat /\ n - 1 \notin Bad
    BY <1>1, <1>4, <2>1
  <2>3. DataFrames(s \o q) = DataFrames(s) \o DataFrames(q)
    BY <2>1, <2>2 DEF Bad
  <2>4. s \o r = Append(s \o q, f) /\ s \o q \in Seq(Frames)
    <3>1. s \o q \in Seq(Frames)
      BY <2>1
    <3>2. Append(s \o q, f) = s \o Append(q, f)
      BY <2>1, DataConcatAppend
    <3>3. QED
      BY <2>1, <3>1, <3>2
  <2>5. DataFrames(r) = IF f.type = "crc" THEN DataFrames(q) ELSE Append(DataFrames(q), f)
    BY <2>1, DataAppend
  <2>6. DataFrames(s \o r) =
            IF f.type = "crc" THEN DataFrames(s \o q) ELSE Append(DataFrames(s \o q), f)
    BY <2>1, <2>4, DataAppend
  <2> DEFINE ds == DataFrames(s)
             dq == DataFrames(q)
  <2>7. ds \in Seq(Frames) /\ dq \in Seq(Frames)
    BY <2>1, DataType
  <2> HIDE DEF ds, dq
  <2>8. Append(ds \o dq, f) = ds \o Append(dq, f)
    <3>1. f \in Frames
      BY <2>1
    <3>2. QED
      BY <3>1, <2>7, DataConcatAppend
  <2>9. CASE f.type = "crc"
    BY <1>2, <2>3, <2>5, <2>6, <2>9
  <2>10. CASE f.type # "crc"
    <3>1. DataFrames(s \o r) = Append(ds \o dq, f) /\ DataFrames(r) = Append(dq, f)
      BY <2>3, <2>5, <2>6, <2>10 DEF ds, dq
    <3>2. QED
      BY <1>2, <2>8, <3>1 DEF ds
  <2>11. QED
    BY <2>9, <2>10
<1>5. QED
  BY <1>3, <1>4

\* The records of the first k frames, and of the others behind them.
LEMMA DataSplit ==
    ASSUME NEW s \in Seq(Frames), NEW k \in 0 .. Len(s)
    PROVE  /\ SubSeq(s, 1, k) \in Seq(Frames) /\ Len(SubSeq(s, 1, k)) = k
           /\ SubSeq(s, k + 1, Len(s)) \in Seq(Frames)
           /\ DataFrames(s) = DataFrames(SubSeq(s, 1, k)) \o DataFrames(SubSeq(s, k + 1, Len(s)))
<1> DEFINE a == SubSeq(s, 1, k)
           b == SubSeq(s, k + 1, Len(s))
<1>1. a \in Seq(Frames) /\ b \in Seq(Frames) /\ Len(a) = k
  OBVIOUS
<1>2. s = a \o b
  <2>1. 1 \in 1 .. Len(s) + 1 /\ k \in (1 - 1) .. Len(s) /\ Len(s) \in k .. Len(s)
    OBVIOUS
  <2>2. a \o b = SubSeq(s, 1, Len(s))
    BY <2>1, ConcatAdjacentSubSeq
  <2>3. QED
    BY <2>2, SubSeqFull
<1> HIDE DEF a, b
<1>3. DataFrames(s) = DataFrames(a) \o DataFrames(b)
  BY <1>1, <1>2, DataConcat
<1>4. QED
  BY <1>1, <1>3 DEF a, b

\* Fewer frames hold a prefix of the records.
LEMMA DataPrefix ==
    ASSUME NEW s \in Seq(Frames), NEW k \in 0 .. Len(s), NEW m \in 0 .. k
    PROVE  IsPrefix(DataFrames(SubSeq(s, 1, m)), DataFrames(SubSeq(s, 1, k)))
<1> DEFINE a == SubSeq(s, 1, k)
           b == SubSeq(a, m + 1, Len(a))
<1>1. a \in Seq(Frames) /\ Len(a) = k
  OBVIOUS
<1>2. SubSeq(a, 1, m) = SubSeq(s, 1, m)
  OBVIOUS
<1> HIDE DEF a
<1>3. m \in 0 .. Len(a) /\ b \in Seq(Frames) /\ SubSeq(a, 1, m) \in Seq(Frames)
  BY <1>1
<1>4. DataFrames(a) = DataFrames(SubSeq(a, 1, m)) \o DataFrames(b)
  BY <1>1, <1>3, DataSplit
<1>5. DataFrames(SubSeq(a, 1, m)) \in Seq(Frames) /\ DataFrames(b) \in Seq(Frames)
  BY <1>3, DataType
<1>6. QED
  BY <1>2, <1>4, <1>5, PrefixConcat DEF a

-----------------------------------------------------------------------------
(* Segments *)

Segs == [frames : Seq(Frames), written : Nat, synced : Nat]

\* How many frames of a segment are whole: all of them, or all but a torn one at
\* the end.
WholeLen(frames) ==
    IF frames # <<>> /\ frames[Len(frames)].form # "whole" THEN Len(frames) - 1 ELSE Len(frames)

WholeData(seg) == DataFrames(SubSeq(seg.frames, 1, WholeLen(seg.frames)))

DurableData(seg) == DataFrames(SubSeq(seg.frames, 1, seg.synced))

\* Only the last frame can be torn, and what is fsynced is written and whole.
SegSound(seg) ==
    /\ seg.synced <= seg.written /\ seg.written <= Len(seg.frames)
    /\ seg.synced <= WholeLen(seg.frames)
    /\ \A j \in 1 .. Len(seg.frames) : j < Len(seg.frames) => seg.frames[j].form = "whole"

\* No frame is torn.
SegWhole(seg) == \A j \in 1 .. Len(seg.frames) : seg.frames[j].form = "whole"

\* The CRC chain holds over all whole frames.
SegChain(seg) == \A j \in 1 .. WholeLen(seg.frames) : FrameValid(seg.frames, j)

\* The parts of a segment.
LEMMA SegParts ==
    ASSUME NEW seg \in Segs
    PROVE  /\ seg.frames \in Seq(Frames) /\ Len(seg.frames) \in Nat
           /\ seg.written \in Nat /\ seg.synced \in Nat
           /\ WholeLen(seg.frames) \in 0 .. Len(seg.frames)
<1>1. seg.frames \in Seq(Frames) /\ Len(seg.frames) \in Nat
  BY DEF Segs
<1>2. seg.written \in Nat /\ seg.synced \in Nat
  BY DEF Segs
<1> DEFINE fr == seg.frames
<1> HIDE DEF fr
<1>3. fr \in Seq(Frames) /\ Len(fr) \in Nat
  BY <1>1 DEF fr
<1>4. fr # <<>> => Len(fr) # 0
  BY <1>3
<1>5. WholeLen(fr) \in 0 .. Len(fr)
  <2>1. CASE fr # <<>> /\ fr[Len(fr)].form # "whole"
    BY <1>3, <1>4, <2>1 DEF WholeLen
  <2>2. CASE ~(fr # <<>> /\ fr[Len(fr)].form # "whole")
    BY <1>3, <2>2 DEF WholeLen
  <2>3. QED
    BY <2>1, <2>2
<1>6. QED
  BY <1>1, <1>2, <1>5 DEF fr

\* In a segment without a torn frame all frames are whole.
LEMMA WholeAll ==
    ASSUME NEW seg \in Segs, SegWhole(seg)
    PROVE  WholeLen(seg.frames) = Len(seg.frames) /\ WholeData(seg) = DataFrames(seg.frames)
<1> DEFINE fr == seg.frames
<1>1. fr \in Seq(Frames) /\ Len(fr) \in Nat
  BY SegParts
<1>2. \A j \in 1 .. Len(fr) : fr[j].form = "whole"
  BY DEF SegWhole
<1> HIDE DEF fr
<1>3. fr # <<>> => Len(fr) \in 1 .. Len(fr)
  BY <1>1, EmptySeq
<1>4. WholeLen(fr) = Len(fr)
  BY <1>2, <1>3 DEF WholeLen
<1>5. SubSeq(fr, 1, Len(fr)) = fr
  BY <1>1
<1>6. QED
  BY <1>4, <1>5 DEF WholeData, fr

\* A segment whose fsync covers all its frames has no torn one.
LEMMA SyncedWhole ==
    ASSUME NEW seg \in Segs, SegSound(seg), seg.synced = Len(seg.frames)
    PROVE  SegWhole(seg) /\ DurableData(seg) = WholeData(seg)
<1> DEFINE fr == seg.frames
<1>1. fr \in Seq(Frames) /\ Len(fr) \in Nat
  BY SegParts
<1>2. /\ Len(fr) <= WholeLen(fr)
      /\ \A j \in 1 .. Len(fr) : j < Len(fr) => fr[j].form = "whole"
  BY DEF SegSound
<1> HIDE DEF fr
<1>3. fr # <<>> => fr[Len(fr)].form = "whole"
  BY <1>1, <1>2 DEF WholeLen
<1>4. ASSUME NEW j \in 1 .. Len(fr) PROVE fr[j].form = "whole"
  <2>1. fr # <<>>
    BY <1>1, <1>4
  <2>2. QED
    BY <1>1, <1>2, <1>3, <2>1
<1>5. SegWhole(seg)
  BY <1>4 DEF SegWhole, fr
<1>6. WholeLen(seg.frames) = seg.synced
  BY <1>5, WholeAll
<1>7. QED
  BY <1>5, <1>6 DEF DurableData, WholeData

\* What is fsynced of a segment is a prefix of what is whole of it.
LEMMA DurablePrefix ==
    ASSUME NEW seg \in Segs, SegSound(seg)
    PROVE  /\ DurableData(seg) \in Seq(Frames) /\ WholeData(seg) \in Seq(Frames)
           /\ IsPrefix(DurableData(seg), WholeData(seg))
<1>1. /\ seg.frames \in Seq(Frames) /\ seg.synced \in Nat
      /\ WholeLen(seg.frames) \in 0 .. Len(seg.frames)
      /\ seg.synced <= WholeLen(seg.frames)
      /\ Len(seg.frames) \in Nat
  BY SegParts DEF SegSound
<1>2. seg.synced \in 0 .. WholeLen(seg.frames) /\ seg.synced \in 0 .. Len(seg.frames)
  BY <1>1
<1>3. /\ SubSeq(seg.frames, 1, seg.synced) \in Seq(Frames)
      /\ SubSeq(seg.frames, 1, WholeLen(seg.frames)) \in Seq(Frames)
  BY <1>1, <1>2, DataSplit
<1>4. IsPrefix(DurableData(seg), WholeData(seg))
  BY <1>1, <1>2, DataPrefix DEF DurableData, WholeData
<1>5. QED
  BY <1>3, <1>4, DataType DEF DurableData, WholeData

\* Decode returns the longest run of valid frames.
LEMMA ValidLenExact ==
    ASSUME NEW fr \in Seq(Frames)
    PROVE  /\ ValidLen(fr) \in 0 .. Len(fr)
           /\ \A i \in 1 .. ValidLen(fr) : FrameValid(fr, i)
           /\ ValidLen(fr) < Len(fr) => ~FrameValid(fr, ValidLen(fr) + 1)
<1> DEFINE P(n) == /\ \A i \in 1 .. n : FrameValid(fr, i)
                   /\ n < Len(fr) => ~FrameValid(fr, n + 1)
           Bad == {m \in Nat : m = Len(fr) \/ ~FrameValid(fr, m + 1)}
<1>1. Len(fr) \in Nat /\ Len(fr) \in Bad
  OBVIOUS
<1>2. PICK n \in Bad : \A m \in Bad : n <= m
  BY <1>1, Filter!NatMin
<1>3. n \in 0 .. Len(fr)
  BY <1>1, <1>2
<1>4. P(n)
  <2>1. ASSUME NEW i \in 1 .. n PROVE FrameValid(fr, i)
    <3>1. i - 1 \in Nat /\ i - 1 # Len(fr) /\ i - 1 \notin Bad /\ (i - 1) + 1 = i
      <4> HIDE DEF P, Bad
      <4>1. QED
        BY <1>1, <1>2, <1>3
    <3>2. QED
      BY <3>1
  <2>2. ASSUME n < Len(fr) PROVE ~FrameValid(fr, n + 1)
    BY <1>1, <1>2, <2>2
  <2>3. QED
    BY <2>1, <2>2
<1>5. ValidLen(fr) = CHOOSE m \in 0 .. Len(fr) : P(m)
  BY Zenon DEF ValidLen
<1> HIDE DEF P
<1>6. ValidLen(fr) \in 0 .. Len(fr) /\ P(ValidLen(fr))
  BY <1>3, <1>4, <1>5
<1>7. QED
  BY <1>6 DEF P

\* A segment in which Decode finds no corruption is read up to its torn frame.
LEMMA CleanWhole ==
    ASSUME NEW seg \in Segs, SegSound(seg), ~Corrupt(seg.frames)
    PROVE  /\ ValidLen(seg.frames) = WholeLen(seg.frames)
           /\ SegRecords(seg) = WholeData(seg)
           /\ SegChain(seg)
<1> DEFINE fr == seg.frames
           n == ValidLen(fr)
<1>1. fr \in Seq(Frames) /\ Len(fr) \in Nat
  BY SegParts
<1>2. \A j \in 1 .. Len(fr) : j < Len(fr) => fr[j].form = "whole"
  BY DEF SegSound
<1>3. n < Len(fr) => fr[n + 1].form # "whole"
  BY Zenon DEF Corrupt
<1> HIDE DEF fr
<1>4. n \in 0 .. Len(fr) /\ \A i \in 1 .. n : FrameValid(fr, i)
  BY <1>1, ValidLenExact
<1> HIDE DEF n
<1>5. n = WholeLen(fr)
  <2>1. CASE n < Len(fr)
    <3>1. n + 1 \in 1 .. Len(fr) /\ fr[n + 1].form # "whole"
      BY <1>1, <1>3, <1>4, <2>1
    <3>2. n + 1 = Len(fr)
      BY <1>1, <1>2, <1>4, <3>1
    <3>3. fr # <<>> /\ fr[Len(fr)].form # "whole"
      BY <1>1, <3>1, <3>2
    <3>4. QED
      BY <1>1, <1>4, <3>2, <3>3 DEF WholeLen
  <2>2. CASE n = Len(fr)
    <3>1. fr # <<>> => Len(fr) \in 1 .. n
      BY <1>1, <2>2, EmptySeq
    <3>2. fr # <<>> => fr[Len(fr)].form = "whole"
      BY <1>4, <3>1 DEF FrameValid
    <3>3. QED
      BY <2>2, <3>2 DEF WholeLen
  <2>3. QED
    BY <1>1, <1>4, <2>1, <2>2
<1>6. ValidFrames(fr) = SubSeq(fr, 1, WholeLen(fr))
  BY <1>5 DEF ValidFrames, n
<1>7. QED
  BY <1>4, <1>5, <1>6 DEF SegRecords, WholeData, SegChain, n, fr

\* A segment over whose whole frames the chain holds is not corrupt.
LEMMA ChainClean ==
    ASSUME NEW seg \in Segs, SegSound(seg), SegChain(seg)
    PROVE  ~Corrupt(seg.frames)
<1> DEFINE fr == seg.frames
           n == ValidLen(fr)
<1>1. fr \in Seq(Frames) /\ Len(fr) \in Nat /\ WholeLen(fr) \in 0 .. Len(fr)
  BY SegParts
<1>2. \A j \in 1 .. WholeLen(fr) : FrameValid(fr, j)
  BY DEF SegChain
<1>3. SUFFICES ASSUME n < Len(fr) PROVE fr[n + 1].form # "whole"
  BY Zenon DEF Corrupt
<1> HIDE DEF fr
<1>4. n \in 0 .. Len(fr) /\ ~FrameValid(fr, n + 1)
  BY <1>1, <1>3, ValidLenExact
<1> HIDE DEF n
<1>5. n + 1 \notin 1 .. WholeLen(fr)
  BY <1>2, <1>4
<1>6. WholeLen(fr) = Len(fr) - 1 /\ n + 1 = Len(fr)
  BY <1>1, <1>3, <1>4, <1>5 DEF WholeLen
<1>7. fr[Len(fr)].form # "whole"
  BY <1>1, <1>6 DEF WholeLen
<1>8. QED
  BY <1>6, <1>7

-----------------------------------------------------------------------------
(* Lists of segments *)

\* All the whole records on disk and in the buffer.
AddWhole(acc, seg) == acc \o WholeData(seg)

Whole == INSTANCE Loops WITH Step <- AddWhole

AllData(ss) == Whole!Loop(<<>>, ss)

\* The records that no crash can take away.
AckData(ss) == IF ss = <<>> THEN <<>> ELSE AllData(Front(ss)) \o DurableData(ss[Len(ss)])

\* Every segment is sound, and all but the last one are fsynced.
ListSound(ss) ==
    \A i \in 1 .. Len(ss) :
        SegSound(ss[i]) /\ (i < Len(ss) => ss[i].synced = Len(ss[i].frames))

AllSealed(ss) == \A i \in 1 .. Len(ss) : ss[i].synced = Len(ss[i].frames)

ListChain(ss) == \A i \in 1 .. Len(ss) : SegChain(ss[i])

\* tt is ss with one more segment x.
Extended(tt, ss, x) ==
    /\ tt \in Seq(Segs) /\ tt # <<>> /\ Len(tt) = Len(ss) + 1
    /\ tt[Len(tt)] = x
    /\ Front(tt) = ss
    /\ ListSound(tt)
    /\ AllData(tt) = AllData(ss) \o WholeData(x)
    /\ AckData(tt) = AllData(ss) \o DurableData(x)
    /\ ListChain(ss) /\ SegChain(x) => ListChain(tt)

\* No segments hold no records.
LEMMA AllEmpty == AllData(<<>>) = <<>>
  BY Whole!LoopEmpty DEF AllData

\* One more segment adds its records.
LEMMA AllAppend ==
    ASSUME NEW ss \in Seq(Segs), NEW seg \in Segs
    PROVE  AllData(Append(ss, seg)) = AllData(ss) \o WholeData(seg)
<1>1. AllData(Append(ss, seg)) = AddWhole(AllData(ss), seg)
  BY Whole!LoopAppend DEF AllData
<1>2. QED
  BY <1>1 DEF AddWhole

\* The whole records of a segment are frames.
LEMMA WholeType ==
    ASSUME NEW seg \in Segs
    PROVE  WholeData(seg) \in Seq(Frames)
<1>1. seg.frames \in Seq(Frames) /\ WholeLen(seg.frames) \in 0 .. Len(seg.frames)
  BY SegParts
<1>2. SubSeq(seg.frames, 1, WholeLen(seg.frames)) \in Seq(Frames)
  BY <1>1, DataSplit
<1>3. QED
  BY <1>2, DataType DEF WholeData

\* The last segment and the ones before it.
LEMMA FrontLast ==
    ASSUME NEW T, NEW ss \in Seq(T), ss # <<>>
    PROVE  /\ Front(ss) \in Seq(T) /\ ss[Len(ss)] \in T
           /\ Len(Front(ss)) = Len(ss) - 1 /\ Len(ss) \in Nat \ {0}
           /\ \A i \in 1 .. Len(Front(ss)) : Front(ss)[i] = ss[i]
           /\ ss = Append(Front(ss), ss[Len(ss)])
<1>1. Len(ss) \in Nat \ {0}
  BY EmptySeq
<1> DEFINE r == SubSeq(ss, 1, Len(ss) - 1)
<1>2. /\ r \in Seq(T) /\ ss[Len(ss)] \in T /\ Len(r) = Len(ss) - 1
      /\ \A i \in 1 .. Len(r) : r[i] = ss[i]
  <2>1. Len(ss) - 1 \in 0 .. Len(ss) /\ Len(ss) \in 1 .. Len(ss)
    BY <1>1
  <2>2. r \in Seq(T) /\ Len(r) = Len(ss) - 1
    <3> DEFINE n == Len(ss) - 1
    <3>1. n \in 0 .. Len(ss)
      BY <2>1
    <3> HIDE DEF n
    <3>2. SubSeq(ss, 1, n) \in Seq(T) /\ Len(SubSeq(ss, 1, n)) = n
      BY <3>1
    <3>3. QED
      BY <3>2 DEF n
  <2>3. ASSUME NEW i \in 1 .. Len(ss) - 1 PROVE r[i] = ss[i]
    BY <2>1
  <2>4. ss[Len(ss)] \in T
    BY <2>1, ElementOfSeq
  <2>5. QED
    BY <2>2, <2>3, <2>4
<1>3. ss = Append(r, ss[Len(ss)])
  BY <1>1
<1>4. Front(ss) = r
  BY DEF Front
<1>5. QED
  BY <1>1, <1>2, <1>3, <1>4

\* All the whole records are frames.
LEMMA AllType ==
    ASSUME NEW ss \in Seq(Segs)
    PROVE  AllData(ss) \in Seq(Frames)
<1> DEFINE Bad == {n \in Nat : \E r \in Seq(Segs) : Len(r) = n /\ AllData(r) \notin Seq(Frames)}
<1> SUFFICES ASSUME Bad # {} PROVE FALSE
  OBVIOUS
<1>1. PICK n \in Bad : \A m \in Bad : n <= m
  BY Filter!NatMin
<1>2. PICK r \in Seq(Segs) : Len(r) = n /\ AllData(r) \notin Seq(Frames)
  BY <1>1
<1>3. CASE n = 0
  <2>1. r = <<>>
    BY <1>2, <1>3
  <2>2. QED
    BY <1>2, <2>1, AllEmpty
<1>4. CASE n # 0
  <2> DEFINE q == SubSeq(r, 1, n - 1)
             x == r[n]
  <2>1. q \in Seq(Segs) /\ Len(q) = n - 1 /\ x \in Segs /\ r = Append(q, x)
    BY <1>2, <1>4
  <2> HIDE DEF q, x
  <2>2. n - 1 \in Nat /\ n - 1 \notin Bad
    BY <1>1, <1>4
  <2>3. AllData(q) \in Seq(Frames) /\ WholeData(x) \in Seq(Frames)
    BY <2>1, <2>2, WholeType
  <2>4. AllData(r) = AllData(q) \o WholeData(x)
    BY <2>1, AllAppend
  <2>5. QED
    BY <1>2, <2>3, <2>4
<1>5. QED
  BY <1>3, <1>4

\* A reader that finds every segment clean finds all the whole records.
LEMMA ReadsAll ==
    ASSUME NEW ss \in Seq(Segs), \A i \in 1 .. Len(ss) : SegRecords(ss[i]) = WholeData(ss[i])
    PROVE  Reader!Loop(<<>>, ss) = AllData(ss)
<1> DEFINE Clean(r) == \A i \in 1 .. Len(r) : SegRecords(r[i]) = WholeData(r[i])
           Bad == {n \in Nat : \E r \in Seq(Segs) :
                    Len(r) = n /\ Clean(r) /\ Reader!Loop(<<>>, r) # AllData(r)}
<1> SUFFICES ASSUME Bad # {} PROVE FALSE
  OBVIOUS
<1>1. PICK n \in Bad : \A m \in Bad : n <= m
  BY Filter!NatMin
<1>2. PICK r \in Seq(Segs) : Len(r) = n /\ Clean(r) /\ Reader!Loop(<<>>, r) # AllData(r)
  BY <1>1
<1>3. CASE n = 0
  <2>1. r = <<>>
    BY <1>2, <1>3
  <2>2. QED
    BY <1>2, <2>1, AllEmpty, Reader!LoopEmpty
<1>4. CASE n # 0
  <2> DEFINE q == SubSeq(r, 1, n - 1)
             x == r[n]
  <2>1. /\ q \in Seq(Segs) /\ Len(q) = n - 1 /\ x \in Segs /\ r = Append(q, x)
        /\ \A i \in 1 .. Len(q) : q[i] = r[i]
    BY <1>2, <1>4
  <2>2. SegRecords(x) = WholeData(x)
    BY <1>2, <1>4
  <2> HIDE DEF q, x
  <2>3. Clean(q)
    BY <1>2, <2>1
  <2>4. n - 1 \in Nat /\ n - 1 \notin Bad
    BY <1>1, <1>4
  <2>5. Reader!Loop(<<>>, q) = AllData(q)
    BY <2>1, <2>3, <2>4
  <2>6. AllData(r) = AllData(q) \o WholeData(x)
    BY <2>1, AllAppend
  <2>7. Reader!Loop(<<>>, r) = AddSegment(Reader!Loop(<<>>, q), x)
    BY <2>1, Reader!LoopAppend
  <2>8. QED
    BY <1>2, <2>2, <2>5, <2>6, <2>7 DEF AddSegment
<1>5. QED
  BY <1>3, <1>4

\* A segment added behind sealed ones.
LEMMA ListAppend ==
    ASSUME NEW ss \in Seq(Segs), NEW x \in Segs, ListSound(ss), AllSealed(ss), SegSound(x)
    PROVE  Extended(Append(ss, x), ss, x)
<1> DEFINE tt == Append(ss, x)
<1>1. /\ tt \in Seq(Segs) /\ tt # <<>> /\ Len(tt) = Len(ss) + 1 /\ tt[Len(tt)] = x
      /\ \A i \in 1 .. Len(ss) : tt[i] = ss[i]
      /\ Len(ss) \in Nat
  BY AppendProperties
<1>2. Front(tt) = ss
  BY DEF Front
<1>3. AllData(tt) = AllData(ss) \o WholeData(x)
  BY AllAppend
<1> HIDE DEF tt
<1>4. AckData(tt) = AllData(ss) \o DurableData(x)
  BY <1>1, <1>2 DEF AckData
<1>5. ASSUME NEW i \in 1 .. Len(tt) PROVE i = Len(tt) \/ (i \in 1 .. Len(ss) /\ tt[i] = ss[i])
  BY <1>1
<1>6. ListSound(tt)
  <2>1. ASSUME NEW i \in 1 .. Len(tt)
        PROVE  SegSound(tt[i]) /\ (i < Len(tt) => tt[i].synced = Len(tt[i].frames))
    <3>1. CASE i = Len(tt)
      BY <1>1, <3>1
    <3>2. CASE i \in 1 .. Len(ss) /\ tt[i] = ss[i]
      BY <3>2 DEF ListSound, AllSealed
    <3>3. QED
      BY <1>5, <3>1, <3>2
  <2>2. QED
    BY <2>1 DEF ListSound
<1>7. ListChain(ss) /\ SegChain(x) => ListChain(tt)
  BY <1>1, <1>5 DEF ListChain
<1>8. Extended(tt, ss, x)
  BY <1>1, <1>2, <1>3, <1>4, <1>6, <1>7 DEF Extended
<1>9. QED
  BY <1>8 DEF tt

\* The segments before the last one.
LEMMA ListFront ==
    ASSUME NEW ss \in Seq(Segs), ss # <<>>, ListSound(ss)
    PROVE  /\ Front(ss) \in Seq(Segs) /\ ListSound(Front(ss)) /\ AllSealed(Front(ss))
           /\ ListChain(ss) => ListChain(Front(ss)) /\ SegChain(ss[Len(ss)])
           /\ ss[Len(ss)] \in Segs /\ SegSound(ss[Len(ss)])
           /\ Extended(ss, Front(ss), ss[Len(ss)])
<1> DEFINE r == Front(ss)
           x == ss[Len(ss)]
<1>1. /\ r \in Seq(Segs) /\ x \in Segs /\ Len(r) = Len(ss) - 1 /\ Len(ss) \in Nat \ {0}
      /\ \A i \in 1 .. Len(r) : r[i] = ss[i]
      /\ ss = Append(r, x)
  BY FrontLast
<1> HIDE DEF r
<1>2. Len(ss) \in 1 .. Len(ss) /\ \A i \in 1 .. Len(r) : i \in 1 .. Len(ss) /\ i < Len(ss)
  BY <1>1
<1>3. ListSound(r) /\ AllSealed(r) /\ SegSound(x)
  BY <1>1, <1>2 DEF ListSound, AllSealed
<1>4. ListChain(ss) => ListChain(r) /\ SegChain(x)
  BY <1>1, <1>2 DEF ListChain
<1>5. Extended(ss, r, x)
  <2> HIDE DEF x
  <2>1. Extended(Append(r, x), r, x)
    BY <1>1, <1>3, ListAppend
  <2>2. QED
    BY <1>1, <2>1
<1>6. QED
  BY <1>1, <1>3, <1>4, <1>5 DEF r

\* The last segment is replaced by another one.
LEMMA ListReplace ==
    ASSUME NEW ss \in Seq(Segs), ss # <<>>, ListSound(ss), NEW x \in Segs, SegSound(x)
    PROVE  Extended([ss EXCEPT ![Len(ss)] = x], Front(ss), x)
<1> DEFINE tt == [ss EXCEPT ![Len(ss)] = x]
           r == Front(ss)
<1>1. /\ r \in Seq(Segs) /\ Len(r) = Len(ss) - 1 /\ Len(ss) \in Nat \ {0}
      /\ \A i \in 1 .. Len(r) : r[i] = ss[i]
  BY FrontLast
<1>2. ListSound(r) /\ AllSealed(r)
  BY ListFront
<1>3. tt = Append(r, x)
  <2>1. Len(ss) \in 1 .. Len(ss)
    BY <1>1
  <2>2. /\ tt \in Seq(Segs) /\ Len(tt) = Len(ss)
        /\ \A j \in 1 .. Len(ss) : tt[j] = IF j = Len(ss) THEN x ELSE ss[j]
    BY <2>1, ExceptSeq
  <2>3. /\ Append(r, x) \in Seq(Segs) /\ Len(Append(r, x)) = Len(ss)
        /\ \A j \in 1 .. Len(r) : Append(r, x)[j] = r[j]
        /\ Append(r, x)[Len(ss)] = x
    BY <1>1
  <2> DEFINE u == Append(r, x)
  <2> HIDE DEF tt, r, u
  <2>4. ASSUME NEW j \in 1 .. Len(tt) PROVE tt[j] = u[j]
    <3>1. j = Len(ss) \/ j \in 1 .. Len(r)
      BY <1>1, <2>2
    <3>2. QED
      BY <1>1, <2>1, <2>2, <2>3, <3>1 DEF u
  <2>5. tt = u
    BY <2>2, <2>3, <2>4, SeqEqual DEF u
  <2>6. QED
    BY <2>5 DEF u
<1> HIDE DEF tt, r
<1>4. Extended(Append(r, x), r, x)
  BY <1>1, <1>2, ListAppend
<1>5. QED
  BY <1>3, <1>4 DEF tt, r

\* When all segments are fsynced no crash can take a record away; in any case
\* the records it cannot take are the first ones.
LEMMA AckPrefix ==
    ASSUME NEW ss \in Seq(Segs), ListSound(ss)
    PROVE  /\ AckData(ss) \in Seq(Frames) /\ AllData(ss) \in Seq(Frames)
           /\ IsPrefix(AckData(ss), AllData(ss))
           /\ AllSealed(ss) => AckData(ss) = AllData(ss)
<1>1. CASE ss = <<>>
  <2>1. AckData(ss) = <<>> /\ AllData(ss) = <<>>
    BY <1>1, AllEmpty DEF AckData
  <2>2. <<>> \in Seq(Frames)
    OBVIOUS
  <2>3. QED
    BY <2>1, <2>2, PrefixConcat
<1>2. CASE ss # <<>>
  <2> DEFINE r == Front(ss)
             x == ss[Len(ss)]
  <2>1. r \in Seq(Segs) /\ x \in Segs /\ SegSound(x) /\ Extended(ss, r, x)
    BY <1>2, ListFront
  <2>2. AllData(ss) = AllData(r) \o WholeData(x) /\ AckData(ss) = AllData(r) \o DurableData(x)
    BY <2>1 DEF Extended
  <2>3. AllSealed(ss) => x.synced = Len(x.frames)
    <3>1. Len(ss) \in 1 .. Len(ss)
      BY <1>2, EmptySeq
    <3>2. QED
      BY <3>1 DEF AllSealed
  <2> HIDE DEF r, x
  <2>4. AllData(r) \in Seq(Frames)
    BY <2>1, AllType
  <2>5. /\ DurableData(x) \in Seq(Frames) /\ WholeData(x) \in Seq(Frames)
        /\ IsPrefix(DurableData(x), WholeData(x))
    BY <2>1, DurablePrefix
  <2>6. IsPrefix(AllData(r) \o DurableData(x), AllData(r) \o WholeData(x))
    BY <2>4, <2>5, PrefixBehind
  <2>7. AllData(r) \o DurableData(x) \in Seq(Frames) /\ AllData(r) \o WholeData(x) \in Seq(Frames)
    BY <2>4, <2>5
  <2>8. AllSealed(ss) => DurableData(x) = WholeData(x)
    BY <2>1, <2>3, SyncedWhole
  <2>9. QED
    BY <2>2, <2>6, <2>7, <2>8
<1>3. QED
  BY <1>1, <1>2

-----------------------------------------------------------------------------
(* The invariant *)

\* Every record is of a record type and has a number given out already.
RecordsNumbered(s) ==
    \A i \in 1 .. Len(s) : s[i].type \in {"data", "snap"} /\ s[i].data \in 1 .. nextId - 1

WalType ==
    /\ segs \in Seq(Segs)
    /\ status \in {"down", "creating", "open", "closed", "failed"}
    /\ op \in {"open", "data", "snap"}
    /\ encCrc \in Seq(Nat)
    /\ encOff \in Nat /\ offset \in Nat /\ nextId \in Nat \ {0} /\ crashes \in Nat
    /\ log \in Seq(Frames) /\ acked \in Seq(Frames)

FlagType == fileOpen \in BOOLEAN /\ saving \in BOOLEAN /\ poisoned \in BOOLEAN

\* What the segments are like in each state of the WAL: only a crash leaves a
\* torn frame, and createSegment works on an empty file behind the old ones.
StatusSound ==
    /\ status \in {"open", "creating"} => segs # <<>>
    /\ status \in {"open", "creating", "closed"} /\ segs # <<>> => SegWhole(LastSeg)
    /\ status = "creating" => LastSeg = EmptySegment /\ (op # "open" => Len(segs) > 1)
    /\ fileOpen => status = "open"

\* The segments hold exactly the log, and what has been acknowledged is fsynced.
LogSound ==
    /\ ListSound(segs)
    /\ log = AllData(segs)
    /\ IsPrefix(acked, AckData(segs))

\* Unless a torn frame has poisoned the encoder, the chain holds over all
\* segments and the encoder goes on with it.
ChainSound ==
    ~poisoned =>
        /\ ListChain(segs)
        /\ status # "failed"
        /\ status = "open" /\ fileOpen => encCrc = RunningCrc(LastSeg.frames, Len(LastSeg.frames))

NumbersSound == RecordsNumbered(log) /\ RecordsNumbered(acked)

Inv ==
    /\ WalType /\ FlagType
    /\ StatusSound
    /\ LogSound
    /\ ChainSound
    /\ NumbersSound

-----------------------------------------------------------------------------
(* What the operations do to one segment *)

\* The chain up to a frame does not depend on what comes behind it.
LEMMA ValidPrefix ==
    ASSUME NEW fr \in Seq(Frames), NEW gr \in Seq(Frames), NEW j \in 1 .. Len(fr), j <= Len(gr),
           \A i \in 1 .. j : gr[i] = fr[i]
    PROVE  FrameValid(fr, j) <=> FrameValid(gr, j)
<1>1. Len(fr) \in Nat /\ Len(gr) \in Nat /\ j \in 1 .. j /\ gr[j] = fr[j]
  OBVIOUS
<1>2. RunningCrc(fr, j - 1) = RunningCrc(gr, j - 1)
  <2>1. CASE j = 1
    BY <2>1 DEF RunningCrc
  <2>2. CASE j # 1
    <3>1. j - 1 \in 1 .. j /\ j - 1 # 0
      BY <2>2
    <3>2. gr[j - 1] = fr[j - 1]
      BY <3>1
    <3>3. QED
      BY <3>1, <3>2 DEF RunningCrc
  <2>3. QED
    BY <2>1, <2>2
<1>3. QED
  BY <1>1, <1>2, Zenon DEF FrameValid

\* A segment that is written and fsynced completely.
LEMMA SegmentSound ==
    ASSUME NEW fr \in Seq(Frames), \A j \in 1 .. Len(fr) : fr[j].form = "whole"
    PROVE  /\ Segment(fr) \in Segs /\ SegSound(Segment(fr)) /\ SegWhole(Segment(fr))
           /\ Segment(fr).frames = fr /\ Segment(fr).synced = Len(fr)
           /\ WholeData(Segment(fr)) = DataFrames(fr) /\ DurableData(Segment(fr)) = DataFrames(fr)
           /\ WholeLen(fr) = Len(fr)
<1> DEFINE x == [frames |-> fr, written |-> Len(fr), synced |-> Len(fr)]
<1>1. Segment(fr) = x
  BY DEF Segment
<1>2. Len(fr) \in Nat
  OBVIOUS
<1>3. x.frames = fr /\ x.written = Len(fr) /\ x.synced = Len(fr)
  OBVIOUS
<1>4. x \in Segs
  BY <1>2 DEF Segs
<1> HIDE DEF x
<1>5. SegWhole(x)
  BY <1>3 DEF SegWhole
<1>6. WholeLen(fr) = Len(fr) /\ WholeData(x) = DataFrames(fr)
  BY <1>3, <1>4, <1>5, WholeAll
<1>7. SegSound(x)
  BY <1>2, <1>3, <1>5, <1>6 DEF SegSound, SegWhole
<1>8. DurableData(x) = DataFrames(fr)
  BY <1>3, <1>4, <1>6, <1>7, SyncedWhole
<1>9. QED
  BY <1>1, <1>3, <1>4, <1>5, <1>6, <1>7, <1>8

\* An empty file.
LEMMA EmptySound ==
    /\ EmptySegment \in Segs /\ SegSound(EmptySegment) /\ SegWhole(EmptySegment)
    /\ EmptySegment.frames = <<>> /\ EmptySegment.synced = Len(EmptySegment.frames)
    /\ EmptySegment.written = 0
    /\ WholeData(EmptySegment) = <<>> /\ DurableData(EmptySegment) = <<>>
    /\ SegChain(EmptySegment)
<1>1. <<>> \in Seq(Frames) /\ Len(<<>>) = 0
  OBVIOUS
<1>2. EmptySegment = Segment(<<>>)
  BY <1>1 DEF EmptySegment, Segment
<1>3. \A j \in 1 .. Len(<<>>) : <<>>[j].form = "whole"
  BY <1>1
<1>4. WholeLen(<<>>) = 0
  BY <1>1 DEF WholeLen
<1>5. EmptySegment.frames = <<>> /\ EmptySegment.written = 0 /\ EmptySegment.synced = 0
  BY DEF EmptySegment
<1>6. SegChain(EmptySegment)
  BY <1>4, <1>5 DEF SegChain
<1>7. QED
  BY <1>1, <1>2, <1>3, <1>5, <1>6, SegmentSound, DataEmpty

\* A file with its checkpoint only.
LEMMA HeaderSound ==
    ASSUME NEW c \in Seq(Nat)
    PROVE  LET x == Segment(<<Frame("crc", 0, c)>>)
           IN  /\ x \in Segs /\ SegSound(x) /\ SegWhole(x) /\ SegChain(x)
               /\ x.frames = <<Frame("crc", 0, c)>> /\ x.synced = Len(x.frames)
               /\ WholeData(x) = <<>> /\ DurableData(x) = <<>>
               /\ RunningCrc(x.frames, Len(x.frames)) = c
<1> DEFINE f == Frame("crc", 0, c)
           fr == <<f>>
           x == Segment(fr)
<1>1. f \in Frames /\ f.type = "crc" /\ f.form = "whole" /\ f.crc = c
  BY DEF Frame, Frames
<1> HIDE DEF f
<1>2. fr \in Seq(Frames) /\ Len(fr) = 1 /\ fr[1] = f /\ fr = Append(<<>>, f) /\ <<>> \in Seq(Frames)
  BY <1>1
<1> HIDE DEF fr
<1>3. \A j \in 1 .. Len(fr) : fr[j].form = "whole"
  BY <1>1, <1>2
<1>4. /\ x \in Segs /\ SegSound(x) /\ SegWhole(x) /\ x.frames = fr /\ x.synced = Len(fr)
      /\ WholeData(x) = DataFrames(fr) /\ DurableData(x) = DataFrames(fr) /\ WholeLen(fr) = Len(fr)
  BY <1>2, <1>3, SegmentSound
<1>5. DataFrames(fr) = <<>>
  BY <1>1, <1>2, DataEmpty, DataAppend
<1>6. SegChain(x)
  BY <1>1, <1>2, <1>4 DEF SegChain, FrameValid
<1>7. RunningCrc(fr, Len(fr)) = c
  BY <1>1, <1>2 DEF RunningCrc
<1>8. QED
  BY <1>4, <1>5, <1>6, <1>7 DEF fr, f

\* What Encode of a record makes of a segment of which w frames have left the
\* buffer then.
Encoded(seg, type, id, c, w) ==
    LET f == Frame(type, id, Append(c, id))
        x == [seg EXCEPT !.frames = Append(@, f), !.written = w]
    IN  /\ x \in Segs /\ SegSound(x) /\ SegWhole(x) /\ f \in Frames
        /\ WholeData(x) = Append(WholeData(seg), f)
        /\ DurableData(x) = DurableData(seg)
        /\ RunningCrc(x.frames, Len(x.frames)) = Append(c, id)
        /\ SegChain(seg) /\ c = RunningCrc(seg.frames, Len(seg.frames)) => SegChain(x)

\* A record encoded behind the frames of a segment.
LEMMA EncodeSound ==
    ASSUME NEW seg \in Segs, SegSound(seg), SegWhole(seg),
           NEW type \in {"data", "snap"}, NEW id \in Nat, NEW c \in Seq(Nat),
           NEW w \in {seg.written, Len(seg.frames), Len(seg.frames) + 1}
    PROVE  Encoded(seg, type, id, c, w)
<1> DEFINE f == Frame(type, id, Append(c, id))
           fr == seg.frames
           gr == Append(fr, f)
           x == [seg EXCEPT !.frames = gr, !.written = w]
<1>1. /\ fr \in Seq(Frames) /\ Len(fr) \in Nat /\ seg.written \in Nat /\ seg.synced \in Nat
      /\ seg.synced <= seg.written /\ seg.written <= Len(fr)
  BY SegParts DEF SegSound
<1>2. /\ f \in Frames /\ f.type # "crc" /\ f.form = "whole" /\ f.crc = Append(c, id) /\ f.data = id
  BY DEF Frame, Frames
<1>3. \A j \in 1 .. Len(fr) : fr[j].form = "whole"
  BY DEF SegWhole
<1>4. x.frames = gr /\ x.written = w /\ x.synced = seg.synced
  BY DEF Segs
<1> HIDE DEF f
<1>5. /\ gr \in Seq(Frames) /\ Len(gr) = Len(fr) + 1 /\ gr[Len(gr)] = f
      /\ \A j \in 1 .. Len(fr) : gr[j] = fr[j]
  BY <1>1, <1>2, AppendProperties
<1>6. x \in Segs
  <2>1. w \in Nat
    BY <1>1
  <2> HIDE DEF gr
  <2>2. QED
    BY <1>5, <2>1 DEF Segs
<1>7. DataFrames(gr) = Append(DataFrames(fr), f)
  BY <1>1, <1>2, DataAppend
<1>8. SubSeq(gr, 1, seg.synced) = SubSeq(fr, 1, seg.synced)
  BY <1>1, <1>2
<1> HIDE DEF x, gr, fr
<1>9. ASSUME NEW j \in 1 .. Len(gr) PROVE j = Len(gr) \/ (j \in 1 .. Len(fr) /\ gr[j] = fr[j])
  BY <1>1, <1>5
<1>10. SegWhole(x)
  BY <1>2, <1>3, <1>4, <1>5, <1>9 DEF SegWhole
<1>11. WholeLen(gr) = Len(gr) /\ WholeData(x) = DataFrames(gr)
  BY <1>4, <1>6, <1>10, WholeAll
<1>12. SegSound(x)
  <2>1. w \in Nat /\ seg.synced <= w /\ w <= Len(gr) /\ seg.synced <= Len(gr)
    BY <1>1, <1>5 DEF fr
  <2>2. QED
    BY <1>4, <1>10, <1>11, <2>1 DEF SegSound, SegWhole
<1>13. WholeData(seg) = DataFrames(fr) /\ WholeLen(fr) = Len(fr)
  BY WholeAll DEF fr
<1>14. RunningCrc(gr, Len(gr)) = Append(c, id)
  BY <1>1, <1>2, <1>5 DEF RunningCrc
<1>15. ASSUME SegChain(seg), c = RunningCrc(fr, Len(fr)) PROVE SegChain(x)
  <2>1. \A j \in 1 .. Len(fr) : FrameValid(fr, j)
    BY <1>13, <1>15 DEF SegChain, fr
  <2>2. ASSUME NEW j \in 1 .. Len(gr) PROVE FrameValid(gr, j)
    <3>1. CASE j \in 1 .. Len(fr)
      <4>1. j <= Len(gr) /\ \A i \in 1 .. j : gr[i] = fr[i]
        BY <1>1, <1>5, <3>1
      <4>2. QED
        BY <1>1, <1>5, <2>1, <3>1, <4>1, ValidPrefix
    <3>2. CASE j = Len(gr)
      <4>1. j - 1 = Len(fr) /\ gr[j] = f
        BY <1>1, <1>5, <3>2
      <4>2. RunningCrc(gr, Len(fr)) = RunningCrc(fr, Len(fr))
        <5>1. Len(fr) # 0 => gr[Len(fr)] = fr[Len(fr)]
          BY <1>1, <1>5
        <5>2. QED
          BY <5>1 DEF RunningCrc
      <4>3. gr[j].crc = Append(RunningCrc(gr, j - 1), gr[j].data)
        BY <1>2, <1>15, <4>1, <4>2
      <4>4. QED
        BY <1>2, <4>1, <4>3 DEF FrameValid
    <3>3. QED
      BY <1>9, <3>1, <3>2
  <2>3. QED
    BY <1>4, <1>11, <2>2 DEF SegChain
<1>16. DurableData(x) = DurableData(seg)
  BY <1>4, <1>8 DEF DurableData, fr
<1>17. QED
  BY <1>2, <1>4, <1>6, <1>7, <1>10, <1>11, <1>12, <1>13, <1>14, <1>15, <1>16 DEF x, gr, fr, f, Encoded

\* The buffer is written out: nothing changes but what has left it.
LEMMA FlushSound ==
    ASSUME NEW seg \in Segs, SegSound(seg), SegWhole(seg)
    PROVE  LET x == [seg EXCEPT !.written = Len(seg.frames)]
           IN  /\ x \in Segs /\ SegSound(x) /\ SegWhole(x) /\ x.frames = seg.frames
               /\ WholeData(x) = WholeData(seg) /\ DurableData(x) = DurableData(seg)
               /\ SegChain(seg) => SegChain(x)
<1> DEFINE x == [seg EXCEPT !.written = Len(seg.frames)]
<1>1. x \in Segs /\ x.frames = seg.frames /\ x.synced = seg.synced /\ x.written = Len(seg.frames)
  BY SegParts DEF Segs
<1>2. /\ Len(seg.frames) \in Nat /\ seg.synced \in Nat /\ seg.written \in Nat
      /\ seg.synced <= seg.written /\ seg.written <= Len(seg.frames)
  BY SegParts DEF SegSound
<1> HIDE DEF x
<1>3. SegSound(x)
  <2>1. x.synced <= x.written /\ x.written <= Len(x.frames)
    BY <1>1, <1>2
  <2>2. QED
    BY <1>1, <2>1 DEF SegSound
<1>4. QED
  BY <1>1, <1>3 DEF SegWhole, WholeData, DurableData, SegChain, x

\* The first k frames of a run of them.
LEMMA CutFrames ==
    ASSUME NEW fr \in Seq(Frames), NEW k \in 0 .. Len(fr)
    PROVE  /\ SubSeq(fr, 1, k) \in Seq(Frames) /\ Len(SubSeq(fr, 1, k)) = k
           /\ \A j \in 1 .. k : SubSeq(fr, 1, k)[j] = fr[j]
           /\ \A m \in 0 .. k : SubSeq(SubSeq(fr, 1, k), 1, m) = SubSeq(fr, 1, m)
<1> DEFINE gr == SubSeq(fr, 1, k)
<1>1. gr \in Seq(Frames) /\ Len(gr) = k
  OBVIOUS
<1>2. \A j \in 1 .. k : gr[j] = fr[j]
  OBVIOUS
<1>3. ASSUME NEW m \in 0 .. k PROVE SubSeq(gr, 1, m) = SubSeq(fr, 1, m)
  OBVIOUS
<1>4. QED
  BY <1>1, <1>2, <1>3

\* openSegment: the torn frame goes, and nothing else.
LEMMA RecoverSound ==
    ASSUME NEW seg \in Segs, SegSound(seg), ~Corrupt(seg.frames)
    PROVE  LET x == [seg EXCEPT !.frames = ValidFrames(@), !.written = ValidLen(seg.frames)]
           IN  /\ x \in Segs /\ SegSound(x) /\ SegWhole(x) /\ SegChain(x)
               /\ WholeData(x) = WholeData(seg) /\ DurableData(x) = DurableData(seg)
               /\ LastCRC(seg.frames) \in Seq(Nat)
               /\ ~TornParses(seg.frames) => LastCRC(seg.frames) = RunningCrc(x.frames, Len(x.frames))
<1> DEFINE fr == seg.frames
           n == ValidLen(fr)
           gr == SubSeq(fr, 1, n)
           x == [seg EXCEPT !.frames = gr, !.written = n]
<1>1. /\ fr \in Seq(Frames) /\ Len(fr) \in Nat /\ seg.synced \in Nat /\ seg.written \in Nat
      /\ seg.synced <= WholeLen(fr)
      /\ \A j \in 1 .. Len(fr) : j < Len(fr) => fr[j].form = "whole"
  BY SegParts DEF SegSound
<1>2. n = WholeLen(fr) /\ SegChain(seg)
  BY CleanWhole
<1>3. ValidFrames(fr) = gr
  BY DEF ValidFrames
<1>4. LastCRC(fr) = IF TornParses(fr) THEN Append(RunningCrc(fr, n), 0) ELSE RunningCrc(fr, n)
  BY Zenon DEF LastCRC
<1> HIDE DEF fr
<1>5. n \in 0 .. Len(fr) /\ \A j \in 1 .. n : FrameValid(fr, j)
  BY <1>1, ValidLenExact
<1> HIDE DEF n
<1>6. /\ gr \in Seq(Frames) /\ Len(gr) = n
      /\ \A j \in 1 .. n : gr[j] = fr[j]
      /\ \A m \in 0 .. n : SubSeq(gr, 1, m) = SubSeq(fr, 1, m)
  BY <1>1, <1>5, CutFrames
<1>7. x.frames = gr /\ x.written = n /\ x.synced = seg.synced
  BY DEF Segs
<1>8. x \in Segs
  <2>1. n \in Nat
    BY <1>5
  <2> HIDE DEF gr
  <2>2. QED
    BY <1>6, <2>1 DEF Segs
<1> HIDE DEF gr, x
<1>9. \A j \in 1 .. n : gr[j].form = "whole"
  BY <1>5, <1>6 DEF FrameValid
<1>10. SegWhole(x)
  BY <1>6, <1>7, <1>9 DEF SegWhole
<1>11. WholeLen(gr) = n /\ WholeData(x) = DataFrames(gr)
  BY <1>6, <1>7, <1>8, <1>10, WholeAll
<1>12. SegSound(x)
  <2>1. seg.synced <= n
    BY <1>1, <1>2
  <2>2. QED
    BY <1>5, <1>6, <1>7, <1>10, <1>11, <2>1 DEF SegSound, SegWhole
<1>13. WholeData(x) = WholeData(seg)
  <2>1. n \in 0 .. n
    BY <1>5
  <2>2. SubSeq(gr, 1, n) = SubSeq(fr, 1, n)
    BY <1>6, <2>1
  <2>3. QED
    BY <1>2, <1>7, <1>11, <2>2 DEF WholeData, fr
<1>14. DurableData(x) = DurableData(seg)
  <2>1. seg.synced \in 0 .. n
    BY <1>1, <1>2, <1>5
  <2>2. QED
    BY <1>6, <1>7, <2>1 DEF DurableData, fr
<1>15. SegChain(x)
  <2>1. ASSUME NEW j \in 1 .. n PROVE FrameValid(gr, j)
    <3>1. j \in 1 .. Len(fr) /\ j <= Len(gr) /\ \A i \in 1 .. j : gr[i] = fr[i]
      BY <1>1, <1>5, <1>6
    <3>2. QED
      BY <1>1, <1>5, <1>6, <3>1, ValidPrefix
  <2>2. QED
    BY <1>7, <1>11, <2>1 DEF SegChain
<1>16. RunningCrc(gr, n) = RunningCrc(fr, n) /\ RunningCrc(fr, n) \in Seq(Nat)
  <2>1. CASE n = 0
    BY <2>1 DEF RunningCrc
  <2>2. CASE n # 0
    <3>1. n \in 1 .. n /\ n \in 1 .. Len(fr)
      BY <1>1, <1>5, <2>2
    <3>2. gr[n] = fr[n] /\ fr[n] \in Frames
      BY <1>1, <1>6, <3>1, ElementOfSeq
    <3>3. fr[n].crc \in Seq(Nat)
      BY <3>2 DEF Frames
    <3>4. QED
      BY <2>2, <3>2, <3>3 DEF RunningCrc
  <2>3. QED
    BY <2>1, <2>2
<1>17. LastCRC(fr) \in Seq(Nat)
  BY <1>4, <1>16
<1>18. ~TornParses(fr) => LastCRC(fr) = RunningCrc(x.frames, Len(x.frames))
  BY <1>4, <1>6, <1>7, <1>16
<1>19. [seg EXCEPT !.frames = ValidFrames(@), !.written = ValidLen(seg.frames)] = x
  BY <1>3 DEF x, gr, n, fr
<1>20. QED
  BY <1>8, <1>10, <1>12, <1>13, <1>14, <1>15, <1>17, <1>18, <1>19 DEF fr

\* A crash: the first k frames stay, with a torn one behind them or not.
LEMMA KeepSound ==
    ASSUME NEW seg \in Segs, SegWhole(seg), NEW k \in 0 .. Len(seg.frames), NEW s \in 0 .. k,
           NEW tail \in Torn(seg.frames, k)
    PROVE  LET kept == SubSeq(seg.frames, 1, k) \o tail
               x == [frames |-> kept, written |-> Len(kept), synced |-> s]
           IN  /\ x \in Segs /\ SegSound(x)
               /\ WholeData(x) = DataFrames(SubSeq(seg.frames, 1, k))
               /\ DurableData(x) = DataFrames(SubSeq(seg.frames, 1, s))
               /\ SegChain(seg) => SegChain(x)
<1> DEFINE fr == seg.frames
           cut == SubSeq(fr, 1, k)
           kept == cut \o tail
           x == [frames |-> kept, written |-> Len(kept), synced |-> s]
<1>1. fr \in Seq(Frames) /\ Len(fr) \in Nat /\ \A j \in 1 .. Len(fr) : fr[j].form = "whole"
  BY SegParts DEF SegWhole
<1>2. \/ tail = <<>>
      \/ \E form \in {"short", "zeroed"} : k # Len(fr) /\ tail = <<[fr[k + 1] EXCEPT !.form = form]>>
  BY DEF Torn
<1> HIDE DEF fr
<1>3. /\ cut \in Seq(Frames) /\ Len(cut) = k
      /\ \A j \in 1 .. k : cut[j] = fr[j]
      /\ \A m \in 0 .. k : SubSeq(cut, 1, m) = SubSeq(fr, 1, m)
  BY <1>1, CutFrames DEF fr
<1>4. tail = <<>> \/ \E g \in Frames : tail = <<g>> /\ g.form # "whole"
  <2>1. ASSUME NEW form \in {"short", "zeroed"}, k # Len(fr), tail = <<[fr[k + 1] EXCEPT !.form = form]>>
        PROVE  \E g \in Frames : tail = <<g>> /\ g.form # "whole"
    <3>1. fr[k + 1] \in Frames
      <4>1. k + 1 \in 1 .. Len(fr)
        BY <1>1, <2>1 DEF fr
      <4>2. QED
        BY <1>1, <4>1, ElementOfSeq
    <3> DEFINE h == fr[k + 1]
               g == [h EXCEPT !.form = form]
    <3> HIDE DEF h
    <3>2. h \in Frames
      BY <3>1 DEF h
    <3>3. g \in Frames /\ g.form # "whole"
      BY <3>2 DEF Frames
    <3>4. tail = <<g>>
      BY <2>1 DEF h
    <3>5. QED
      BY <3>3, <3>4
  <2>2. QED
    BY <1>2, <2>1
<1>5. k \in Nat /\ s \in Nat /\ s <= k
  BY <1>1 DEF fr
<1> HIDE DEF cut
<1>6. /\ kept \in Seq(Frames) /\ Len(kept) \in Nat /\ WholeLen(kept) = k /\ k <= Len(kept)
      /\ \A j \in 1 .. k : kept[j] = fr[j]
      /\ \A j \in 1 .. Len(kept) : j < Len(kept) => j \in 1 .. k
      /\ \A m \in 0 .. k : SubSeq(kept, 1, m) = SubSeq(fr, 1, m)
  <2>1. CASE tail = <<>>
    <3>1. kept = cut
      BY <1>3, <2>1
    <3> HIDE DEF kept
    <3>2. kept # <<>> => kept[Len(kept)].form = "whole"
      <4>1. kept # <<>> => k \in 1 .. k /\ k \in 1 .. Len(fr)
        BY <1>1, <1>3, <1>5, <3>1, EmptySeq DEF fr
      <4>2. QED
        BY <1>1, <1>3, <3>1, <4>1
    <3>3. WholeLen(kept) = k
      BY <1>3, <3>1, <3>2 DEF WholeLen
    <3>4. QED
      BY <1>3, <1>5, <3>1, <3>3
  <2>2. ASSUME NEW g \in Frames, tail = <<g>>, g.form # "whole"
        PROVE  /\ kept \in Seq(Frames) /\ Len(kept) \in Nat /\ WholeLen(kept) = k /\ k <= Len(kept)
               /\ \A j \in 1 .. k : kept[j] = fr[j]
               /\ \A j \in 1 .. Len(kept) : j < Len(kept) => j \in 1 .. k
               /\ \A m \in 0 .. k : SubSeq(kept, 1, m) = SubSeq(fr, 1, m)
    <3>1. kept = Append(cut, g)
      BY <1>3, <2>2
    <3>2. /\ kept \in Seq(Frames) /\ Len(kept) = k + 1 /\ kept[k + 1] = g /\ kept # <<>>
          /\ \A j \in 1 .. k : kept[j] = cut[j]
      <4> HIDE DEF kept
      <4>1. QED
        BY <1>3, <2>2, <3>1, AppendProperties
    <3>3. ASSUME NEW m \in 0 .. k PROVE SubSeq(kept, 1, m) = SubSeq(cut, 1, m)
      BY <1>3, <1>5, <2>2, <3>1
    <3> HIDE DEF kept
    <3>4. WholeLen(kept) = k
      BY <1>5, <2>2, <3>2 DEF WholeLen
    <3>5. QED
      BY <1>3, <1>5, <3>2, <3>3, <3>4
  <2>3. QED
    BY <1>4, <2>1, <2>2
<1> HIDE DEF kept
<1>7. x \in Segs /\ x.frames = kept /\ x.written = Len(kept) /\ x.synced = s
  BY <1>5, <1>6 DEF Segs
<1> HIDE DEF x
<1>8. \A j \in 1 .. k : j \in 1 .. Len(fr)
  BY <1>1, <1>5 DEF fr
<1>9. SegSound(x)
  <2>1. s <= Len(kept)
    BY <1>5, <1>6
  <2>2. \A j \in 1 .. Len(kept) : j < Len(kept) => kept[j].form = "whole"
    BY <1>1, <1>6, <1>8
  <2>3. QED
    BY <1>5, <1>6, <1>7, <2>1, <2>2 DEF SegSound
<1>10. WholeData(x) = DataFrames(SubSeq(fr, 1, k)) /\ DurableData(x) = DataFrames(SubSeq(fr, 1, s))
  <2>1. k \in 0 .. k
    BY <1>5
  <2>2. QED
    BY <1>6, <1>7, <2>1 DEF WholeData, DurableData
<1>11. ASSUME SegChain(seg) PROVE SegChain(x)
  <2>1. \A j \in 1 .. Len(fr) : FrameValid(fr, j)
    BY <1>11, WholeAll DEF SegChain, fr
  <2>2. ASSUME NEW j \in 1 .. k PROVE FrameValid(kept, j)
    <3>1. j \in 1 .. Len(fr) /\ j <= Len(kept) /\ \A i \in 1 .. j : kept[i] = fr[i]
      BY <1>5, <1>6, <1>8
    <3>2. QED
      BY <1>1, <1>6, <2>1, <3>1, ValidPrefix
  <2>3. QED
    BY <1>6, <1>7, <2>2 DEF SegChain
<1>12. QED
  BY <1>7, <1>9, <1>10, <1>11 DEF x, kept, cut, fr
\* flush and fsync: the segment is as it was, and completely on disk.
LEMMA DurableSound ==
    ASSUME NEW seg \in Segs, SegSound(seg), SegWhole(seg)
    PROVE  /\ Durable(seg) \in Segs /\ SegSound(Durable(seg)) /\ SegWhole(Durable(seg))
           /\ Durable(seg).frames = seg.frames /\ Durable(seg).synced = Len(seg.frames)
           /\ WholeData(Durable(seg)) = WholeData(seg) /\ DurableData(Durable(seg)) = WholeData(seg)
           /\ SegChain(seg) => SegChain(Durable(seg))
<1>1. seg.frames \in Seq(Frames) /\ \A j \in 1 .. Len(seg.frames) : seg.frames[j].form = "whole"
  BY SegParts DEF SegWhole
<1>2. WholeData(seg) = DataFrames(seg.frames)
  BY WholeAll
<1> DEFINE fr == seg.frames
<1> HIDE DEF fr
<1>3. /\ Segment(fr) \in Segs /\ SegSound(Segment(fr)) /\ SegWhole(Segment(fr))
      /\ Segment(fr).frames = fr /\ Segment(fr).synced = Len(fr)
      /\ WholeData(Segment(fr)) = DataFrames(fr) /\ DurableData(Segment(fr)) = DataFrames(fr)
  BY <1>1, SegmentSound DEF fr
<1>4. SegChain(seg) => SegChain(Segment(fr))
  BY <1>3 DEF SegChain, fr
<1>5. Durable(seg) = Segment(fr)
  BY DEF Durable, fr
<1>6. QED
  BY <1>2, <1>3, <1>4, <1>5 DEF fr

-----------------------------------------------------------------------------
(* Steps *)

\* While the log is open it only grows; going down takes away a tail at most.
LogStep ==
    /\ status = "open" /\ status' # "down" => IsPrefix(log, log')
    /\ status' = "down" => IsPrefix(log', log)

\* What Inv says of the last segment and the ones before it.
LEMMA LastFacts ==
    ASSUME Inv, segs # <<>>
    PROVE  /\ segs \in Seq(Segs) /\ ListSound(segs) /\ Front(segs) \in Seq(Segs) /\ LastSeg \in Segs
           /\ ListSound(Front(segs)) /\ AllSealed(Front(segs)) /\ SegSound(LastSeg)
           /\ ListChain(segs) => ListChain(Front(segs)) /\ SegChain(LastSeg)
           /\ AllData(Front(segs)) \in Seq(Frames)
           /\ AllData(segs) = AllData(Front(segs)) \o WholeData(LastSeg)
           /\ AckData(segs) = AllData(Front(segs)) \o DurableData(LastSeg)
           /\ WholeData(LastSeg) \in Seq(Frames) /\ DurableData(LastSeg) \in Seq(Frames)
           /\ Len(segs) \in Nat \ {0}
<1>1. segs \in Seq(Segs) /\ ListSound(segs)
  BY DEF Inv, WalType, LogSound
<1>2. /\ Front(segs) \in Seq(Segs) /\ ListSound(Front(segs)) /\ AllSealed(Front(segs))
      /\ ListChain(segs) => ListChain(Front(segs)) /\ SegChain(LastSeg)
      /\ LastSeg \in Segs /\ SegSound(LastSeg)
      /\ Extended(segs, Front(segs), LastSeg)
  BY <1>1, ListFront DEF LastSeg
<1>3. AllData(Front(segs)) \in Seq(Frames)
  BY <1>2, AllType
<1>4. WholeData(LastSeg) \in Seq(Frames) /\ DurableData(LastSeg) \in Seq(Frames)
  BY <1>2, DurablePrefix
<1>5. Len(segs) \in Nat \ {0}
  BY <1>1, EmptySeq
<1>6. QED
  BY <1>1, <1>2, <1>3, <1>4, <1>5 DEF Extended

\* The last segment is replaced by x.
LEMMA ReplaceStep ==
    ASSUME Inv, segs # <<>>, NEW x \in Segs, SegSound(x), segs' = [segs EXCEPT ![Len(segs)] = x]
    PROVE  /\ segs' \in Seq(Segs) /\ segs' # <<>> /\ Len(segs') = Len(segs)
           /\ segs'[Len(segs')] = x
           /\ ListSound(segs')
           /\ AllData(segs') = AllData(Front(segs)) \o WholeData(x)
           /\ AckData(segs') = AllData(Front(segs)) \o DurableData(x)
           /\ ListChain(segs) /\ SegChain(x) => ListChain(segs')
<1>1. /\ segs \in Seq(Segs) /\ ListSound(segs) /\ Len(segs) \in Nat \ {0}
      /\ ListChain(segs) => ListChain(Front(segs))
  BY LastFacts
<1>2. Extended([segs EXCEPT ![Len(segs)] = x], Front(segs), x)
  BY <1>1, ListReplace
<1>3. Len([segs EXCEPT ![Len(segs)] = x]) = Len(segs)
  BY <1>1, ExceptSeq
<1>4. QED
  BY <1>1, <1>2, <1>3 DEF Extended

\* A step that leaves the log as it is keeps the records numbered, and the
\* acknowledged ones fsynced when what is fsynced does not get less.
LEMMA SameLog ==
    ASSUME Inv, UNCHANGED <<log, nextId>>, ListSound(segs'), segs' \in Seq(Segs),
           AllData(segs') = AllData(segs),
           \/ acked' = acked /\ IsPrefix(AckData(segs), AckData(segs'))
           \/ acked' = log /\ AckData(segs') = AllData(segs')
    PROVE  LogSound' /\ NumbersSound' /\ LogStep /\ acked' \in Seq(Frames)
<1>1. /\ log \in Seq(Frames) /\ acked \in Seq(Frames) /\ segs \in Seq(Segs)
      /\ ListSound(segs) /\ log = AllData(segs) /\ IsPrefix(acked, AckData(segs))
      /\ RecordsNumbered(log) /\ RecordsNumbered(acked)
  BY DEF Inv, WalType, LogSound, NumbersSound
<1>2. AckData(segs) \in Seq(Frames) /\ AckData(segs') \in Seq(Frames)
  BY <1>1, AckPrefix
<1>3. IsPrefix(log, log)
  BY <1>1, PrefixConcat
<1>4. acked' \in Seq(Frames) /\ IsPrefix(acked', AckData(segs'))
  <2>1. CASE acked' = acked /\ IsPrefix(AckData(segs), AckData(segs'))
    BY <1>1, <1>2, <2>1, PrefixTrans
  <2>2. CASE acked' = log /\ AckData(segs') = AllData(segs')
    BY <1>1, <1>3, <2>2
  <2>3. QED
    BY <2>1, <2>2
<1>5. LogSound'
  BY <1>1, <1>4 DEF LogSound
<1>6. NumbersSound'
  <2>1. log' = log /\ nextId' = nextId /\ acked' \in {acked, log}
    OBVIOUS
  <2>2. QED
    BY <1>1, <2>1 DEF NumbersSound, RecordsNumbered
<1>7. LogStep
  BY <1>3 DEF LogStep
<1>8. QED
  BY <1>4, <1>5, <1>6, <1>7
\* The last segment of an open WAL is fsynced (syncLocked).
LEMMA SyncedStep ==
    ASSUME Inv, segs # <<>>, SegWhole(LastSeg), NEW tt, tt = SyncedSegs
    PROVE  /\ tt \in Seq(Segs) /\ tt # <<>> /\ Len(tt) = Len(segs)
           /\ SegWhole(tt[Len(tt)]) /\ tt[Len(tt)].frames = LastSeg.frames
           /\ ListSound(tt) /\ AllSealed(tt)
           /\ AllData(tt) = AllData(segs) /\ AckData(tt) = AllData(segs)
           /\ ListChain(segs) => ListChain(tt)
<1> DEFINE x == Durable(LastSeg)
           r == Front(segs)
<1>1. /\ segs \in Seq(Segs) /\ ListSound(segs) /\ Len(segs) \in Nat \ {0}
      /\ LastSeg \in Segs /\ SegSound(LastSeg) /\ AllSealed(r)
      /\ AllData(segs) = AllData(r) \o WholeData(LastSeg)
      /\ ListChain(segs) => ListChain(r) /\ SegChain(LastSeg)
  BY LastFacts
<1>2. /\ x \in Segs /\ SegSound(x) /\ SegWhole(x)
      /\ x.frames = LastSeg.frames /\ x.synced = Len(x.frames)
      /\ WholeData(x) = WholeData(LastSeg) /\ DurableData(x) = WholeData(LastSeg)
      /\ SegChain(LastSeg) => SegChain(x)
  BY <1>1, DurableSound
<1>3. tt = [segs EXCEPT ![Len(segs)] = x]
  BY DEF SyncedSegs, LastSeg
<1> HIDE DEF x
<1>4. Extended(tt, r, x)
  BY <1>1, <1>2, <1>3, ListReplace
<1>5. Len(tt) = Len(segs)
  BY <1>1, <1>2, <1>3, ExceptSeq
<1>6. AllSealed(tt)
  <2>1. /\ tt \in Seq(Segs) /\ tt[Len(tt)] = x /\ Front(tt) = r /\ tt # <<>>
    BY <1>4 DEF Extended
  <2> DEFINE q == Front(tt)
  <2> HIDE DEF r, q
  <2>2. Len(q) = Len(tt) - 1 /\ Len(tt) \in Nat \ {0} /\ \A i \in 1 .. Len(q) : q[i] = tt[i]
    BY <2>1, FrontLast DEF q
  <2>3. \A i \in 1 .. Len(q) : q[i].synced = Len(q[i].frames)
    BY <1>1, <2>1 DEF AllSealed, q
  <2>4. ASSUME NEW i \in 1 .. Len(tt) PROVE tt[i].synced = Len(tt[i].frames)
    <3>1. CASE i = Len(tt)
      BY <1>2, <2>1, <3>1
    <3>2. CASE i # Len(tt)
      <4>1. i \in 1 .. Len(q)
        BY <2>2, <3>2
      <4>2. QED
        BY <2>2, <2>3, <4>1
    <3>3. QED
      BY <3>1, <3>2
  <2>5. QED
    BY <2>4 DEF AllSealed
<1>7. QED
  BY <1>1, <1>2, <1>4, <1>5, <1>6 DEF Extended

\* Sync, and the second half of SaveSnapshot.
LEMMA SyncInv ==
    ASSUME Inv, Sync
    PROVE  Inv' /\ LogStep
<1>1. segs # <<>> /\ SegWhole(LastSeg) /\ status = "open" /\ fileOpen
  BY DEF Sync, Inv, StatusSound
<1>2. /\ segs' \in Seq(Segs) /\ segs' # <<>>
      /\ SegWhole(segs'[Len(segs')]) /\ segs'[Len(segs')].frames = LastSeg.frames
      /\ ListSound(segs') /\ AllSealed(segs')
      /\ AllData(segs') = AllData(segs) /\ AckData(segs') = AllData(segs)
      /\ ListChain(segs) => ListChain(segs')
  BY <1>1, SyncedStep DEF Sync
<1>3. LogSound' /\ NumbersSound' /\ LogStep /\ acked' \in Seq(Frames)
  <2>1. UNCHANGED <<log, nextId>> /\ acked' = log
    BY DEF Sync
  <2>2. QED
    BY <1>2, <2>1, SameLog
<1>4. WalType'
  BY <1>2, <1>3 DEF Inv, WalType, Sync
<1>5. FlagType'
  BY Zenon DEF Inv, FlagType, Sync
<1>6. StatusSound'
  BY <1>1, <1>2, Zenon DEF StatusSound, Sync, LastSeg
<1>7. ChainSound'
  <2>1. poisoned' = poisoned /\ status' = status /\ encCrc' = encCrc
    BY DEF Sync
  <2>2. ~poisoned => ListChain(segs) /\ encCrc = RunningCrc(LastSeg.frames, Len(LastSeg.frames))
    BY <1>1 DEF Inv, ChainSound
  <2>3. QED
    BY <1>1, <1>2, <2>1, <2>2 DEF ChainSound, LastSeg
<1>8. QED
  BY <1>3, <1>4, <1>5, <1>6, <1>7 DEF Inv

\* Close syncs as well, unless a failed rotation has closed the file before it.
LEMMA CloseInv ==
    ASSUME Inv, Close
    PROVE  Inv' /\ LogStep
<1>1. /\ segs # <<>> /\ SegWhole(LastSeg) /\ status = "open" /\ status' = "closed"
      /\ fileOpen' = FALSE /\ saving' = FALSE /\ UNCHANGED <<log, nextId>>
      /\ UNCHANGED <<op, encCrc, encOff, offset, poisoned, crashes>>
  BY DEF Close, Inv, StatusSound
<1>2. /\ segs' \in Seq(Segs) /\ segs' # <<>>
      /\ SegWhole(segs'[Len(segs')])
      /\ ListSound(segs')
      /\ AllData(segs') = AllData(segs)
      /\ ListChain(segs) => ListChain(segs')
      /\ \/ acked' = acked /\ IsPrefix(AckData(segs), AckData(segs'))
         \/ acked' = log /\ AckData(segs') = AllData(segs')
  <2>1. CASE fileOpen
    <3>1. segs' = SyncedSegs /\ acked' = log
      BY <2>1 DEF Close
    <3>2. QED
      BY <1>1, <3>1, SyncedStep
  <2>2. CASE ~fileOpen
    <3>1. segs' = segs /\ acked' = acked
      BY <2>2 DEF Close
    <3>2. segs \in Seq(Segs) /\ ListSound(segs)
      BY DEF Inv, WalType, LogSound
    <3>3. AckData(segs) \in Seq(Frames)
      BY <3>2, AckPrefix
    <3>4. IsPrefix(AckData(segs), AckData(segs))
      BY <3>3, PrefixConcat
    <3>5. QED
      BY <1>1, <3>1, <3>2, <3>4 DEF LastSeg
  <2>3. QED
    BY <2>1, <2>2
<1>3. LogSound' /\ NumbersSound' /\ LogStep /\ acked' \in Seq(Frames)
  BY <1>1, <1>2, SameLog
<1>4. WalType'
  BY <1>1, <1>2, <1>3 DEF Inv, WalType
<1>5. FlagType'
  BY <1>1, Zenon DEF Inv, FlagType
<1>6. StatusSound'
  BY <1>1, <1>2 DEF StatusSound, LastSeg
<1>7. ChainSound'
  BY <1>1, <1>2 DEF Inv, ChainSound
<1>8. QED
  BY <1>3, <1>4, <1>5, <1>6, <1>7 DEF Inv

\* ReadAll flushes.
LEMMA ReadAllInv ==
    ASSUME Inv, ReadAll
    PROVE  Inv' /\ LogStep
<1> DEFINE x == [LastSeg EXCEPT !.written = Len(LastSeg.frames)]
<1>1. /\ segs # <<>> /\ SegWhole(LastSeg) /\ status = "open"
      /\ UNCHANGED <<log, nextId, acked>>
      /\ UNCHANGED <<status, op, fileOpen, encCrc, encOff, offset, saving, poisoned, crashes>>
  BY DEF ReadAll, Inv, StatusSound
<1>2. /\ LastSeg \in Segs /\ SegSound(LastSeg)
      /\ AllData(segs) = AllData(Front(segs)) \o WholeData(LastSeg)
      /\ AckData(segs) = AllData(Front(segs)) \o DurableData(LastSeg)
      /\ ListChain(segs) => SegChain(LastSeg)
      /\ ListSound(segs) /\ segs \in Seq(Segs)
  BY <1>1, LastFacts
<1>3. /\ x \in Segs /\ SegSound(x) /\ SegWhole(x) /\ x.frames = LastSeg.frames
      /\ WholeData(x) = WholeData(LastSeg) /\ DurableData(x) = DurableData(LastSeg)
      /\ SegChain(LastSeg) => SegChain(x)
  BY <1>1, <1>2, FlushSound
<1>4. segs' = [segs EXCEPT ![Len(segs)] = x]
  BY DEF ReadAll, LastSeg
<1> HIDE DEF x
<1>5. /\ segs' \in Seq(Segs) /\ segs' # <<>> /\ segs'[Len(segs')] = x
      /\ ListSound(segs') /\ AllData(segs') = AllData(segs) /\ AckData(segs') = AckData(segs)
      /\ ListChain(segs) => ListChain(segs')
  BY <1>1, <1>2, <1>3, <1>4, ReplaceStep
<1>6. LogSound' /\ NumbersSound' /\ LogStep /\ acked' \in Seq(Frames)
  <2>1. AckData(segs) \in Seq(Frames)
    BY <1>2, AckPrefix
  <2>2. IsPrefix(AckData(segs), AckData(segs))
    BY <2>1, PrefixConcat
  <2>3. QED
    BY <1>1, <1>5, <2>2, SameLog
<1>7. WalType'
  BY <1>1, <1>5, <1>6 DEF Inv, WalType
<1>8. FlagType'
  BY <1>1, Zenon DEF Inv, FlagType
<1>9. StatusSound'
  BY <1>1, <1>3, <1>5 DEF StatusSound, LastSeg
<1>10. ChainSound'
  <2>1. ~poisoned =>
          /\ ListChain(segs)
          /\ fileOpen => encCrc = RunningCrc(LastSeg.frames, Len(LastSeg.frames))
    BY <1>1 DEF Inv, ChainSound
  <2>2. QED
    BY <1>1, <1>3, <1>5, <2>1 DEF ChainSound, LastSeg
<1>11. QED
  BY <1>6, <1>7, <1>8, <1>9, <1>10 DEF Inv

\* A record is encoded behind the frames of the last of the segments ss, which
\* hold the log.
LEMMA EncodeStep ==
    ASSUME Inv, NEW ss \in Seq(Segs), ss # <<>>, ListSound(ss), SegWhole(ss[Len(ss)]),
           log = AllData(ss), IsPrefix(acked, AckData(ss)),
           NEW type \in {"data", "snap"}, NEW off \in Nat,
           Encode(ss, type, encCrc, off), acked' = acked
    PROVE  /\ segs' \in Seq(Segs) /\ segs' # <<>> /\ SegWhole(segs'[Len(segs')])
           /\ LogSound' /\ NumbersSound' /\ IsPrefix(log, log')
           /\ log' \in Seq(Frames) /\ encCrc' \in Seq(Nat) /\ encOff' \in Nat /\ offset' \in Nat
           /\ nextId' \in Nat \ {0}
           /\ ListChain(ss) /\ encCrc = RunningCrc(ss[Len(ss)].frames, Len(ss[Len(ss)].frames)) =>
                /\ ListChain(segs')
                /\ encCrc' = RunningCrc(segs'[Len(segs')].frames, Len(segs'[Len(segs')].frames))
<1> DEFINE seg == ss[Len(ss)]
           f == Frame(type, nextId, Append(encCrc, nextId))
           r == Front(ss)
<1>1. /\ encCrc \in Seq(Nat) /\ nextId \in Nat \ {0} /\ log \in Seq(Frames) /\ acked \in Seq(Frames)
      /\ RecordsNumbered(log) /\ RecordsNumbered(acked)
  BY DEF Inv, WalType, NumbersSound
<1>2. /\ encCrc' = Append(encCrc, nextId) /\ encOff' = off + 1 /\ offset' = off + 1
      /\ log' = Append(log, f) /\ nextId' = nextId + 1
  BY DEF Encode
<1>3. PICK w \in {seg.written, Len(seg.frames), Len(seg.frames) + 1} :
        segs' = [ss EXCEPT ![Len(ss)].frames = Append(@, f), ![Len(ss)].written = w]
  BY DEF Encode
<1> DEFINE x == [seg EXCEPT !.frames = Append(@, f), !.written = w]
<1>4. /\ r \in Seq(Segs) /\ seg \in Segs /\ SegSound(seg) /\ AllSealed(r)
      /\ ListChain(ss) => ListChain(r) /\ SegChain(seg)
      /\ Extended(ss, r, seg)
  BY ListFront
<1>5. Len(ss) \in 1 .. Len(ss)
  BY EmptySeq
<1>6. segs' = [ss EXCEPT ![Len(ss)] = x]
  <2>1. ASSUME NEW a, NEW b
        PROVE  [ss EXCEPT ![Len(ss)].frames = a, ![Len(ss)].written = b] =
               [ss EXCEPT ![Len(ss)] = [ss[Len(ss)] EXCEPT !.frames = a, !.written = b]]
    BY <1>5
  <2>2. QED
    BY <1>3, <2>1
<1>7. nextId \in Nat /\ SegWhole(seg)
  BY <1>1
<1>8. /\ x \in Segs /\ SegSound(x) /\ SegWhole(x) /\ f \in Frames
      /\ WholeData(x) = Append(WholeData(seg), f)
      /\ DurableData(x) = DurableData(seg)
      /\ RunningCrc(x.frames, Len(x.frames)) = Append(encCrc, nextId)
      /\ SegChain(seg) /\ encCrc = RunningCrc(seg.frames, Len(seg.frames)) => SegChain(x)
  <2> DEFINE c == encCrc
             id == nextId
  <2>1. c \in Seq(Nat) /\ id \in Nat /\ seg \in Segs /\ SegSound(seg) /\ SegWhole(seg)
    BY <1>1, <1>4, <1>7
  <2> HIDE DEF seg, c, id
  <2>2. w \in {seg.written, Len(seg.frames), Len(seg.frames) + 1} /\ type \in {"data", "snap"}
    BY <1>3
  <2>3. Encoded(seg, type, id, c, w)
    BY <2>1, <2>2, EncodeSound
  <2>4. QED
    BY <2>3 DEF c, id, Encoded
<1>9. f.type \in {"data", "snap"} /\ f.data = nextId
  BY DEF Frame
<1> HIDE DEF x, f
<1>10. Extended(segs', r, x)
  BY <1>4, <1>6, <1>8, ListReplace
<1> HIDE DEF seg, r
<1>11. AllData(r) \in Seq(Frames) /\ WholeData(seg) \in Seq(Frames) /\ DurableData(seg) \in Seq(Frames)
  BY <1>4, AllType, DurablePrefix
<1>12. AllData(segs') = Append(log, f) /\ AckData(segs') = AckData(ss) /\ ListSound(segs')
  <2>1. log = AllData(r) \o WholeData(seg) /\ AckData(ss) = AllData(r) \o DurableData(seg)
    BY <1>4 DEF Extended
  <2>2. /\ AllData(segs') = AllData(r) \o Append(WholeData(seg), f)
        /\ AckData(segs') = AllData(r) \o DurableData(seg) /\ ListSound(segs')
    BY <1>8, <1>10 DEF Extended
  <2>3. Append(AllData(r) \o WholeData(seg), f) = AllData(r) \o Append(WholeData(seg), f)
    BY <1>8, <1>11, DataConcatAppend
  <2>4. QED
    BY <2>1, <2>2, <2>3
<1>13. LogSound'
  BY <1>2, <1>12 DEF LogSound
<1>14. log' \in Seq(Frames) /\ IsPrefix(log, log')
  <2>0. log \in Seq(Frames) /\ f \in Frames
    BY <1>1, <1>8
  <2>1. <<f>> \in Seq(Frames) /\ Append(log, f) = log \o <<f>> /\ Append(log, f) \in Seq(Frames)
    BY <2>0
  <2>2. QED
    BY <1>1, <1>2, <2>1, PrefixConcat
<1>15. NumbersSound'
  <2>1. ASSUME NEW s, RecordsNumbered(s)
        PROVE  \A i \in 1 .. Len(s) : s[i].type \in {"data", "snap"} /\ s[i].data \in 1 .. nextId' - 1
    BY <1>1, <1>2, <2>1 DEF RecordsNumbered
  <2>2. /\ Len(log') = Len(log) + 1 /\ log'[Len(log')] = f /\ Len(log) \in Nat
        /\ \A i \in 1 .. Len(log) : log'[i] = log[i]
    BY <1>1, <1>2, <1>8, AppendProperties
  <2>3. f.data \in 1 .. nextId' - 1
    BY <1>1, <1>2, <1>9
  <2>4. ASSUME NEW i \in 1 .. Len(log')
        PROVE  log'[i].type \in {"data", "snap"} /\ log'[i].data \in 1 .. nextId' - 1
    <3>1. CASE i = Len(log')
      BY <1>9, <2>2, <2>3, <3>1
    <3>2. CASE i # Len(log')
      <4>1. i \in 1 .. Len(log)
        BY <2>2, <3>2
      <4>2. QED
        BY <1>1, <2>1, <2>2, <4>1
    <3>3. QED
      BY <3>1, <3>2
  <2>5. \A i \in 1 .. Len(acked) : acked[i].type \in {"data", "snap"} /\ acked[i].data \in 1 .. nextId' - 1
    BY <1>1, <2>1
  <2>6. QED
    BY <2>4, <2>5 DEF NumbersSound, RecordsNumbered
<1>16. segs' \in Seq(Segs) /\ segs' # <<>> /\ segs'[Len(segs')] = x
  BY <1>10 DEF Extended
<1>17. encCrc' \in Seq(Nat) /\ encOff' \in Nat /\ offset' \in Nat /\ nextId' \in Nat \ {0}
  BY <1>1, <1>2
<1>18. ASSUME ListChain(ss), encCrc = RunningCrc(seg.frames, Len(seg.frames))
       PROVE  ListChain(segs') /\ encCrc' = RunningCrc(x.frames, Len(x.frames))
  <2>1. ListChain(r) /\ SegChain(x)
    BY <1>4, <1>8, <1>18
  <2>2. QED
    BY <1>2, <1>8, <1>10, <2>1 DEF Extended
<1>19. QED
  BY <1>8, <1>13, <1>14, <1>15, <1>16, <1>17, <1>18 DEF seg

\* Append and the first half of SaveSnapshot, in a segment that is not full.
LEMMA AppendInv ==
    ASSUME Inv, NEW type \in {"data", "snap"}, AppendRecord(type)
    PROVE  Inv' /\ LogStep
<1>1. /\ segs # <<>> /\ SegWhole(segs[Len(segs)]) /\ status = "open" /\ fileOpen
      /\ Encode(segs, type, encCrc, encOff) /\ acked' = acked
      /\ UNCHANGED <<status, op, fileOpen, poisoned, crashes>> /\ saving' = (saving \/ type = "snap")
  BY DEF AppendRecord, MayAppend, Inv, StatusSound, LastSeg
<1>2. /\ segs \in Seq(Segs) /\ ListSound(segs) /\ encOff \in Nat
      /\ log = AllData(segs) /\ IsPrefix(acked, AckData(segs))
  BY DEF Inv, WalType, LogSound
<1>3. /\ segs' \in Seq(Segs) /\ segs' # <<>> /\ SegWhole(segs'[Len(segs')])
      /\ LogSound' /\ NumbersSound' /\ IsPrefix(log, log')
      /\ log' \in Seq(Frames) /\ encCrc' \in Seq(Nat) /\ encOff' \in Nat /\ offset' \in Nat
      /\ nextId' \in Nat \ {0}
      /\ ListChain(segs) /\ encCrc = RunningCrc(segs[Len(segs)].frames, Len(segs[Len(segs)].frames)) =>
           /\ ListChain(segs')
           /\ encCrc' = RunningCrc(segs'[Len(segs')].frames, Len(segs'[Len(segs')].frames))
  BY <1>1, <1>2, EncodeStep
<1>4. WalType'
  BY <1>1, <1>3 DEF Inv, WalType
<1>5. FlagType'
  BY <1>1, Zenon DEF Inv, FlagType
<1>6. StatusSound'
  BY <1>1, <1>3 DEF StatusSound, LastSeg
<1>7. ChainSound'
  <2>1. ~poisoned => ListChain(segs) /\ encCrc = RunningCrc(segs[Len(segs)].frames, Len(segs[Len(segs)].frames))
    BY <1>1 DEF Inv, ChainSound, LastSeg
  <2>2. QED
    BY <1>1, <1>3, <2>1 DEF ChainSound, LastSeg
<1>8. LogStep
  BY <1>1, <1>3 DEF LogStep
<1>9. QED
  BY <1>3, <1>4, <1>5, <1>6, <1>7, <1>8 DEF Inv

\* rotate, up to the creation of the next file.
LEMMA RotateInv ==
    ASSUME Inv, NEW type \in {"data", "snap"}, RotateBegin(type)
    PROVE  Inv' /\ LogStep
<1> DEFINE tt == SyncedSegs
<1>1. /\ segs # <<>> /\ SegWhole(LastSeg) /\ status = "open"
      /\ segs' = Append(tt, EmptySegment) /\ status' = "creating" /\ op' = type /\ fileOpen' = FALSE
      /\ UNCHANGED <<log, nextId, acked>>
      /\ UNCHANGED <<encCrc, encOff, offset, saving, poisoned, crashes>>
  BY DEF RotateBegin, MayAppend, Inv, StatusSound
<1>2. /\ tt \in Seq(Segs) /\ tt # <<>> /\ ListSound(tt) /\ AllSealed(tt)
      /\ AllData(tt) = AllData(segs)
      /\ ListChain(segs) => ListChain(tt)
  BY <1>1, SyncedStep
<1>3. segs \in Seq(Segs) /\ ListSound(segs)
  BY DEF Inv, WalType, LogSound
<1> HIDE DEF tt
<1>4. Extended(segs', tt, EmptySegment)
  BY <1>1, <1>2, EmptySound, ListAppend
<1>5. /\ AllData(segs) \in Seq(Frames) /\ AckData(segs) \in Seq(Frames)
      /\ IsPrefix(AckData(segs), AllData(segs))
  BY <1>3, AckPrefix
<1>6. AllData(segs) \o <<>> = AllData(segs)
  BY <1>5
<1>7. /\ segs' \in Seq(Segs) /\ segs' # <<>> /\ Len(segs') = Len(tt) + 1
      /\ segs'[Len(segs')] = EmptySegment /\ ListSound(segs')
      /\ AllData(segs') = AllData(segs) /\ AckData(segs') = AllData(segs)
      /\ ListChain(segs) => ListChain(segs')
  BY <1>2, <1>4, <1>6, EmptySound DEF Extended
<1>8. LogSound' /\ NumbersSound' /\ LogStep /\ acked' \in Seq(Frames)
  BY <1>1, <1>5, <1>7, SameLog
<1>9. WalType'
  BY <1>1, <1>7, <1>8 DEF Inv, WalType
<1>10. FlagType'
  BY <1>1, Zenon DEF Inv, FlagType
<1>11. StatusSound'
  <2>1. Len(segs') > 1
    BY <1>2, <1>7, EmptySeq
  <2>2. QED
    BY <1>1, <1>7, <2>1, EmptySound DEF StatusSound, LastSeg
<1>12. ChainSound'
  BY <1>1, <1>7 DEF Inv, ChainSound
<1>13. QED
  BY <1>8, <1>9, <1>10, <1>11, <1>12 DEF Inv
\* Inside createSegment the records are in the segments before the new file,
\* and all of them are fsynced.
LEMMA CreatingFacts ==
    ASSUME Inv, status = "creating"
    PROVE  /\ segs # <<>> /\ segs \in Seq(Segs) /\ ListSound(segs) /\ LastSeg = EmptySegment /\ ~fileOpen
           /\ Front(segs) \in Seq(Segs) /\ ListSound(Front(segs)) /\ AllSealed(Front(segs))
           /\ AllData(Front(segs)) \in Seq(Frames)
           /\ AllData(segs) = AllData(Front(segs)) /\ AckData(segs) = AllData(Front(segs))
           /\ AckData(Front(segs)) = AllData(Front(segs))
           /\ ListChain(segs) => ListChain(Front(segs))
           /\ op # "open" => Front(segs) # <<>> /\ SegWhole(Front(segs)[Len(Front(segs))])
<1>1. segs # <<>> /\ LastSeg = EmptySegment /\ ~fileOpen /\ (op # "open" => Len(segs) > 1)
  BY DEF Inv, StatusSound
<1> DEFINE r == Front(segs)
<1>2. /\ segs \in Seq(Segs) /\ ListSound(segs) /\ r \in Seq(Segs)
      /\ ListSound(r) /\ AllSealed(r)
      /\ ListChain(segs) => ListChain(r)
      /\ AllData(r) \in Seq(Frames)
      /\ AllData(segs) = AllData(r) \o WholeData(LastSeg)
      /\ AckData(segs) = AllData(r) \o DurableData(LastSeg)
  BY <1>1, LastFacts
<1>3. Len(r) = Len(segs) - 1
  BY <1>1, <1>2, FrontLast
<1> HIDE DEF r
<1>4. AllData(r) \o <<>> = AllData(r)
  BY <1>2
<1>5. AckData(r) = AllData(r)
  BY <1>2, AckPrefix
<1>6. ASSUME op # "open" PROVE r # <<>> /\ SegWhole(r[Len(r)])
  <2>1. Len(r) \in Nat /\ Len(r) # 0 /\ r # <<>>
    <3>1. Len(segs) \in Nat /\ Len(r) \in Nat /\ Len(<<>>) = 0
      BY <1>2
    <3>2. Len(r) # 0
      BY <1>1, <1>3, <1>6, <3>1
    <3>3. QED
      BY <3>1, <3>2
  <2>2. Len(r) \in 1 .. Len(r)
    BY <2>1
  <2>3. r[Len(r)] \in Segs /\ SegSound(r[Len(r)]) /\ r[Len(r)].synced = Len(r[Len(r)].frames)
    BY <1>2, <2>2 DEF ListSound, AllSealed
  <2>4. QED
    BY <2>1, <2>3, SyncedWhole
<1>7. QED
  BY <1>1, <1>2, <1>4, <1>5, <1>6, EmptySound DEF r

\* The new file gets its checkpoint, which carries the chain over.
LEMMA HeaderStep ==
    ASSUME Inv, status = "creating", NEW ss, ss = [segs EXCEPT ![Len(segs)] = Segment(<<Frame("crc", 0, encCrc)>>)]
    PROVE  /\ ss \in Seq(Segs) /\ ss # <<>> /\ ListSound(ss) /\ SegWhole(ss[Len(ss)])
           /\ AllData(ss) = AllData(segs) /\ AckData(ss) = AckData(segs)
           /\ ListChain(segs) => ListChain(ss)
           /\ encCrc = RunningCrc(ss[Len(ss)].frames, Len(ss[Len(ss)].frames))
<1> DEFINE c == encCrc
           x == Segment(<<Frame("crc", 0, c)>>)
           r == Front(segs)
<1>1. /\ segs # <<>> /\ segs \in Seq(Segs) /\ ListSound(segs)
      /\ AllData(r) \in Seq(Frames)
      /\ AllData(segs) = AllData(r) /\ AckData(segs) = AllData(r)
      /\ ListChain(segs) => ListChain(r)
  BY CreatingFacts
<1>2. c \in Seq(Nat)
  BY DEF Inv, WalType
<1> HIDE DEF c
<1>3. /\ x \in Segs /\ SegSound(x) /\ SegWhole(x) /\ SegChain(x)
      /\ WholeData(x) = <<>> /\ DurableData(x) = <<>>
      /\ RunningCrc(x.frames, Len(x.frames)) = c
  BY <1>2, HeaderSound
<1>4. ss = [segs EXCEPT ![Len(segs)] = x]
  BY DEF c
<1> HIDE DEF x
<1>5. Extended(ss, r, x)
  BY <1>1, <1>3, <1>4, ListReplace
<1> HIDE DEF r
<1>6. AllData(r) \o <<>> = AllData(r)
  BY <1>1
<1>7. QED
  BY <1>1, <1>3, <1>5, <1>6 DEF Extended, c

\* A file with a checkpoint that is not fsynced.
LEMMA UnsyncedSound ==
    ASSUME NEW c \in Seq(Nat)
    PROVE  LET x == [Segment(<<Frame("crc", 0, c)>>) EXCEPT !.synced = 0]
           IN  /\ x \in Segs /\ SegSound(x) /\ SegWhole(x) /\ SegChain(x)
               /\ WholeData(x) = <<>> /\ DurableData(x) = <<>>
<1> DEFINE y == Segment(<<Frame("crc", 0, c)>>)
           x == [y EXCEPT !.synced = 0]
<1>1. /\ y \in Segs /\ SegSound(y) /\ SegWhole(y) /\ SegChain(y) /\ WholeData(y) = <<>>
  BY HeaderSound
<1> HIDE DEF y
<1>2. x \in Segs /\ x.frames = y.frames /\ x.written = y.written /\ x.synced = 0
  BY <1>1 DEF Segs
<1>3. /\ y.frames \in Seq(Frames) /\ y.written \in Nat /\ Len(y.frames) \in Nat
      /\ WholeLen(y.frames) \in 0 .. Len(y.frames)
  BY <1>1, SegParts
<1> HIDE DEF x
<1>4. SegSound(x) /\ SegWhole(x) /\ SegChain(x) /\ WholeData(x) = <<>>
  <2>1. 0 <= y.written /\ 0 <= WholeLen(y.frames)
    BY <1>3
  <2>2. QED
    BY <1>1, <1>2, <2>1 DEF SegSound, SegWhole, SegChain, WholeData
<1>5. DurableData(x) = <<>>
  <2>1. SubSeq(y.frames, 1, 0) = <<>>
    BY <1>3
  <2>2. QED
    BY <1>2, <2>1, DataEmpty DEF DurableData
<1>6. QED
  BY <1>2, <1>4, <1>5 DEF x, y

\* The rest of createSegment, and of the Append that had to rotate.
LEMMA CreateEndInv ==
    ASSUME Inv, CreateEnd
    PROVE  Inv' /\ LogStep
<1> DEFINE ss == [segs EXCEPT ![Len(segs)] = Segment(<<Frame("crc", 0, encCrc)>>)]
<1>1. /\ status = "creating" /\ status' = "open" /\ fileOpen' = TRUE
      /\ IF op = "open"
         THEN segs' = ss /\ encOff' = 1 /\ offset' = 1 /\ UNCHANGED <<encCrc, nextId, log>>
         ELSE Encode(ss, op, encCrc, 1)
      /\ saving' = (saving \/ op = "snap")
      /\ UNCHANGED <<op, acked, poisoned, crashes>>
  BY DEF CreateEnd
<1>2. /\ ss \in Seq(Segs) /\ ss # <<>> /\ ListSound(ss) /\ SegWhole(ss[Len(ss)])
      /\ AllData(ss) = AllData(segs) /\ AckData(ss) = AckData(segs)
      /\ ListChain(segs) => ListChain(ss)
      /\ encCrc = RunningCrc(ss[Len(ss)].frames, Len(ss[Len(ss)].frames))
  BY <1>1, HeaderStep
<1> HIDE DEF ss
<1>3. /\ segs \in Seq(Segs) /\ ListSound(segs) /\ op \in {"open", "data", "snap"}
      /\ log = AllData(segs) /\ IsPrefix(acked, AckData(segs))
      /\ encCrc \in Seq(Nat) /\ nextId \in Nat \ {0} /\ log \in Seq(Frames) /\ acked \in Seq(Frames)
      /\ crashes \in Nat
      /\ ~poisoned => ListChain(segs)
  BY DEF Inv, WalType, LogSound, ChainSound
<1>4. /\ segs' \in Seq(Segs) /\ segs' # <<>> /\ SegWhole(segs'[Len(segs')])
      /\ LogSound' /\ NumbersSound'
      /\ log' \in Seq(Frames) /\ encCrc' \in Seq(Nat) /\ encOff' \in Nat /\ offset' \in Nat
      /\ nextId' \in Nat \ {0}
      /\ ListChain(segs) =>
           /\ ListChain(segs')
           /\ encCrc' = RunningCrc(segs'[Len(segs')].frames, Len(segs'[Len(segs')].frames))
  <2>1. CASE op = "open"
    <3>1. segs' = ss /\ encOff' = 1 /\ offset' = 1 /\ UNCHANGED <<encCrc, nextId, log>>
      BY <1>1, <2>1
    <3>2. AckData(segs) \in Seq(Frames)
      BY <1>3, AckPrefix
    <3>3. IsPrefix(AckData(segs), AckData(segs'))
      BY <1>2, <3>1, <3>2, PrefixConcat
    <3>4. LogSound' /\ NumbersSound'
      BY <1>1, <1>2, <3>1, <3>3, SameLog
    <3>5. QED
      BY <1>2, <1>3, <3>1, <3>4
  <2>2. CASE op # "open"
    <3>1. Encode(ss, op, encCrc, 1) /\ op \in {"data", "snap"} /\ 1 \in Nat /\ acked' = acked
      BY <1>1, <1>3, <2>2
    <3>2. log = AllData(ss) /\ IsPrefix(acked, AckData(ss))
      BY <1>2, <1>3
    <3>3. QED
      BY <1>2, <3>1, <3>2, EncodeStep
  <2>3. QED
    BY <2>1, <2>2
<1>5. WalType'
  BY <1>1, <1>3, <1>4 DEF WalType
<1>6. FlagType'
  BY <1>1, Zenon DEF Inv, FlagType
<1>7. StatusSound'
  BY <1>1, <1>4 DEF StatusSound, LastSeg
<1>8. ChainSound'
  BY <1>1, <1>3, <1>4 DEF ChainSound, LastSeg
<1>9. LogStep
  BY <1>1 DEF LogStep
<1>10. QED
  BY <1>4, <1>5, <1>6, <1>7, <1>8, <1>9 DEF Inv

\* createSegment fails.
LEMMA CreateFailsInv ==
    ASSUME Inv, CreateFails
    PROVE  Inv' /\ LogStep
<1> DEFINE x == [Segment(<<Frame("crc", 0, encCrc)>>) EXCEPT !.synced = 0]
           tt == [segs EXCEPT ![Len(segs)] = x]
<1>1. /\ status = "creating" /\ status' = IF op = "open" THEN "down" ELSE "open"
      /\ segs' \in {segs, Front(segs), tt}
      /\ UNCHANGED <<op, fileOpen, encCrc, encOff, offset, saving, nextId, log, acked, poisoned, crashes>>
  BY DEF CreateFails
<1>2. /\ segs # <<>> /\ segs \in Seq(Segs) /\ ListSound(segs) /\ LastSeg = EmptySegment /\ ~fileOpen
      /\ Front(segs) \in Seq(Segs) /\ ListSound(Front(segs))
      /\ AllData(Front(segs)) \in Seq(Frames)
      /\ AllData(segs) = AllData(Front(segs)) /\ AckData(segs) = AllData(Front(segs))
      /\ AckData(Front(segs)) = AllData(Front(segs))
      /\ ListChain(segs) => ListChain(Front(segs))
      /\ op # "open" => Front(segs) # <<>> /\ SegWhole(Front(segs)[Len(Front(segs))])
  BY <1>1, CreatingFacts
<1>3. /\ segs' \in Seq(Segs) /\ ListSound(segs')
      /\ AllData(segs') = AllData(segs) /\ AckData(segs') = AckData(segs)
      /\ ListChain(segs) => ListChain(segs')
      /\ op # "open" => segs' # <<>> /\ SegWhole(segs'[Len(segs')])
  <2>1. CASE segs' = segs
    BY <1>2, <2>1, EmptySound DEF LastSeg
  <2>2. CASE segs' = Front(segs)
    BY <1>2, <2>2
  <2>3. CASE segs' = tt
    <3>1. /\ x \in Segs /\ SegSound(x) /\ SegWhole(x) /\ SegChain(x)
          /\ WholeData(x) = <<>> /\ DurableData(x) = <<>>
      <4>1. encCrc \in Seq(Nat)
        BY DEF Inv, WalType
      <4> DEFINE c == encCrc
      <4> HIDE DEF c
      <4>2. c \in Seq(Nat)
        BY <4>1 DEF c
      <4> DEFINE z == [Segment(<<Frame("crc", 0, c)>>) EXCEPT !.synced = 0]
      <4>3. /\ z \in Segs /\ SegSound(z) /\ SegWhole(z) /\ SegChain(z)
            /\ WholeData(z) = <<>> /\ DurableData(z) = <<>>
        BY <4>2, UnsyncedSound
      <4>4. z = x
        BY DEF c
      <4> HIDE DEF x, z
      <4>5. QED
        BY <4>3, <4>4
    <3> HIDE DEF x
    <3>2. /\ segs' \in Seq(Segs) /\ segs' # <<>> /\ segs'[Len(segs')] = x
          /\ ListSound(segs')
          /\ AllData(segs') = AllData(Front(segs)) \o WholeData(x)
          /\ AckData(segs') = AllData(Front(segs)) \o DurableData(x)
          /\ ListChain(segs) /\ SegChain(x) => ListChain(segs')
      BY <1>2, <2>3, <3>1, ReplaceStep
    <3>3. AllData(Front(segs)) \o <<>> = AllData(Front(segs))
      BY <1>2
    <3>4. QED
      BY <1>2, <3>1, <3>2, <3>3
  <2>4. QED
    BY <1>1, <2>1, <2>2, <2>3
<1> HIDE DEF tt, x
<1>4. IsPrefix(AckData(segs), AckData(segs'))
  BY <1>2, <1>3, PrefixConcat
<1>5. LogSound' /\ NumbersSound' /\ LogStep /\ acked' \in Seq(Frames)
  BY <1>1, <1>3, <1>4, SameLog
<1>6. WalType'
  BY <1>1, <1>3 DEF Inv, WalType
<1>7. FlagType'
  BY <1>1, Zenon DEF Inv, FlagType
<1>8. StatusSound'
  BY <1>1, <1>2, <1>3 DEF StatusSound, LastSeg
<1>9. ChainSound'
  BY <1>1, <1>2, <1>3 DEF Inv, ChainSound
<1>10. QED
  BY <1>5, <1>6, <1>7, <1>8, <1>9 DEF Inv

\* A crash inside createSegment.
LEMMA CrashCreatingInv ==
    ASSUME Inv, CrashCreating
    PROVE  Inv' /\ LogStep
<1> DEFINE ss == [segs EXCEPT ![Len(segs)] = Segment(<<Frame("crc", 0, encCrc)>>)]
<1>1. /\ status = "creating" /\ status' = "down" /\ crashes' = crashes + 1
      /\ segs' \in {Front(segs), segs, ss}
      /\ fileOpen' = FALSE /\ saving' = FALSE
      /\ UNCHANGED <<op, encCrc, encOff, offset, nextId, log, acked, poisoned>>
  BY DEF CrashCreating, Down
<1>2. /\ segs # <<>> /\ segs \in Seq(Segs) /\ ListSound(segs)
      /\ Front(segs) \in Seq(Segs) /\ ListSound(Front(segs))
      /\ AllData(Front(segs)) \in Seq(Frames)
      /\ AllData(segs) = AllData(Front(segs)) /\ AckData(segs) = AllData(Front(segs))
      /\ AckData(Front(segs)) = AllData(Front(segs))
      /\ ListChain(segs) => ListChain(Front(segs))
  BY <1>1, CreatingFacts
<1>3. /\ ss \in Seq(Segs) /\ ListSound(ss)
      /\ AllData(ss) = AllData(segs) /\ AckData(ss) = AckData(segs)
      /\ ListChain(segs) => ListChain(ss)
  BY <1>1, HeaderStep
<1> HIDE DEF ss
<1>4. /\ segs' \in Seq(Segs) /\ ListSound(segs')
      /\ AllData(segs') = AllData(segs) /\ AckData(segs') = AckData(segs)
      /\ ListChain(segs) => ListChain(segs')
  BY <1>1, <1>2, <1>3
<1>5. IsPrefix(AckData(segs), AckData(segs'))
  BY <1>2, <1>4, PrefixConcat
<1>6. LogSound' /\ NumbersSound' /\ LogStep /\ acked' \in Seq(Frames)
  BY <1>1, <1>4, <1>5, SameLog
<1>7. WalType'
  BY <1>1, <1>4 DEF Inv, WalType
<1>8. FlagType'
  BY <1>1, Zenon DEF Inv, FlagType
<1>9. StatusSound'
  BY <1>1 DEF StatusSound
<1>10. ChainSound'
  BY <1>1, <1>4 DEF Inv, ChainSound
<1>11. QED
  BY <1>6, <1>7, <1>8, <1>9, <1>10 DEF Inv
\* Open of a directory without segments.
LEMMA OpenEmptyInv ==
    ASSUME Inv, OpenEmpty
    PROVE  Inv' /\ LogStep
<1>1. /\ status \in {"down", "closed"} /\ segs = <<>> /\ segs' = <<EmptySegment>>
      /\ status' = "creating" /\ op' = "open" /\ encCrc' = <<>>
      /\ UNCHANGED <<fileOpen, encOff, offset, saving, nextId, log, acked, poisoned, crashes>>
  BY DEF OpenEmpty
<1> DEFINE e == EmptySegment
           ss == <<>>
<1>2. segs' = Append(ss, e) /\ ss \in Seq(Segs) /\ Len(ss) = 0
  BY <1>1
<1>3. e \in Segs /\ SegSound(e) /\ SegWhole(e) /\ WholeData(e) = <<>> /\ DurableData(e) = <<>> /\ SegChain(e)
  BY EmptySound
<1>4. ListSound(ss) /\ AllSealed(ss) /\ ListChain(ss)
  BY <1>2 DEF ListSound, AllSealed, ListChain
<1>5. AllData(ss) = <<>> /\ AckData(ss) = <<>>
  BY AllEmpty DEF AckData
<1>6. segs = ss
  BY <1>1
<1> HIDE DEF e, ss
<1>7. Extended(segs', ss, e)
  BY <1>2, <1>3, <1>4, ListAppend
<1>8. <<>> \o <<>> = <<>> /\ <<>> \in Seq(Frames)
  OBVIOUS
<1>9. /\ segs' \in Seq(Segs) /\ segs' # <<>> /\ segs'[Len(segs')] = e
      /\ ListSound(segs') /\ ListChain(segs')
      /\ AllData(segs') = AllData(segs) /\ AckData(segs') = AckData(segs) /\ AckData(segs) = <<>>
  BY <1>3, <1>4, <1>5, <1>6, <1>7, <1>8 DEF Extended
<1>10. IsPrefix(AckData(segs), AckData(segs'))
  BY <1>8, <1>9, PrefixConcat
<1>11. LogSound' /\ NumbersSound' /\ LogStep /\ acked' \in Seq(Frames)
  BY <1>1, <1>9, <1>10, SameLog
<1>12. WalType'
  BY <1>1, <1>9 DEF Inv, WalType
<1>13. FlagType'
  BY <1>1, Zenon DEF Inv, FlagType
<1>14. ~fileOpen
  BY <1>1 DEF Inv, StatusSound
<1>15. StatusSound'
  BY <1>1, <1>3, <1>9, <1>14 DEF StatusSound, LastSeg, e
<1>16. ChainSound'
  BY <1>1, <1>9 DEF ChainSound
<1>17. QED
  BY <1>11, <1>12, <1>13, <1>15, <1>16 DEF Inv

\* openSegment: the torn tail goes, the encoder is seeded.
LEMMA OpenSegmentInv ==
    ASSUME Inv, OpenSegment
    PROVE  Inv' /\ LogStep
<1> DEFINE x == [LastSeg EXCEPT !.frames = ValidFrames(@), !.written = ValidLen(LastSeg.frames)]
           n == ValidLen(LastSeg.frames)
<1>1. /\ status \in {"down", "closed"} /\ segs # <<>> /\ ~Corrupt(LastSeg.frames)
      /\ segs' = [segs EXCEPT ![Len(segs)].frames = ValidFrames(@), ![Len(segs)].written = n]
      /\ encCrc' = LastCRC(LastSeg.frames)
      /\ encOff' = n % PageUnits /\ offset' = n
      /\ status' = "open" /\ UNCHANGED <<log, nextId, acked>>
      /\ UNCHANGED <<op, saving, crashes>>
  BY DEF OpenSegment
<1>2. fileOpen' = TRUE /\ poisoned' = (poisoned \/ TornParses(LastSeg.frames))
  BY DEF OpenSegment
<1>3. /\ LastSeg \in Segs /\ SegSound(LastSeg)
      /\ AllData(segs) = AllData(Front(segs)) \o WholeData(LastSeg)
      /\ AckData(segs) = AllData(Front(segs)) \o DurableData(LastSeg)
      /\ ListSound(segs) /\ segs \in Seq(Segs) /\ Len(segs) \in Nat \ {0}
  BY <1>1, LastFacts
<1>4. /\ x \in Segs /\ SegSound(x) /\ SegWhole(x) /\ SegChain(x)
      /\ WholeData(x) = WholeData(LastSeg) /\ DurableData(x) = DurableData(LastSeg)
      /\ LastCRC(LastSeg.frames) \in Seq(Nat)
      /\ ~TornParses(LastSeg.frames) => LastCRC(LastSeg.frames) = RunningCrc(x.frames, Len(x.frames))
  BY <1>1, <1>3, RecoverSound
<1>5. n \in Nat /\ n % PageUnits \in Nat
  <2>1. LastSeg.frames \in Seq(Frames)
    BY <1>3, SegParts
  <2>2. n \in Nat
    BY <2>1, ValidLenExact
  <2> HIDE DEF n
  <2>3. QED
    BY <2>2, SizesAssumption
<1>6. segs' = [segs EXCEPT ![Len(segs)] = x]
  <2>1. ASSUME NEW a, NEW b
        PROVE  [segs EXCEPT ![Len(segs)].frames = a, ![Len(segs)].written = b] =
               [segs EXCEPT ![Len(segs)] = [segs[Len(segs)] EXCEPT !.frames = a, !.written = b]]
    BY <1>3
  <2>2. QED
    BY <1>1, <2>1 DEF LastSeg
<1> HIDE DEF x, n
<1>7. /\ segs' \in Seq(Segs) /\ segs' # <<>> /\ segs'[Len(segs')] = x
      /\ ListSound(segs') /\ AllData(segs') = AllData(segs) /\ AckData(segs') = AckData(segs)
      /\ ListChain(segs) => ListChain(segs')
  BY <1>1, <1>3, <1>4, <1>6, ReplaceStep
<1>8. AckData(segs) \in Seq(Frames)
  BY <1>3, AckPrefix
<1>9. IsPrefix(AckData(segs), AckData(segs'))
  BY <1>7, <1>8, PrefixConcat
<1>10. LogSound' /\ NumbersSound' /\ LogStep /\ acked' \in Seq(Frames)
  BY <1>1, <1>7, <1>9, SameLog
<1>11. WalType'
  BY <1>1, <1>4, <1>5, <1>7 DEF Inv, WalType
<1>12. FlagType'
  BY <1>1, <1>2, Zenon DEF Inv, FlagType, TornParses
<1>13. StatusSound'
  BY <1>1, <1>4, <1>7 DEF StatusSound, LastSeg
<1>14. ChainSound'
  <2>1. ~poisoned' => ~poisoned /\ ~TornParses(LastSeg.frames)
    BY <1>2
  <2>2. ~poisoned => ListChain(segs)
    BY DEF Inv, ChainSound
  <2>3. QED
    BY <1>1, <1>4, <1>7, <2>1, <2>2 DEF ChainSound, LastSeg
<1>15. QED
  BY <1>10, <1>11, <1>12, <1>13, <1>14 DEF Inv

\* Open refuses a segment only after a torn frame has poisoned the encoder.
LEMMA OpenCorruptInv ==
    ASSUME Inv, OpenCorrupt
    PROVE  Inv' /\ LogStep
<1>1. /\ segs # <<>> /\ Corrupt(LastSeg.frames) /\ status' = "failed"
      /\ status \in {"down", "closed", "failed"}
      /\ UNCHANGED <<segs, op, fileOpen, encCrc, encOff, offset, saving, nextId, log, acked, poisoned, crashes>>
  BY DEF OpenCorrupt
<1>2. poisoned
  <2>1. LastSeg \in Segs /\ SegSound(LastSeg) /\ (ListChain(segs) => SegChain(LastSeg))
    BY <1>1, LastFacts
  <2>2. ~SegChain(LastSeg)
    BY <1>1, <2>1, ChainClean
  <2>3. QED
    BY <2>1, <2>2 DEF Inv, ChainSound
<1>3. segs \in Seq(Segs) /\ ListSound(segs)
  BY DEF Inv, WalType, LogSound
<1>4. AckData(segs) \in Seq(Frames)
  BY <1>3, AckPrefix
<1>5. IsPrefix(AckData(segs), AckData(segs'))
  BY <1>1, <1>4, PrefixConcat
<1>6. LogSound' /\ NumbersSound' /\ LogStep /\ acked' \in Seq(Frames)
  BY <1>1, <1>3, <1>5, SameLog
<1>7. WalType'
  BY <1>1 DEF Inv, WalType
<1>8. FlagType'
  BY <1>1, Zenon DEF Inv, FlagType
<1>9. StatusSound'
  BY <1>1 DEF Inv, StatusSound
<1>10. ChainSound'
  BY <1>1, <1>2 DEF ChainSound
<1>11. QED
  BY <1>6, <1>7, <1>8, <1>9, <1>10 DEF Inv
\* Records cut off behind others.
LEMMA CutTail ==
    ASSUME NEW p \in Seq(Frames), NEW a \in Seq(Frames), NEW b \in Seq(Frames)
    PROVE  LET whole == p \o (a \o b)
           IN  SubSeq(whole, 1, Len(whole) - Len(b)) = p \o a /\ IsPrefix(p \o a, whole)
<1> DEFINE T == Frames
<1>1. p \in Seq(T) /\ a \in Seq(T) /\ b \in Seq(T)
  OBVIOUS
<1> HIDE DEF T
<1>2. p \o (a \o b) = (p \o a) \o b
  BY <1>1, ConcatAssociative
<1> DEFINE u == p \o a
           v == u \o b
<1>3. u \in Seq(T)
  BY <1>1
<1> HIDE DEF u
<1>4. v \in Seq(T) /\ Len(v) = Len(u) + Len(b) /\ Len(u) \in Nat /\ Len(b) \in Nat
  BY <1>1, <1>3
<1>5. Len(v) - Len(b) = Len(u)
  BY <1>4
<1>6. SubSeq(v, 1, Len(u)) = u
  BY <1>1, <1>3
<1>7. IsPrefix(u, v)
  BY <1>1, <1>3, PrefixConcat
<1>8. QED
  BY <1>2, <1>5, <1>6, <1>7 DEF u

\* A prefix of what is numbered is numbered.
LEMMA NumbersPrefix ==
    ASSUME NEW s \in Seq(Frames), NEW t \in Seq(Frames), IsPrefix(s, t), RecordsNumbered(t)
    PROVE  RecordsNumbered(s)
<1>1. Len(s) <= Len(t) /\ \A i \in 1 .. Len(s) : s[i] = t[i]
  BY PrefixPointwise
<1>2. Len(s) \in Nat /\ Len(t) \in Nat
  OBVIOUS
<1>3. \A i \in 1 .. Len(s) : i \in 1 .. Len(t)
  BY <1>1, <1>2
<1>4. QED
  BY <1>1, <1>3 DEF RecordsNumbered

\* The process or the machine stops with the WAL open: k frames of the last
\* segment are found again, and nothing that was fsynced is missing.
LEMMA KeepInv ==
    ASSUME Inv, status = "open", NEW k \in 0 .. Len(LastSeg.frames), NEW s \in 0 .. k,
           LastSeg.synced <= s, KeepFrames(k, s), Down
    PROVE  Inv' /\ LogStep
<1> DEFINE seg == LastSeg
           fr == LastSeg.frames
           p == AllData(Front(segs))
           a == DataFrames(SubSeq(fr, 1, k))
           b == DataFrames(SubSeq(fr, k + 1, Len(fr)))
           d == DataFrames(SubSeq(fr, 1, s))
<1>1. segs # <<>> /\ SegWhole(seg)
  BY DEF Inv, StatusSound
<1>2. /\ seg \in Segs /\ SegSound(seg) /\ p \in Seq(Frames)
      /\ AllData(segs) = p \o WholeData(seg)
      /\ AckData(segs) = p \o DurableData(seg)
      /\ ListSound(segs) /\ segs \in Seq(Segs)
      /\ ListChain(segs) => SegChain(seg)
  BY <1>1, LastFacts
<1>3. PICK tail \in Torn(fr, k) :
        LET kept == SubSeq(fr, 1, k) \o tail
        IN  segs' = [segs EXCEPT ![Len(segs)] = [frames |-> kept, written |-> Len(kept), synced |-> s]]
  BY DEF KeepFrames
<1>4. log' = SubSeq(log, 1, Len(log) - Len(b))
  BY DEF KeepFrames
<1> DEFINE kept == SubSeq(fr, 1, k) \o tail
           x == [frames |-> kept, written |-> Len(kept), synced |-> s]
<1>5. /\ x \in Segs /\ SegSound(x) /\ WholeData(x) = a /\ DurableData(x) = d
      /\ SegChain(seg) => SegChain(x)
  <2>1. seg \in Segs /\ SegWhole(seg)
    BY <1>1, <1>2
  <2> HIDE DEF seg
  <2>2. tail \in Torn(seg.frames, k) /\ fr = seg.frames /\ k \in 0 .. Len(seg.frames)
    BY DEF seg
  <2>3. QED
    BY <2>1, <2>2, KeepSound
<1>6. segs' = [segs EXCEPT ![Len(segs)] = x]
  BY <1>3
<1>7. fr \in Seq(Frames) /\ Len(fr) \in Nat /\ k \in 0 .. Len(fr) /\ s \in 0 .. Len(fr) /\ seg.synced \in 0 .. s
  BY <1>2, SegParts
<1>8. WholeData(seg) = DataFrames(fr)
  BY <1>1, <1>2, WholeAll
<1> HIDE DEF x, kept
<1>9. /\ segs' \in Seq(Segs) /\ segs' # <<>> /\ ListSound(segs')
      /\ AllData(segs') = p \o a /\ AckData(segs') = p \o d
      /\ ListChain(segs) /\ SegChain(x) => ListChain(segs')
  BY <1>1, <1>5, <1>6, ReplaceStep
<1>10. WholeData(seg) = a \o b /\ a \in Seq(Frames) /\ b \in Seq(Frames) /\ d \in Seq(Frames)
  <2>1. /\ SubSeq(fr, 1, k) \in Seq(Frames) /\ SubSeq(fr, k + 1, Len(fr)) \in Seq(Frames)
        /\ DataFrames(fr) = a \o b
    BY <1>7, DataSplit
  <2>2. SubSeq(fr, 1, s) \in Seq(Frames)
    BY <1>7, DataSplit
  <2>3. QED
    BY <1>8, <2>1, <2>2, DataType
<1>11. IsPrefix(DurableData(seg), d)
  BY <1>7, DataPrefix DEF DurableData
<1>12. DurableData(seg) \in Seq(Frames)
  BY <1>2, DurablePrefix
<1>13. /\ log \in Seq(Frames) /\ acked \in Seq(Frames) /\ log = AllData(segs)
       /\ IsPrefix(acked, AckData(segs))
       /\ RecordsNumbered(log) /\ RecordsNumbered(acked)
  BY DEF Inv, WalType, LogSound, NumbersSound
<1>14. /\ acked' = acked /\ nextId' = nextId /\ status' = "down" /\ crashes' = crashes + 1
       /\ fileOpen' = FALSE /\ saving' = FALSE
       /\ UNCHANGED <<op, encCrc, encOff, offset, poisoned>>
  BY DEF Down
<1> HIDE DEF seg, fr, p, a, b, d
<1>15. log' = p \o a /\ IsPrefix(log', log) /\ log' \in Seq(Frames)
  <2>1. log = p \o (a \o b)
    BY <1>2, <1>10, <1>13
  <2>2. SubSeq(log, 1, Len(log) - Len(b)) = p \o a /\ IsPrefix(p \o a, log)
    BY <1>2, <1>10, <2>1, CutTail
  <2>3. p \o a \in Seq(Frames)
    BY <1>2, <1>10
  <2>4. QED
    BY <1>4, <2>2, <2>3
<1>16. IsPrefix(acked, AckData(segs'))
  <2>1. IsPrefix(p \o DurableData(seg), p \o d)
    BY <1>2, <1>10, <1>11, <1>12, PrefixBehind
  <2>2. p \o DurableData(seg) \in Seq(Frames) /\ p \o d \in Seq(Frames)
    BY <1>2, <1>10, <1>12
  <2>3. IsPrefix(acked, p \o DurableData(seg))
    BY <1>2, <1>13
  <2>4. IsPrefix(acked, p \o d)
    BY <1>13, <2>1, <2>2, <2>3, PrefixTrans
  <2>5. QED
    BY <1>9, <2>4
<1>17. LogSound'
  BY <1>9, <1>14, <1>15, <1>16 DEF LogSound
<1>18. NumbersSound'
  <2>1. RecordsNumbered(log')
    BY <1>13, <1>15, NumbersPrefix
  <2>2. QED
    BY <1>13, <1>14, <2>1 DEF NumbersSound, RecordsNumbered
<1>19. WalType'
  BY <1>9, <1>14, <1>15 DEF Inv, WalType
<1>20. FlagType'
  BY <1>14, Zenon DEF Inv, FlagType
<1>21. StatusSound'
  BY <1>14 DEF StatusSound
<1>22. ChainSound'
  BY <1>2, <1>5, <1>9, <1>14 DEF Inv, ChainSound
<1>23. LogStep
  BY <1>14, <1>15 DEF LogStep
<1>24. QED
  BY <1>17, <1>18, <1>19, <1>20, <1>21, <1>22, <1>23 DEF Inv

\* The machine stops.
LEMMA CrashInv ==
    ASSUME Inv, Crash
    PROVE  Inv' /\ LogStep
<1>1. status = "open" /\ Down
  BY DEF Crash
<1>2. PICK k \in LastSeg.synced .. LastSeg.written : KeepFrames(k, k)
  BY DEF Crash
<1>3. LastSeg \in Segs /\ SegSound(LastSeg)
  BY <1>1, LastFacts DEF Inv, StatusSound
<1>4. /\ LastSeg.synced \in Nat /\ LastSeg.written \in Nat /\ Len(LastSeg.frames) \in Nat
      /\ LastSeg.written <= Len(LastSeg.frames)
  BY <1>3, SegParts DEF SegSound
<1>5. k \in 0 .. Len(LastSeg.frames) /\ k \in 0 .. k /\ LastSeg.synced <= k
  BY <1>2, <1>4
<1>6. QED
  BY <1>1, <1>2, <1>5, KeepInv

\* The process dies.
LEMMA KillInv ==
    ASSUME Inv, Kill
    PROVE  Inv' /\ LogStep
<1> DEFINE k == LastSeg.written
           s == LastSeg.synced
<1>1. status = "open" /\ Down /\ KeepFrames(k, s)
  BY DEF Kill
<1>2. LastSeg \in Segs /\ SegSound(LastSeg)
  BY <1>1, LastFacts DEF Inv, StatusSound
<1>3. /\ s \in Nat /\ k \in Nat /\ Len(LastSeg.frames) \in Nat
      /\ k <= Len(LastSeg.frames) /\ s <= k
  BY <1>2, SegParts DEF SegSound
<1>4. k \in 0 .. Len(LastSeg.frames) /\ s \in 0 .. k /\ LastSeg.synced <= s
  BY <1>3
<1> HIDE DEF k, s
<1>5. QED
  BY <1>1, <1>4, KeepInv

-----------------------------------------------------------------------------
(* The invariant holds *)

\* It holds before the first Open.
LEMMA InitInv == Init => Inv
<1> SUFFICES ASSUME Init PROVE Inv
  OBVIOUS
<1> DEFINE e == <<>>
<1>1. e \in Seq(Segs) /\ e \in Seq(Frames) /\ e \in Seq(Nat) /\ Len(e) = 0
  OBVIOUS
<1>2. segs = e /\ log = e /\ acked = e /\ encCrc = e
  BY DEF Init
<1>3. AllData(e) = e /\ AckData(e) = e
  BY AllEmpty DEF AckData
<1> HIDE DEF e
<1>4. ListSound(e) /\ ListChain(e) /\ RecordsNumbered(e)
  BY <1>1 DEF ListSound, ListChain, RecordsNumbered
<1>5. IsPrefix(e, e)
  BY <1>1, PrefixConcat
<1>6. WalType
  BY <1>1, <1>2 DEF Init, WalType
<1>7. FlagType
  BY DEF Init, FlagType
<1>8. StatusSound
  BY DEF Init, StatusSound
<1>9. LogSound /\ NumbersSound
  BY <1>2, <1>3, <1>4, <1>5 DEF LogSound, NumbersSound
<1>10. ChainSound
  BY <1>2, <1>4 DEF Init, ChainSound
<1>11. QED
  BY <1>6, <1>7, <1>8, <1>9, <1>10 DEF Inv

\* Every step keeps it, and keeps the log.
LEMMA NextInv ==
    ASSUME Inv, Next
    PROVE  Inv' /\ LogStep
<1>1. ASSUME NEW type \in {"data", "snap"}, AppendRecord(type) PROVE Inv' /\ LogStep
  BY <1>1, AppendInv
<1>2. ASSUME NEW type \in {"data", "snap"}, RotateBegin(type) PROVE Inv' /\ LogStep
  BY <1>2, RotateInv
<1>3. CASE CreateEnd
  BY <1>3, CreateEndInv
<1>4. CASE CreateFails
  BY <1>4, CreateFailsInv
<1>5. CASE Sync
  BY <1>5, SyncInv
<1>6. CASE ReadAll
  BY <1>6, ReadAllInv
<1>7. CASE Close
  BY <1>7, CloseInv
<1>8. CASE OpenEmpty
  BY <1>8, OpenEmptyInv
<1>9. CASE OpenSegment
  BY <1>9, OpenSegmentInv
<1>10. CASE OpenCorrupt
  BY <1>10, OpenCorruptInv
<1>11. CASE Crash
  BY <1>11, CrashInv
<1>12. CASE Kill
  BY <1>12, KillInv
<1>13. CASE CrashCreating
  BY <1>13, CrashCreatingInv
<1>14. QED
  BY <1>1, <1>2, <1>3, <1>4, <1>5, <1>6, <1>7, <1>8, <1>9, <1>10, <1>11, <1>12, <1>13 DEF Next

\* A step that changes nothing keeps it too.
LEMMA StutterInv ==
    ASSUME Inv, UNCHANGED vars
    PROVE  Inv'
<1>1. /\ segs' = segs /\ status' = status /\ op' = op /\ fileOpen' = fileOpen /\ encCrc' = encCrc
      /\ encOff' = encOff /\ offset' = offset /\ saving' = saving /\ nextId' = nextId /\ log' = log
      /\ acked' = acked /\ poisoned' = poisoned /\ crashes' = crashes
  BY DEF vars, walVars
<1>2. WalType' /\ FlagType'
  BY <1>1 DEF Inv, WalType, FlagType
<1>3. StatusSound' /\ ChainSound'
  BY <1>1 DEF Inv, StatusSound, ChainSound, LastSeg
<1>4. LogSound' /\ NumbersSound'
  BY <1>1 DEF Inv, LogSound, NumbersSound, RecordsNumbered
<1>5. QED
  BY <1>2, <1>3, <1>4 DEF Inv

\* The inductive invariant of the WAL: the whole frames of the segments are
\* exactly the log, what has been acknowledged is fsynced, and unless a torn
\* frame has poisoned the encoder the CRC chain holds from segment to segment.
THEOREM Invariance == Spec => []Inv
<1>1. Inv /\ [Next]_vars => Inv'
  BY NextInv, StutterInv
<1>2. QED
  BY <1>1, InitInv, PTL DEF Spec
-----------------------------------------------------------------------------
(* What a reader finds *)

\* Without corruption a reader finds all the whole records.
LEMMA CleanReads ==
    ASSUME NEW ss \in Seq(Segs), ListSound(ss), \A i \in 1 .. Len(ss) : ~Corrupt(ss[i].frames)
    PROVE  Reader!Loop(<<>>, ss) = AllData(ss)
<1>1. ASSUME NEW i \in 1 .. Len(ss) PROVE SegRecords(ss[i]) = WholeData(ss[i])
  <2>1. ss[i] \in Segs /\ SegSound(ss[i]) /\ ~Corrupt(ss[i].frames)
    BY ElementOfSeq DEF ListSound
  <2>2. QED
    BY <2>1, CleanWhole
<1>2. QED
  BY <1>1, ReadsAll

\* Where the chain holds there is no corruption.
LEMMA ChainReads ==
    ASSUME NEW ss \in Seq(Segs), ListSound(ss), ListChain(ss)
    PROVE  (\A i \in 1 .. Len(ss) : ~Corrupt(ss[i].frames)) /\ Reader!Loop(<<>>, ss) = AllData(ss)
<1>1. ASSUME NEW i \in 1 .. Len(ss) PROVE ~Corrupt(ss[i].frames)
  <2>1. ss[i] \in Segs /\ SegSound(ss[i]) /\ SegChain(ss[i])
    BY ElementOfSeq DEF ListSound, ListChain
  <2>2. QED
    BY <2>1, ChainClean
<1>2. QED
  BY <1>1, CleanReads

\* Every variable keeps its type: the buffer and fsync counters of a segment stay
\* in order and inside it, and the log holds records with numbers given out.
THEOREM TypeCorrect == Spec => []TypeOK
<1>1. Inv => TypeOK
  <2> SUFFICES ASSUME Inv PROVE TypeOK
    OBVIOUS
  <2>1. ASSUME NEW i \in 1 .. Len(segs)
        PROVE  /\ \A j \in 1 .. Len(segs[i].frames) : segs[i].frames[j].type \in {"crc", "data", "snap"}
               /\ segs[i].synced <= segs[i].written
               /\ segs[i].written <= Len(segs[i].frames)
    <3>1. segs[i] \in Segs /\ SegSound(segs[i])
      BY ElementOfSeq DEF Inv, WalType, LogSound, ListSound
    <3>2. segs[i].frames \in Seq(Frames)
      BY <3>1, SegParts
    <3>3. ASSUME NEW j \in 1 .. Len(segs[i].frames)
          PROVE  segs[i].frames[j].type \in {"crc", "data", "snap"}
      <4>1. segs[i].frames[j] \in Frames
        BY <3>2, ElementOfSeq
      <4>2. QED
        BY <4>1 DEF Frames
    <3>4. QED
      BY <3>1, <3>3 DEF SegSound
  <2>2. ASSUME NEW f \in Range(log) \cup Range(acked)
        PROVE  f.type \in {"data", "snap"} /\ f.data \in 1 .. nextId - 1
    <3>1. /\ log \in Seq(Frames) /\ acked \in Seq(Frames)
          /\ RecordsNumbered(log) /\ RecordsNumbered(acked)
      BY DEF Inv, WalType, NumbersSound
    <3>2. DOMAIN log = 1 .. Len(log) /\ DOMAIN acked = 1 .. Len(acked)
      BY <3>1
    <3>3. (\E i \in 1 .. Len(log) : f = log[i]) \/ (\E i \in 1 .. Len(acked) : f = acked[i])
      BY <3>2 DEF Range
    <3>4. QED
      BY <3>1, <3>3 DEF RecordsNumbered
  <2>3. /\ status \in {"down", "creating", "open", "closed", "failed"}
        /\ op \in {"open", "data", "snap"}
        /\ encCrc \in Seq(Nat)
        /\ encOff \in Nat /\ offset \in Nat /\ nextId \in Nat /\ crashes \in Nat
    BY DEF Inv, WalType
  <2>4. fileOpen \in BOOLEAN /\ saving \in BOOLEAN /\ poisoned \in BOOLEAN
    BY DEF Inv, FlagType
  <2>5. QED
    BY <2>1, <2>2, <2>3, <2>4, Zenon DEF TypeOK
<1>2. QED
  BY <1>1, Invariance, PTL

\* rotate leaves every segment but the last one completely on disk
\* (wal.go:415-427), for any segment size and any number of rotations.
THEOREM SealedStaysDurable == Spec => []SealedDurable
<1>1. Inv => SealedDurable
  <2> SUFFICES ASSUME Inv, NEW i \in 1 .. Len(segs) - 1
               PROVE  segs[i].synced = Len(segs[i].frames)
    BY DEF SealedDurable
  <2>1. segs \in Seq(Segs) /\ ListSound(segs)
    BY DEF Inv, WalType, LogSound
  <2>2. i \in 1 .. Len(segs) /\ i < Len(segs)
    BY <2>1
  <2>3. QED
    BY <2>1, <2>2 DEF ListSound
<1>2. QED
  BY <1>1, Invariance, PTL

\* Whatever crashes leave behind, and even after a poisoned recovery, a ReadAll
\* without an error returns nothing that was not appended and leaves no gap
\* (decoder.go:85-99): it returns the log itself.
THEOREM DecodedStaysGenuine == Spec => []DecodedGenuine
<1>1. Inv => DecodedGenuine
  <2> SUFFICES ASSUME Inv, \A i \in 1 .. Len(segs) : ~Corrupt(segs[i].frames)
               PROVE  IsPrefix(Records, log)
    BY DEF DecodedGenuine
  <2>1. segs \in Seq(Segs) /\ ListSound(segs) /\ log = AllData(segs) /\ log \in Seq(Frames)
    BY DEF Inv, WalType, LogSound
  <2>2. Records = log
    BY <2>1, CleanReads DEF Records
  <2>3. QED
    BY <2>1, <2>2, PrefixConcat
<1>2. QED
  BY <1>1, Invariance, PTL

\* An open WAL whose encoder was never poisoned reads back exactly its log
\* (ReadAll, wal.go:186-216), through any number of rotations and recoveries.
THEOREM ReadAllStaysExact == Spec => []ReadAllExact
<1>1. Inv => ReadAllExact
  <2> SUFFICES ASSUME Inv, ~poisoned
               PROVE  (\A i \in 1 .. Len(segs) : ~Corrupt(segs[i].frames)) /\ Records = log
    BY DEF ReadAllExact
  <2>1. segs \in Seq(Segs) /\ ListSound(segs) /\ log = AllData(segs) /\ ListChain(segs)
    BY DEF Inv, WalType, LogSound, ChainSound
  <2>2. QED
    BY <2>1, ChainReads DEF Records
<1>2. QED
  BY <1>1, Invariance, PTL

\* What Sync, SaveSnapshot or Close has reported durable is decoded for ever
\* after, whatever crashes and reopenings follow (wal.go:179-184).
THEOREM AckedRecordsSurvive == Spec => []AckedSurvive
<1>1. Inv => AckedSurvive
  <2> SUFFICES ASSUME Inv, ~poisoned
               PROVE  IsPrefix(acked, Records)
    BY DEF AckedSurvive
  <2>1. /\ segs \in Seq(Segs) /\ ListSound(segs) /\ ListChain(segs)
        /\ IsPrefix(acked, AckData(segs)) /\ acked \in Seq(Frames)
    BY DEF Inv, WalType, LogSound, ChainSound
  <2>2. Records = AllData(segs)
    BY <2>1, ChainReads DEF Records
  <2>3. /\ AckData(segs) \in Seq(Frames) /\ AllData(segs) \in Seq(Frames)
        /\ IsPrefix(AckData(segs), AllData(segs))
    BY <2>1, AckPrefix
  <2>4. QED
    BY <2>1, <2>2, <2>3, PrefixTrans
<1>2. QED
  BY <1>1, Invariance, PTL

\* Open never refuses a log that only crashes have damaged (wal.go:357-359).
THEOREM OpenNeverRefuses == Spec => []OpenSucceeds
<1>1. Inv => OpenSucceeds
  BY DEF Inv, ChainSound, OpenSucceeds
<1>2. QED
  BY <1>1, Invariance, PTL

\* While it is open the log only grows, and a restart takes away at most a tail
\* of it: no reordering, no gap, no record that comes back.
THEOREM OnlyTailsAreLost == Spec => OnlyTailsLost
<1> DEFINE A == ~poisoned' =>
                  /\ status = "open" /\ status' \in {"open", "creating", "closed"} => IsPrefix(log, Records')
                  /\ status' = "down" => IsPrefix(Records', log)
<1>1. Inv /\ Inv' /\ [Next]_vars => [A]_vars
  <2> SUFFICES ASSUME Inv, Inv', Next, ~poisoned'
               PROVE  /\ status = "open" /\ status' \in {"open", "creating", "closed"} => IsPrefix(log, Records')
                      /\ status' = "down" => IsPrefix(Records', log)
    OBVIOUS
  <2>1. segs' \in Seq(Segs) /\ ListSound(segs') /\ log' = AllData(segs') /\ ListChain(segs')
    BY DEF Inv, WalType, LogSound, ChainSound
  <2>2. Reader!Loop(<<>>, segs') = AllData(segs')
    BY <2>1, ChainReads
  <2>3. Records' = log'
    BY <2>1, <2>2 DEF Records
  <2>4. LogStep
    BY NextInv
  <2>5. QED
    BY <2>3, <2>4 DEF LogStep
<1>2. QED
  BY <1>1, Invariance, PTL DEF Spec, OnlyTailsLost
\* What the finding of the run WalTornCrc leaves: the encoder of an open segment
\* goes on with the chain of the frames in it (wal.go:403) for as long as no
\* recovery has met a torn frame that parses.
THEOREM ChainGoesOn == Spec => [](~poisoned => ChainContinuous)
<1>1. Inv => (~poisoned => ChainContinuous)
  BY DEF Inv, ChainSound, ChainContinuous
<1>2. QED
  BY <1>1, Invariance, PTL

-----------------------------------------------------------------------------
(* Torn frames that do not parse *)

\* Frames of which none is torn in such a way that it still parses.
NoneParses(frames) == \A j \in 1 .. Len(frames) : frames[j].form # "zeroed"

\* After a crash the last segment has no such frame.
TailShort == status = "down" /\ segs # <<>> => NoneParses(LastSeg.frames)

\* Whole frames and a torn one that is short.
LEMMA KeptShort ==
    ASSUME "zeroed" \notin Faults, NEW fr \in Seq(Frames), NEW k \in 0 .. Len(fr),
           \A j \in 1 .. Len(fr) : fr[j].form = "whole", NEW tail \in Torn(fr, k)
    PROVE  NoneParses(SubSeq(fr, 1, k) \o tail)
<1> DEFINE cut == SubSeq(fr, 1, k)
<1>1. cut \in Seq(Frames) /\ Len(cut) = k /\ \A j \in 1 .. k : cut[j] = fr[j]
  BY CutFrames
<1>2. tail = <<>> \/ (k # Len(fr) /\ tail = <<[fr[k + 1] EXCEPT !.form = "short"]>>)
  BY DEF Torn
<1>3. k \in Nat /\ Len(fr) \in Nat /\ \A j \in 1 .. k : fr[j].form = "whole"
  OBVIOUS
<1> HIDE DEF cut
<1>4. CASE tail = <<>>
  <2>1. cut \o tail = cut
    BY <1>1, <1>4
  <2>2. QED
    BY <1>1, <1>3, <2>1 DEF NoneParses, cut
<1>5. CASE k # Len(fr) /\ tail = <<[fr[k + 1] EXCEPT !.form = "short"]>>
  <2> DEFINE h == fr[k + 1]
             g == [h EXCEPT !.form = "short"]
  <2>1. h \in Frames
    <3>1. k + 1 \in 1 .. Len(fr)
      BY <1>3, <1>5
    <3>2. QED
      BY <3>1, ElementOfSeq
  <2> HIDE DEF h
  <2>2. g \in Frames /\ g.form = "short"
    BY <2>1 DEF Frames
  <2>3. tail = <<g>>
    BY <1>5 DEF h
  <2> HIDE DEF g
  <2>4. cut \o tail = Append(cut, g)
    BY <1>1, <2>2, <2>3
  <2>5. /\ Len(Append(cut, g)) = k + 1 /\ Append(cut, g)[k + 1] = g
        /\ \A j \in 1 .. k : Append(cut, g)[j] = cut[j]
    BY <1>1, <2>2, AppendProperties
  <2> DEFINE kept == Append(cut, g)
  <2> HIDE DEF kept
  <2>6. ASSUME NEW j \in 1 .. Len(kept) PROVE kept[j].form # "zeroed"
    <3>1. j = k + 1 \/ j \in 1 .. k
      BY <1>3, <2>5 DEF kept
    <3>2. QED
      BY <1>1, <1>3, <2>2, <2>5, <3>1 DEF kept
  <2>7. QED
    BY <2>4, <2>6 DEF NoneParses, kept, cut
<1>6. QED
  BY <1>2, <1>4, <1>5

\* A crash with the WAL open leaves no frame that parses although it is torn.
LEMMA KeepShort ==
    ASSUME "zeroed" \notin Faults, Inv, status = "open", NEW k \in 0 .. Len(LastSeg.frames), NEW s,
           KeepFrames(k, s)
    PROVE  NoneParses(segs'[Len(segs')].frames)
<1> DEFINE fr == LastSeg.frames
<1>1. segs # <<>> /\ SegWhole(LastSeg)
  BY DEF Inv, StatusSound
<1>2. LastSeg \in Segs /\ segs \in Seq(Segs) /\ Len(segs) \in Nat \ {0}
  BY <1>1, LastFacts
<1>3. fr \in Seq(Frames) /\ \A j \in 1 .. Len(fr) : fr[j].form = "whole"
  BY <1>1, <1>2, SegParts DEF SegWhole
<1>4. PICK tail \in Torn(fr, k) :
        LET kept == SubSeq(fr, 1, k) \o tail
        IN  segs' = [segs EXCEPT ![Len(segs)] = [frames |-> kept, written |-> Len(kept), synced |-> s]]
  BY DEF KeepFrames
<1> DEFINE kept == SubSeq(fr, 1, k) \o tail
           x == [frames |-> kept, written |-> Len(kept), synced |-> s]
<1>5. NoneParses(kept)
  BY <1>3, KeptShort
<1>6. segs' = [segs EXCEPT ![Len(segs)] = x] /\ x.frames = kept
  BY <1>4
<1> HIDE DEF kept, x
<1>7. Len(segs') = Len(segs) /\ segs'[Len(segs)] = x
  BY <1>2, <1>6
<1>8. QED
  BY <1>5, <1>6, <1>7

\* No step poisons the encoder.
LEMMA CleanStep ==
    ASSUME "zeroed" \notin Faults, Inv, ~poisoned, TailShort, Next
    PROVE  ~poisoned' /\ TailShort'
<1>1. ASSUME NEW type \in {"data", "snap"}, AppendRecord(type) \/ RotateBegin(type)
      PROVE  ~poisoned' /\ TailShort'
  BY <1>1 DEF AppendRecord, MayAppend, RotateBegin, TailShort
<1>2. CASE CreateEnd \/ Sync \/ ReadAll \/ Close \/ OpenEmpty \/ OpenCorrupt
  BY <1>2 DEF CreateEnd, Sync, ReadAll, Close, OpenEmpty, OpenCorrupt, TailShort
<1>3. CASE CreateFails
  <2> DEFINE tt == [segs EXCEPT ![Len(segs)] = [Segment(<<Frame("crc", 0, encCrc)>>) EXCEPT !.synced = 0]]
  <2>1. /\ status = "creating" /\ poisoned' = poisoned /\ segs' \in {segs, Front(segs), tt}
    BY <1>3 DEF CreateFails
  <2>2. ASSUME segs' # <<>> PROVE NoneParses(segs'[Len(segs')].frames)
    <3>1. /\ segs \in Seq(Segs) /\ LastSeg = EmptySegment
          /\ Front(segs) \in Seq(Segs) /\ ListSound(Front(segs)) /\ AllSealed(Front(segs))
      BY <2>1, CreatingFacts
    <3>2. CASE segs' = segs
      BY <3>1, <3>2, EmptySound DEF LastSeg, NoneParses, SegWhole
    <3>3. CASE segs' = Front(segs)
      <4> DEFINE r == segs'
      <4>1. r \in Seq(Segs) /\ r # <<>> /\ ListSound(r) /\ AllSealed(r)
        BY <2>2, <3>1, <3>3
      <4> HIDE DEF r
      <4>2. Len(r) \in 1 .. Len(r)
        BY <4>1, EmptySeq
      <4>3. r[Len(r)] \in Segs /\ SegSound(r[Len(r)]) /\ r[Len(r)].synced = Len(r[Len(r)].frames)
        BY <4>1, <4>2 DEF ListSound, AllSealed
      <4>4. SegWhole(r[Len(r)])
        BY <4>3, SyncedWhole
      <4>5. QED
        BY <4>4 DEF NoneParses, SegWhole, r
    <3>4. CASE segs' = tt
      <4>1. SegWhole(segs'[Len(segs')])
        <5>1. segs'[Len(segs')].frames = <<Frame("crc", 0, encCrc)>>
          <6>1. segs \in Seq(Segs) /\ segs # <<>>
            BY <2>1, <3>1, CreatingFacts
          <6>2. Len(tt) = Len(segs) /\ Len(segs) \in 1 .. Len(segs)
            BY <6>1
          <6>3. QED
            BY <3>4, <6>2 DEF Segment
        <5>2. QED
          BY <5>1 DEF SegWhole, Frame
      <4>2. QED
        BY <4>1 DEF NoneParses, SegWhole
    <3>5. QED
      BY <2>1, <3>2, <3>3, <3>4
  <2>3. QED
    BY <2>1, <2>2 DEF TailShort, LastSeg
<1>4. CASE OpenSegment
  <2>1. /\ status \in {"down", "closed"} /\ segs # <<>> /\ status' = "open"
        /\ poisoned' = (poisoned \/ TornParses(LastSeg.frames))
    BY <1>4 DEF OpenSegment
  <2>2. LastSeg \in Segs
    BY <2>1, LastFacts
  <2> DEFINE fr == LastSeg.frames
             n == ValidLen(fr)
  <2>3. fr \in Seq(Frames) /\ Len(fr) \in Nat
    BY <2>2, SegParts
  <2>4. NoneParses(fr)
    <3>1. CASE status = "down"
      BY <2>1, <3>1 DEF TailShort
    <3>2. CASE status = "closed"
      <4>1. SegWhole(LastSeg)
        BY <2>1, <3>2 DEF Inv, StatusSound
      <4>2. QED
        BY <4>1 DEF SegWhole, NoneParses
    <3>3. QED
      BY <2>1, <3>1, <3>2
  <2>5. TornParses(fr) <=> n < Len(fr) /\ fr[n + 1].form = "zeroed"
    BY Zenon DEF TornParses
  <2> HIDE DEF fr
  <2>6. n \in 0 .. Len(fr)
    BY <2>3, ValidLenExact
  <2> HIDE DEF n
  <2>7. ~TornParses(fr)
    BY <2>3, <2>4, <2>5, <2>6 DEF NoneParses
  <2>8. QED
    BY <2>1, <2>7 DEF TailShort, fr
<1>5. CASE Crash
  <2>1. status = "open" /\ poisoned' = poisoned
    BY <1>5 DEF Crash, Down
  <2>2. PICK k \in LastSeg.synced .. LastSeg.written : KeepFrames(k, k)
    BY <1>5 DEF Crash
  <2>3. LastSeg \in Segs /\ SegSound(LastSeg)
    BY <2>1, LastFacts DEF Inv, StatusSound
  <2>4. /\ LastSeg.synced \in Nat /\ LastSeg.written \in Nat /\ Len(LastSeg.frames) \in Nat
        /\ LastSeg.written <= Len(LastSeg.frames)
    BY <2>3, SegParts DEF SegSound
  <2>5. k \in 0 .. Len(LastSeg.frames)
    BY <2>2, <2>4
  <2>6. NoneParses(segs'[Len(segs')].frames)
    BY <2>1, <2>2, <2>5, KeepShort
  <2>7. QED
    BY <2>1, <2>6 DEF TailShort, LastSeg
<1>6. CASE Kill
  <2> DEFINE k == LastSeg.written
             s == LastSeg.synced
  <2>1. status = "open" /\ poisoned' = poisoned /\ KeepFrames(k, s)
    BY <1>6 DEF Kill, Down
  <2>2. LastSeg \in Segs /\ SegSound(LastSeg)
    BY <2>1, LastFacts DEF Inv, StatusSound
  <2>3. k \in Nat /\ Len(LastSeg.frames) \in Nat /\ k <= Len(LastSeg.frames)
    BY <2>2, SegParts DEF SegSound
  <2>4. k \in 0 .. Len(LastSeg.frames)
    BY <2>3
  <2> HIDE DEF k, s
  <2>5. NoneParses(segs'[Len(segs')].frames)
    BY <2>1, <2>4, KeepShort
  <2>6. QED
    BY <2>1, <2>5 DEF TailShort, LastSeg
<1>7. CASE CrashCreating
  <2> DEFINE ss == [segs EXCEPT ![Len(segs)] = Segment(<<Frame("crc", 0, encCrc)>>)]
  <2>1. status = "creating" /\ poisoned' = poisoned /\ segs' \in {Front(segs), segs, ss}
    BY <1>7 DEF CrashCreating, Down
  <2>2. ss # <<>> /\ SegWhole(ss[Len(ss)])
    BY <2>1, HeaderStep
  <2> HIDE DEF ss
  <2>3. /\ segs \in Seq(Segs) /\ LastSeg = EmptySegment
        /\ Front(segs) \in Seq(Segs) /\ ListSound(Front(segs)) /\ AllSealed(Front(segs))
    BY <2>1, CreatingFacts
  <2>4. ASSUME segs' # <<>> PROVE SegWhole(segs'[Len(segs')])
    <3>1. CASE segs' = segs
      BY <2>3, <3>1, EmptySound DEF LastSeg
    <3>2. CASE segs' = ss
      BY <2>2, <3>2
    <3>3. CASE segs' = Front(segs)
      <4> DEFINE r == segs'
      <4>1. r \in Seq(Segs) /\ r # <<>> /\ ListSound(r) /\ AllSealed(r)
        BY <2>3, <2>4, <3>3
      <4> HIDE DEF r
      <4>2. Len(r) \in 1 .. Len(r)
        BY <4>1, EmptySeq
      <4>3. r[Len(r)] \in Segs /\ SegSound(r[Len(r)]) /\ r[Len(r)].synced = Len(r[Len(r)].frames)
        BY <4>1, <4>2 DEF ListSound, AllSealed
      <4>4. QED
        BY <4>3, SyncedWhole DEF r
    <3>4. QED
      BY <2>1, <3>1, <3>2, <3>3
  <2>5. QED
    BY <2>1, <2>4 DEF TailShort, LastSeg, NoneParses, SegWhole
<1>8. QED
  BY <1>1, <1>2, <1>3, <1>4, <1>5, <1>6, <1>7 DEF Next

\* Where a torn frame never parses (no sectors of it are found zeroed) the
\* encoder is never seeded with a wrong CRC, and ReadAllExact, AckedSurvive,
\* OpenSucceeds and OnlyTailsLost hold without an exception.
THEOREM NeverPoisoned ==
    ASSUME "zeroed" \notin Faults
    PROVE  Spec => []~poisoned
<1> DEFINE J == Inv /\ ~poisoned /\ TailShort
<1>1. Init => J
  <2> SUFFICES ASSUME Init PROVE ~poisoned /\ TailShort
    BY InitInv
  <2>1. QED
    BY DEF Init, TailShort
<1>2. J /\ [Next]_vars => J'
  <2> SUFFICES ASSUME J, [Next]_vars PROVE J'
    OBVIOUS
  <2>1. CASE Next
    BY <2>1, NextInv, CleanStep
  <2>2. CASE UNCHANGED vars
    <3>1. Inv'
      BY <2>2, StutterInv
    <3>2. segs' = segs /\ status' = status /\ poisoned' = poisoned
      BY <2>2 DEF vars, walVars
    <3>3. QED
      BY <3>1, <3>2 DEF TailShort, LastSeg
  <2>3. QED
    BY <2>1, <2>2
<1> HIDE DEF J
<1>3. J => ~poisoned
  BY DEF J
<1>4. QED
  BY <1>1, <1>2, <1>3, PTL DEF Spec
=============================================================================
