----------------------------- MODULE LsmTables -----------------------------
(***************************************************************************)
(* Entries, tables and how a key is looked up in them (pkg/lsm: lsm.go,    *)
(* version.go, compaction.go; pkg/lsm/memtable/internalkey.go).            *)
(*                                                                         *)
(* An entry is a version of a user key: the sequence number of the write   *)
(* that made it and whether it set or deleted the key.  Keys are numbers,  *)
(* so that no key is a prefix of another and the order of internal keys is *)
(* key ascending, then sequence number and kind descending.  The sequence  *)
(* number stands for the value.  A table is the set of its entries; its    *)
(* size is their number.                                                   *)
(***************************************************************************)
EXTENDS Naturals, FiniteSets

KindDelete == 0
KindSet == 1

\* The order of internal keys.
Before(a, b) ==
    \/ a.key < b.key
    \/ a.key = b.key /\ a.seq > b.seq
    \/ a.key = b.key /\ a.seq = b.seq /\ a.kind > b.kind

\* FileMeta.SmallestKey and LargestKey
Smallest(es) == CHOOSE e \in es : \A x \in es : x = e \/ Before(e, x)
Largest(es) == CHOOSE e \in es : \A x \in es : x = e \/ Before(x, e)

\* The position of e among es in iteration order, from 0.
Rank(e, es) == Cardinality({x \in es : Before(x, e)})

\* The newest version of key k that is visible at sequence number s.
Visible(es, k, s) == {e \in es : e.key = k /\ e.seq <= s}
Newest(es) == Smallest(es)

-----------------------------------------------------------------------------
(* Get in one table *)

\* What a lookup gives back: a kind and, for a set key, its value.
Found(e) == [kind |-> e.kind, val |-> IF e.kind = KindSet THEN e.seq ELSE 0]

\* getFromTable returns (nil, 0, nil) when the table has no visible version of
\* the key, and 0 is KindDelete.
NotInTable == [kind |-> 0, val |-> 0]

GetFromTable(es, k, s) ==
    IF Visible(es, k, s) = {} THEN NotInTable ELSE Found(Newest(Visible(es, k, s)))

\* getFromVersion stops at this result.
Decides(r) == r.kind = KindDelete \/ r.val # 0

-----------------------------------------------------------------------------
(* Levels: a version is a set of file numbers, file[n] their level and      *)
(* entries.  L0 is in file number order, the others in key order.           *)

Level(version, file, l) == {n \in version : file[n].level = l}

\* files i and j of one level, i in front of j
Sorted(file, i, j) == Before(Smallest(file[i].entries), Smallest(file[j].entries))

\* The user key lies between the file's smallest and largest user keys.
InRange(file, n, k) ==
    Smallest(file[n].entries).key <= k /\ k <= Largest(file[n].entries).key

\* The one file of level l >= 1 that getFromVersion looks into: the first
\* whose largest key is not below k, if k is not below its smallest.
LevelCandidate(version, file, l, k) ==
    LET above == {n \in Level(version, file, l) : k <= Largest(file[n].entries).key}
    IN  {n \in above : InRange(file, n, k) /\ \A m \in above : ~Sorted(file, m, n)}

\* The tables getFromVersion may look into, and the order it does so in: L0
\* from the newest file to the oldest, then level by level.
Candidates(version, file, k) ==
    {n \in Level(version, file, 0) : InRange(file, n, k)}
        \cup UNION {LevelCandidate(version, file, l, k) : l \in {file[n].level : n \in version} \ {0}}

LooksFirst(file, m, n) ==
    \/ file[m].level < file[n].level
    \/ file[m].level = 0 /\ file[n].level = 0 /\ m > n

\* The table that decides a Get: the first candidate whose answer does.
Deciding(version, file, k, s) ==
    LET deciders == {n \in Candidates(version, file, k) :
                        Decides(GetFromTable(file[n].entries, k, s))}
    IN  {n \in deciders : \A m \in deciders : ~LooksFirst(file, m, n)}

\* The tables a Get opens: the candidates up to and including the deciding one.
Opened(version, file, k, s) ==
    {n \in Candidates(version, file, k) :
        \A d \in Deciding(version, file, k, s) : ~LooksFirst(file, d, n)}

\* The value getFromVersion returns, 0 for ErrNotFound.
GetFromVersion(version, file, k, s) ==
    IF Deciding(version, file, k, s) = {} THEN 0
    ELSE LET n == CHOOSE n \in Deciding(version, file, k, s) : TRUE
         IN  GetFromTable(file[n].entries, k, s).val

-----------------------------------------------------------------------------
(* Compaction *)

\* Version.overlapping: internal key ranges that meet.
Overlaps(es, fs) ==
    ~Before(Largest(fs), Smallest(es)) /\ ~Before(Largest(es), Smallest(fs))

Overlapping(version, file, l, es) ==
    {n \in Level(version, file, l) : Overlaps(es, file[n].entries)}

Entries(version, file) == UNION {file[n].entries : n \in version}

\* Version.levelSize: what the files of the level hold, file by file.
LevelSize(version, file, l) ==
    Cardinality(UNION {{n} \X file[n].entries : n \in Level(version, file, l)})

\* pickLevelCompaction: the largest file of the level, the first of equals.
LargestFile(version, file, l) ==
    LET size(n) == Cardinality(file[n].entries)
        level == Level(version, file, l)
    IN  CHOOSE n \in level : \A m \in level :
            size(m) < size(n) \/ (size(m) = size(n) /\ ~Sorted(file, m, n))

\* Mutant of Output: the merge leaves out tombstones.
OutputWithoutTombstones(es, target, i) == {e \in es : e.kind = KindSet /\ Rank(e, es) \div target = i}

\* Mutant of OutputCount: the last output is not finished after the loop.
OutputCountUnfinished(es, target) == Cardinality(es) \div target

\* The output files of a merge of es, cut every "target" entries in internal
\* key order: the i-th output, i from 0.
OutputCount(es, target) == (Cardinality(es) + target - 1) \div target
Output(es, target, i) == {e \in es : Rank(e, es) \div target = i}
=============================================================================
