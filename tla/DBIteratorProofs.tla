-------------------------- MODULE DBIteratorProofs --------------------------
(***************************************************************************)
(* Proofs about reading: what a finished table gives back, and what an     *)
(* iterator over a memtable and any number of tables returns, for any      *)
(* writes, targets, block sizes and restart intervals.                     *)
(*                                                                         *)
(* BuildInv says that every table holds the entries of its source in the   *)
(* sense of SSTableProofs; with it Seek, Get and Scan of a table are       *)
(* exact.  ReadInv says where the merge is: some set A of writes, all from *)
(* some internal key on, is in front of it, and each source in the heap    *)
(* stands at its first write of A.  Neither depends on the keys.  As long  *)
(* as no user key is a prefix of another and no comparison has met an      *)
(* overwritten buffer, A is all versions of the user keys V that are still *)
(* ahead (Controls), in skipUserKey with some versions of the key being    *)
(* skipped, and what has been returned are the live keys that are not in V.*)
(*                                                                         *)
(* CacheInv says that the pointers of the block cache list the blocks of   *)
(* its map, that its size is theirs, and that its readers only ask for     *)
(* blocks that tables have; with it the cache implements LruCache.         *)
(***************************************************************************)
EXTENDS DBIterator, SSTableProofs

-----------------------------------------------------------------------------
(* Internal keys *)

\* The trailer as a number, and the two bytes it is written as.
Trailer(seqNum, kind) == Base * Base - 1 - (2 * seqNum + kind)

\* The bytes of an internal key.
IsInternalKey(k, u, v) ==
    /\ k \in Keys
    /\ Len(k) = Len(u) + 2
    /\ \A j \in 1 .. Len(u) : k[j] = u[j]
    /\ k[Len(u) + 1] = v \div Base
    /\ k[Len(u) + 2] = v % Base

\* A number is put together again from its two bytes.
LEMMA TrailerBytes ==
    ASSUME NEW v \in Nat
    PROVE  v \div Base \in Nat /\ v % Base \in Nat /\ v = Base * (v \div Base) + (v % Base)
<1>1. Base \in Nat \ {0}
  BY MaxByteAssumption DEF Base
<1>2. QED
  BY <1>1

\* An internal key is the user key and the two bytes of the trailer.
LEMMA InternalKeyBytes ==
    ASSUME NEW u \in Keys, NEW q, NEW kind, Trailer(q, kind) \in Nat
    PROVE  IsInternalKey(MakeInternalKey(u, q, kind), u, Trailer(q, kind))
<1> DEFINE v == Trailer(q, kind)
           a == v \div Base
           b == v % Base
           t == <<a, b>>
           k == u \o t
<1>1. MakeInternalKey(u, q, kind) = k
  BY DEF MakeInternalKey, Trailer
<1>2. a \in Nat /\ b \in Nat
  BY TrailerBytes
<1> HIDE DEF v, a, b
<1>3. t \in Seq(Nat) /\ Len(t) = 2 /\ t[1] = a /\ t[2] = b /\ u \in Seq(Nat) /\ Len(u) \in Nat
  BY <1>2 DEF Keys
<1> HIDE DEF t
<1>4. /\ k \in Seq(Nat) /\ Len(k) = Len(u) + Len(t)
      /\ \A j \in 1 .. Len(u) + Len(t) : k[j] = IF j <= Len(u) THEN u[j] ELSE t[j - Len(u)]
  BY <1>3, ConcatProperties
<1> HIDE DEF k
<1>5. \A j \in 1 .. Len(u) : k[j] = u[j]
  <2>1. \A j \in 1 .. Len(u) : j \in 1 .. Len(u) + Len(t) /\ j <= Len(u)
    BY <1>3
  <2>2. QED
    BY <1>4, <2>1
<1>6. k[Len(u) + 1] = a /\ k[Len(u) + 2] = b
  <2>1. ASSUME NEW j \in {1, 2} PROVE k[Len(u) + j] = t[j]
    <3> DEFINE i == Len(u) + j
    <3>1. i \in 1 .. Len(u) + Len(t) /\ ~(i <= Len(u)) /\ i - Len(u) = j
      BY <1>3
    <3> HIDE DEF i
    <3>2. k[i] = t[i - Len(u)]
      BY <1>4, <3>1
    <3>3. QED
      BY <3>1, <3>2 DEF i
  <2>2. QED
    BY <1>3, <2>1
<1>7. QED
  BY <1>1, <1>3, <1>4, <1>5, <1>6 DEF IsInternalKey, Keys, v, a, b

\* What is known of a write.
LEMMA WriteIs ==
    ASSUME NEW i \in DOMAIN Writes
    PROVE  /\ i \in Nat \ {0} /\ i <= Len(Writes) /\ Len(Writes) \in Nat
           /\ Writes[i].key \in Keys /\ Writes[i].kind \in {0, 1}
           /\ \A j \in 1 .. Len(Writes[i].key) : Writes[i].key[j] \in 0 .. MaxByte
           /\ Trailer(i, Writes[i].kind) \in Nat
           /\ Value(i) \in Nat
<1>1. Writes \in Seq([key: Seq(0 .. MaxByte), kind: {KindDelete, KindSet}])
  BY WritesAssumption
<1>2. i \in Nat \ {0} /\ i <= Len(Writes) /\ Len(Writes) \in Nat
  BY <1>1
<1>3. Writes[i] \in [key: Seq(0 .. MaxByte), kind: {KindDelete, KindSet}]
  <2> DEFINE S == [key: Seq(0 .. MaxByte), kind: {KindDelete, KindSet}]
  <2>1. Writes \in Seq(S) /\ i \in 1 .. Len(Writes)
    BY <1>1, <1>2
  <2> HIDE DEF S
  <2>2. Writes[i] \in S
    BY <2>1, ElementOfSeq
  <2>3. QED
    BY <2>2 DEF S
<1>4. Writes[i].key \in Seq(0 .. MaxByte) /\ Writes[i].kind \in {0, 1}
  BY <1>3 DEF KindDelete, KindSet
<1>5. Writes[i].key \in Keys /\ \A j \in 1 .. Len(Writes[i].key) : Writes[i].key[j] \in 0 .. MaxByte
  BY <1>4, MaxByteAssumption DEF Keys
<1> DEFINE sq == Base * Base
<1>6. sq \in Nat /\ i < (sq - 2) \div 2
  BY WritesAssumption, MaxByteAssumption DEF MaxSeqNum, Base
<1>7. Trailer(i, Writes[i].kind) = sq - 1 - (2 * i + Writes[i].kind)
  BY DEF Trailer
<1> HIDE DEF sq
<1>8. Trailer(i, Writes[i].kind) \in Nat
  <2>1. i <= ((sq - 2) \div 2) - 1
    BY <1>2, <1>6
  <2>2. 2 * i + Writes[i].kind <= sq - 1
    BY <1>2, <1>4, <1>6, <2>1
  <2>3. QED
    BY <1>2, <1>4, <1>6, <1>7, <2>2
<1>9. Value(i) \in Nat
  BY <1>2 DEF Value
<1>10. QED
  BY <1>2, <1>4, <1>5, <1>8, <1>9

\* The internal key of a write.
LEMMA WriteKey ==
    ASSUME NEW i \in DOMAIN Writes
    PROVE  /\ IsInternalKey(InternalKey(i), Writes[i].key, Trailer(i, Writes[i].kind))
           /\ InternalKey(i) \in Keys
<1>1. IsInternalKey(InternalKey(i), Writes[i].key, Trailer(i, Writes[i].kind))
  BY WriteIs, InternalKeyBytes DEF InternalKey
<1>2. QED
  BY <1>1 DEF IsInternalKey

\* The keys a table is sought with are keys.
LEMMA SeekKeyIs ==
    ASSUME NEW target \in Targets
    PROVE  /\ target \in Keys
           /\ \A j \in 1 .. Len(target) : target[j] \in 0 .. MaxByte
           /\ Trailer(MaxSeqNum, KindSet) \in Nat
           /\ IsInternalKey(MakeInternalKey(target, MaxSeqNum, KindSet), target, Trailer(MaxSeqNum, KindSet))
           /\ MakeInternalKey(target, MaxSeqNum, KindSet) \in Keys
<1>1. target \in Seq(0 .. MaxByte)
  BY TargetsAssumption
<1>2. target \in Keys /\ \A j \in 1 .. Len(target) : target[j] \in 0 .. MaxByte
  BY <1>1, MaxByteAssumption DEF Keys
<1> DEFINE sq == Base * Base
<1>3. sq \in Nat /\ sq >= 2
  <2>1. Base \in Nat /\ Base >= 2
    BY MaxByteAssumption DEF Base
  <2>2. QED
    BY <2>1
<1>4. Trailer(MaxSeqNum, KindSet) = sq - 1 - (2 * ((sq - 2) \div 2) + 1)
  BY DEF Trailer, MaxSeqNum, KindSet
<1> HIDE DEF sq
<1>5. Trailer(MaxSeqNum, KindSet) \in Nat
  BY <1>3, <1>4
<1>6. IsInternalKey(MakeInternalKey(target, MaxSeqNum, KindSet), target, Trailer(MaxSeqNum, KindSet))
  BY <1>2, <1>5, InternalKeyBytes
<1>7. QED
  BY <1>2, <1>5, <1>6 DEF IsInternalKey

\* The user key, the kind and the sequence number can be read from an internal key.
LEMMA InternalKeyParts ==
    ASSUME NEW k, NEW u \in Keys, NEW v \in Nat, IsInternalKey(k, u, v)
    PROVE  UserKey(k) = u /\ TrailerValue(k) = Base * Base - 1 - v
<1>1. /\ k \in Keys /\ Len(k) = Len(u) + 2 /\ Len(u) \in Nat
      /\ \A j \in 1 .. Len(u) : k[j] = u[j]
      /\ k[Len(u) + 1] = v \div Base /\ k[Len(u) + 2] = v % Base
  BY DEF IsInternalKey, Keys
<1>2. Len(k) - 2 = Len(u) /\ Len(k) - 1 = Len(u) + 1 /\ 1 <= Len(u) + 1 /\ Len(u) <= Len(k)
  BY <1>1
<1>3. UserKey(k) = SubSeq(k, 1, Len(u))
  BY <1>2 DEF UserKey, TrailerSize
<1>4. SubSeq(k, 1, Len(u)) = u
  <2> DEFINE s == SubSeq(k, 1, Len(u))
  <2>1. /\ s \in Seq(Nat) /\ Len(s) = Len(u) /\ \A j \in 1 .. Len(u) : s[j] = k[j]
    BY <1>1, <1>2 DEF Keys
  <2> HIDE DEF s
  <2>2. QED
    BY <1>1, <2>1, SeqEqual DEF s, Keys
<1>5. TrailerValue(k) = Base * Base - 1 - (Base * (v \div Base) + (v % Base))
  BY <1>1, <1>2 DEF TrailerValue
<1>6. QED
  BY <1>3, <1>4, <1>5, TrailerBytes

\* Different writes have different internal keys.
LEMMA InternalKeyInjective ==
    ASSUME NEW i \in DOMAIN Writes, NEW j \in DOMAIN Writes, InternalKey(i) = InternalKey(j)
    PROVE  i = j
<1> DEFINE sq == Base * Base
           v == Trailer(i, Writes[i].kind)
           w == Trailer(j, Writes[j].kind)
<1>1. sq - 1 - v = sq - 1 - w
  BY WriteIs, WriteKey, InternalKeyParts
<1>2. sq \in Nat
  BY MaxByteAssumption DEF Base
<1>3. v = sq - 1 - (2 * i + Writes[i].kind) /\ w = sq - 1 - (2 * j + Writes[j].kind)
  BY DEF Trailer
<1> HIDE DEF sq, v, w
<1>4. /\ i \in Nat /\ Writes[i].kind \in {0, 1} /\ j \in Nat /\ Writes[j].kind \in {0, 1}
  BY WriteIs
<1>5. QED
  BY <1>1, <1>2, <1>3, <1>4

-----------------------------------------------------------------------------
(* Building the tables *)

\* The entry a write makes, and those of a set of writes.
Entry(i) == [key |-> InternalKey(i), val |-> Value(i)]
EntriesOf(W) == {Entry(i) : i \in W}

Tables == {WriterClose(w) : w \in Writers}

\* The table being written holds the writes of its source, and no other source
\* has been begun.
WriterSound(w, n, p) ==
    /\ n + 1 < MaxTables + 1 => /\ WriterHolds(w, EntriesOf(p[n + 2]))
                                /\ Len(w.hashes) = Cardinality(p[n + 2])
    /\ n + 1 >= MaxTables + 1 => w = NewWriter
    /\ \A s \in Sources : s > n + 2 => p[s] = {}

\* Every table holds the writes of its source, and has no more blocks than entries.
TablesSound(ts, p) ==
    \A k \in 1 .. Len(ts) :
        /\ TableHolds(ts[k], EntriesOf(p[k + 1]))
        /\ Len(ts[k].blocks) \in 0 .. Len(Writes)
        /\ ts[k].blocks \in Seq(Blocks)

\* The invariant of the phase in which the sources are made.
BuildInv ==
    /\ put \in [Sources -> SUBSET DOMAIN Writes]
    /\ tables \in Seq(Tables)
    /\ Len(tables) <= MaxTables
    /\ WriterSound(wtr, Len(tables), put)
    /\ TablesSound(tables, put)

\* The writes are finitely many.
LEMMA WritesFinite ==
    ASSUME NEW W \in SUBSET DOMAIN Writes
    PROVE  /\ IsFiniteSet(W) /\ Cardinality(W) \in 0 .. Len(Writes)
           /\ Len(Writes) \in Nat /\ DOMAIN Writes = 1 .. Len(Writes)
<1>1. Len(Writes) \in Nat /\ DOMAIN Writes = 1 .. Len(Writes)
  BY WritesAssumption
<1>2. IsFiniteSet(1 .. Len(Writes)) /\ Cardinality(1 .. Len(Writes)) = Len(Writes)
  BY <1>1, FS_Interval
<1>3. IsFiniteSet(W) /\ Cardinality(W) <= Len(Writes)
  BY <1>1, <1>2, FS_Subset
<1>4. Cardinality(W) \in Nat
  BY <1>3, FS_CardinalityType
<1>5. QED
  BY <1>1, <1>3, <1>4

\* A write more.
LEMMA EntriesAdd ==
    ASSUME NEW W, NEW i
    PROVE  EntriesOf(W \cup {i}) = EntriesOf(W) \cup {[key |-> InternalKey(i), val |-> Value(i)]}
BY DEF EntriesOf, Entry

\* The writer's hashes and fields are there.
LEMMA NewWriterEmpty == NewWriter.hashes = <<>>
BY DEF NewWriter

\* Nothing has been made in the beginning.
LEMMA BuildInit ==
    ASSUME Init PROVE BuildInv
<1>1. put = [s \in Sources |-> {}] /\ tables = <<>> /\ wtr = NewWriter
  BY DEF Init
<1>2. put \in [Sources -> SUBSET DOMAIN Writes] /\ \A s \in Sources : put[s] = {}
  BY <1>1
<1>3. tables \in Seq(Tables) /\ Len(tables) = 0
  BY <1>1
<1>4. TablesSound(tables, put)
  BY <1>3 DEF TablesSound
<1>5. WriterSound(wtr, Len(tables), put)
  <2>1. 0 + 1 < MaxTables + 1 => 2 \in Sources
    BY BoundsAssumption DEF Sources
  <2>2. ASSUME 0 + 1 < MaxTables + 1
        PROVE  WriterHolds(NewWriter, EntriesOf(put[2])) /\ Len(NewWriter.hashes) = Cardinality(put[2])
    <3>1. put[2] = {} /\ EntriesOf({}) = {}
      BY <1>2, <2>1, <2>2 DEF EntriesOf
    <3>2. Len(NewWriter.hashes) = 0 /\ Cardinality({}) = 0
      BY NewWriterEmpty, FS_EmptySet
    <3>3. QED
      BY <3>1, <3>2, NewWriterHolds
  <2>3. 0 + 2 = 2
    OBVIOUS
  <2>4. QED
    BY <1>1, <1>2, <1>3, <2>2, <2>3 DEF WriterSound
<1>6. QED
  BY <1>2, <1>3, <1>4, <1>5, BoundsAssumption DEF BuildInv

\* A write goes to the memtable: the tables do not change.
LEMMA MemtableSetBuild ==
    ASSUME BuildInv, NEW i \in DOMAIN Writes, MemtableSet(i) PROVE BuildInv'
<1>1. put' = [put EXCEPT ![1] = @ \cup {i}] /\ wtr' = wtr /\ tables' = tables
  BY DEF MemtableSet
<1>2. put \in [Sources -> SUBSET DOMAIN Writes] /\ 1 \in Sources /\ Len(tables) \in Nat
  BY BoundsAssumption DEF BuildInv, Sources
<1>3. put' \in [Sources -> SUBSET DOMAIN Writes] /\ \A s \in Sources : s # 1 => put'[s] = put[s]
  BY <1>1, <1>2
<1>4. WriterSound(wtr, Len(tables), put)' 
  <2>1. WriterSound(wtr, Len(tables), put)
    BY DEF BuildInv
  <2>2. Len(tables) + 1 < MaxTables + 1 => Len(tables) + 2 \in Sources /\ Len(tables) + 2 # 1
    BY <1>2, BoundsAssumption DEF Sources
  <2>3. \A s \in Sources : s > Len(tables) + 2 => s # 1
    BY <1>2 DEF Sources
  <2>4. QED
    BY <1>1, <1>3, <2>1, <2>2, <2>3 DEF WriterSound
<1>5. TablesSound(tables, put)'
  <2>1. TablesSound(tables, put) /\ Len(tables) <= MaxTables
    BY DEF BuildInv
  <2>2. \A k \in 1 .. Len(tables) : k + 1 \in Sources /\ k + 1 # 1
    BY <1>2, <2>1, BoundsAssumption DEF Sources
  <2>3. QED
    BY <1>1, <1>3, <2>1, <2>2 DEF TablesSound
<1>6. QED
  BY <1>1, <1>3, <1>4, <1>5 DEF BuildInv

\* A write goes to the table being written.
LEMMA TableAddBuild ==
    ASSUME BuildInv, NEW i \in DOMAIN Writes, TableAdd(i)
    PROVE  BuildInv' /\ i \notin put[Writing] /\ \A j \in put[Writing] : Less(InternalKey(j), InternalKey(i))
<1> DEFINE n == Len(tables)
           key == InternalKey(i)
           val == Value(i)
           W == put[n + 2]
<1>1. /\ n + 2 \in Sources /\ MayAdd(wtr, key) /\ wtr' = WriterAdd(wtr, key, val)
      /\ put' = [put EXCEPT ![n + 2] = @ \cup {i}] /\ tables' = tables
  BY DEF TableAdd, Writing
<1>2. put \in [Sources -> SUBSET DOMAIN Writes] /\ n \in Nat /\ n <= MaxTables
  BY DEF BuildInv
<1>3. n + 1 < MaxTables + 1
  BY <1>1, <1>2, BoundsAssumption DEF Sources
<1>4. WriterHolds(wtr, EntriesOf(W)) /\ Len(wtr.hashes) = Cardinality(W)
      /\ \A s \in Sources : s > n + 2 => put[s] = {}
  BY <1>3 DEF BuildInv, WriterSound
<1>5. key \in Keys /\ val \in Nat
  BY WriteKey, WriteIs
<1>6. W \in SUBSET DOMAIN Writes /\ IsFiniteSet(W)
  BY <1>1, <1>2, WritesFinite
<1> DEFINE v == WriterAdd(wtr, key, val)
           E == EntriesOf(W)
           x == [key |-> key, val |-> val]
<1>7. EntriesOf(W \cup {i}) = E \cup {x}
  BY EntriesAdd
<1>8. \A j \in W : [key |-> InternalKey(j), val |-> Value(j)] \in E
  BY DEF EntriesOf, Entry
<1> HIDE DEF E, key, val
<1>9. /\ WriterHolds(v, E \cup {x}) /\ Len(v.hashes) = Len(wtr.hashes) + 1
      /\ \A y \in E : Less(y.key, key)
  BY <1>1, <1>4, <1>5, WriterAddHolds DEF E
<1> HIDE DEF v, x, W
<1>10. ASSUME NEW j \in W PROVE Less(InternalKey(j), key)
  <2>1. [key |-> InternalKey(j), val |-> Value(j)].key = InternalKey(j)
    OBVIOUS
  <2>2. QED
    BY <1>8, <1>9, <2>1
<1>11. i \notin W
  BY <1>5, <1>10, LessTotal DEF key
<1>12. Cardinality(W \cup {i}) = Cardinality(W) + 1
  BY <1>6, <1>11, FS_AddElement
<1>13. /\ put' \in [Sources -> SUBSET DOMAIN Writes] /\ put'[n + 2] = W \cup {i}
       /\ \A s \in Sources : s # n + 2 => put'[s] = put[s]
  BY <1>1, <1>2 DEF W
<1>14. WriterHolds(wtr', EntriesOf(put'[n + 2])) /\ Len(wtr'.hashes) = Cardinality(put'[n + 2])
  BY <1>1, <1>4, <1>7, <1>9, <1>12, <1>13 DEF v
<1>15. WriterSound(wtr', n, put')
  <2>1. ~(n + 1 >= MaxTables + 1)
    BY <1>2, <1>3, BoundsAssumption
  <2>2. \A s \in Sources : s > n + 2 => s # n + 2
    BY <1>2 DEF Sources
  <2>3. QED
    BY <1>4, <1>13, <1>14, <2>1, <2>2 DEF WriterSound
<1>16. TablesSound(tables', put')
  <2>1. TablesSound(tables, put)
    BY DEF BuildInv
  <2>2. \A k \in 1 .. Len(tables) : k + 1 \in Sources /\ k + 1 # n + 2
    BY <1>2, BoundsAssumption DEF Sources
  <2>3. QED
    BY <1>1, <1>13, <2>1, <2>2 DEF TablesSound
<1>17. BuildInv'
  BY <1>1, <1>2, <1>13, <1>15, <1>16 DEF BuildInv
<1>18. QED
  BY <1>10, <1>11, <1>17 DEF W, Writing, key

\* The table is finished.
LEMMA TableCloseBuild ==
    ASSUME BuildInv, TableClose PROVE BuildInv'
<1> DEFINE n == Len(tables)
           t == WriterClose(wtr)
           W == put[n + 2]
<1>1. wtr.hashes # <<>> /\ tables' = Append(tables, t) /\ wtr' = NewWriter /\ put' = put
  BY DEF TableClose
<1>2. /\ put \in [Sources -> SUBSET DOMAIN Writes] /\ n \in Nat /\ n <= MaxTables
      /\ tables \in Seq(Tables)
  BY DEF BuildInv
<1>3. n + 1 < MaxTables + 1 /\ n + 2 \in Sources
  <2>1. n + 1 >= MaxTables + 1 => wtr = NewWriter
    BY DEF BuildInv, WriterSound
  <2>2. ~(n + 1 >= MaxTables + 1)
    BY <1>1, <2>1, NewWriterEmpty
  <2>3. QED
    BY <1>2, <2>2, BoundsAssumption DEF Sources
<1>4. WriterHolds(wtr, EntriesOf(W)) /\ Len(wtr.hashes) = Cardinality(W)
      /\ \A s \in Sources : s > n + 2 => put[s] = {}
  BY <1>3 DEF BuildInv, WriterSound
<1>5. wtr \in Writers
  BY <1>4 DEF WriterHolds, WriterState
<1>6. W \in SUBSET DOMAIN Writes /\ Cardinality(W) \in 0 .. Len(Writes) /\ Len(Writes) \in Nat
  BY <1>2, <1>3, WritesFinite
<1>7. EntriesOf(W) # {}
  <2>1. Len(wtr.hashes) # 0
    <3>1. wtr.hashes \in Seq(Hashes)
      BY <1>5 DEF Writers
    <3>2. QED
      BY <1>1, <3>1
  <2>2. W # {}
    BY <1>4, <2>1, FS_EmptySet
  <2>3. QED
    BY <2>2 DEF EntriesOf
<1>8. TableHolds(t, EntriesOf(W)) /\ Len(t.blocks) <= Cardinality(W) /\ t.blocks \in Seq(Blocks)
  BY <1>1, <1>4, <1>7, WriterCloseHolds
<1>9. t \in Tables
  BY <1>5 DEF Tables
<1> HIDE DEF t, W
<1>10. /\ tables' \in Seq(Tables) /\ Len(tables') = n + 1 /\ tables'[n + 1] = t
       /\ \A k \in 1 .. n : tables'[k] = tables[k]
  BY <1>1, <1>2, <1>9, AppendIs
<1> HIDE DEF n
<1>11. Len(t.blocks) \in 0 .. Len(Writes)
  <2>1. Len(t.blocks) \in Nat
    BY <1>8
  <2>2. QED
    BY <1>6, <1>8, <2>1
<1>12. TablesSound(tables', put)
  <2>1. ASSUME NEW k \in 1 .. n + 1
        PROVE  /\ TableHolds(tables'[k], EntriesOf(put[k + 1]))
               /\ Len(tables'[k].blocks) \in 0 .. Len(Writes)
               /\ tables'[k].blocks \in Seq(Blocks)
    <3>1. CASE k = n + 1
      <4>1. k + 1 = n + 2
        BY <1>2, <3>1
      <4>2. QED
        BY <1>8, <1>10, <1>11, <3>1, <4>1 DEF W
    <3>2. CASE k \in 1 .. n
      BY <1>10, <3>2 DEF BuildInv, TablesSound, n
    <3>3. QED
      BY <1>2, <3>1, <3>2
  <2>2. QED
    BY <1>10, <2>1 DEF TablesSound
<1>13. WriterSound(NewWriter, n + 1, put)
  <2>1. ASSUME n + 1 + 1 < MaxTables + 1
        PROVE  /\ WriterHolds(NewWriter, EntriesOf(put[n + 1 + 2]))
               /\ Len(NewWriter.hashes) = Cardinality(put[n + 1 + 2])
    <3>1. n + 1 + 2 \in Sources /\ n + 1 + 2 > n + 2
      BY <1>2, <2>1, BoundsAssumption DEF Sources
    <3>2. put[n + 1 + 2] = {} /\ EntriesOf({}) = {}
      BY <1>4, <3>1 DEF EntriesOf
    <3>3. Len(NewWriter.hashes) = 0 /\ Cardinality({}) = 0
      BY NewWriterEmpty, FS_EmptySet
    <3>4. QED
      BY <3>2, <3>3, NewWriterHolds
  <2>2. \A s \in Sources : s > n + 1 + 2 => s > n + 2
    BY <1>2 DEF Sources
  <2>3. QED
    BY <1>4, <2>1, <2>2 DEF WriterSound
<1>14. n + 1 <= MaxTables
  BY <1>2, <1>3, BoundsAssumption
<1>15. QED
  BY <1>1, <1>2, <1>10, <1>12, <1>13, <1>14 DEF BuildInv

\* Every step keeps the invariant: only the three actions above make anything.
LEMMA BuildStep ==
    ASSUME BuildInv, [Next]_vars PROVE BuildInv'
<1>1. ASSUME UNCHANGED <<put, wtr, tables>> PROVE BuildInv'
  BY <1>1 DEF BuildInv
<1>2. ASSUME NEW i \in DOMAIN Writes, MemtableSet(i) \/ TableAdd(i) PROVE BuildInv'
  BY <1>2, MemtableSetBuild, TableAddBuild
<1>3. CASE TableClose
  BY <1>3, TableCloseBuild
<1>4. CASE NewIterator
  BY <1>1, <1>4 DEF NewIterator
<1>5. CASE First \/ NextKey \/ Below \/ Exhausted \/ FoundSet \/ FoundTombstone \/ Skip
  BY <1>1, <1>5 DEF First, NextKey, Below, Exhausted, FoundSet, FoundTombstone, Skip, ReadFrame, buildVars
<1>6. ASSUME NEW t \in Targets, SeekGE(t) PROVE BuildInv'
  BY <1>1, <1>6 DEF SeekGE, ReadFrame, buildVars
<1>7. ASSUME NEW r \in Readers, ReadCached(r) \/ ReadRaw(r) PROVE BuildInv'
  BY <1>1, <1>7 DEF ReadCached, ReadRaw, buildVars
<1>8. ASSUME NEW f \in DOMAIN tables,
             Evict(f) \/ \E n \in DOMAIN tables[f].blocks : OtherRead(f, n)
      PROVE  BuildInv'
  BY <1>1, <1>8 DEF Evict, OtherRead, buildVars
<1>9. CASE UNCHANGED vars
  BY <1>1, <1>9 DEF vars, buildVars
<1>10. QED
  BY <1>2, <1>3, <1>4, <1>5, <1>6, <1>7, <1>8, <1>9 DEF Next

\* The invariant holds in every behaviour.
LEMMA BuildInvariant == Spec => []BuildInv
<1>1. Init => BuildInv
  BY BuildInit
<1>2. BuildInv /\ [Next]_vars => BuildInv'
  BY BuildStep
<1>3. QED
  BY <1>1, <1>2, PTL DEF Spec

-----------------------------------------------------------------------------
(* What a finished table gives back *)

\* The table finished last holds the writes of its source.
LEMMA LastTableHolds ==
    ASSUME BuildInv, JustClosed
    PROVE  /\ TableHolds(LastTable, EntriesOf(put[Len(tables) + 1]))
           /\ put[Len(tables) + 1] \in SUBSET DOMAIN Writes
<1>1. /\ put \in [Sources -> SUBSET DOMAIN Writes] /\ tables \in Seq(Tables)
      /\ Len(tables) <= MaxTables /\ TablesSound(tables, put) /\ tables # <<>>
  BY DEF BuildInv, JustClosed
<1>2. Len(tables) \in 1 .. Len(tables) /\ Len(tables) + 1 \in Sources
  BY <1>1, BoundsAssumption DEF Sources
<1>3. QED
  BY <1>1, <1>2 DEF TablesSound, LastTable

\* The keys of the entries of a set of writes.
LEMMA EntryKeys ==
    ASSUME NEW W
    PROVE  /\ \A i \in W : \E x \in EntriesOf(W) : x.key = InternalKey(i) /\ x.val = Value(i)
           /\ \A x \in EntriesOf(W) : \E i \in W : x.key = InternalKey(i) /\ x.val = Value(i)
<1>1. \A i \in W : Entry(i) \in EntriesOf(W) /\ Entry(i).key = InternalKey(i) /\ Entry(i).val = Value(i)
  BY DEF EntriesOf, Entry
<1>2. \A x \in EntriesOf(W) : \E i \in W : x = Entry(i)
  BY DEF EntriesOf
<1>3. QED
  BY <1>1, <1>2

\* Seeking is exact in every state of the invariant.
LEMMA SeekIsExact ==
    ASSUME BuildInv PROVE SeekExact
<1> DEFINE it(target) == TableSeekGE(LastTable, NewTableIterator(LastTable, 1), target)
           above(target) == {k \in LastKeys : AtLeast(k, target)}
           W == put[Len(tables) + 1]
<1>1. SUFFICES ASSUME JustClosed, NEW target \in SeekKeys
               PROVE  /\ it(target).ok = (above(target) # {})
                      /\ it(target).ok => /\ it(target).dat.key \in above(target)
                                          /\ \A k \in above(target) : AtLeast(k, it(target).dat.key)
  BY DEF SeekExact
<1>2. TableHolds(LastTable, EntriesOf(W)) /\ W \in SUBSET DOMAIN Writes
  BY <1>1, LastTableHolds
<1>3. target \in Keys
  BY WriteKey, SeekKeyIs DEF SeekKeys
<1>4. NewTableIterator(LastTable, 1) \in TableIterators(1)
  BY <1>2, NewTableIteratorIs
<1> DEFINE r == it(target)
           P == EntriesOf(W)
<1>5. r \in TableIterators(1) /\ TableFound(LastTable, P, r, target)
  BY <1>2, <1>3, <1>4, TableSeekIs
<1>6. LastKeys = {InternalKey(i) : i \in W}
  BY DEF LastKeys
<1>7. \A x \in P : \E i \in W : x.key = InternalKey(i)
  BY EntryKeys
<1>8. \A i \in W : \E x \in P : x.key = InternalKey(i)
  BY EntryKeys
<1>9. r.ok \in BOOLEAN
  BY <1>5 DEF TableIterators
<1> HIDE DEF r, P, W
<1>10. CASE r.ok
  <2>1. /\ Stands(LastTable, P, r) /\ AtLeast(r.dat.key, target)
        /\ \A x \in P : AtLeast(x.key, target) => AtLeast(x.key, r.dat.key)
    BY <1>5, <1>10 DEF TableFound
  <2>2. \E x \in P : x.key = r.dat.key
    <3>1. [key |-> r.dat.key, val |-> r.dat.val] \in P
      BY <2>1, StandsEntry
    <3>2. QED
      BY <3>1
  <2>3. r.dat.key \in above(target)
    BY <1>6, <1>7, <2>1, <2>2
  <2>4. \A k \in above(target) : AtLeast(k, r.dat.key)
    BY <1>6, <1>8, <2>1
  <2>5. QED
    BY <1>10, <2>3, <2>4 DEF r
<1>11. CASE ~r.ok
  <2>1. \A x \in P : Less(x.key, target)
    BY <1>5, <1>11 DEF TableFound
  <2>2. above(target) = {}
    BY <1>6, <1>8, <2>1 DEF AtLeast
  <2>3. QED
    BY <1>9, <1>11, <2>2 DEF r
<1>12. QED
  BY <1>10, <1>11

\* Seeking in a table finds the first key that is not below the target, whatever
\* the block size and the restart interval are, for all keys and all writes.
THEOREM SeekIsExactAlways == Spec => []SeekExact
<1>1. BuildInv => SeekExact
  BY SeekIsExact
<1>2. QED
  BY <1>1, BuildInvariant, PTL

\* A point lookup is exact in every state of the invariant.
LEMMA GetIsExact ==
    ASSUME BuildInv PROVE GetExact
<1> DEFINE W == put[Len(tables) + 1]
           P == EntriesOf(W)
<1>1. SUFFICES ASSUME JustClosed, NEW i \in DOMAIN Writes
               PROVE  ReaderGet(LastTable, InternalKey(i)) = IF i \in W THEN {Value(i)} ELSE {}
  BY DEF GetExact
<1>2. TableHolds(LastTable, P) /\ W \in SUBSET DOMAIN Writes
  BY <1>1, LastTableHolds
<1>3. InternalKey(i) \in Keys
  BY WriteKey
<1>4. /\ \A x \in P : x.key = InternalKey(i) => ReaderGet(LastTable, InternalKey(i)) = {x.val}
      /\ (\A x \in P : x.key # InternalKey(i)) => ReaderGet(LastTable, InternalKey(i)) = {}
  BY <1>2, <1>3, ReaderGetIs
<1>5. CASE i \in W
  <2>1. PICK x \in P : x.key = InternalKey(i) /\ x.val = Value(i)
    BY <1>5, EntryKeys
  <2>2. QED
    BY <1>4, <1>5, <2>1
<1>6. CASE i \notin W
  <2>1. ASSUME NEW x \in P PROVE x.key # InternalKey(i)
    <3>1. PICK j \in W : x.key = InternalKey(j)
      BY EntryKeys
    <3>2. QED
      BY <1>2, <1>6, <3>1, InternalKeyInjective
  <2>2. QED
    BY <1>4, <1>6, <2>1
<1>7. QED
  BY <1>5, <1>6

\* A point lookup finds a key exactly if it was added, whatever the hash function
\* and the size of the filter are.
THEOREM GetIsExactAlways == Spec => []GetExact
<1>1. BuildInv => GetExact
  BY GetIsExact
<1>2. QED
  BY <1>1, BuildInvariant, PTL

\* After First and k calls of Next an iterator stands at the key that has k keys
\* below it, as long as there is one.
ScannedTo(t, P, K, it, k) ==
    /\ k < Cardinality(K) => /\ Stands(t, P, it)
                             /\ Cardinality({x \in K : Less(x, it.dat.key)}) = k
    /\ k >= Cardinality(K) => ~it.ok

\* One call of Next passes one key.
LEMMA ScanOneMore ==
    ASSUME NEW t, NEW P, NEW K \in SUBSET Keys, IsFiniteSet(K),
           \A x \in P : x.key \in K, \A a \in K : \E x \in P : x.key = a,
           NEW k \in Nat, k < Cardinality(K),
           NEW it \in TableIterators(1), ScannedTo(t, P, K, it, k)
    PROVE  TableNext(t, it) \in TableIterators(1) /\ ScannedTo(t, P, K, TableNext(t, it), k + 1)
<1> DEFINE r == TableNext(t, it)
           c == it.dat.key
           B == {x \in K : Less(x, c)}
           n == Cardinality(K)
<1>1. Stands(t, P, it) /\ Cardinality(B) = k /\ n \in Nat
  BY FS_CardinalityType DEF ScannedTo
<1>2. c \in K /\ c \in Keys
  <2>1. [key |-> it.dat.key, val |-> it.dat.val] \in P
    BY <1>1, StandsEntry
  <2>2. QED
    BY <2>1
<1>3. r \in TableIterators(1) /\ Follows(t, P, r, c)
  BY <1>1, TableNextIs
<1>4. IsFiniteSet(B) /\ c \notin B
  <2>1. IsFiniteSet(B)
    BY FS_Subset
  <2>2. QED
    BY <1>2, <2>1, LessTotal
<1>5. IsFiniteSet(B \cup {c}) /\ Cardinality(B \cup {c}) = k + 1
  BY <1>1, <1>4, FS_AddElement
<1>6. r.ok \in BOOLEAN
  BY <1>3 DEF TableIterators
<1> HIDE DEF r
<1>7. CASE r.ok
  <2> DEFINE d == r.dat.key
             D == {x \in K : Less(x, d)}
  <2>1. /\ Stands(t, P, r) /\ Less(c, d)
        /\ \A x \in P : Less(c, x.key) => AtLeast(x.key, d)
    BY <1>3, <1>7 DEF Follows
  <2>2. d \in K /\ d \in Keys
    <3>1. [key |-> r.dat.key, val |-> r.dat.val] \in P
      BY <2>1, StandsEntry
    <3>2. QED
      BY <3>1
  <2> HIDE DEF d
  <2>3. D = B \cup {c}
    <3>1. ASSUME NEW x \in K PROVE Less(x, d) <=> (Less(x, c) \/ x = c)
      <4>1. Less(c, x) => ~Less(x, d)
        BY <2>1 DEF AtLeast
      <4>2. Less(x, c) => Less(x, d)
        BY <1>2, <2>1, <2>2, LessTransitive
      <4>3. Less(x, c) \/ x = c \/ Less(c, x)
        BY <1>2, LessTotal
      <4>4. QED
        BY <2>1, <4>1, <4>2, <4>3
    <3>2. QED
      BY <1>2, <3>1
  <2>4. d \notin D
    BY <2>2, LessTotal
  <2>5. Cardinality(D) < n
    <3>1. D \subseteq K /\ D # K
      BY <2>2, <2>4
    <3> HIDE DEF D
    <3>2. QED
      <4>1. Cardinality(D) <= n /\ (n = Cardinality(D) => K = D) /\ IsFiniteSet(D)
        BY <3>1, FS_Subset
      <4>2. Cardinality(D) \in Nat
        BY <4>1, FS_CardinalityType
      <4>3. QED
        BY <1>1, <3>1, <4>1, <4>2
  <2>6. k + 1 < n /\ Cardinality(D) = k + 1
    BY <1>5, <2>3, <2>5
  <2>7. ScannedTo(t, P, K, r, k + 1)
    BY <1>1, <2>1, <2>6 DEF ScannedTo, d
  <2>8. QED
    BY <1>3, <2>7 DEF r
<1>8. CASE ~r.ok
  <2>1. \A x \in P : AtLeast(c, x.key)
    BY <1>3, <1>8 DEF Follows
  <2>2. K = B \cup {c}
    <3>1. ASSUME NEW x \in K PROVE Less(x, c) \/ x = c
      <4>1. ~Less(c, x)
        BY <2>1 DEF AtLeast
      <4>2. QED
        BY <1>2, <4>1, LessTotal
    <3>2. QED
      BY <1>2, <3>1
  <2>3. n = k + 1
    BY <1>5, <2>2
  <2>4. ~(k + 1 < n)
    BY <2>3
  <2>5. ScannedTo(t, P, K, r, k + 1)
    BY <1>8, <2>4 DEF ScannedTo
  <2>6. QED
    BY <1>3, <2>5 DEF r
<1>9. QED
  BY <1>6, <1>7, <1>8

\* A scan of a table passes all keys, one after the other.
LEMMA ScanToIs ==
    ASSUME NEW t, NEW P, TableHolds(t, P), NEW K \in SUBSET Keys, IsFiniteSet(K), K # {},
           \A x \in P : x.key \in K, \A a \in K : \E x \in P : x.key = a,
           NEW n \in 0 .. Cardinality(K)
    PROVE  ScannedTo(t, P, K, ScanTo(t, n), n)
<1> DEFINE first == TableFirst(t, NewTableIterator(t, 1))
           ts == Advance!Times(n, t)
           f == [k \in 0 .. n |-> {it \in TableIterators(1) : ScannedTo(t, P, K, it, k)}]
<1>1. Cardinality(K) \in Nat /\ Cardinality(K) > 0 /\ n \in Nat
  <2>1. Cardinality(K) \in Nat /\ Cardinality(K) # 0
    BY FS_CardinalityType, FS_EmptySet
  <2>2. QED
    BY <2>1
<1>2. Len(ts) = n /\ \A i \in 1 .. n : ts[i] = t
  BY <1>1 DEF Advance!Times
<1>3. ScanTo(t, n) = Advance!Loop(first, ts)
  BY DEF ScanTo
<1> HIDE DEF ts
<1>4. /\ first \in TableIterators(1) /\ Stands(t, P, first)
      /\ \A x \in P : AtLeast(x.key, first.dat.key)
  BY NewTableIteratorIs, TableFirstIs
<1> HIDE DEF first
<1>5. ScannedTo(t, P, K, first, 0)
  <2>1. {x \in K : Less(x, first.dat.key)} = {}
    BY <1>4 DEF AtLeast
  <2>2. Cardinality({x \in K : Less(x, first.dat.key)}) = 0
    BY <2>1, FS_EmptySet
  <2>3. ~(0 >= Cardinality(K))
    BY <1>1
  <2>4. QED
    BY <1>4, <2>2, <2>3 DEF ScannedTo
<1>6. first \in f[0]
  BY <1>1, <1>4, <1>5
<1>7. ASSUME NEW i \in 1 .. n, NEW a \in f[i - 1] PROVE AdvanceStep(a, ts[i]) \in f[i]
  <2>1. i - 1 \in 0 .. n /\ i \in 0 .. n /\ i - 1 \in Nat /\ i - 1 < Cardinality(K) /\ (i - 1) + 1 = i
    BY <1>1
  <2>2. a \in TableIterators(1) /\ ScannedTo(t, P, K, a, i - 1)
    BY <2>1
  <2>3. TableNext(t, a) \in TableIterators(1) /\ ScannedTo(t, P, K, TableNext(t, a), i - 1 + 1)
    BY <2>1, <2>2, ScanOneMore
  <2>4. AdvanceStep(a, ts[i]) = TableNext(t, a)
    BY <1>2 DEF AdvanceStep
  <2>5. QED
    BY <2>1, <2>3, <2>4
<1>8. ScanTo(t, n) \in f[n]
  <2> HIDE DEF f
  <2>2. QED
    BY <1>1, <1>2, <1>3, <1>6, <1>7, Advance!LoopInvariant
<1>9. QED
  BY <1>1, <1>8

\* A scan is exact in every state of the invariant.
LEMMA ScanIsExact ==
    ASSUME BuildInv PROVE ScanExact
<1> DEFINE W == put[Len(tables) + 1]
           P == EntriesOf(W)
           n == Cardinality(LastKeys)
<1>1. SUFFICES ASSUME JustClosed
               PROVE  /\ \A i \in 1 .. n :
                            /\ ScanTo(LastTable, i - 1).ok
                            /\ Cardinality({k \in LastKeys : Less(k, ScanTo(LastTable, i - 1).dat.key)}) = i - 1
                            /\ \E w \in W : /\ ScanTo(LastTable, i - 1).dat.key = InternalKey(w)
                                            /\ ScanTo(LastTable, i - 1).dat.val = Value(w)
                      /\ ~ScanTo(LastTable, n).ok
  BY DEF ScanExact
<1>2. TableHolds(LastTable, P) /\ W \in SUBSET DOMAIN Writes
  BY <1>1, LastTableHolds
<1>3. LastKeys = {InternalKey(i) : i \in W}
  BY DEF LastKeys
<1>4. LastKeys \in SUBSET Keys /\ IsFiniteSet(LastKeys)
  <2>1. IsFiniteSet(W)
    BY <1>2, WritesFinite
  <2>2. IsFiniteSet({InternalKey(i) : i \in W})
    <3> DEFINE f == [i \in W |-> InternalKey(i)]
               T == {InternalKey(i) : i \in W}
    <3>1. f \in Surjection(W, T)
      BY DEF Surjection
    <3>2. QED
      BY <2>1, <3>1, FS_Surjection
  <2>3. QED
    BY <1>2, <1>3, <2>2, WriteKey
<1>5. /\ \A x \in P : x.key \in LastKeys
      /\ \A a \in LastKeys : \E x \in P : x.key = a
  BY <1>3, EntryKeys
<1>6. LastKeys # {}
  <2>1. PICK x \in P : TRUE
    <3>1. NewTableIterator(LastTable, 1) \in TableIterators(1)
      BY <1>2, NewTableIteratorIs
    <3>2. Stands(LastTable, P, TableFirst(LastTable, NewTableIterator(LastTable, 1)))
      BY <1>2, <3>1, TableFirstIs
    <3>3. QED
      BY <3>2, StandsEntry
  <2>2. QED
    BY <1>5, <2>1
<1>7. \A k \in P : \E w \in W : k.key = InternalKey(w) /\ k.val = Value(w)
  BY EntryKeys
<1> DEFINE K == LastKeys
           t == LastTable
<1> HIDE DEF P, K, t
<1>8. n \in Nat
  BY <1>4, FS_CardinalityType
<1>9. \A k \in 0 .. n : ScannedTo(t, P, K, ScanTo(t, k), k)
  BY <1>2, <1>4, <1>5, <1>6, ScanToIs DEF K, t
<1>10. ASSUME NEW i \in 1 .. n
       PROVE  /\ ScanTo(t, i - 1).ok
              /\ Cardinality({k \in K : Less(k, ScanTo(t, i - 1).dat.key)}) = i - 1
              /\ \E w \in W : /\ ScanTo(t, i - 1).dat.key = InternalKey(w)
                              /\ ScanTo(t, i - 1).dat.val = Value(w)
  <2> DEFINE it == ScanTo(t, i - 1)
  <2>1. i - 1 \in 0 .. n /\ i - 1 < n
    BY <1>8
  <2>2. Stands(t, P, it) /\ Cardinality({k \in K : Less(k, it.dat.key)}) = i - 1
    BY <1>9, <2>1 DEF ScannedTo, K
  <2> HIDE DEF it
  <2>3. it.ok /\ [key |-> it.dat.key, val |-> it.dat.val] \in P
    BY <2>2, StandsEntry
  <2>4. \E w \in W : it.dat.key = InternalKey(w) /\ it.dat.val = Value(w)
    <3> DEFINE x == [key |-> it.dat.key, val |-> it.dat.val]
    <3>1. PICK w \in W : x.key = InternalKey(w) /\ x.val = Value(w)
      BY <1>7, <2>3
    <3>2. x.key = it.dat.key /\ x.val = it.dat.val
      OBVIOUS
    <3>3. QED
      BY <3>1, <3>2
  <2>5. QED
    BY <2>2, <2>3, <2>4 DEF it
<1>11. ~ScanTo(t, n).ok
  <2>1. n \in 0 .. n /\ n >= n
    BY <1>8
  <2>2. QED
    BY <1>9, <2>1 DEF ScannedTo, K
<1>12. QED
  BY <1>10, <1>11 DEF K, t

\* A scan of a table returns exactly the entries that were added, in order,
\* whatever the block size, the restart interval and the keys are.
THEOREM ScanIsExactAlways == Spec => []ScanExact
<1>1. BuildInv => ScanExact
  BY ScanIsExact
<1>2. QED
  BY <1>1, BuildInvariant, PTL

-----------------------------------------------------------------------------
(* The order of internal keys *)

\* Numbers are in the order of their two digits.
LEMMA DigitOrder ==
    ASSUME NEW v \in Nat, NEW w \in Nat, v < w
    PROVE  \/ v \div Base < w \div Base
           \/ v \div Base = w \div Base /\ v % Base < w % Base
<1> DEFINE b == Base
           vd == v \div Base
           vm == v % Base
           wd == w \div Base
           wm == w % Base
<1>1. b \in Nat /\ b >= 2
  BY MaxByteAssumption DEF Base
<1>2. vd \in Nat /\ vm \in Nat /\ wd \in Nat /\ wm \in Nat /\ v = b * vd + vm /\ w = b * wd + wm
  BY TrailerBytes
<1>3. vm < b /\ wm < b
  <2>1. Base \in Nat /\ Base > 0
    BY <1>1
  <2>2. QED
    BY <2>1
<1> HIDE DEF b, vd, vm, wd, wm
<1>4. ~(vd > wd)
  <2>1. SUFFICES ASSUME vd > wd PROVE FALSE
    OBVIOUS
  <2>2. PICK d \in Nat : vd = wd + 1 + d
    <3>1. vd - wd - 1 \in Nat /\ vd = wd + 1 + (vd - wd - 1)
      BY <1>2, <2>1
    <3>2. QED
      BY <3>1
  <2>3. b * vd = b * wd + b + b * d /\ b * d \in Nat /\ b * wd \in Nat
    BY <1>1, <1>2, <2>2
  <2>4. QED
    BY <1>1, <1>2, <1>3, <2>3
<1>5. vd = wd => vm < wm
  <2>1. SUFFICES ASSUME vd = wd PROVE vm < wm
    OBVIOUS
  <2>2. b * vd = b * wd /\ b * vd \in Nat
    BY <1>1, <1>2, <2>1
  <2>3. QED
    BY <1>2, <2>2
<1>6. vd < wd \/ vd = wd \/ vd > wd
  BY <1>2
<1>7. QED
  BY <1>4, <1>5, <1>6 DEF vd, vm, wd, wm

\* Versions of the same key are in the order of their trailers.
LEMMA TrailerOrder ==
    ASSUME NEW a, NEW b, NEW u \in Keys, NEW v \in Nat, NEW w \in Nat,
           IsInternalKey(a, u, v), IsInternalKey(b, u, w), v < w
    PROVE  Less(a, b)
<1>1. /\ a \in Keys /\ Len(a) = Len(u) + 2 /\ Len(u) \in Nat /\ \A j \in 1 .. Len(u) : a[j] = u[j]
      /\ a[Len(u) + 1] = v \div Base /\ a[Len(u) + 2] = v % Base
      /\ b \in Keys /\ Len(b) = Len(u) + 2 /\ \A j \in 1 .. Len(u) : b[j] = u[j]
      /\ b[Len(u) + 1] = w \div Base /\ b[Len(u) + 2] = w % Base
  BY DEF IsInternalKey, Keys
<1> DEFINE vd == v \div Base
           vm == v % Base
           wd == w \div Base
           wm == w % Base
           n == Len(u)
<1>2. vd \in Nat /\ vm \in Nat /\ wd \in Nat /\ wm \in Nat
  BY TrailerBytes
<1>3. vd < wd \/ (vd = wd /\ vm < wm)
  BY DigitOrder
<1>4. /\ a[n + 1] = vd /\ a[n + 2] = vm /\ b[n + 1] = wd /\ b[n + 2] = wm
      /\ \A j \in 1 .. n : a[j] = b[j]
  BY <1>1
<1> HIDE DEF vd, vm, wd, wm, n
<1>5. n \in Nat /\ Len(a) = n + 2 /\ Len(b) = n + 2
  BY <1>1 DEF n
<1>6. CASE vd < wd
  <2>1. \A j \in 1 .. (n + 1) - 1 : j \in 1 .. n
    BY <1>5
  <2>2. FirstDiff(a, b, n + 1)
    BY <1>2, <1>4, <1>5, <1>6, <2>1 DEF FirstDiff
  <2>3. QED
    BY <1>1, <1>4, <1>5, <1>6, <2>2, LessAtDiff
<1>7. CASE vd = wd /\ vm < wm
  <2>1. \A j \in 1 .. (n + 2) - 1 : j \in 1 .. n \/ j = n + 1
    BY <1>5
  <2>2. FirstDiff(a, b, n + 2)
    BY <1>2, <1>4, <1>5, <1>7, <2>1 DEF FirstDiff
  <2>3. QED
    BY <1>1, <1>4, <1>5, <1>7, <2>2, LessAtDiff
<1>8. QED
  BY <1>3, <1>6, <1>7

\* Internal keys of different user keys, neither a prefix of the other, are in
\* the order of the user keys.
LEMMA UserOrder ==
    ASSUME NEW a, NEW b, NEW u \in Keys, NEW t \in Keys, NEW v, NEW w,
           IsInternalKey(a, u, v), IsInternalKey(b, t, w),
           u # t, ~IsProperPrefix(u, t), ~IsProperPrefix(t, u)
    PROVE  Less(a, b) <=> Less(u, t)
<1>1. /\ a \in Keys /\ Len(a) = Len(u) + 2 /\ Len(u) \in Nat /\ \A j \in 1 .. Len(u) : a[j] = u[j]
      /\ b \in Keys /\ Len(b) = Len(t) + 2 /\ Len(t) \in Nat /\ \A j \in 1 .. Len(t) : b[j] = t[j]
  BY DEF IsInternalKey, Keys
<1> DEFINE i == SharedPrefix(u, t) + 1
           k == SharedPrefix(t, u) + 1
<1>2. SharedPrefix(u, t) \in Nat /\ FirstDiff(u, t, i) /\ SharedPrefix(t, u) \in Nat /\ FirstDiff(t, u, k)
  BY SharedPrefixIs
<1>3. i = k
  <2>1. FirstDiff(u, t, k) /\ i \in Nat /\ k \in Nat
    BY <1>2 DEF FirstDiff
  <2>2. ~(i < k)
    BY <1>2, <2>1 DEF FirstDiff
  <2>3. ~(k < i)
    BY <1>2, <2>1 DEF FirstDiff
  <2> HIDE DEF i, k
  <2>4. QED
    BY <2>1, <2>2, <2>3
<1>4. /\ ~(Len(u) < Len(t) /\ i = Len(u) + 1)
      /\ ~(Len(t) < Len(u) /\ i = Len(t) + 1)
  <2>1. i = Len(u) + 1 => SharedPrefix(u, t) = Len(u)
    BY <1>1, <1>2
  <2>2. i = Len(t) + 1 => SharedPrefix(t, u) = Len(t)
    BY <1>1, <1>2, <1>3
  <2>3. QED
    BY <2>1, <2>2 DEF IsProperPrefix
<1> HIDE DEF i, k
<1>5. /\ i \in Nat /\ i > 0 /\ \A j \in 1 .. i - 1 : j <= Len(u) /\ j <= Len(t) /\ u[j] = t[j]
      /\ i > Len(u) \/ i > Len(t) \/ u[i] # t[i]
  BY <1>2 DEF FirstDiff
<1>6. i - 1 <= Len(u) /\ i - 1 <= Len(t)
  <2>1. i = 1 \/ i - 1 \in 1 .. i - 1
    BY <1>5
  <2>2. QED
    BY <1>1, <1>5, <2>1
<1>7. ~(i > Len(u) /\ i > Len(t))
  <2>1. SUFFICES ASSUME i > Len(u), i > Len(t) PROVE FALSE
    OBVIOUS
  <2>2. Len(u) = i - 1 /\ Len(t) = i - 1
    BY <1>1, <1>5, <1>6, <2>1
  <2>3. \A j \in 1 .. Len(u) : u[j] = t[j]
    BY <1>5, <2>2
  <2>4. u = t
    BY <2>2, <2>3, SeqEqual DEF Keys
  <2>5. QED
    BY <2>4
<1>8. i <= Len(u) /\ i <= Len(t)
  BY <1>1, <1>4, <1>5, <1>6, <1>7
<1>9. u[i] # t[i] /\ a[i] = u[i] /\ b[i] = t[i]
  BY <1>1, <1>5, <1>8
<1>10. \A j \in 1 .. i - 1 : j <= Len(a) /\ j <= Len(b) /\ a[j] = b[j]
  <2>1. ASSUME NEW j \in 1 .. i - 1 PROVE j <= Len(a) /\ j <= Len(b) /\ a[j] = b[j]
    <3>1. j <= Len(u) /\ j <= Len(t) /\ u[j] = t[j] /\ j \in 1 .. Len(u) /\ j \in 1 .. Len(t)
      BY <1>1, <1>5
    <3>2. QED
      BY <1>1, <3>1
  <2>2. QED
    BY <2>1
<1>11. FirstDiff(a, b, i)
  BY <1>5, <1>9, <1>10 DEF FirstDiff
<1>12. i <= Len(a) /\ i <= Len(b)
  BY <1>1, <1>5, <1>8
<1>13. Less(a, b) <=> a[i] < b[i]
  BY <1>1, <1>11, <1>12, LessAtDiff
<1>14. Less(u, t) <=> u[i] < t[i]
  BY <1>2, <1>8, LessAtDiff
<1>15. QED
  BY <1>9, <1>13, <1>14

\* The order of two writes' internal keys: by user key, the newest version first.
LEMMA WriteOrder ==
    ASSUME NEW i \in DOMAIN Writes, NEW j \in DOMAIN Writes,
           ~IsProperPrefix(Writes[i].key, Writes[j].key),
           ~IsProperPrefix(Writes[j].key, Writes[i].key)
    PROVE  /\ Writes[i].key # Writes[j].key =>
                (Less(InternalKey(i), InternalKey(j)) <=> Less(Writes[i].key, Writes[j].key))
           /\ Writes[i].key = Writes[j].key => (Less(InternalKey(i), InternalKey(j)) <=> j < i)
<1>1. /\ Writes[i].key # Writes[j].key =>
            (Less(InternalKey(i), InternalKey(j)) <=> Less(Writes[i].key, Writes[j].key))
  BY WriteIs, WriteKey, UserOrder
<1> DEFINE sq == Base * Base
           v == Trailer(i, Writes[i].kind)
           w == Trailer(j, Writes[j].kind)
<1>2. sq \in Nat /\ v \in Nat /\ w \in Nat
  BY MaxByteAssumption, WriteIs DEF Base
<1>3. v = sq - 1 - (2 * i + Writes[i].kind) /\ w = sq - 1 - (2 * j + Writes[j].kind)
  BY DEF Trailer
<1>4. /\ i \in Nat /\ Writes[i].kind \in {0, 1} /\ j \in Nat /\ Writes[j].kind \in {0, 1}
      /\ Writes[i].key \in Keys
  BY WriteIs
<1>5. IsInternalKey(InternalKey(i), Writes[i].key, v) /\ IsInternalKey(InternalKey(j), Writes[j].key, w)
  BY WriteKey
<1> HIDE DEF sq, v, w
<1>6. (j < i => v < w) /\ (i < j => w < v)
  BY <1>2, <1>3, <1>4
<1>7. ASSUME Writes[i].key = Writes[j].key
      PROVE  Less(InternalKey(i), InternalKey(j)) <=> j < i
  <2>1. j < i => Less(InternalKey(i), InternalKey(j))
    BY <1>2, <1>4, <1>5, <1>6, <1>7, TrailerOrder
  <2>2. i < j => Less(InternalKey(j), InternalKey(i))
    BY <1>2, <1>4, <1>5, <1>6, <1>7, TrailerOrder
  <2>3. InternalKey(i) \in Keys /\ InternalKey(j) \in Keys
    BY WriteKey
  <2>4. i = j \/ i < j \/ j < i
    BY <1>4
  <2>5. QED
    BY <2>1, <2>2, <2>3, <2>4, LessTotal
<1>8. QED
  BY <1>1, <1>7

\* The key SeekGE seeks is not above the keys of the target, and separates the
\* writes whose keys are below the target from the others.
LEMMA SeekKeyOrder ==
    ASSUME NEW target \in Targets, NEW i \in DOMAIN Writes,
           target # <<>> => /\ ~IsProperPrefix(Writes[i].key, target)
                            /\ ~IsProperPrefix(target, Writes[i].key)
    PROVE  AtLeast(InternalKey(i), MakeInternalKey(target, MaxSeqNum, KindSet))
                <=> AtLeast(Writes[i].key, target)
<1> DEFINE a == InternalKey(i)
           b == MakeInternalKey(target, MaxSeqNum, KindSet)
           u == Writes[i].key
           v == Trailer(i, Writes[i].kind)
           w == Trailer(MaxSeqNum, KindSet)
           sq == Base * Base
<1>1. /\ IsInternalKey(a, u, v) /\ a \in Keys /\ u \in Keys /\ v \in Nat
      /\ IsInternalKey(b, target, w) /\ b \in Keys /\ target \in Keys /\ w \in Nat
  BY WriteIs, WriteKey, SeekKeyIs
<1>2. w = 0
  <2>1. sq \in Nat /\ sq % 2 = 0 /\ sq >= 2
    <3>1. Base \in Nat /\ Base % 2 = 0 /\ Base >= 2
      BY MaxByteAssumption DEF Base
    <3>2. PICK h \in Nat : Base = 2 * h
      <4>1. Base \div 2 \in Nat /\ Base = 2 * (Base \div 2)
        BY <3>1
      <4>2. QED
        BY <4>1
    <3>3. sq = 2 * (h * Base) /\ h * Base \in Nat
      BY <3>1, <3>2
    <3>4. sq >= 2 
      BY <3>1
    <3>5. QED
      BY <3>3, <3>4
  <2>2. w = sq - 1 - (2 * ((sq - 2) \div 2) + 1)
    BY DEF Trailer, MaxSeqNum, KindSet
  <2> HIDE DEF sq, w
  <2>3. QED
    BY <2>1, <2>2
<1>3. v > 0
  <2>1. sq \in Nat /\ i < (sq - 2) \div 2 /\ i \in Nat /\ Writes[i].kind \in {0, 1}
    BY WritesAssumption, MaxByteAssumption, WriteIs DEF MaxSeqNum, Base
  <2>2. v = sq - 1 - (2 * i + Writes[i].kind)
    BY DEF Trailer
  <2> HIDE DEF sq, v
  <2>3. QED
    BY <2>1, <2>2
<1> HIDE DEF a, b, u, v, w
<1>4. CASE u = target
  <2>1. Less(b, a)
    BY <1>1, <1>2, <1>3, <1>4, TrailerOrder
  <2>2. QED
    BY <1>1, <1>4, <2>1, LessTotal DEF AtLeast, a, b, u
<1>5. CASE u # target /\ target # <<>>
  <2>1. Less(a, b) <=> Less(u, target)
    BY <1>1, <1>5, UserOrder DEF u
  <2>2. QED
    BY <2>1 DEF AtLeast, a, b, u
<1>6. CASE target = <<>>
  <2>1. AtLeast(u, target)
    BY <1>6 DEF AtLeast, Less
  <2>2. Len(b) = 2 /\ b[1] = 0 /\ b[2] = 0 /\ Len(a) \in Nat /\ Len(a) >= 2
    <3>1. 0 \div Base = 0 /\ 0 % Base = 0
      <4>1. Base \in Nat /\ Base >= 2
        BY MaxByteAssumption DEF Base
      <4>2. QED
        BY <4>1
    <3>2. Len(b) = 2 /\ b[1] = 0 /\ b[2] = 0
      BY <1>1, <1>2, <1>6, <3>1 DEF IsInternalKey
    <3>3. Len(a) = Len(u) + 2 /\ Len(u) \in Nat
      BY <1>1 DEF IsInternalKey, Keys
    <3>4. QED
      BY <3>2, <3>3
  <2>3. \A k \in 1 .. 2 : a[k] \in Nat
    BY <1>1, <2>2, KeyByte
  <2>4. ~Less(a, b)
    BY <2>2, <2>3 DEF Less
  <2>5. QED
    BY <2>1, <2>4 DEF AtLeast, a, b, u
<1>7. QED
  BY <1>4, <1>5, <1>6

-----------------------------------------------------------------------------
(* The memtable *)

\* The memtable holds the writes W in the order of their internal keys.
MemSound(m, W) ==
    /\ m \in Seq(DOMAIN Writes)
    /\ \A a, b \in 1 .. Len(m) : a < b => Less(InternalKey(m[a]), InternalKey(m[b]))
    /\ \A n \in 1 .. Len(m) : m[n] \in W
    /\ \A i \in W : \E n \in 1 .. Len(m) : m[n] = i

BelowIn(m, key) == Cardinality({n \in DOMAIN m : Less(InternalKey(m[n]), key)})

\* The elements of the memtable.
LEMMA MemElement ==
    ASSUME NEW m, NEW W, MemSound(m, W), NEW n \in 1 .. Len(m)
    PROVE  m[n] \in DOMAIN Writes /\ InternalKey(m[n]) \in Keys /\ m[n] \in W
<1>1. m[n] \in DOMAIN Writes
  BY ElementOfSeq DEF MemSound
<1>2. QED
  BY <1>1, WriteKey DEF MemSound

\* The entries below a key are the first ones, as many as are counted.
LEMMA BelowInIs ==
    ASSUME NEW m, NEW W, MemSound(m, W), NEW key \in Keys
    PROVE  /\ BelowIn(m, key) \in 0 .. Len(m)
           /\ \A n \in 1 .. Len(m) : Less(InternalKey(m[n]), key) <=> n <= BelowIn(m, key)
           /\ Len(m) \in Nat
<1> DEFINE S == {n \in DOMAIN m : Less(InternalKey(m[n]), key)}
           T == {n \in Nat \ {0} : n > Len(m) \/ ~Less(InternalKey(m[n]), key)}
<1>1. Len(m) \in Nat /\ DOMAIN m = 1 .. Len(m)
  BY DEF MemSound
<1>2. Len(m) + 1 \in T
  BY <1>1
<1>3. PICK c \in T : \A n \in T : c <= n
  <2>1. T \subseteq Nat /\ T # {}
    BY <1>2
  <2> HIDE DEF T
  <2>2. QED
    BY <2>1, Search!NatMin
<1>4. c \in Nat /\ c > 0 /\ c <= Len(m) + 1
  BY <1>2, <1>3
<1>5. ASSUME NEW n \in 1 .. Len(m) PROVE Less(InternalKey(m[n]), key) <=> n <= c - 1
  <2>1. n <= c - 1 => Less(InternalKey(m[n]), key)
    <3>1. n <= c - 1 => n \notin T
      BY <1>1, <1>3, <1>4
    <3>2. QED
      BY <1>1, <3>1
  <2>2. ASSUME n >= c PROVE ~Less(InternalKey(m[n]), key)
    <3>1. c \in 1 .. Len(m) /\ ~Less(InternalKey(m[c]), key)
      BY <1>1, <1>3, <1>4, <2>2
    <3>2. n = c \/ Less(InternalKey(m[c]), InternalKey(m[n]))
      BY <2>2, <3>1 DEF MemSound
    <3>3. InternalKey(m[c]) \in Keys /\ InternalKey(m[n]) \in Keys
      BY <3>1, MemElement
    <3>4. QED
      BY <3>1, <3>2, <3>3, LessTransitive
  <2>3. n <= c - 1 \/ n >= c
    BY <1>1, <1>4
  <2>4. QED
    BY <1>1, <1>4, <2>1, <2>2, <2>3
<1>6. S = 1 .. (c - 1)
  BY <1>1, <1>4, <1>5
<1>7. Cardinality(S) = c - 1
  <2>1. c - 1 \in Nat
    BY <1>4
  <2>2. Cardinality(1 .. (c - 1)) = c - 1
    BY <2>1, FS_Interval
  <2>3. QED
    BY <1>6, <2>2
<1>8. BelowIn(m, key) = c - 1
  BY <1>7 DEF BelowIn
<1>9. QED
  BY <1>1, <1>4, <1>5, <1>8

\* A write is put where its internal key belongs.
LEMMA MemInsert ==
    ASSUME NEW m, NEW W, MemSound(m, W), NEW i \in DOMAIN Writes, i \notin W, NEW n,
           n = BelowIn(m, InternalKey(i))
    PROVE  MemSound(SubSeq(m, 1, n) \o <<i>> \o SubSeq(m, n + 1, Len(m)), W \cup {i})
<1> DEFINE a == SubSeq(m, 1, n)
           b == <<i>>
           c == SubSeq(m, n + 1, Len(m))
           D == DOMAIN Writes
           r == (a \o b) \o c
<1>1. /\ n \in 0 .. Len(m) /\ Len(m) \in Nat
      /\ \A k \in 1 .. Len(m) : Less(InternalKey(m[k]), InternalKey(i)) <=> k <= n
  BY WriteKey, BelowInIs
<1>2. m \in Seq(D)
  BY DEF MemSound
<1>3. a \in Seq(D) /\ Len(a) = n /\ \A k \in 1 .. n : a[k] = m[k]
  <2>1. \A k \in 1 .. n : k \in 1 .. Len(m)
    BY <1>1
  <2>2. QED
    BY <1>1, <1>2, <2>1, SubSeqProperties
<1>4. b \in Seq(D) /\ Len(b) = 1 /\ b[1] = i
  OBVIOUS
<1>5. c \in Seq(D) /\ Len(c) = Len(m) - n /\ \A k \in 1 .. Len(m) - n : c[k] = m[n + k]
  <2>1. n + 1 \in 1 .. Len(m) + 1 /\ \A k \in 1 .. Len(m) - n : n + k \in 1 .. Len(m)
    BY <1>1
  <2>2. QED
    BY <1>1, <1>2, <2>1, SubSeqProperties
<1> HIDE DEF a, b, c, D
<1>6. /\ a \o b \in Seq(D) /\ Len(a \o b) = n + 1
      /\ \A k \in 1 .. n : (a \o b)[k] = m[k]
      /\ (a \o b)[n + 1] = i
  <2>1. /\ a \o b \in Seq(D) /\ Len(a \o b) = Len(a) + Len(b)
        /\ \A k \in 1 .. Len(a) + Len(b) : (a \o b)[k] = IF k <= Len(a) THEN a[k] ELSE b[k - Len(a)]
    BY <1>3, <1>4, ConcatProperties
  <2>2. \A k \in 1 .. n : k \in 1 .. Len(a) + Len(b) /\ k <= Len(a)
    BY <1>1, <1>3, <1>4
  <2>3. n + 1 \in 1 .. Len(a) + Len(b) /\ ~(n + 1 <= Len(a)) /\ (n + 1) - Len(a) = 1
    BY <1>1, <1>3, <1>4
  <2>4. \A k \in 1 .. n : (a \o b)[k] = m[k]
    BY <1>3, <2>1, <2>2
  <2>5. (a \o b)[n + 1] = i
    BY <1>4, <2>1, <2>3
  <2>6. QED
    BY <1>3, <1>4, <2>1, <2>4, <2>5
<1> DEFINE ab == a \o b
<1>7. ab \in Seq(D) /\ Len(ab) = n + 1 /\ (\A k \in 1 .. n : ab[k] = m[k]) /\ ab[n + 1] = i
  BY <1>6
<1> HIDE DEF ab
<1>8. /\ r \in Seq(D) /\ Len(r) = Len(ab) + Len(c)
      /\ \A k \in 1 .. Len(ab) + Len(c) : r[k] = IF k <= Len(ab) THEN ab[k] ELSE c[k - Len(ab)]
  <2>1. r = ab \o c
    BY DEF ab
  <2> HIDE DEF r
  <2>2. /\ ab \o c \in Seq(D) /\ Len(ab \o c) = Len(ab) + Len(c)
        /\ \A k \in 1 .. Len(ab) + Len(c) :
                (ab \o c)[k] = IF k <= Len(ab) THEN ab[k] ELSE c[k - Len(ab)]
    BY <1>5, <1>7, ConcatProperties
  <2>3. QED
    BY <2>1, <2>2
<1> HIDE DEF r
<1>9. Len(r) = Len(m) + 1
  BY <1>1, <1>5, <1>7, <1>8
\* the places of the result
<1>10. \A k \in 1 .. n : r[k] = m[k] /\ k \in 1 .. Len(r)
  <2>1. \A k \in 1 .. n : k \in 1 .. Len(ab) + Len(c) /\ k <= Len(ab)
    BY <1>1, <1>5, <1>7
  <2>2. QED
    BY <1>7, <1>8, <2>1
<1>11. r[n + 1] = i /\ n + 1 \in 1 .. Len(r)
  <2>1. n + 1 \in 1 .. Len(ab) + Len(c) /\ n + 1 <= Len(ab)
    BY <1>1, <1>5, <1>7
  <2>2. QED
    BY <1>7, <1>8, <2>1
<1>12. \A k \in (n + 1) .. Len(m) : r[k + 1] = m[k] /\ k + 1 \in 1 .. Len(r)
  <2>1. ASSUME NEW k \in (n + 1) .. Len(m) PROVE r[k + 1] = m[k] /\ k + 1 \in 1 .. Len(r)
    <3>1. /\ k + 1 \in 1 .. Len(ab) + Len(c) /\ ~(k + 1 <= Len(ab))
          /\ (k + 1) - Len(ab) = k - n /\ k - n \in 1 .. Len(m) - n /\ n + (k - n) = k
      <4>1. k \in Nat /\ k >= n + 1 /\ k <= Len(m) /\ n \in Nat
        BY <1>1
      <4>2. Len(ab) + Len(c) = Len(m) + 1 /\ Len(ab) = n + 1
        BY <1>1, <1>5, <1>7
      <4>3. k + 1 \in 1 .. Len(m) + 1 /\ ~(k + 1 <= n + 1)
        BY <1>1, <4>1
      <4>4. (k + 1) - (n + 1) = k - n /\ n + (k - n) = k
        BY <4>1
      <4>5. k - n \in 1 .. Len(m) - n
        BY <1>1, <4>1
      <4>6. QED
        BY <4>2, <4>3, <4>4, <4>5
    <3>2. r[k + 1] = c[k - n]
      BY <1>8, <3>1
    <3>3. c[k - n] = m[n + (k - n)]
      BY <1>5, <3>1
    <3>4. QED
      BY <1>8, <3>1, <3>2, <3>3
  <2>2. QED
    BY <2>1
\* a place of the result is one in front of n + 1, that one, or one behind it
<1>13. ASSUME NEW k \in 1 .. Len(r)
       PROVE  k \in 1 .. n \/ k = n + 1 \/ (k - 1 \in (n + 1) .. Len(m) /\ r[k] = m[k - 1])
  <2>1. k \in 1 .. n \/ k = n + 1 \/ k - 1 \in (n + 1) .. Len(m)
    BY <1>1, <1>9
  <2>2. k - 1 \in (n + 1) .. Len(m) => r[(k - 1) + 1] = m[k - 1] /\ (k - 1) + 1 = k
    BY <1>12
  <2>3. QED
    BY <2>1, <2>2
<1>14. \A k \in 1 .. Len(r) : r[k] \in W \cup {i}
  <2>1. \A k \in 1 .. Len(m) : m[k] \in W
    BY DEF MemSound
  <2>2. (\A k \in 1 .. n : k \in 1 .. Len(m)) /\ \A k \in (n + 1) .. Len(m) : k \in 1 .. Len(m)
    BY <1>1
  <2>3. QED
    BY <1>10, <1>11, <1>13, <2>1, <2>2
<1>15. \A x \in W \cup {i} : \E k \in 1 .. Len(r) : r[k] = x
  <2>1. ASSUME NEW x \in W PROVE \E k \in 1 .. Len(r) : r[k] = x
    <3>1. PICK k \in 1 .. Len(m) : m[k] = x
      BY DEF MemSound
    <3>2. k \in 1 .. n \/ k \in (n + 1) .. Len(m)
      BY <1>1
    <3>3. QED
      BY <1>10, <1>12, <3>1, <3>2
  <2>2. QED
    BY <1>11, <2>1
<1>16. \A k \in 1 .. n : Less(InternalKey(m[k]), InternalKey(i))
  <2>1. \A k \in 1 .. n : k \in 1 .. Len(m) /\ k <= n
    BY <1>1
  <2>2. QED
    BY <1>1, <2>1
<1>17. ASSUME NEW k \in (n + 1) .. Len(m) PROVE Less(InternalKey(i), InternalKey(m[k]))
  <2>1. k \in 1 .. Len(m) /\ ~(k <= n)
    BY <1>1
  <2>2. ~Less(InternalKey(m[k]), InternalKey(i))
    BY <1>1, <2>1
  <2>3. m[k] \in DOMAIN Writes /\ m[k] \in W
    BY <2>1, MemElement
  <2>4. InternalKey(m[k]) # InternalKey(i)
    BY <2>3, InternalKeyInjective
  <2>5. QED
    BY <2>2, <2>3, <2>4, WriteKey, LessTotal
<1>18. ASSUME NEW k \in 1 .. Len(r), NEW l \in 1 .. Len(r), k < l
       PROVE  Less(InternalKey(r[k]), InternalKey(r[l]))
  <2>1. \A x, y \in 1 .. Len(m) : x < y => Less(InternalKey(m[x]), InternalKey(m[y]))
    BY DEF MemSound
  <2>2. (\A x \in 1 .. n : x \in 1 .. Len(m)) /\ \A x \in (n + 1) .. Len(m) : x \in 1 .. Len(m)
    BY <1>1
  <2>3. CASE k \in 1 .. n
    <3>1. r[k] = m[k]
      BY <1>10, <2>3
    <3>2. CASE l \in 1 .. n
      BY <1>10, <1>18, <2>1, <2>2, <2>3, <3>1, <3>2
    <3>3. CASE l = n + 1
      BY <1>11, <1>16, <2>3, <3>1, <3>3
    <3>4. CASE l - 1 \in (n + 1) .. Len(m) /\ r[l] = m[l - 1]
      <4>1. k < l - 1
        BY <1>1, <2>3, <3>4
      <4>2. QED
        BY <2>1, <2>2, <2>3, <3>1, <3>4, <4>1
    <3>5. QED
      BY <1>13, <3>2, <3>3, <3>4
  <2>4. CASE k = n + 1
    <3>1. l - 1 \in (n + 1) .. Len(m) /\ r[l] = m[l - 1]
      BY <1>1, <1>13, <1>18, <2>4
    <3>2. QED
      BY <1>11, <1>17, <2>4, <3>1
  <2>5. CASE k - 1 \in (n + 1) .. Len(m) /\ r[k] = m[k - 1]
    <3>1. l - 1 \in (n + 1) .. Len(m) /\ r[l] = m[l - 1] /\ k - 1 < l - 1
      BY <1>1, <1>13, <1>18, <2>5
    <3>2. QED
      BY <2>1, <2>2, <2>5, <3>1
  <2>6. QED
    BY <1>13, <2>3, <2>4, <2>5
<1>19. MemSound(r, W \cup {i})
  BY <1>8, <1>14, <1>15, <1>18 DEF MemSound, D
<1>20. QED
  BY <1>19 DEF r, a, b, c

-----------------------------------------------------------------------------
(* Iterators over the sources *)

MemIterators == [pos: Nat, ok: BOOLEAN, loads: {<<>>}]
SourceIterators(s) == IF s = 1 THEN MemIterators ELSE TableIterators(s - 1)

KeyOf(m, it, s) == IF s = 1 THEN InternalKey(m[it.pos]) ELSE it.dat.key
ValOf(m, it, s) == IF s = 1 THEN Value(m[it.pos]) ELSE it.dat.val

\* i is the write of X with the smallest internal key.
Least(i, X) == i \in X /\ \A j \in X : AtLeast(InternalKey(j), InternalKey(i))

\* The iterator stands at write i of source s; m is the memtable, ts are the
\* tables and p[s] the writes of source s.
Reads(m, ts, p, it, s, i) ==
    /\ i \in p[s] /\ it.ok
    /\ KeyOf(m, it, s) = InternalKey(i) /\ ValOf(m, it, s) = Value(i)
    /\ s = 1 => it.pos \in 1 .. Len(m) /\ m[it.pos] = i
    /\ s # 1 => Stands(ts[s - 1], EntriesOf(p[s]), it)

\* The iterator stands at the first of the writes X of source s, or there is none.
Lands(m, ts, p, it, s, X) ==
    /\ it.ok => \E i \in X : Least(i, X) /\ Reads(m, ts, p, it, s, i)
    /\ ~it.ok => X = {}

\* What is known of source s.
SourceSound(m, ts, p, s) ==
    /\ p[s] \in SUBSET DOMAIN Writes
    /\ s = 1 => MemSound(m, p[s])
    /\ s # 1 => TableHolds(ts[s - 1], EntriesOf(p[s]))

\* The blocks it has loaded are blocks of its table.
SourceLoads(ts, it, s) ==
    /\ s = 1 => it.loads = <<>>
    /\ s # 1 => LoadsSound(ts[s - 1], it)

\* An iterator that stands at an entry of a table reads a write of it.
LEMMA StandsReads ==
    ASSUME NEW m, NEW ts, NEW p, NEW it, NEW s, s # 1, Stands(ts[s - 1], EntriesOf(p[s]), it)
    PROVE  \E i \in p[s] : Reads(m, ts, p, it, s, i) /\ it.dat.key = InternalKey(i)
<1>1. [key |-> it.dat.key, val |-> it.dat.val] \in EntriesOf(p[s]) /\ it.ok
  BY StandsEntry
<1> DEFINE x == [key |-> it.dat.key, val |-> it.dat.val]
<1>2. PICK i \in p[s] : x.key = InternalKey(i) /\ x.val = Value(i)
  BY <1>1, EntryKeys
<1>3. it.dat.key = InternalKey(i) /\ it.dat.val = Value(i)
  BY <1>2
<1>4. Reads(m, ts, p, it, s, i)
  BY <1>1, <1>3 DEF Reads, KeyOf, ValOf
<1>5. QED
  BY <1>3, <1>4

\* The same for the sources as they are.
LEMMA StandsReadsNow ==
    ASSUME NEW s, NEW r, s # 1, Stands(tables[s - 1], EntriesOf(put[s]), r)
    PROVE  \E i \in put[s] : Reads(mem, tables, put, r, s, i) /\ r.dat.key = InternalKey(i)
<1> DEFINE m == mem
           ts == tables
           p == put
<1>1. s # 1 /\ Stands(ts[s - 1], EntriesOf(p[s]), r)
  OBVIOUS
<1> HIDE DEF m, ts, p
<1>2. \E i \in p[s] : Reads(m, ts, p, r, s, i) /\ r.dat.key = InternalKey(i)
  BY <1>1, StandsReads
<1>3. QED
  BY <1>2 DEF m, ts, p

\* The memtable's iterator at a position.
LEMMA MemAtReads ==
    ASSUME NEW m, NEW ts, NEW p, MemSound(m, p[1]), NEW n \in Nat, NEW r,
           r = [pos |-> n, ok |-> n \in DOMAIN m, loads |-> <<>>]
    PROVE  /\ r \in MemIterators
           /\ r.ok => n \in 1 .. Len(m) /\ Reads(m, ts, p, r, 1, m[n])
           /\ ~r.ok => n \notin 1 .. Len(m)
<1>1. DOMAIN m = 1 .. Len(m)
  BY DEF MemSound
<1> DEFINE in == n \in DOMAIN m
<1>2. in \in BOOLEAN /\ (in <=> n \in 1 .. Len(m))
  <2>1. in <=> n \in 1 .. Len(m)
    BY <1>1
  <2>2. in \in BOOLEAN
    OBVIOUS
  <2>3. QED
    BY <2>1, <2>2
<1>3. r = [pos |-> n, ok |-> in, loads |-> <<>>]
  OBVIOUS
<1> HIDE DEF in
<1>4. r \in MemIterators
  BY <1>2, <1>3 DEF MemIterators
<1>5. r.pos = n /\ (r.ok <=> in)
  BY <1>2, <1>3
<1>6. ASSUME r.ok PROVE n \in 1 .. Len(m) /\ Reads(m, ts, p, r, 1, m[n])
  <2>1. n \in 1 .. Len(m) /\ m[n] \in p[1]
    BY <1>2, <1>5, <1>6 DEF MemSound
  <2>2. QED
    BY <1>5, <1>6, <2>1 DEF Reads, KeyOf, ValOf
<1>7. QED
  BY <1>2, <1>4, <1>5, <1>6

\* The memtable's iterator behind the n - 1 entries that are not in X.
LEMMA MemAtLands ==
    ASSUME NEW m, NEW ts, NEW p, MemSound(m, p[1]), NEW n \in Nat \ {0}, NEW r,
           r = [pos |-> n, ok |-> n \in DOMAIN m, loads |-> <<>>],
           NEW X, X \subseteq p[1],
           \A k \in 1 .. Len(m) : m[k] \in X <=> k >= n
    PROVE  /\ r \in SourceIterators(1)
           /\ Lands(m, ts, p, r, 1, X)
           /\ SourceLoads(ts, r, 1)
<1>1. /\ r \in MemIterators
      /\ r.ok => n \in 1 .. Len(m) /\ Reads(m, ts, p, r, 1, m[n])
      /\ ~r.ok => n \notin 1 .. Len(m)
  BY MemAtReads
<1>2. Len(m) \in Nat
  BY DEF MemSound
<1>3. ASSUME r.ok PROVE \E i \in X : Least(i, X) /\ Reads(m, ts, p, r, 1, i)
  <2>1. n \in 1 .. Len(m) /\ m[n] \in X
    BY <1>1, <1>2, <1>3
  <2>2. ASSUME NEW j \in X PROVE AtLeast(InternalKey(j), InternalKey(m[n]))
    <3>1. PICK k \in 1 .. Len(m) : m[k] = j
      BY DEF MemSound
    <3>2. k >= n
      BY <3>1
    <3>3. k = n \/ Less(InternalKey(m[n]), InternalKey(m[k]))
      BY <1>2, <2>1, <3>2 DEF MemSound
    <3>4. InternalKey(m[n]) \in Keys /\ InternalKey(m[k]) \in Keys
      BY <2>1, MemElement
    <3>5. QED
      BY <3>1, <3>3, <3>4, LessTotal DEF AtLeast
  <2>3. QED
    BY <1>1, <1>3, <2>1, <2>2 DEF Least
<1>4. ASSUME ~r.ok PROVE X = {}
  <2>1. n > Len(m)
    BY <1>1, <1>2, <1>4
  <2>2. ASSUME NEW j \in X PROVE FALSE
    <3>1. PICK k \in 1 .. Len(m) : m[k] = j
      BY DEF MemSound
    <3>2. QED
      BY <1>2, <2>1, <3>1
  <2>3. QED
    BY <2>2
<1>5. r \in SourceIterators(1)
  BY <1>1 DEF SourceIterators
<1>6. r.loads = <<>>
  OBVIOUS
<1>7. QED
  BY <1>3, <1>4, <1>5, <1>6 DEF Lands, SourceLoads

\* First of a source.
LEMMA SourceFirstIs ==
    ASSUME NEW s \in Nat \ {0}, SourceSound(mem, tables, put, s), NEW it \in SourceIterators(s)
    PROVE  /\ SourceFirst(it, s) \in SourceIterators(s)
           /\ Lands(mem, tables, put, SourceFirst(it, s), s, put[s])
           /\ SourceLoads(tables, SourceFirst(it, s), s)
<1> DEFINE r == SourceFirst(it, s)
<1>1. CASE s = 1
  <2>1. r = [pos |-> 1, ok |-> 1 \in DOMAIN mem, loads |-> <<>>]
    BY <1>1 DEF SourceFirst, MemAt
  <2>2. MemSound(mem, put[1])
    BY <1>1 DEF SourceSound
  <2>3. \A k \in 1 .. Len(mem) : mem[k] \in put[1] <=> k >= 1
    BY <2>2 DEF MemSound
  <2> HIDE DEF r
  <2>4. r \in SourceIterators(1) /\ Lands(mem, tables, put, r, 1, put[1]) /\ SourceLoads(tables, r, 1)
    BY <2>1, <2>2, <2>3, MemAtLands
  <2>5. QED
    BY <1>1, <2>4 DEF r
<1>2. CASE s # 1
  <2> DEFINE t == tables[s - 1]
             P == EntriesOf(put[s])
  <2>1. r = TableFirst(t, it) /\ TableHolds(t, P) /\ it \in TableIterators(s - 1)
        /\ put[s] \in SUBSET DOMAIN Writes
    BY <1>2 DEF SourceFirst, SourceSound, SourceIterators
  <2>2. \A j \in put[s] : \E x \in P : x.key = InternalKey(j)
    BY EntryKeys
  <2> HIDE DEF r, t, P
  <2>3. /\ r \in TableIterators(s - 1) /\ LoadsSound(t, r) /\ Stands(t, P, r)
        /\ \A x \in P : AtLeast(x.key, r.dat.key)
    BY <2>1, TableFirstIs
  <2>4. PICK i \in put[s] : Reads(mem, tables, put, r, s, i) /\ r.dat.key = InternalKey(i)
    <3>1. Stands(tables[s - 1], EntriesOf(put[s]), r)
      BY <2>3 DEF t, P
    <3>2. QED
      BY <1>2, <3>1, StandsReadsNow
  <2>5. Least(i, put[s])
    BY <2>2, <2>3, <2>4 DEF Least
  <2>6. r.ok
    BY <2>4 DEF Reads
  <2>7. QED
    BY <1>2, <2>3, <2>4, <2>5, <2>6 DEF Lands, SourceIterators, SourceLoads, r, t
<1>3. QED
  BY <1>1, <1>2

\* SeekGE of a source.
LEMMA SourceSeekIs ==
    ASSUME NEW s \in Nat \ {0}, SourceSound(mem, tables, put, s), NEW it \in SourceIterators(s),
           NEW target \in Keys
    PROVE  /\ SourceSeekGE(it, s, target) \in SourceIterators(s)
           /\ Lands(mem, tables, put, SourceSeekGE(it, s, target), s,
                    {j \in put[s] : AtLeast(InternalKey(j), target)})
           /\ SourceLoads(tables, SourceSeekGE(it, s, target), s)
<1> DEFINE r == SourceSeekGE(it, s, target)
           X == {j \in put[s] : AtLeast(InternalKey(j), target)}
<1>1. CASE s = 1
  <2> DEFINE n == BelowIn(mem, target) + 1
  <2>1. MemBelow(target) + 1 = n
    BY DEF MemBelow, BelowIn
  <2>2. r = [pos |-> n, ok |-> n \in DOMAIN mem, loads |-> <<>>]
    BY <1>1, <2>1 DEF SourceSeekGE, MemAt
  <2>3. MemSound(mem, put[1])
    BY <1>1 DEF SourceSound
  <2>4. /\ BelowIn(mem, target) \in 0 .. Len(mem) /\ Len(mem) \in Nat
        /\ \A k \in 1 .. Len(mem) : Less(InternalKey(mem[k]), target) <=> k <= BelowIn(mem, target)
    BY <2>3, BelowInIs
  <2>5. n \in Nat \ {0}
    BY <2>4
  <2>6. \A k \in 1 .. Len(mem) : mem[k] \in X <=> k >= n
    <3>1. \A k \in 1 .. Len(mem) : k >= n <=> ~(k <= BelowIn(mem, target))
      BY <2>4
    <3>2. QED
      BY <1>1, <2>3, <2>4, <3>1 DEF MemSound, AtLeast
  <2>7. X \subseteq put[1]
    BY <1>1
  <2> HIDE DEF r, X, n
  <2>8. r \in SourceIterators(1) /\ Lands(mem, tables, put, r, 1, X) /\ SourceLoads(tables, r, 1)
    BY <2>2, <2>3, <2>5, <2>6, <2>7, MemAtLands
  <2>9. QED
    BY <1>1, <2>8 DEF r, X
<1>2. CASE s # 1
  <2> DEFINE t == tables[s - 1]
             P == EntriesOf(put[s])
  <2>1. r = TableSeekGE(t, it, target) /\ TableHolds(t, P) /\ it \in TableIterators(s - 1)
        /\ put[s] \in SUBSET DOMAIN Writes
    BY <1>2 DEF SourceSeekGE, SourceSound, SourceIterators
  <2>2. \A j \in put[s] : \E x \in P : x.key = InternalKey(j)
    BY EntryKeys
  <2> HIDE DEF r, t, P
  <2>3. r \in TableIterators(s - 1) /\ LoadsSound(t, r) /\ TableFound(t, P, r, target)
    BY <2>1, TableSeekIs
  <2>4. ASSUME r.ok PROVE \E i \in X : Least(i, X) /\ Reads(mem, tables, put, r, s, i)
    <3>1. /\ Stands(t, P, r) /\ AtLeast(r.dat.key, target)
          /\ \A x \in P : AtLeast(x.key, target) => AtLeast(x.key, r.dat.key)
      BY <2>3, <2>4 DEF TableFound
    <3>2. PICK i \in put[s] : Reads(mem, tables, put, r, s, i) /\ r.dat.key = InternalKey(i)
      <4>1. Stands(tables[s - 1], EntriesOf(put[s]), r)
        BY <3>1 DEF t, P
      <4>2. QED
        BY <1>2, <4>1, StandsReadsNow
    <3>3. i \in X
      BY <3>1, <3>2
    <3>4. Least(i, X)
      BY <2>2, <3>1, <3>2, <3>3 DEF Least
    <3>5. QED
      BY <3>2, <3>3, <3>4
  <2>5. ASSUME ~r.ok PROVE X = {}
    BY <2>2, <2>3, <2>5 DEF TableFound, AtLeast
  <2> HIDE DEF X
  <2>6. QED
    BY <1>2, <2>3, <2>4, <2>5 DEF Lands, SourceIterators, SourceLoads, r, t, X
<1>3. QED
  BY <1>1, <1>2

\* Next of a source.
LEMMA SourceNextIs ==
    ASSUME NEW s \in Nat \ {0}, SourceSound(mem, tables, put, s), NEW it \in SourceIterators(s),
           NEW i, Reads(mem, tables, put, it, s, i)
    PROVE  /\ SourceNext(it, s) \in SourceIterators(s)
           /\ Lands(mem, tables, put, SourceNext(it, s), s,
                    {j \in put[s] : Less(InternalKey(i), InternalKey(j))})
           /\ SourceLoads(tables, SourceNext(it, s), s)
<1> DEFINE r == SourceNext(it, s)
           X == {j \in put[s] : Less(InternalKey(i), InternalKey(j))}
<1>1. CASE s = 1
  <2> DEFINE n == it.pos + 1
  <2>1. r = [pos |-> n, ok |-> n \in DOMAIN mem, loads |-> <<>>]
    BY <1>1 DEF SourceNext, MemAt
  <2>2. MemSound(mem, put[1])
    BY <1>1 DEF SourceSound
  <2>3. it.pos \in 1 .. Len(mem) /\ mem[it.pos] = i /\ Len(mem) \in Nat
    BY <1>1, <2>2 DEF Reads, MemSound
  <2>4. n \in Nat \ {0}
    BY <2>3
  <2>5. ASSUME NEW k \in 1 .. Len(mem) PROVE mem[k] \in X <=> k >= n
    <3>1. k >= n => Less(InternalKey(i), InternalKey(mem[k]))
      BY <2>2, <2>3 DEF MemSound
    <3>2. k < it.pos => Less(InternalKey(mem[k]), InternalKey(i))
      BY <2>2, <2>3 DEF MemSound
    <3>3. InternalKey(mem[k]) \in Keys /\ InternalKey(i) \in Keys /\ mem[k] \in put[1]
      BY <2>2, <2>3, MemElement
    <3>4. k >= n \/ k < it.pos \/ k = it.pos
      BY <2>3
    <3>5. ~(k >= n) <=> (k < it.pos \/ k = it.pos)
      BY <2>3
    <3>6. k = it.pos => mem[k] = i
      BY <2>3
    <3> HIDE DEF n
    <3>7. QED
      BY <1>1, <3>1, <3>2, <3>3, <3>4, <3>5, <3>6, LessTotal
  <2>6. X \subseteq put[1]
    BY <1>1
  <2> HIDE DEF r, X, n
  <2>7. r \in SourceIterators(1) /\ Lands(mem, tables, put, r, 1, X) /\ SourceLoads(tables, r, 1)
    BY <2>1, <2>2, <2>4, <2>5, <2>6, MemAtLands
  <2>8. QED
    BY <1>1, <2>7 DEF r, X
<1>2. CASE s # 1
  <2> DEFINE t == tables[s - 1]
             P == EntriesOf(put[s])
             c == it.dat.key
  <2>1. r = TableNext(t, it) /\ it \in TableIterators(s - 1) /\ put[s] \in SUBSET DOMAIN Writes
    BY <1>2 DEF SourceNext, SourceSound, SourceIterators
  <2>2. \A j \in put[s] : \E x \in P : x.key = InternalKey(j)
    BY EntryKeys
  <2>3. Stands(t, P, it) /\ c = InternalKey(i) /\ i \in put[s]
    BY <1>2 DEF Reads, KeyOf
  <2> HIDE DEF r, t, P
  <2>4. r \in TableIterators(s - 1) /\ LoadsSound(t, r) /\ Follows(t, P, r, c)
    BY <2>1, <2>3, TableNextIs
  <2>5. ASSUME r.ok PROVE \E j \in X : Least(j, X) /\ Reads(mem, tables, put, r, s, j)
    <3>1. /\ Stands(t, P, r) /\ Less(c, r.dat.key)
          /\ \A x \in P : Less(c, x.key) => AtLeast(x.key, r.dat.key)
      BY <2>4, <2>5 DEF Follows
    <3>2. PICK j \in put[s] : Reads(mem, tables, put, r, s, j) /\ r.dat.key = InternalKey(j)
      <4>1. Stands(tables[s - 1], EntriesOf(put[s]), r)
        BY <3>1 DEF t, P
      <4>2. QED
        BY <1>2, <4>1, StandsReadsNow
    <3>3. j \in X
      BY <2>3, <3>1, <3>2
    <3>4. Least(j, X)
      BY <2>2, <2>3, <3>1, <3>2, <3>3 DEF Least
    <3>5. QED
      BY <3>2, <3>3, <3>4
  <2>6. ASSUME ~r.ok PROVE X = {}
    BY <2>2, <2>3, <2>4, <2>6 DEF Follows, AtLeast
  <2> HIDE DEF X
  <2>7. QED
    BY <1>2, <2>4, <2>5, <2>6 DEF Lands, SourceIterators, SourceLoads, r, t, X
<1>3. QED
  BY <1>1, <1>2

-----------------------------------------------------------------------------
(* The merge of the sources *)

\* The sources 1 .. n are sound, and H are the writes they hold.
AllSound(m, ts, p, n, H) ==
    /\ n \in Nat \ {0}
    /\ \A s \in 1 .. n : SourceSound(m, ts, p, s)
    /\ H \in SUBSET DOMAIN Writes
    /\ \A i : i \in H <=> \E s \in 1 .. n : i \in p[s]

\* The merge iterator has the writes A in front of it: A is what is left of H
\* from some internal key on, and every source in the heap stands at the first
\* write it has of A.
Merges(m, ts, p, n, H, srcs, heap, A) ==
    /\ heap \subseteq 1 .. n
    /\ A \subseteq H
    /\ \A i \in A, j \in H : Less(InternalKey(i), InternalKey(j)) => j \in A
    /\ \A s \in heap : \E i \in p[s] \cap A :
            Least(i, p[s] \cap A) /\ Reads(m, ts, p, srcs[s], s, i)
    /\ \A s \in (1 .. n) \ heap : p[s] \cap A = {}

\* The smallest of a set of writes.
LEMMA LeastExists ==
    ASSUME NEW W \in SUBSET DOMAIN Writes, W # {}
    PROVE  \E i \in W : Least(i, W)
<1> DEFINE B(i) == {j \in DOMAIN Writes : Less(InternalKey(j), InternalKey(i))}
           R == {Cardinality(B(i)) : i \in W}
<1>1. \A i \in W : IsFiniteSet(B(i)) /\ Cardinality(B(i)) \in Nat
  <2>1. \A i \in W : B(i) \in SUBSET DOMAIN Writes
    OBVIOUS
  <2> HIDE DEF B
  <2>2. QED
    BY <2>1, WritesFinite, FS_CardinalityType
<1>2. R \subseteq Nat /\ R # {}
  BY <1>1
<1>3. PICK c \in R : \A d \in R : c <= d
  <2> HIDE DEF R
  <2>1. QED
    BY <1>2, Search!NatMin
<1>4. PICK i \in W : c = Cardinality(B(i))
  BY <1>3
<1>5. ASSUME NEW j \in W, Less(InternalKey(j), InternalKey(i)) PROVE FALSE
  <2>1. \A k \in DOMAIN Writes : InternalKey(k) \in Keys
    BY WriteKey
  <2>2. B(j) \subseteq B(i)
    BY <1>5, <2>1, LessTransitive
  <2>3. j \in B(i)
    BY <1>5
  <2>4. j \notin B(j)
    BY <2>1, LessTotal
  <2>5. B(j) # B(i)
    BY <2>3, <2>4
  <2>6. Cardinality(B(i)) <= Cardinality(B(j))
    BY <1>3, <1>4
  <2>7. IsFiniteSet(B(i)) /\ Cardinality(B(i)) \in Nat /\ Cardinality(B(j)) \in Nat
    BY <1>1
  <2> HIDE DEF B
  <2>8. Cardinality(B(j)) <= Cardinality(B(i)) /\ (Cardinality(B(j)) = Cardinality(B(i)) => B(j) = B(i))
    BY <2>2, <2>7, FS_Subset
  <2>9. QED
    BY <2>5, <2>6, <2>7, <2>8
<1>6. QED
  BY <1>5 DEF Least, AtLeast

\* There is one only.
LEMMA LeastUnique ==
    ASSUME NEW W \in SUBSET DOMAIN Writes, NEW i, NEW j, Least(i, W), Least(j, W)
    PROVE  i = j
<1>1. i \in DOMAIN Writes /\ j \in DOMAIN Writes
  BY DEF Least
<1>2. ~Less(InternalKey(i), InternalKey(j)) /\ ~Less(InternalKey(j), InternalKey(i))
  BY DEF Least, AtLeast
<1>3. InternalKey(i) = InternalKey(j)
  BY <1>1, <1>2, WriteKey, LessTotal
<1>4. QED
  BY <1>1, <1>3, InternalKeyInjective

\* The heap is empty when nothing is left.
LEMMA MergeEmpty ==
    ASSUME NEW m, NEW ts, NEW p, NEW n, NEW H, NEW srcs, NEW heap, NEW A,
           AllSound(m, ts, p, n, H), Merges(m, ts, p, n, H, srcs, heap, A)
    PROVE  heap = {} <=> A = {}
<1>1. heap # {} => A # {}
  BY DEF Merges
<1>2. ASSUME A # {} PROVE heap # {}
  <2>1. PICK i \in A : TRUE
    BY <1>2
  <2>2. PICK s \in 1 .. n : i \in p[s]
    BY DEF AllSound, Merges
  <2>3. QED
    BY <2>2 DEF Merges
<1>3. QED
  BY <1>1, <1>2

\* Top, with the memtable as a parameter.
TopOf(m, srcs, heap) ==
    CHOOSE s \in heap :
        \A o \in heap \ {s} :
            \/ Less(KeyOf(m, srcs[s], s), KeyOf(m, srcs[o], o))
            \/ KeyOf(m, srcs[s], s) = KeyOf(m, srcs[o], o) /\ s < o

\* A source of the heap stands at write i, the least that is left, exactly if it
\* holds it; the others stand behind it.
LEMMA HeapKeys ==
    ASSUME NEW m, NEW ts, NEW p, NEW n, NEW H, NEW srcs, NEW heap, NEW A,
           AllSound(m, ts, p, n, H), Merges(m, ts, p, n, H, srcs, heap, A),
           NEW i, Least(i, A), NEW s \in heap
    PROVE  /\ s \in 1 .. n
           /\ KeyOf(m, srcs[s], s) \in Keys
           /\ i \in p[s] => KeyOf(m, srcs[s], s) = InternalKey(i) /\ Reads(m, ts, p, srcs[s], s, i)
           /\ i \notin p[s] => Less(InternalKey(i), KeyOf(m, srcs[s], s))
<1>1. s \in 1 .. n /\ A \in SUBSET DOMAIN Writes /\ i \in A
  BY DEF AllSound, Merges, Least
<1>2. PICK k \in p[s] \cap A : Least(k, p[s] \cap A) /\ Reads(m, ts, p, srcs[s], s, k)
  BY DEF Merges
<1>3. KeyOf(m, srcs[s], s) = InternalKey(k)
  BY <1>2 DEF Reads
<1>4. k \in DOMAIN Writes /\ i \in DOMAIN Writes /\ InternalKey(k) \in Keys /\ InternalKey(i) \in Keys
  BY <1>1, <1>2, WriteKey
<1>5. ~Less(InternalKey(k), InternalKey(i))
  BY <1>2 DEF Least, AtLeast
<1>6. ASSUME i \in p[s] PROVE k = i
  <2>1. ~Less(InternalKey(i), InternalKey(k))
    BY <1>1, <1>2, <1>6 DEF Least, AtLeast
  <2>2. InternalKey(i) = InternalKey(k)
    BY <1>4, <1>5, <2>1, LessTotal
  <2>3. QED
    BY <1>4, <2>2, InternalKeyInjective
<1>7. ASSUME i \notin p[s] PROVE Less(InternalKey(i), InternalKey(k))
  <2>1. i # k
    BY <1>2, <1>7
  <2>2. InternalKey(i) # InternalKey(k)
    BY <1>4, <2>1, InternalKeyInjective
  <2>3. QED
    BY <1>4, <1>5, <2>2, LessTotal
<1>8. QED
  BY <1>1, <1>2, <1>3, <1>4, <1>6, <1>7

\* The top of the heap reads the least write that is left.
LEMMA TopReads ==
    ASSUME NEW m, NEW ts, NEW p, NEW n, NEW H, NEW srcs, NEW heap, NEW A,
           AllSound(m, ts, p, n, H), Merges(m, ts, p, n, H, srcs, heap, A), NEW i, Least(i, A)
    PROVE  TopOf(m, srcs, heap) \in heap /\ Reads(m, ts, p, srcs[TopOf(m, srcs, heap)], TopOf(m, srcs, heap), i)
<1> DEFINE S == {s \in 1 .. n : i \in p[s]}
           key(s) == KeyOf(m, srcs[s], s)
           Best(s) == \A o \in heap \ {s} : \/ Less(key(s), key(o))
                                            \/ key(s) = key(o) /\ s < o
<1>1. i \in A /\ A \subseteq H /\ n \in Nat
  BY DEF Least, Merges, AllSound
<1>2. S # {} /\ S \subseteq Nat
  <2>1. \E s \in 1 .. n : i \in p[s]
    BY <1>1 DEF AllSound
  <2>2. QED
    BY <1>1, <2>1
<1>3. PICK t \in S : \A s \in S : t <= s
  <2> HIDE DEF S
  <2>1. QED
    BY <1>2, Search!NatMin
<1>4. t \in heap
  BY <1>1, <1>3 DEF Merges
<1>5. \A s \in heap : /\ s \in 1 .. n /\ key(s) \in Keys
                      /\ i \in p[s] => key(s) = InternalKey(i) /\ Reads(m, ts, p, srcs[s], s, i)
                      /\ i \notin p[s] => Less(InternalKey(i), key(s))
  BY HeapKeys
<1> HIDE DEF key
<1>6. Best(t)
  <2>1. SUFFICES ASSUME NEW o \in heap \ {t} PROVE Less(key(t), key(o)) \/ (key(t) = key(o) /\ t < o)
    OBVIOUS
  <2>2. key(t) = InternalKey(i)
    BY <1>3, <1>4, <1>5
  <2>3. CASE i \in p[o]
    <3>1. o \in S
      BY <1>5, <2>3
    <3>2. t <= o /\ t # o /\ t \in Nat /\ o \in Nat
      BY <1>2, <1>3, <3>1
    <3>3. QED
      BY <1>5, <2>2, <2>3, <3>2
  <2>4. CASE i \notin p[o]
    BY <1>5, <2>2, <2>4
  <2>5. QED
    BY <2>3, <2>4
<1>7. ASSUME NEW o \in heap, Best(o) PROVE o = t
  <2>1. SUFFICES ASSUME o # t PROVE FALSE
    OBVIOUS
  <2>2. Less(key(t), key(o)) \/ (key(t) = key(o) /\ t < o)
    BY <1>6, <2>1
  <2>3. Less(key(o), key(t)) \/ (key(t) = key(o) /\ o < t)
    BY <1>4, <1>7, <2>1
  <2>4. key(t) \in Keys /\ key(o) \in Keys /\ o \in Nat /\ t \in Nat
    BY <1>1, <1>4, <1>5
  <2>5. QED
    BY <2>2, <2>3, <2>4, LessTotal
<1>8. TopOf(m, srcs, heap) = CHOOSE s \in heap : Best(s)
  BY DEF TopOf, key
<1> HIDE DEF Best
<1>9. TopOf(m, srcs, heap) = t
  BY <1>4, <1>6, <1>7, <1>8
<1>10. QED
  BY <1>3, <1>4, <1>5, <1>9

\* The blocks an iterator has loaded do not matter for what it reads.
LEMMA ReadsLoads ==
    ASSUME NEW m, NEW ts, NEW p, NEW s, NEW it \in SourceIterators(s), NEW r,
           r = [it EXCEPT !.loads = <<>>]
    PROVE  /\ r \in SourceIterators(s) /\ r.ok = it.ok /\ r.loads = <<>>
           /\ \A i : Reads(m, ts, p, it, s, i) => Reads(m, ts, p, r, s, i)
<1>1. CASE s = 1
  <2>1. it \in MemIterators
    BY <1>1 DEF SourceIterators
  <2>2. r \in MemIterators /\ r.ok = it.ok /\ r.pos = it.pos /\ r.loads = <<>>
    BY <2>1 DEF MemIterators
  <2>3. \A i : Reads(m, ts, p, it, s, i) => Reads(m, ts, p, r, s, i)
    BY <1>1, <2>2 DEF Reads, KeyOf, ValOf
  <2>4. QED
    BY <1>1, <2>2, <2>3 DEF SourceIterators
<1>2. CASE s # 1
  <2> DEFINE t == ts[s - 1]
             P == EntriesOf(p[s])
  <2>1. it \in TableIterators(s - 1)
    BY <1>2 DEF SourceIterators
  <2> HIDE DEF t, P
  <2>2. /\ r \in TableIterators(s - 1) /\ r.ok = it.ok /\ r.dat = it.dat /\ r.loads = <<>>
        /\ Stands(t, P, r) <=> Stands(t, P, it)
    BY <2>1, StandsLoads
  <2>3. \A i : Reads(m, ts, p, it, s, i) => Reads(m, ts, p, r, s, i)
    BY <1>2, <2>2 DEF Reads, KeyOf, ValOf, t, P
  <2>4. QED
    BY <1>2, <2>2, <2>3 DEF SourceIterators
<1>3. QED
  BY <1>1, <1>2

\* A function on 1 .. n is a sequence, and the empty sequence in front of it
\* changes nothing.
LEMMA EachIs ==
    ASSUME NEW n \in Nat, NEW f, f = [s \in 1 .. n |-> f[s]]
    PROVE  (<<>> \o f) = f
<1> DEFINE S == {f[s] : s \in 1 .. n}
<1>1. f \in [1 .. n -> S]
  BY Zenon
<1> HIDE DEF S
<1>2. f \in Seq(S)
  BY <1>1
<1>3. QED
  BY <1>2, ConcatEmptySeq

\* After a move of the sources ss, whose iterators have become those of srcs.
LEMMA MovedIs ==
    ASSUME NEW srcs, NEW ss, Moved(srcs, ss), tables \in Seq(Tables),
           \A s \in 1 .. Len(tables) + 1 : srcs[s] \in SourceIterators(s)
    PROVE  /\ DOMAIN src' = 1 .. Len(tables) + 1
           /\ \A s \in 1 .. Len(tables) + 1 : src'[s] = [srcs[s] EXCEPT !.loads = <<>>]
           /\ live' = (live \ ss) \cup {s \in ss : srcs[s].ok}
           /\ \A s \in 1 .. Len(tables) + 1 :
                /\ src'[s] \in SourceIterators(s) /\ src'[s].loads = <<>>
                /\ \A i : Reads(mem, tables, put, srcs[s], s, i) => Reads(mem, tables, put, src'[s], s, i)
<1> DEFINE n == Len(tables) + 1
           f == [s \in 1 .. n |-> [srcs[s] EXCEPT !.loads = <<>>]]
<1>1. n \in Nat
  OBVIOUS
<1>2. src' = <<>> \o f /\ live' = (live \ ss) \cup {s \in ss : srcs[s].ok}
  BY DEF Moved, EachSource
<1>3. f = [s \in 1 .. n |-> f[s]] /\ DOMAIN f = 1 .. n /\ \A s \in 1 .. n : f[s] = [srcs[s] EXCEPT !.loads = <<>>]
  OBVIOUS
<1> HIDE DEF n, f
<1>4. src' = f
  BY <1>1, <1>2, <1>3, EachIs
<1>5. \A s \in 1 .. n : src'[s] = [srcs[s] EXCEPT !.loads = <<>>]
  BY <1>3, <1>4
<1>6. ASSUME NEW s \in 1 .. n
      PROVE  /\ src'[s] \in SourceIterators(s) /\ src'[s].loads = <<>>
             /\ \A i : Reads(mem, tables, put, srcs[s], s, i) => Reads(mem, tables, put, src'[s], s, i)
  <2> DEFINE m == mem
             ts == tables
             p == put
             r == src'[s]
             it == srcs[s]
  <2>1. it \in SourceIterators(s) /\ r = [it EXCEPT !.loads = <<>>]
    BY <1>5 DEF n
  <2> HIDE DEF m, ts, p, r, it
  <2>2. /\ r \in SourceIterators(s) /\ r.loads = <<>>
        /\ \A i : Reads(m, ts, p, it, s, i) => Reads(m, ts, p, r, s, i)
    BY <2>1, ReadsLoads
  <2>3. QED
    BY <2>2 DEF m, ts, p, r, it
<1>7. QED
  BY <1>2, <1>3, <1>4, <1>5, <1>6 DEF n

\* Every source stands where it should: the merge has the writes A in front of it.
LEMMA MergesNow ==
    ASSUME NEW H, NEW A, NEW srcs, Moved(srcs, 1 .. Len(tables) + 1), tables \in Seq(Tables),
           live \subseteq 1 .. Len(tables) + 1,
           A \subseteq H,
           \A i \in A, j \in H : Less(InternalKey(i), InternalKey(j)) => j \in A,
           \A s \in 1 .. Len(tables) + 1 : srcs[s] \in SourceIterators(s)
                                           /\ Lands(mem, tables, put, srcs[s], s, put[s] \cap A)
    PROVE  Merges(mem, tables, put, Len(tables) + 1, H, src', live', A)
<1> DEFINE n == Len(tables) + 1
<1>1. /\ live' = (live \ (1 .. n)) \cup {s \in 1 .. n : srcs[s].ok}
      /\ \A s \in 1 .. n : \A i : Reads(mem, tables, put, srcs[s], s, i) => Reads(mem, tables, put, src'[s], s, i)
  BY MovedIs
<1>2. live' = {s \in 1 .. n : srcs[s].ok}
  BY <1>1
<1>3. \A s \in live' : \E i \in put[s] \cap A :
            Least(i, put[s] \cap A) /\ Reads(mem, tables, put, src'[s], s, i)
  <2>1. SUFFICES ASSUME NEW s \in live'
                 PROVE  \E i \in put[s] \cap A :
                            Least(i, put[s] \cap A) /\ Reads(mem, tables, put, src'[s], s, i)
    OBVIOUS
  <2>2. s \in 1 .. n /\ srcs[s].ok
    BY <1>2
  <2>3. PICK i \in put[s] \cap A : Least(i, put[s] \cap A) /\ Reads(mem, tables, put, srcs[s], s, i)
    BY <2>2 DEF Lands
  <2>4. QED
    BY <1>1, <2>2, <2>3
<1>4. \A s \in (1 .. n) \ live' : put[s] \cap A = {}
  BY <1>2 DEF Lands
<1> DEFINE m == mem
           ts == tables
           p == put
           t == src'
           l == live'
<1>5. /\ \A s \in l : \E i \in p[s] \cap A : Least(i, p[s] \cap A) /\ Reads(m, ts, p, t[s], s, i)
      /\ \A s \in (1 .. n) \ l : p[s] \cap A = {}
      /\ l \subseteq 1 .. n
  BY <1>2, <1>3, <1>4
<1> HIDE DEF m, ts, p, t, l, n
<1>6. Merges(m, ts, p, n, H, t, l, A)
  BY <1>5 DEF Merges
<1>7. QED
  BY <1>6 DEF m, ts, p, t, l, n

\* There is an iterator for every source.
SrcSound ==
    /\ tables \in Seq(Tables)
    /\ DOMAIN src = 1 .. Len(tables) + 1
    /\ \A s \in 1 .. Len(tables) + 1 : src[s] \in SourceIterators(s)

\* The sources as they are, and what the merge iterator has in front of it.
Sound(H) == AllSound(mem, tables, put, Len(tables) + 1, H)
MergesIn(H, A) == Merges(mem, tables, put, Len(tables) + 1, H, src, live, A)

\* What a source gives, as a sequence.
LEMMA EachSourceIs ==
    ASSUME tables \in Seq(Tables), NEW f, f = [s \in 1 .. Len(tables) + 1 |-> f[s]]
    PROVE  (<<>> \o f) = f
<1>1. Len(tables) + 1 \in Nat
  OBVIOUS
<1>2. QED
  BY <1>1, EachIs

\* First: everything is in front of the iterator.
LEMMA FirstMerges ==
    ASSUME NEW H, SrcSound, Sound(H), live \subseteq 1 .. Len(tables) + 1, First
    PROVE  /\ Merges(mem, tables, put, Len(tables) + 1, H, src', live', H)
           /\ DOMAIN src' = 1 .. Len(tables) + 1
           /\ \A s \in 1 .. Len(tables) + 1 : src'[s] \in SourceIterators(s)
<1> DEFINE n == Len(tables) + 1
           f == [s \in 1 .. n |-> SourceFirst(src[s], s)]
<1>1. tables \in Seq(Tables) /\ DOMAIN src = 1 .. n /\ \A s \in 1 .. n : src[s] \in SourceIterators(s)
  BY DEF SrcSound
<1>2. Moved(<<>> \o f, DOMAIN src)
  BY DEF First, EachSource
<1>3. f = [s \in 1 .. n |-> f[s]] /\ \A s \in 1 .. n : f[s] = SourceFirst(src[s], s)
  OBVIOUS
<1>4. \A s \in 1 .. n : SourceSound(mem, tables, put, s) /\ s \in Nat \ {0}
  BY DEF Sound, AllSound
<1>5. ASSUME NEW s \in 1 .. n
      PROVE  f[s] \in SourceIterators(s) /\ Lands(mem, tables, put, f[s], s, put[s])
  <2>1. SourceFirst(src[s], s) \in SourceIterators(s) /\ Lands(mem, tables, put, SourceFirst(src[s], s), s, put[s])
    BY <1>1, <1>4, SourceFirstIs
  <2>2. QED
    BY <1>3, <2>1
<1>6. \A s \in 1 .. n : put[s] \cap H = put[s]
  BY DEF Sound, AllSound
<1> HIDE DEF f
<1>7. Moved(f, 1 .. n)
  <2>1. (<<>> \o f) = f
    BY <1>1, <1>3, EachSourceIs
  <2>2. QED
    BY <1>1, <1>2, <2>1
<1>8. Merges(mem, tables, put, n, H, src', live', H)
  BY <1>1, <1>5, <1>6, <1>7, MergesNow
<1>9. QED
  BY <1>1, <1>5, <1>7, <1>8, MovedIs

\* SeekGE: everything from the key it seeks on is.
LEMMA SeekMerges ==
    ASSUME NEW H, SrcSound, Sound(H), live \subseteq 1 .. Len(tables) + 1,
           NEW target \in Targets, SeekGE(target), NEW sk,
           sk = MakeInternalKey(target, MaxSeqNum, KindSet)
    PROVE  /\ Merges(mem, tables, put, Len(tables) + 1, H, src', live',
                     {i \in H : AtLeast(InternalKey(i), sk)})
           /\ DOMAIN src' = 1 .. Len(tables) + 1
           /\ \A s \in 1 .. Len(tables) + 1 : src'[s] \in SourceIterators(s)
<1> DEFINE n == Len(tables) + 1
           f == [s \in 1 .. n |-> SourceSeekGE(src[s], s, sk)]
           A == {i \in H : AtLeast(InternalKey(i), sk)}
           X(s) == {j \in put[s] : AtLeast(InternalKey(j), sk)}
<1>1. tables \in Seq(Tables) /\ DOMAIN src = 1 .. n /\ \A s \in 1 .. n : src[s] \in SourceIterators(s)
  BY DEF SrcSound
<1>2. Moved(<<>> \o f, DOMAIN src)
  BY DEF SeekGE, EachSource
<1>3. f = [s \in 1 .. n |-> f[s]] /\ \A s \in 1 .. n : f[s] = SourceSeekGE(src[s], s, sk)
  OBVIOUS
<1>4. \A s \in 1 .. n : SourceSound(mem, tables, put, s) /\ s \in Nat \ {0}
  BY DEF Sound, AllSound
<1>5. sk \in Keys
  BY SeekKeyIs
<1>6. ASSUME NEW s \in 1 .. n
      PROVE  f[s] \in SourceIterators(s) /\ Lands(mem, tables, put, f[s], s, X(s))
  <2>1. /\ SourceSeekGE(src[s], s, sk) \in SourceIterators(s)
        /\ Lands(mem, tables, put, SourceSeekGE(src[s], s, sk), s, X(s))
    BY <1>1, <1>4, <1>5, SourceSeekIs
  <2> HIDE DEF X
  <2>2. QED
    BY <1>3, <2>1
<1>7. \A s \in 1 .. n : put[s] \cap A = X(s)
  BY DEF Sound, AllSound
<1>8. A \subseteq H
  OBVIOUS
<1>9. \A i \in A, j \in H : Less(InternalKey(i), InternalKey(j)) => j \in A
  <2>1. \A i \in H : InternalKey(i) \in Keys
    BY WriteKey DEF Sound, AllSound
  <2>2. ASSUME NEW i \in A, NEW j \in H, Less(InternalKey(i), InternalKey(j)), Less(InternalKey(j), sk)
        PROVE  FALSE
    <3>1. Less(InternalKey(i), sk)
      BY <1>5, <2>1, <2>2, LessTransitive
    <3>2. QED
      BY <3>1 DEF AtLeast
  <2>3. QED
    BY <2>2 DEF AtLeast
<1> HIDE DEF f, A, X
<1>10. Moved(f, 1 .. n)
  <2>1. (<<>> \o f) = f
    BY <1>1, <1>3, EachSourceIs
  <2>2. QED
    BY <1>1, <1>2, <2>1
<1>11. \A s \in 1 .. n : f[s] \in SourceIterators(s) /\ Lands(mem, tables, put, f[s], s, put[s] \cap A)
  BY <1>6, <1>7
<1>12. Merges(mem, tables, put, n, H, src', live', A)
  BY <1>1, <1>8, <1>9, <1>10, <1>11, MergesNow
<1>13. QED
  BY <1>1, <1>6, <1>10, <1>12, MovedIs DEF A

\* The top of the heap as it is.
LEMMA TopIs ==
    ASSUME NEW H, NEW A, Sound(H), MergesIn(H, A), NEW i, Least(i, A)
    PROVE  /\ Top(src, live) \in live
           /\ TopKey = InternalKey(i) /\ TopVal = Value(i)
           /\ Top(src, live) \in 1 .. Len(tables) + 1
           /\ \A s \in live : /\ s \in AtTop <=> i \in put[s]
                              /\ i \in put[s] => Reads(mem, tables, put, src[s], s, i)
<1> DEFINE m == mem
           ts == tables
           p == put
           n == Len(tables) + 1
           r == src
           h == live
           t == TopOf(m, r, h)
<1>1. AllSound(m, ts, p, n, H) /\ Merges(m, ts, p, n, H, r, h, A)
  BY DEF Sound, MergesIn
<1>2. Top(src, live) = t
  BY DEF Top, TopOf, Key, KeyOf
<1>3. Key(r[t], t) = KeyOf(m, r[t], t) /\ Val(r[t], t) = ValOf(m, r[t], t)
  BY DEF Key, KeyOf, Val, ValOf
<1>4. \A s \in h : Key(r[s], s) = KeyOf(m, r[s], s)
  BY DEF Key, KeyOf
<1>5. TopKey = Key(r[t], t) /\ TopVal = Val(r[t], t)
  BY <1>2 DEF TopKey, TopVal
<1>6. \A s \in h : s \in AtTop <=> Key(r[s], s) = TopKey
  BY DEF AtTop
<1> HIDE DEF m, ts, p, n, r, h, t
<1>7. t \in h /\ Reads(m, ts, p, r[t], t, i)
  BY <1>1, TopReads DEF t
<1>8. TopKey = InternalKey(i) /\ TopVal = Value(i)
  BY <1>3, <1>5, <1>7 DEF Reads
<1>9. ASSUME NEW s \in h
      PROVE  /\ s \in 1 .. n
             /\ s \in AtTop <=> i \in p[s]
             /\ i \in p[s] => Reads(m, ts, p, r[s], s, i)
  <2>1. /\ s \in 1 .. n /\ KeyOf(m, r[s], s) \in Keys
        /\ i \in p[s] => KeyOf(m, r[s], s) = InternalKey(i) /\ Reads(m, ts, p, r[s], s, i)
        /\ i \notin p[s] => Less(InternalKey(i), KeyOf(m, r[s], s))
    BY <1>1, HeapKeys
  <2>2. i \notin p[s] => InternalKey(i) # KeyOf(m, r[s], s)
    BY <2>1, LessTotal
  <2>3. QED
    BY <1>4, <1>6, <1>8, <2>1, <2>2
<1>10. QED
  BY <1>2, <1>7, <1>8, <1>9 DEF m, ts, p, n, r, h

\* merge.Next: the least of what was left is not left any more.
LEMMA SkipMerges ==
    ASSUME NEW H, NEW A, SrcSound, Sound(H), MergesIn(H, A), Skip, NEW i, Least(i, A)
    PROVE  /\ Merges(mem, tables, put, Len(tables) + 1, H, src', live', A \ {i})
           /\ DOMAIN src' = 1 .. Len(tables) + 1
           /\ \A s \in 1 .. Len(tables) + 1 : src'[s] \in SourceIterators(s)
<1> DEFINE n == Len(tables) + 1
           T == AtTop
           f == [s \in 1 .. n |-> IF s \in T THEN SourceNext(src[s], s) ELSE src[s]]
           B == A \ {i}
<1>1. tables \in Seq(Tables) /\ DOMAIN src = 1 .. n /\ \A s \in 1 .. n : src[s] \in SourceIterators(s)
  BY DEF SrcSound
<1>2. Moved(<<>> \o f, T)
  BY DEF Skip, EachSource
<1>3. /\ f = [s \in 1 .. n |-> f[s]]
      /\ \A s \in 1 .. n : s \in T => f[s] = SourceNext(src[s], s)
      /\ \A s \in 1 .. n : s \notin T => f[s] = src[s]
  OBVIOUS
<1>4. \A s \in 1 .. n : SourceSound(mem, tables, put, s) /\ s \in Nat \ {0}
  BY DEF Sound, AllSound
<1>5. /\ T \subseteq live
      /\ \A s \in live : (s \in T <=> i \in put[s]) /\ (s \in T => Reads(mem, tables, put, src[s], s, i))
  BY TopIs DEF AtTop
<1>6. /\ live \subseteq 1 .. n /\ A \subseteq H /\ H \in SUBSET DOMAIN Writes
      /\ \A s \in 1 .. n : put[s] \subseteq H
      /\ \A k \in A, j \in H : Less(InternalKey(k), InternalKey(j)) => j \in A
      /\ \A s \in live : \E k \in put[s] \cap A :
            Least(k, put[s] \cap A) /\ Reads(mem, tables, put, src[s], s, k)
      /\ \A s \in (1 .. n) \ live : put[s] \cap A = {}
  BY DEF MergesIn, Merges, Sound, AllSound
<1>7. i \in A /\ \A j \in A : ~Less(InternalKey(j), InternalKey(i))
  BY DEF Least, AtLeast
<1>8. \A j \in H : j \in B <=> Less(InternalKey(i), InternalKey(j))
  <2>1. ASSUME NEW j \in H PROVE j \in B <=> Less(InternalKey(i), InternalKey(j))
    <3>1. i \in DOMAIN Writes /\ j \in DOMAIN Writes /\ InternalKey(i) \in Keys /\ InternalKey(j) \in Keys
      BY <1>6, <1>7, WriteKey
    <3>2. Less(InternalKey(i), InternalKey(j)) => j \in A /\ j # i
      BY <1>6, <1>7, <3>1, LessTotal
    <3>3. ASSUME j \in A, j # i PROVE Less(InternalKey(i), InternalKey(j))
      <4>1. InternalKey(i) # InternalKey(j)
        BY <3>1, <3>3, InternalKeyInjective
      <4>2. QED
        BY <1>7, <3>1, <3>3, <4>1, LessTotal
    <3>4. QED
      BY <3>2, <3>3
  <2>2. QED
    BY <2>1
<1>9. ASSUME NEW s \in T
      PROVE  f[s] \in SourceIterators(s) /\ Lands(mem, tables, put, f[s], s, put[s] \cap B)
  <2> DEFINE X == {j \in put[s] : Less(InternalKey(i), InternalKey(j))}
  <2>1. s \in 1 .. n /\ Reads(mem, tables, put, src[s], s, i)
    BY <1>5, <1>6
  <2>2. /\ SourceNext(src[s], s) \in SourceIterators(s)
        /\ Lands(mem, tables, put, SourceNext(src[s], s), s, X)
    BY <1>1, <1>4, <2>1, SourceNextIs
  <2>3. put[s] \cap B = X
    BY <1>6, <1>8, <2>1
  <2> HIDE DEF X, B
  <2>4. QED
    BY <1>3, <2>1, <2>2, <2>3
<1>10. \A s \in (1 .. n) \ T : put[s] \cap B = put[s] \cap A
  BY <1>5, <1>6
<1>11. B \subseteq H /\ \A k \in B, j \in H : Less(InternalKey(k), InternalKey(j)) => j \in B
  <2>1. \A k \in H : InternalKey(k) \in Keys
    BY <1>6, WriteKey
  <2>2. B \subseteq H
    BY <1>6
  <2>3. ASSUME NEW k \in B, NEW j \in H, Less(InternalKey(k), InternalKey(j)) PROVE j \in B
    <3>1. Less(InternalKey(i), InternalKey(k)) /\ k \in H /\ i \in H
      BY <1>6, <1>7, <1>8, <2>2
    <3> HIDE DEF B
    <3>2. Less(InternalKey(i), InternalKey(j))
      BY <2>1, <2>3, <3>1, LessTransitive
    <3>3. QED
      BY <1>8, <3>2
  <2>4. QED
    BY <2>2, <2>3
<1> HIDE DEF f, T, B
<1>12. Moved(f, T)
  <2>1. (<<>> \o f) = f
    BY <1>1, <1>3, EachSourceIs
  <2>2. QED
    BY <1>2, <2>1
<1>13. \A s \in 1 .. n : f[s] \in SourceIterators(s)
  BY <1>1, <1>3, <1>9
<1>14. /\ DOMAIN src' = 1 .. n
       /\ live' = (live \ T) \cup {s \in T : f[s].ok}
       /\ \A s \in 1 .. n :
            /\ src'[s] \in SourceIterators(s)
            /\ \A k : Reads(mem, tables, put, f[s], s, k) => Reads(mem, tables, put, src'[s], s, k)
  BY <1>1, <1>12, <1>13, MovedIs
<1>15. ASSUME NEW s \in live'
       PROVE  \E k \in put[s] \cap B : Least(k, put[s] \cap B) /\ Reads(mem, tables, put, src'[s], s, k)
  <2>1. s \in 1 .. n
    BY <1>5, <1>6, <1>14
  <2>2. CASE s \in T
    <3>1. f[s].ok
      BY <1>14, <2>2
    <3>2. PICK k \in put[s] \cap B : Least(k, put[s] \cap B) /\ Reads(mem, tables, put, f[s], s, k)
      BY <1>9, <2>2, <3>1 DEF Lands
    <3>3. QED
      BY <1>14, <2>1, <3>2
  <2>3. CASE s \notin T
    <3>1. s \in live /\ f[s] = src[s] /\ put[s] \cap B = put[s] \cap A
      BY <1>3, <1>10, <1>14, <2>1, <2>3
    <3>2. PICK k \in put[s] \cap A : Least(k, put[s] \cap A) /\ Reads(mem, tables, put, src[s], s, k)
      BY <1>6, <3>1
    <3>3. QED
      BY <1>14, <2>1, <3>1, <3>2
  <2>4. QED
    BY <2>2, <2>3
<1>16. ASSUME NEW s \in (1 .. n) \ live' PROVE put[s] \cap B = {}
  <2>1. CASE s \in T
    <3>1. ~f[s].ok
      BY <1>14, <2>1
    <3>2. QED
      BY <1>9, <2>1, <3>1 DEF Lands
  <2>2. CASE s \notin T
    <3>1. s \notin live /\ put[s] \cap B = put[s] \cap A
      BY <1>10, <1>14, <2>2
    <3>2. QED
      BY <1>6, <3>1
  <2>3. QED
    BY <2>1, <2>2
<1>17. live' \subseteq 1 .. n
  BY <1>5, <1>6, <1>14
<1> DEFINE m == mem
           ts == tables
           p == put
           r == src'
           l == live'
<1>18. /\ \A s \in l : \E k \in p[s] \cap B : Least(k, p[s] \cap B) /\ Reads(m, ts, p, r[s], s, k)
       /\ \A s \in (1 .. n) \ l : p[s] \cap B = {}
       /\ l \subseteq 1 .. n
  BY <1>15, <1>16, <1>17
<1> HIDE DEF m, ts, p, r, l, n
<1>19. Merges(m, ts, p, n, H, r, l, B)
  BY <1>11, <1>18 DEF Merges
<1>20. Merges(mem, tables, put, Len(tables) + 1, H, src', live', A \ {i})
  BY <1>19 DEF m, ts, p, r, l, n, B
<1>21. QED
  BY <1>14, <1>20 DEF n

-----------------------------------------------------------------------------
(* What has been returned *)

\* NewestWrite, UserKeys, Live and the elements of Expected, for the writes H and
\* the starting point f.
KeysIn(H) == {Writes[i].key : i \in H}
NewestIn(H, k) == CHOOSE i \in H : Writes[i].key = k /\ \A j \in H : Writes[j].key = k => j <= i
LiveIn(H, f) == {k \in KeysIn(H) : Writes[NewestIn(H, k)].kind = KindSet /\ AtLeast(k, f)}
RankIn(L, k) == Cardinality({x \in L : Less(x, k)}) + 1
AtRank(L, n) == CHOOSE k \in L : RankIn(L, k) = n
ExpectedIn(H, f, n) ==
    [key |-> AtRank(LiveIn(H, f), n), val |-> NewestIn(H, AtRank(LiveIn(H, f), n))]

\* V are keys the iterator has still to deal with: those from some key on.
Ahead(H, f, V) ==
    /\ V \subseteq KeysIn(H)
    /\ \A k \in V : AtLeast(k, f)
    /\ \A k \in V, l \in KeysIn(H) : Less(k, l) => l \in V

\* o are the live keys that are not ahead.
Returned(H, f, V, o) ==
    /\ \E S : o \in Seq(S)
    /\ Len(o) = Cardinality(LiveIn(H, f) \ V)
    /\ \A n \in 1 .. Len(o) : o[n] = ExpectedIn(H, f, n)

\* User keys are strings, and finitely many.
LEMMA UserKeysIs ==
    ASSUME NEW H \in SUBSET DOMAIN Writes
    PROVE  KeysIn(H) \subseteq Keys /\ IsFiniteSet(KeysIn(H))
<1>1. KeysIn(H) \subseteq Keys
  <2>1. \A i \in H : Writes[i].key \in Keys
    BY WriteIs
  <2>2. QED
    BY <2>1 DEF KeysIn
<1> DEFINE g == [i \in H |-> Writes[i].key]
<1>2. g \in Surjection(H, KeysIn(H))
  BY DEF Surjection, KeysIn
<1>3. IsFiniteSet(H)
  BY WritesFinite
<1> HIDE DEF g
<1>4. QED
  BY <1>1, <1>2, <1>3, FS_Surjection

\* The live keys are finitely many.
LEMMA LiveInIs ==
    ASSUME NEW H \in SUBSET DOMAIN Writes, NEW f
    PROVE  /\ LiveIn(H, f) \subseteq KeysIn(H) /\ LiveIn(H, f) \subseteq Keys
           /\ IsFiniteSet(LiveIn(H, f))
<1>1. LiveIn(H, f) \subseteq KeysIn(H)
  BY DEF LiveIn
<1>2. QED
  BY <1>1, UserKeysIs, FS_Subset

\* Keys are told apart by their ranks.
LEMMA RankUnique ==
    ASSUME NEW L \in SUBSET Keys, IsFiniteSet(L), NEW k \in L, NEW l \in L, RankIn(L, k) = RankIn(L, l)
    PROVE  k = l
<1> DEFINE B(x) == {y \in L : Less(y, x)}
<1>1. \A x : B(x) \subseteq L
  OBVIOUS
<1>2. \A x : IsFiniteSet(B(x)) /\ Cardinality(B(x)) \in Nat
  <2> HIDE DEF B
  <2>1. QED
    BY <1>1, FS_Subset, FS_CardinalityType
<1>3. Cardinality(B(k)) = Cardinality(B(l))
  BY <1>2 DEF RankIn
<1>4. ASSUME NEW x \in L, NEW y \in L, Less(x, y), Cardinality(B(x)) = Cardinality(B(y)) PROVE FALSE
  <2>1. B(x) \subseteq B(y)
    BY <1>4, LessTransitive
  <2>2. x \in B(y)
    BY <1>4
  <2>3. x \notin B(x)
    BY LessTotal
  <2>4. B(x) # B(y)
    BY <2>2, <2>3
  <2> HIDE DEF B
  <2>5. B(x) = B(y)
    BY <1>2, <1>4, <2>1, FS_Subset
  <2>6. QED
    BY <2>4, <2>5
<1> HIDE DEF B
<1>5. ~Less(k, l) /\ ~Less(l, k)
  BY <1>3, <1>4
<1>6. k \in Keys /\ l \in Keys
  OBVIOUS
<1>7. QED
  BY <1>5, <1>6, LessTotal

\* Keys that are not live have nothing to return.
LEMMA ReturnedNothing ==
    ASSUME NEW H \in SUBSET DOMAIN Writes, NEW f, NEW V, NEW o, Returned(H, f, V, o),
           NEW k, k \notin LiveIn(H, f)
    PROVE  Returned(H, f, V \ {k}, o)
<1> DEFINE L == LiveIn(H, f)
<1>1. L \ (V \ {k}) = L \ V
  OBVIOUS
<1>2. QED
  BY <1>1 DEF Returned

\* The next live key, with its newest value, is the next to return.
LEMMA ReturnedNext ==
    ASSUME NEW H \in SUBSET DOMAIN Writes, NEW f, NEW V, NEW o, Ahead(H, f, V), Returned(H, f, V, o),
           NEW k \in V, \A l \in V : AtLeast(l, k), k \in LiveIn(H, f), NEW x,
           x = [key |-> k, val |-> NewestIn(H, k)]
    PROVE  Returned(H, f, V \ {k}, Append(o, x))
<1> DEFINE L == LiveIn(H, f)
           G == L \ V
           c == Cardinality(G)
           q == Append(o, x)
<1>1. L \subseteq KeysIn(H) /\ L \in SUBSET Keys /\ IsFiniteSet(L) /\ k \in L /\ k \in Keys
  BY LiveInIs
<1>2. IsFiniteSet(G) /\ c \in Nat
  <2>1. G \subseteq L
    OBVIOUS
  <2> HIDE DEF G, L
  <2>2. QED
    BY <1>1, <2>1, FS_Subset, FS_CardinalityType
<1>3. L \ (V \ {k}) = G \cup {k} /\ k \notin G
  BY <1>1
<1>4. Cardinality(L \ (V \ {k})) = c + 1
  <2> HIDE DEF G, L
  <2>1. QED
    BY <1>2, <1>3, FS_AddElement
<1>5. {y \in L : Less(y, k)} = G
  <2>1. ASSUME NEW y \in L, Less(y, k) PROVE y \notin V
    BY <2>1 DEF AtLeast
  <2>2. ASSUME NEW y \in L, y \notin V PROVE Less(y, k)
    <3>1. ~Less(k, y)
      BY <1>1, <2>2 DEF Ahead
    <3>2. y # k /\ y \in Keys
      BY <1>1, <2>2
    <3>3. QED
      BY <1>1, <3>1, <3>2, LessTotal
  <2> HIDE DEF L
  <2>3. QED
    BY <2>1, <2>2
<1>6. RankIn(L, k) = c + 1
  BY <1>5 DEF RankIn
<1>7. AtRank(L, c + 1) = k
  <2> HIDE DEF L, c
  <2>1. \A l \in L : RankIn(L, l) = c + 1 => l = k
    BY <1>1, <1>6, RankUnique
  <2>2. QED
    BY <1>1, <1>6, <2>1 DEF AtRank
<1>8. ExpectedIn(H, f, c + 1) = x
  <2> HIDE DEF c
  <2>1. QED
    BY <1>7 DEF ExpectedIn
<1>9. Len(o) = c /\ (\E S : o \in Seq(S)) /\ \A n \in 1 .. Len(o) : o[n] = ExpectedIn(H, f, n)
  BY DEF Returned
<1> HIDE DEF L, G, c
<1>10. PICK S : o \in Seq(S)
  BY <1>9
<1>11. PICK Z : o \in Seq(Z) /\ x \in Z
  <2>1. o \in Seq(S \cup {x})
    BY <1>10
  <2>2. x \in S \cup {x}
    OBVIOUS
  <2>3. QED
    BY <2>1, <2>2
<1> DEFINE e(n) == ExpectedIn(H, f, n)
<1>12. e(c + 1) = x /\ \A n \in 1 .. Len(o) : o[n] = e(n)
  BY <1>8, <1>9
<1> HIDE DEF e
<1>13. q \in Seq(Z) /\ Len(q) = c + 1 /\ \A n \in 1 .. c + 1 : q[n] = e(n)
  <2>1. q \in Seq(Z) /\ Len(q) = c + 1 /\ q[c + 1] = x /\ \A n \in 1 .. c : q[n] = o[n]
    BY <1>2, <1>9, <1>11, AppendProperties
  <2>2. \A n \in 1 .. c + 1 : n \in 1 .. c \/ n = c + 1
    BY <1>2
  <2> HIDE DEF q
  <2>3. QED
    BY <1>9, <1>12, <2>1, <2>2
<1>14. QED
  BY <1>4, <1>13 DEF Returned, e, L

-----------------------------------------------------------------------------
(* Where DBIterator is *)

\* Neither of two keys is a proper prefix of the other.
Unprefixed(U) == \A a, b \in U : ~IsProperPrefix(a, b)

\* skipUserKey has been given a key that is not ahead any more: some of its
\* versions, the smallest of what is left, still are.
Skipping(H, A, V, back, given, valid) ==
    /\ given \in KeysIn(H) \ V
    /\ \A k \in V : Less(given, k)
    /\ back \in {"idle", "visible"}
    /\ back = "idle" => valid
    /\ \A i \in H : Writes[i].key \in V => i \in A
    /\ \A i \in A : Writes[i].key \in V \cup {given}
    /\ \E i \in A : Least(i, A) /\ Writes[i].key = given

\* The iterator, in its call at pc, has returned o, and the writes A are in front
\* of the merge: all versions of the keys ahead.
Controls(H, f, A, V, o, pc, back, given, valid) ==
    /\ Ahead(H, f, V)
    /\ Returned(H, f, V, o)
    /\ pc \in {"idle", "visible", "below", "skip"}
    /\ pc # "skip" => \A i \in H : i \in A <=> Writes[i].key \in V
    /\ pc = "skip" => Skipping(H, A, V, back, given, valid)
    /\ (pc = "idle" /\ ~valid) => V = {}

\* The order of two of the writes.
LEMMA OrderIn ==
    ASSUME NEW H \in SUBSET DOMAIN Writes, Unprefixed(KeysIn(H)), NEW i \in H, NEW j \in H
    PROVE  /\ Writes[i].key # Writes[j].key =>
                (Less(InternalKey(i), InternalKey(j)) <=> Less(Writes[i].key, Writes[j].key))
           /\ Writes[i].key = Writes[j].key => (Less(InternalKey(i), InternalKey(j)) <=> j < i)
           /\ Writes[i].key \in Keys /\ Writes[j].key \in Keys
           /\ Writes[i].key \in KeysIn(H) /\ Writes[j].key \in KeysIn(H)
<1>1. Writes[i].key \in KeysIn(H) /\ Writes[j].key \in KeysIn(H)
  BY DEF KeysIn
<1>2. ~IsProperPrefix(Writes[i].key, Writes[j].key) /\ ~IsProperPrefix(Writes[j].key, Writes[i].key)
  BY <1>1 DEF Unprefixed
<1>3. i \in DOMAIN Writes /\ j \in DOMAIN Writes
  OBVIOUS
<1>4. QED
  BY <1>1, <1>2, <1>3, WriteOrder, WriteIs

\* Nothing is ahead when nothing is left.
LEMMA AheadEmpty ==
    ASSUME NEW H, NEW V, V \subseteq KeysIn(H), \A i \in H : Writes[i].key \notin V
    PROVE  V = {}
BY DEF KeysIn

\* The least of the writes left is the newest version of the first key ahead.
LEMMA FirstAhead ==
    ASSUME NEW H \in SUBSET DOMAIN Writes, Unprefixed(KeysIn(H)), NEW f, NEW V, Ahead(H, f, V),
           NEW A, A \subseteq H, \A j \in H : j \in A <=> Writes[j].key \in V,
           NEW i, Least(i, A)
    PROVE  /\ i \in H /\ Writes[i].key \in V
           /\ \A l \in V : l # Writes[i].key => Less(Writes[i].key, l)
           /\ \A l \in V : AtLeast(l, Writes[i].key)
           /\ NewestIn(H, Writes[i].key) = i
<1> DEFINE k == Writes[i].key
<1>1. i \in A /\ i \in H /\ k \in V /\ \A j \in A : ~Less(InternalKey(j), InternalKey(i))
  BY DEF Least, AtLeast
<1>2. k \in Keys /\ V \subseteq Keys
  BY <1>1, UserKeysIs DEF Ahead
<1>3. ASSUME NEW l \in V, l # k PROVE Less(k, l)
  <2>1. PICK j \in H : Writes[j].key = l
    BY DEF Ahead, KeysIn
  <2>2. j \in A
    BY <2>1
  <2>3. Less(InternalKey(j), InternalKey(i)) <=> Less(l, k)
    BY <1>1, <1>3, <2>1, OrderIn
  <2>4. ~Less(l, k)
    BY <1>1, <2>2, <2>3
  <2>5. QED
    BY <1>2, <1>3, <2>4, LessTotal
<1>4. ASSUME NEW l \in V PROVE ~Less(l, k)
  BY <1>2, <1>3, LessTotal
<1>5. ASSUME NEW j \in H, Writes[j].key = k PROVE j <= i
  <2>1. j \in A
    BY <1>1, <1>5
  <2>2. Less(InternalKey(j), InternalKey(i)) <=> i < j
    BY <1>1, <1>5, OrderIn
  <2>3. i \in Nat /\ j \in Nat
    BY <1>1, WriteIs
  <2>4. QED
    BY <1>1, <2>1, <2>2, <2>3
<1>6. ASSUME NEW j \in H, Writes[j].key = k, \A l \in H : Writes[l].key = k => l <= j PROVE j = i
  <2>1. j <= i /\ i <= j
    BY <1>1, <1>5, <1>6
  <2>2. i \in Nat /\ j \in Nat
    BY <1>1, WriteIs
  <2>3. QED
    BY <2>1, <2>2
<1>7. NewestIn(H, k) = i
  <2> HIDE DEF k
  <2>1. Writes[i].key = k
    BY DEF k
  <2>2. QED
    BY <1>1, <1>5, <1>6, <2>1 DEF NewestIn
<1>8. QED
  BY <1>1, <1>3, <1>4, <1>7 DEF AtLeast

\* findNextVisible stands at the first key ahead and skips it: whether it returns
\* the key or drops it, the others are ahead.
LEMMA SkipBegins ==
    ASSUME NEW H \in SUBSET DOMAIN Writes, Unprefixed(KeysIn(H)), NEW f, NEW V, Ahead(H, f, V),
           NEW A, A \subseteq H, \A j \in H : j \in A <=> Writes[j].key \in V,
           NEW i, Least(i, A), NEW back \in {"idle", "visible"}, NEW valid, back = "idle" => valid
    PROVE  /\ Ahead(H, f, V \ {Writes[i].key})
           /\ Skipping(H, A, V \ {Writes[i].key}, back, Writes[i].key, valid)
<1> DEFINE k == Writes[i].key
<1>1. /\ i \in H /\ k \in V /\ \A l \in V : l # k => Less(k, l)
  BY FirstAhead
<1>2. /\ V \subseteq KeysIn(H) /\ \A l \in V : AtLeast(l, f)
      /\ \A a \in V, l \in KeysIn(H) : Less(a, l) => l \in V
  BY DEF Ahead
<1>3. KeysIn(H) \subseteq Keys
  BY UserKeysIs
<1>4. i \in A
  BY DEF Least
<1>5. k \in KeysIn(H)
  BY <1>1, <1>2
<1>6. Writes[i].key = k
  OBVIOUS
<1> HIDE DEF k
<1>7. ASSUME NEW a \in V \ {k}, NEW l \in KeysIn(H), Less(a, l) PROVE l \in V \ {k}
  <2>1. l \in V
    BY <1>2, <1>7
  <2>2. Less(k, a)
    BY <1>1, <1>7
  <2>3. a \in Keys /\ k \in Keys
    BY <1>2, <1>3, <1>5, <1>7
  <2>4. l # k
    BY <1>7, <2>2, <2>3, LessTotal
  <2>5. QED
    BY <2>1, <2>4
<1>8. Ahead(H, f, V \ {k})
  BY <1>2, <1>7 DEF Ahead
<1>9. Skipping(H, A, V \ {k}, back, k, valid)
  <2>1. \A l \in V \ {k} : Less(k, l)
    BY <1>1
  <2>2. \A j \in H : Writes[j].key \in V \ {k} => j \in A
    OBVIOUS
  <2>3. \A j \in A : Writes[j].key \in (V \ {k}) \cup {k}
    OBVIOUS
  <2>4. QED
    BY <1>4, <1>5, <1>6, <2>1, <2>2, <2>3 DEF Skipping
<1>10. QED
  BY <1>6, <1>8, <1>9

\* skipUserKey drops the least of what is left: what it meets then is another
\* version of its key, or the first of the keys ahead.
LEMMA SkipGoesOn ==
    ASSUME NEW H \in SUBSET DOMAIN Writes, Unprefixed(KeysIn(H)), NEW A, A \subseteq H, NEW V, NEW back,
           V \subseteq KeysIn(H),
           NEW given, NEW valid, Skipping(H, A, V, back, given, valid),
           NEW i, Least(i, A), NEW B, B = A \ {i}, NEW j, Least(j, B)
    PROVE  /\ Writes[j].key = given => Skipping(H, B, V, back, given, valid)
           /\ Writes[j].key # given => \A l \in H : l \in B <=> Writes[l].key \in V
<1>1. PICK k \in A : Least(k, A) /\ Writes[k].key = given
  BY DEF Skipping
<1>2. k = i
  <2>1. A \in SUBSET DOMAIN Writes
    OBVIOUS
  <2>2. QED
    BY <1>1, <2>1, LeastUnique
<1>3. /\ given \in KeysIn(H) \ V /\ \A l \in V : Less(given, l)
      /\ back \in {"idle", "visible"} /\ (back = "idle" => valid)
      /\ \A l \in H : Writes[l].key \in V => l \in A
      /\ \A l \in A : Writes[l].key \in V \cup {given}
  BY DEF Skipping
<1>4. \A l \in H : Writes[l].key \in V => l \in B
  BY <1>1, <1>2, <1>3
<1>5. B \subseteq H /\ j \in B /\ \A l \in B : ~Less(InternalKey(l), InternalKey(j)) /\ Writes[l].key \in V \cup {given}
  BY <1>3 DEF Least, AtLeast
<1>7. ASSUME Writes[j].key = given PROVE Skipping(H, B, V, back, given, valid)
  BY <1>3, <1>4, <1>5, <1>7 DEF Skipping
<1>8. ASSUME Writes[j].key # given, NEW l \in B PROVE Writes[l].key \in V
  <2>1. SUFFICES ASSUME Writes[l].key = given PROVE FALSE
    BY <1>5
  <2>2. Less(given, Writes[j].key)
    BY <1>3, <1>5, <1>8
  <2>3. Less(InternalKey(l), InternalKey(j)) <=> Less(Writes[l].key, Writes[j].key)
    BY <1>5, <1>8, <2>1, OrderIn
  <2>4. QED
    BY <1>5, <2>1, <2>2, <2>3
<1>9. QED
  BY <1>4, <1>7, <1>8

\* Nothing is left: skipUserKey has no more to do, and nothing is ahead.
LEMMA SkipEnds ==
    ASSUME NEW H, NEW A, A \subseteq H, NEW V, V \subseteq KeysIn(H), NEW back, NEW given, NEW valid,
           H \in SUBSET DOMAIN Writes,
           Skipping(H, A, V, back, given, valid), NEW i, Least(i, A), A \ {i} = {}
    PROVE  V = {} /\ \A l \in H : l \in A \ {i} <=> Writes[l].key \in V
<1>1. PICK k \in A : Least(k, A) /\ Writes[k].key = given
  BY DEF Skipping
<1>2. given \notin V /\ \A l \in H : Writes[l].key \in V => l \in A
  BY DEF Skipping
<1>3. \A l \in A : l = k
  BY <1>1
<1>4. \A l \in H : Writes[l].key \notin V
  BY <1>1, <1>2, <1>3
<1>5. V = {}
  BY <1>4, AheadEmpty
<1>6. QED
  BY <1>5

\* The beginning: everything that is live from f on is ahead.
LEMMA BeginsAhead ==
    ASSUME NEW H \in SUBSET DOMAIN Writes, NEW f \in Keys, NEW V,
           V = {k \in KeysIn(H) : AtLeast(k, f)}
    PROVE  Ahead(H, f, V) /\ Returned(H, f, V, <<>>)
<1>1. KeysIn(H) \subseteq Keys
  BY UserKeysIs
<1>2. ASSUME NEW k \in V, NEW l \in KeysIn(H), Less(k, l) PROVE l \in V
  <2>1. k \in Keys /\ l \in Keys /\ ~Less(k, f)
    BY <1>1 DEF AtLeast
  <2>2. ~Less(l, f)
    BY <1>2, <2>1, LessTransitive
  <2>3. QED
    BY <2>2 DEF AtLeast
<1>3. Ahead(H, f, V)
  BY <1>2 DEF Ahead
<1>4. LiveIn(H, f) \ V = {}
  BY DEF LiveIn
<1>5. Cardinality(LiveIn(H, f) \ V) = 0
  BY <1>4, FS_EmptySet
<1> DEFINE e == <<>>
<1>6. e \in Seq({0}) /\ Len(e) = 0
  OBVIOUS
<1> HIDE DEF e
<1>7. \A n \in 1 .. Len(e) : e[n] = ExpectedIn(H, f, n)
  BY <1>6
<1>8. Returned(H, f, V, e)
  BY <1>5, <1>6, <1>7 DEF Returned
<1>9. QED
  BY <1>3, <1>8 DEF e

-----------------------------------------------------------------------------
(* The invariant of the iterator *)

\* The iterator, with the writes A in front of the merge.
Controlled(A) ==
    \E V : Controls(Held, from.key, A, V, out, call.pc, call.back, call.given, dbi.valid)

\* Calls and results are records, and skipUserKey does not return to itself.
Records ==
    /\ call.back # "skip"
    /\ call = [pc |-> call.pc, back |-> call.back, owner |-> call.owner, seen |-> call.seen,
               given |-> call.given, shared |-> call.shared]
    /\ dbi = [valid |-> dbi.valid, key |-> dbi.key, val |-> dbi.val]

\* The memtable is in order; once the iterator has been placed, the merge has some
\* of the writes in front of it, and, as long as IteratorExact promises anything,
\* the iterator has returned what it should have up to there.
ReadInv ==
    /\ MemSound(mem, put[1])
    /\ Records
    /\ phase = "read" => wtr = NewWriter /\ SrcSound
    /\ call.pc = "skip" => live # {}
    /\ ~from.placed => live = {} /\ call.pc = "idle" /\ ~dbi.valid
    /\ from.placed => /\ phase = "read"
                      /\ \E A : MergesIn(Held, A) /\ (PrefixFree /\ ~clobbered => Controlled(A))

\* When the iterator has been opened, all sources are finished.
LEMMA SourcesSound ==
    ASSUME BuildInv, ReadInv, phase = "read"
    PROVE  SrcSound /\ Sound(Held) /\ Held \in SUBSET DOMAIN Writes
<1> DEFINE n == Len(tables) + 1
<1>1. SrcSound /\ wtr = NewWriter /\ MemSound(mem, put[1])
  BY DEF ReadInv
<1>2. /\ put \in [Sources -> SUBSET DOMAIN Writes] /\ tables \in Seq(Tables) /\ Len(tables) <= MaxTables
      /\ TablesSound(tables, put) /\ WriterSound(NewWriter, Len(tables), put)
  BY <1>1 DEF BuildInv
<1>3. n \in Nat \ {0} /\ MaxTables \in Nat /\ n <= MaxTables + 1 /\ Sources = 1 .. MaxTables + 1
      /\ 1 .. n \subseteq Sources /\ Len(tables) \in Nat
  BY <1>2, BoundsAssumption DEF Sources
<1>4. Held \in SUBSET DOMAIN Writes
  BY <1>2 DEF Held
<1>5. ASSUME NEW s \in 1 .. n PROVE SourceSound(mem, tables, put, s)
  <2>1. put[s] \in SUBSET DOMAIN Writes
    BY <1>2, <1>3
  <2>2. s # 1 => TableHolds(tables[s - 1], EntriesOf(put[s]))
    <3>1. SUFFICES ASSUME s # 1 PROVE TableHolds(tables[s - 1], EntriesOf(put[s]))
      OBVIOUS
    <3>2. s - 1 \in 1 .. Len(tables) /\ (s - 1) + 1 = s
      BY <1>3, <3>1
    <3>3. TableHolds(tables[s - 1], EntriesOf(put[(s - 1) + 1]))
      BY <1>2, <3>2 DEF TablesSound
    <3>4. QED
      BY <3>2, <3>3
  <2>3. s = 1 => MemSound(mem, put[s])
    BY <1>1
  <2>4. QED
    BY <2>1, <2>2, <2>3 DEF SourceSound
<1>6. ASSUME NEW s \in Sources, s \notin 1 .. n PROVE put[s] = {}
  <2>1. CASE s > Len(tables) + 2
    BY <1>2, <2>1 DEF WriterSound
  <2>2. CASE s = Len(tables) + 2
    <3>1. Len(tables) + 1 < MaxTables + 1
      BY <1>3, <2>2
    <3>2. Len(NewWriter.hashes) = Cardinality(put[Len(tables) + 2])
      BY <1>2, <3>1 DEF WriterSound
    <3>3. Cardinality(put[s]) = 0
      BY <2>2, <3>2, NewWriterEmpty
    <3>4. IsFiniteSet(put[s])
      BY <1>2, WritesFinite
    <3>5. QED
      BY <3>3, <3>4, FS_EmptySet
  <2>3. s > Len(tables) + 2 \/ s = Len(tables) + 2
    BY <1>3, <1>6
  <2>4. QED
    BY <2>1, <2>2, <2>3
<1>7. ASSUME NEW i PROVE i \in Held <=> \E s \in 1 .. n : i \in put[s]
  <2>1. i \in Held <=> \E s \in Sources : i \in put[s]
    BY DEF Held
  <2>2. QED
    BY <1>3, <1>6, <2>1
<1>8. Sound(Held)
  BY <1>3, <1>4, <1>5, <1>7 DEF Sound, AllSound
<1>9. QED
  BY <1>1, <1>4, <1>8

\* What is known of a placed iterator.
LEMMA PlacedIs ==
    ASSUME BuildInv, ReadInv, from.placed
    PROVE  /\ phase = "read" /\ SrcSound /\ Sound(Held) /\ Held \in SUBSET DOMAIN Writes
           /\ live \subseteq 1 .. Len(tables) + 1
           /\ PrefixFree => Unprefixed(KeysIn(Held))
           /\ \E A : /\ MergesIn(Held, A) /\ A \subseteq Held /\ (live = {} <=> A = {})
                     /\ (PrefixFree /\ ~clobbered => Controlled(A))
<1>1. phase = "read"
  BY DEF ReadInv
<1>2. SrcSound /\ Sound(Held) /\ Held \in SUBSET DOMAIN Writes
  BY <1>1, SourcesSound
<1>3. PICK A : MergesIn(Held, A) /\ (PrefixFree /\ ~clobbered => Controlled(A))
  BY DEF ReadInv
<1>4. live \subseteq 1 .. Len(tables) + 1 /\ A \subseteq Held
  BY <1>3 DEF MergesIn, Merges
<1>5. live = {} <=> A = {}
  <2> DEFINE m == mem
             ts == tables
             p == put
             n == Len(tables) + 1
             r == src
             h == live
             H == Held
  <2>1. AllSound(m, ts, p, n, H) /\ Merges(m, ts, p, n, H, r, h, A)
    BY <1>2, <1>3 DEF Sound, MergesIn
  <2> HIDE DEF m, ts, p, n, r, h, H
  <2>2. h = {} <=> A = {}
    BY <2>1, MergeEmpty
  <2>3. QED
    BY <2>2 DEF h
<1>6. KeysIn(Held) = UserKeys
  BY DEF KeysIn, UserKeys
<1>7. PrefixFree => Unprefixed(KeysIn(Held))
  BY <1>6 DEF PrefixFree, Unprefixed
<1>8. QED
  BY <1>1, <1>2, <1>3, <1>4, <1>5, <1>7

\* The parts of the internal key of a write.
LEMMA PartsOfWrite ==
    ASSUME NEW i \in DOMAIN Writes
    PROVE  UserKey(InternalKey(i)) = Writes[i].key /\ KindOfKey(InternalKey(i)) = Writes[i].kind
<1> DEFINE sq == Base * Base
           v == Trailer(i, Writes[i].kind)
           k == Writes[i].kind
<1>1. sq \in Nat
  BY MaxByteAssumption DEF Base
<1>2. i \in Nat /\ k \in {0, 1} /\ v \in Nat /\ v = sq - 1 - (2 * i + k)
  BY WriteIs DEF Trailer
<1>3. UserKey(InternalKey(i)) = Writes[i].key /\ TrailerValue(InternalKey(i)) = sq - 1 - v
  BY WriteIs, WriteKey, InternalKeyParts
<1> HIDE DEF sq, v, k
<1>4. sq - 1 - v = 2 * i + k
  BY <1>1, <1>2
<1>5. (2 * i + k) % 2 = k
  BY <1>2
<1>6. KindOfKey(InternalKey(i)) = k
  BY <1>3, <1>4, <1>5 DEF KindOfKey
<1>7. QED
  BY <1>3, <1>6 DEF k

\* What the top of a heap that is not empty reads.
LEMMA TopUser ==
    ASSUME NEW A, Sound(Held), MergesIn(Held, A), A \subseteq Held, Held \in SUBSET DOMAIN Writes,
           A # {}
    PROVE  \E i \in A : /\ Least(i, A)
                        /\ UserKey(TopKey) = Writes[i].key
                        /\ KindOfKey(TopKey) = Writes[i].kind
                        /\ TopVal = Value(i)
<1>1. A \in SUBSET DOMAIN Writes
  OBVIOUS
<1>2. PICK i \in A : Least(i, A)
  BY <1>1, LeastExists
<1> DEFINE H == Held
<1>3. Sound(H) /\ MergesIn(H, A)
  OBVIOUS
<1> HIDE DEF H
<1>4. TopKey = InternalKey(i) /\ TopVal = Value(i)
  BY <1>2, <1>3, TopIs
<1>5. i \in DOMAIN Writes
  BY <1>1, <1>2
<1>6. QED
  BY <1>2, <1>4, <1>5, PartsOfWrite

\* To keep the invariant, a step of the iterator needs only this.
LEMMA ReadInvNext ==
    ASSUME BuildInv, ReadInv, phase = "read", UNCHANGED <<phase, mem, put, wtr, tables>>,
           DOMAIN src' = 1 .. Len(tables) + 1,
           \A s \in 1 .. Len(tables) + 1 : src'[s] \in SourceIterators(s),
           from'.placed, Records', call'.pc = "skip" => live' # {},
           NEW A, Merges(mem, tables, put, Len(tables) + 1, Held, src', live', A),
           PrefixFree' /\ ~clobbered' =>
                \E V : Controls(Held, from'.key, A, V, out', call'.pc, call'.back, call'.given, dbi'.valid)
    PROVE  ReadInv'
<1>1. Held' = Held
  BY DEF Held
<1>2. MemSound(mem, put[1])' /\ (wtr = NewWriter)' /\ (phase = "read")'
  BY DEF ReadInv
<1>3. SrcSound'
  BY DEF ReadInv, SrcSound
<1>4. MergesIn(Held, A)'
  BY <1>1 DEF MergesIn
<1>5. PrefixFree' /\ ~clobbered' => Controlled(A)'
  BY <1>1 DEF Controlled
<1>6. QED
  BY <1>2, <1>3, <1>4, <1>5 DEF ReadInv

-----------------------------------------------------------------------------
(* Every action keeps it *)

\* First begins with all keys ahead.
LEMMA FirstRead ==
    ASSUME BuildInv, ReadInv, First PROVE ReadInv'
<1>1. phase = "read" /\ UNCHANGED <<phase, mem, put, wtr, tables>> /\ UNCHANGED <<dbi, clobbered>>
      /\ call' = [Idle EXCEPT !.pc = "visible"] /\ from' = [placed |-> TRUE, key |-> <<>>] /\ out' = <<>>
  BY DEF First, MayStep, ReadFrame, buildVars
<1>2. SrcSound /\ Sound(Held) /\ Held \in SUBSET DOMAIN Writes
  BY <1>1, SourcesSound
<1>3. live \subseteq 1 .. Len(tables) + 1
  BY PlacedIs DEF ReadInv
<1> DEFINE H == Held
           V == {k \in KeysIn(H) : AtLeast(k, <<>>)}
<1>4. /\ Merges(mem, tables, put, Len(tables) + 1, H, src', live', H)
      /\ DOMAIN src' = 1 .. Len(tables) + 1
      /\ \A s \in 1 .. Len(tables) + 1 : src'[s] \in SourceIterators(s)
  <2> HIDE DEF H
  <2>1. QED
    BY <1>2, <1>3, FirstMerges DEF H
<1>5. from'.placed = TRUE /\ from'.key = <<>>
  BY <1>1
<1>6. call'.pc = "visible" /\ Records'
  BY <1>1 DEF Records, ReadInv, Idle
<1>7. Ahead(H, <<>>, V) /\ Returned(H, <<>>, V, <<>>)
  <2>1. <<>> \in Keys
    BY DEF Keys
  <2> HIDE DEF V
  <2>2. QED
    BY <1>2, <2>1, BeginsAhead DEF V
<1>8. \A i \in H : Writes[i].key \in V
  <2>1. \A k : AtLeast(k, <<>>)
    BY DEF AtLeast, Less
  <2>2. QED
    BY <2>1 DEF KeysIn
<1> HIDE DEF V, H
<1>9. Controls(H, from'.key, H, V, out', call'.pc, call'.back, call'.given, dbi'.valid)
  BY <1>1, <1>5, <1>6, <1>7, <1>8 DEF Controls
<1>10. QED
  BY <1>1, <1>4, <1>5, <1>6, <1>9, ReadInvNext DEF H

\* SeekGE begins with the keys from the target on ahead.
LEMMA SeekRead ==
    ASSUME BuildInv, ReadInv, NEW target \in Targets, SeekGE(target) PROVE ReadInv'
<1>1. phase = "read" /\ UNCHANGED <<phase, mem, put, wtr, tables>> /\ UNCHANGED <<dbi, clobbered>>
      /\ call' = [Idle EXCEPT !.pc = "below"] /\ from' = [placed |-> TRUE, key |-> target] /\ out' = <<>>
  BY DEF SeekGE, MayStep, ReadFrame, buildVars
<1>2. SrcSound /\ Sound(Held) /\ Held \in SUBSET DOMAIN Writes
  BY <1>1, SourcesSound
<1>3. live \subseteq 1 .. Len(tables) + 1
  BY PlacedIs DEF ReadInv
<1> DEFINE H == Held
           sk == MakeInternalKey(target, MaxSeqNum, KindSet)
           A == {i \in H : AtLeast(InternalKey(i), sk)}
           V == {k \in KeysIn(H) : AtLeast(k, target)}
<1>4. /\ Merges(mem, tables, put, Len(tables) + 1, H, src', live', A)
      /\ DOMAIN src' = 1 .. Len(tables) + 1
      /\ \A s \in 1 .. Len(tables) + 1 : src'[s] \in SourceIterators(s)
  <2> HIDE DEF H, sk
  <2>1. QED
    BY <1>2, <1>3, SeekMerges DEF H, sk
<1>5. from'.placed = TRUE /\ from'.key = target
  BY <1>1
<1>6. call'.pc = "below" /\ Records'
  BY <1>1 DEF Records, ReadInv, Idle
<1>7. Ahead(H, target, V) /\ Returned(H, target, V, <<>>)
  <2>1. target \in Keys
    BY SeekKeyIs
  <2> HIDE DEF V
  <2>2. QED
    BY <1>2, <2>1, BeginsAhead DEF V
<1>8. ASSUME PrefixFree', NEW i \in H PROVE i \in A <=> Writes[i].key \in V
  <2>1. i \in DOMAIN Writes /\ Writes[i].key \in KeysIn(H)
    BY <1>2 DEF KeysIn
  <2>2. UserKeys' = KeysIn(H)
    BY <1>1 DEF UserKeys, KeysIn, Held
  <2>3. target # <<>> => ~IsProperPrefix(Writes[i].key, target) /\ ~IsProperPrefix(target, Writes[i].key)
    BY <1>5, <1>8, <2>1, <2>2 DEF PrefixFree
  <2>4. AtLeast(InternalKey(i), sk) <=> AtLeast(Writes[i].key, target)
    BY <2>1, <2>3, SeekKeyOrder
  <2>5. QED
    BY <2>1, <2>4
<1> HIDE DEF V, H, A
<1>9. ASSUME PrefixFree'
      PROVE  Controls(H, from'.key, A, V, out', call'.pc, call'.back, call'.given, dbi'.valid)
  BY <1>1, <1>5, <1>6, <1>7, <1>8, <1>9 DEF Controls
<1>10. QED
  BY <1>1, <1>4, <1>5, <1>6, <1>9, ReadInvNext DEF H

\* A step that moves nothing keeps the invariant, if it keeps the control.
LEMMA StandsStill ==
    ASSUME BuildInv, ReadInv, from.placed, UNCHANGED <<phase, mem, put, wtr, tables, src, live, from, clobbered>>,
           Records', call'.pc = "skip" => live # {}, NEW A, MergesIn(Held, A),
           PrefixFree /\ ~clobbered =>
                \E V : Controls(Held, from.key, A, V, out', call'.pc, call'.back, call'.given, dbi'.valid)
    PROVE  ReadInv'
<1>1. phase = "read" /\ SrcSound
  BY DEF ReadInv
<1>2. PrefixFree' <=> PrefixFree
  BY DEF PrefixFree, UserKeys, Held
<1>3. DOMAIN src' = 1 .. Len(tables) + 1 /\ \A s \in 1 .. Len(tables) + 1 : src'[s] \in SourceIterators(s)
  BY <1>1 DEF SrcSound
<1>4. Merges(mem, tables, put, Len(tables) + 1, Held, src', live', A)
  BY DEF MergesIn
<1>5. from'.placed
  OBVIOUS
<1>6. QED
  BY <1>1, <1>2, <1>3, <1>4, <1>5, ReadInvNext

\* Next begins to look for the next key.
LEMMA NextKeyRead ==
    ASSUME BuildInv, ReadInv, NextKey PROVE ReadInv'
<1>1. /\ UNCHANGED <<phase, mem, put, wtr, tables, src, live, from, clobbered>> /\ UNCHANGED <<dbi, out>>
      /\ call' = [Idle EXCEPT !.pc = "visible"] /\ call.pc = "idle" /\ dbi.valid
  BY DEF NextKey, MayStep, ReadFrame, buildVars
<1>2. from.placed
  BY <1>1 DEF ReadInv
<1>3. PICK A : MergesIn(Held, A) /\ (PrefixFree /\ ~clobbered => Controlled(A))
  BY <1>2, PlacedIs
<1>4. call'.pc = "visible" /\ Records'
  BY <1>1 DEF Records, ReadInv, Idle
<1>5. ASSUME PrefixFree, ~clobbered
      PROVE  \E V : Controls(Held, from.key, A, V, out', call'.pc, call'.back, call'.given, dbi'.valid)
  <2>1. PICK V : Controls(Held, from.key, A, V, out, call.pc, call.back, call.given, dbi.valid)
    BY <1>3, <1>5 DEF Controlled
  <2>2. Controls(Held, from.key, A, V, out', call'.pc, call'.back, call'.given, dbi'.valid)
    BY <1>1, <1>4, <2>1 DEF Controls
  <2>3. QED
    BY <2>2
<1>6. QED
  BY <1>1, <1>2, <1>3, <1>4, <1>5, StandsStill

\* The first loop of SeekGE finds nothing to skip.
LEMMA BelowRead ==
    ASSUME BuildInv, ReadInv, Below PROVE ReadInv'
<1>1. /\ UNCHANGED <<phase, mem, put, wtr, tables, src, live, from, clobbered>> /\ UNCHANGED <<dbi, out>>
      /\ call.pc = "below"
  BY DEF Below, MayStep, ReadFrame, buildVars
<1>2. from.placed
  BY <1>1 DEF ReadInv
<1>3. /\ Sound(Held) /\ Held \in SUBSET DOMAIN Writes
      /\ PrefixFree => Unprefixed(KeysIn(Held))
  BY <1>2, PlacedIs
<1>4. PICK A : /\ MergesIn(Held, A) /\ A \subseteq Held /\ (live = {} <=> A = {})
               /\ (PrefixFree /\ ~clobbered => Controlled(A))
  BY <1>2, PlacedIs
<1>5. CASE live # {} /\ Less(UserKey(TopKey), from.key)
  <2>1. SkipAndThen("below")
    BY <1>5 DEF Below
  <2>2. Records'
    BY <1>1, <2>1 DEF Records, ReadInv, SkipAndThen
  <2>3. ASSUME PrefixFree, ~clobbered PROVE FALSE
    <3>1. PICK V : Controls(Held, from.key, A, V, out, call.pc, call.back, call.given, dbi.valid)
      BY <1>4, <2>3 DEF Controlled
    <3>2. Ahead(Held, from.key, V) /\ \A i \in Held : i \in A <=> Writes[i].key \in V
      BY <1>1, <3>1 DEF Controls
    <3>3. PICK i \in A : UserKey(TopKey) = Writes[i].key
      BY <1>3, <1>4, <1>5, TopUser
    <3>4. AtLeast(Writes[i].key, from.key)
      BY <1>4, <3>2, <3>3 DEF Ahead
    <3>5. QED
      BY <1>5, <3>3, <3>4 DEF AtLeast
  <2>4. QED
    BY <1>1, <1>2, <1>4, <1>5, <2>2, <2>3, StandsStill
<1>6. CASE ~(live # {} /\ Less(UserKey(TopKey), from.key))
  <2>1. call' = [Idle EXCEPT !.pc = "visible"]
    BY <1>6 DEF Below
  <2>2. call'.pc = "visible" /\ Records'
    BY <1>1, <2>1 DEF Records, ReadInv, Idle
  <2>3. ASSUME PrefixFree, ~clobbered
        PROVE  \E V : Controls(Held, from.key, A, V, out', call'.pc, call'.back, call'.given, dbi'.valid)
    <3>1. PICK V : Controls(Held, from.key, A, V, out, call.pc, call.back, call.given, dbi.valid)
      BY <1>4, <2>3 DEF Controlled
    <3>2. Controls(Held, from.key, A, V, out', call'.pc, call'.back, call'.given, dbi'.valid)
      BY <1>1, <2>2, <3>1 DEF Controls
    <3>3. QED
      BY <3>2
  <2>4. QED
    BY <1>1, <1>2, <1>4, <2>2, <2>3, StandsStill
<1>7. QED
  BY <1>5, <1>6

\* The iterator ends when nothing is ahead.
LEMMA ExhaustedRead ==
    ASSUME BuildInv, ReadInv, Exhausted PROVE ReadInv'
<1>1. /\ UNCHANGED <<phase, mem, put, wtr, tables, src, live, from, clobbered>> /\ UNCHANGED out
      /\ dbi' = [dbi EXCEPT !.valid = FALSE] /\ call' = Idle
      /\ call.pc = "visible" /\ live = {}
  BY DEF Exhausted, MayStep, ReadFrame, buildVars
<1>2. from.placed
  BY <1>1 DEF ReadInv
<1>3. PICK A : /\ MergesIn(Held, A) /\ (live = {} <=> A = {})
               /\ (PrefixFree /\ ~clobbered => Controlled(A))
  BY <1>2, PlacedIs
<1>4. call'.pc = "idle" /\ Records'
  BY <1>1 DEF Records, ReadInv, Idle
<1>5. ASSUME PrefixFree, ~clobbered
      PROVE  \E V : Controls(Held, from.key, A, V, out', call'.pc, call'.back, call'.given, dbi'.valid)
  <2>1. PICK V : Controls(Held, from.key, A, V, out, call.pc, call.back, call.given, dbi.valid)
    BY <1>3, <1>5 DEF Controlled
  <2>2. /\ Ahead(Held, from.key, V) /\ Returned(Held, from.key, V, out)
        /\ \A i \in Held : i \in A <=> Writes[i].key \in V
    BY <1>1, <2>1 DEF Controls
  <2>3. V = {}
    <3> DEFINE H == Held
    <3>1. V \subseteq KeysIn(H) /\ \A i \in H : Writes[i].key \notin V
      BY <1>1, <1>3, <2>2 DEF Ahead
    <3> HIDE DEF H
    <3>2. QED
      BY <3>1, AheadEmpty
  <2>4. Controls(Held, from.key, A, V, out', call'.pc, call'.back, call'.given, dbi'.valid)
    BY <1>1, <1>4, <2>2, <2>3 DEF Controls
  <2>5. QED
    BY <2>4
<1>6. QED
  BY <1>1, <1>2, <1>3, <1>4, <1>5, StandsStill

\* A live key is found: it is the next to return.
LEMMA FoundSetRead ==
    ASSUME BuildInv, ReadInv, FoundSet PROVE ReadInv'
<1>1. /\ UNCHANGED <<phase, mem, put, wtr, tables, src, live, from, clobbered>>
      /\ dbi' = [valid |-> TRUE, key |-> UserKey(TopKey), val |-> TopVal]
      /\ out' = Append(out, [key |-> UserKey(TopKey), val |-> TopVal])
      /\ SkipAndThen("idle")
      /\ call.pc = "visible" /\ live # {} /\ KindOfKey(TopKey) = KindSet
  BY DEF FoundSet, MayStep, ReadFrame, buildVars
<1>2. from.placed
  BY <1>1 DEF ReadInv
<1>3. Sound(Held) /\ Held \in SUBSET DOMAIN Writes /\ (PrefixFree => Unprefixed(KeysIn(Held)))
  BY <1>2, PlacedIs
<1>4. PICK A : /\ MergesIn(Held, A) /\ A \subseteq Held /\ (live = {} <=> A = {})
               /\ (PrefixFree /\ ~clobbered => Controlled(A))
  BY <1>2, PlacedIs
<1>5. /\ call'.pc = "skip" /\ call'.back = "idle" /\ call'.given = UserKey(TopKey) /\ Records'
      /\ dbi'.valid
  BY <1>1 DEF Records, ReadInv, SkipAndThen
<1>6. ASSUME PrefixFree, ~clobbered
      PROVE  \E V : Controls(Held, from.key, A, V, out', call'.pc, call'.back, call'.given, dbi'.valid)
  <2> DEFINE H == Held
             f == from.key
             o == out
  <2>1. PICK V : Controls(H, f, A, V, o, call.pc, call.back, call.given, dbi.valid)
    BY <1>4, <1>6 DEF Controlled
  <2>2. Ahead(H, f, V) /\ Returned(H, f, V, o) /\ \A i \in H : i \in A <=> Writes[i].key \in V
    BY <1>1, <2>1 DEF Controls
  <2>3. PICK i \in A : /\ Least(i, A) /\ UserKey(TopKey) = Writes[i].key
                       /\ KindOfKey(TopKey) = Writes[i].kind /\ TopVal = Value(i)
    BY <1>1, <1>3, <1>4, TopUser
  <2>4. H \in SUBSET DOMAIN Writes /\ Unprefixed(KeysIn(H)) /\ A \subseteq H
    BY <1>3, <1>4, <1>6
  <2> DEFINE k == Writes[i].key
             x == [key |-> k, val |-> i]
             W == V \ {k}
  <2>5. out' = Append(o, x) /\ Writes[i].kind = KindSet
    BY <1>1, <2>3 DEF Value
  <2>6. call'.given = k
    BY <1>5, <2>3
  <2> HIDE DEF H, f, o
  <2>7. i \in H /\ k \in V /\ (\A l \in V : AtLeast(l, k)) /\ NewestIn(H, k) = i
    BY <2>2, <2>3, <2>4, FirstAhead
  <2>8. Ahead(H, f, W) /\ Skipping(H, A, W, "idle", k, TRUE)
    BY <2>2, <2>3, <2>4, SkipBegins
  <2>9. k \in LiveIn(H, f)
    BY <2>2, <2>5, <2>7 DEF LiveIn, Ahead
  <2>10. x = [key |-> k, val |-> NewestIn(H, k)]
    BY <2>7
  <2> HIDE DEF k, x
  <2>11. Returned(H, f, W, Append(o, x))
    BY <2>2, <2>4, <2>7, <2>9, <2>10, ReturnedNext
  <2> HIDE DEF W
  <2>12. Controls(H, f, A, W, Append(o, x), "skip", "idle", k, TRUE)
    BY <2>8, <2>11 DEF Controls
  <2>13. dbi'.valid = TRUE
    BY <1>1
  <2>14. Controls(H, f, A, W, out', call'.pc, call'.back, call'.given, dbi'.valid)
    BY <1>5, <2>5, <2>6, <2>12, <2>13
  <2>15. QED
    BY <2>14 DEF H, f
<1>7. QED
  BY <1>1, <1>2, <1>4, <1>5, <1>6, StandsStill

\* A deleted key is dropped.
LEMMA FoundTombstoneRead ==
    ASSUME BuildInv, ReadInv, FoundTombstone PROVE ReadInv'
<1>1. /\ UNCHANGED <<phase, mem, put, wtr, tables, src, live, from, clobbered>> /\ UNCHANGED <<dbi, out>>
      /\ SkipAndThen("visible")
      /\ call.pc = "visible" /\ live # {} /\ KindOfKey(TopKey) = KindDelete
  BY DEF FoundTombstone, MayStep, ReadFrame, buildVars
<1>2. from.placed
  BY <1>1 DEF ReadInv
<1>3. Sound(Held) /\ Held \in SUBSET DOMAIN Writes /\ (PrefixFree => Unprefixed(KeysIn(Held)))
  BY <1>2, PlacedIs
<1>4. PICK A : /\ MergesIn(Held, A) /\ A \subseteq Held /\ (live = {} <=> A = {})
               /\ (PrefixFree /\ ~clobbered => Controlled(A))
  BY <1>2, PlacedIs
<1>5. /\ call'.pc = "skip" /\ call'.back = "visible" /\ call'.given = UserKey(TopKey) /\ Records'
  BY <1>1 DEF Records, ReadInv, SkipAndThen
<1>6. ASSUME PrefixFree, ~clobbered
      PROVE  \E V : Controls(Held, from.key, A, V, out', call'.pc, call'.back, call'.given, dbi'.valid)
  <2> DEFINE H == Held
             f == from.key
             o == out
             valid == dbi'.valid
  <2>1. PICK V : Controls(H, f, A, V, o, call.pc, call.back, call.given, dbi.valid)
    BY <1>4, <1>6 DEF Controlled
  <2>2. Ahead(H, f, V) /\ Returned(H, f, V, o) /\ \A i \in H : i \in A <=> Writes[i].key \in V
    BY <1>1, <2>1 DEF Controls
  <2>3. PICK i \in A : /\ Least(i, A) /\ UserKey(TopKey) = Writes[i].key
                       /\ KindOfKey(TopKey) = Writes[i].kind /\ TopVal = Value(i)
    BY <1>1, <1>3, <1>4, TopUser
  <2>4. H \in SUBSET DOMAIN Writes /\ Unprefixed(KeysIn(H)) /\ A \subseteq H
    BY <1>3, <1>4, <1>6
  <2> DEFINE k == Writes[i].key
             W == V \ {k}
  <2>5. out' = o /\ Writes[i].kind # KindSet
    BY <1>1, <2>3 DEF KindSet, KindDelete
  <2>6. call'.given = k
    BY <1>5, <2>3
  <2> HIDE DEF H, f, o, valid
  <2>7. i \in H /\ k \in V /\ NewestIn(H, k) = i
    BY <2>2, <2>3, <2>4, FirstAhead
  <2>8. Ahead(H, f, W) /\ Skipping(H, A, W, "visible", k, valid)
    BY <2>2, <2>3, <2>4, SkipBegins
  <2>9. k \notin LiveIn(H, f)
    BY <2>5, <2>7 DEF LiveIn
  <2> HIDE DEF k
  <2>10. Returned(H, f, W, o)
    BY <2>2, <2>4, <2>9, ReturnedNothing
  <2> HIDE DEF W
  <2>11. Controls(H, f, A, W, o, "skip", "visible", k, valid)
    BY <2>8, <2>10 DEF Controls
  <2>12. Controls(H, f, A, W, out', call'.pc, call'.back, call'.given, dbi'.valid)
    BY <1>5, <2>5, <2>6, <2>11 DEF valid
  <2>13. QED
    BY <2>12 DEF H, f
<1>7. QED
  BY <1>1, <1>2, <1>4, <1>5, <1>6, StandsStill

\* skipUserKey goes on as long as it meets its key.
LEMMA SkipRead ==
    ASSUME BuildInv, ReadInv, Skip PROVE ReadInv'
<1>1. /\ UNCHANGED <<phase, mem, put, wtr, tables>> /\ UNCHANGED <<dbi, from, out>>
      /\ call.pc = "skip" /\ phase = "read"
  BY DEF Skip, MayStep, ReadFrame, buildVars
<1>2. from.placed /\ live # {}
  BY <1>1 DEF ReadInv
<1>3. SrcSound /\ Sound(Held) /\ Held \in SUBSET DOMAIN Writes /\ (PrefixFree => Unprefixed(KeysIn(Held)))
  BY <1>2, PlacedIs
<1>4. PICK A : /\ MergesIn(Held, A) /\ A \subseteq Held /\ A # {}
               /\ (PrefixFree /\ ~clobbered => Controlled(A))
  BY <1>2, PlacedIs
<1>5. PICK i \in A : Least(i, A)
  <2>1. A \in SUBSET DOMAIN Writes
    BY <1>3, <1>4
  <2>2. QED
    BY <1>4, <2>1, LeastExists
<1> DEFINE H == Held
           B == A \ {i}
<1>6. /\ Merges(mem, tables, put, Len(tables) + 1, H, src', live', B)
      /\ DOMAIN src' = 1 .. Len(tables) + 1
      /\ \A s \in 1 .. Len(tables) + 1 : src'[s] \in SourceIterators(s)
  <2>1. Sound(H) /\ MergesIn(H, A)
    BY <1>3, <1>4
  <2> HIDE DEF H
  <2>2. QED
    BY <1>3, <1>5, <2>1, SkipMerges
<1> DEFINE same == /\ call.shared /\ call.owner > 1
                   /\ src'[call.owner].blk = src[call.owner].blk
                   /\ src'[call.owner].dat.cap = src[call.owner].dat.cap
           seen == IF same THEN SubSeq(src'[call.owner].dat.buf, 1, Len(call.seen)) ELSE call.seen
           user == UserKey(Key(src'[Top(src', live')], Top(src', live')))
           skips == live' # {} /\ user = seen
<1>7. /\ call' = IF skips THEN [call EXCEPT !.seen = seen, !.shared = same]
                 ELSE [Idle EXCEPT !.pc = call.back]
      /\ clobbered' = (clobbered \/ (live' # {} /\ (user = seen) # (user = call.given)))
  BY DEF Skip
<1> HIDE DEF same, seen
<1>8. ASSUME skips
      PROVE  call'.pc = "skip" /\ call'.back = call.back /\ call'.given = call.given /\ Records'
  <2>1. call' = [call EXCEPT !.seen = seen, !.shared = same]
    BY <1>7, <1>8
  <2>2. call'.pc = "skip" /\ call'.back = call.back /\ call'.given = call.given
    BY <1>1, <2>1 DEF ReadInv, Records
  <2>3. QED
    BY <1>1, <2>1, <2>2 DEF ReadInv, Records
<1>9. ASSUME ~skips
      PROVE  call'.pc = call.back /\ call'.back = "idle" /\ Records'
  <2>1. call' = [Idle EXCEPT !.pc = call.back]
    BY <1>7, <1>9
  <2>2. QED
    BY <1>1, <2>1 DEF ReadInv, Records, Idle
<1>10. call'.pc = "skip" => live' # {}
  BY <1>8, <1>9 DEF ReadInv, Records
<1>11. PrefixFree' <=> PrefixFree
  BY <1>1 DEF PrefixFree, UserKeys, Held
<1>12. live' = {} <=> B = {}
  <2> DEFINE m == mem
             ts == tables
             p == put
             n == Len(tables) + 1
             r == src'
             h == live'
  <2>1. AllSound(m, ts, p, n, H) /\ Merges(m, ts, p, n, H, r, h, B)
    BY <1>3, <1>6 DEF Sound
  <2> HIDE DEF m, ts, p, n, r, h, H, B
  <2>2. h = {} <=> B = {}
    BY <2>1, MergeEmpty
  <2>3. QED
    BY <2>2 DEF h
<1>13. ASSUME NEW j, Least(j, B) PROVE user = Writes[j].key
  <2> DEFINE m == mem
             ts == tables
             p == put
             n == Len(tables) + 1
             r == src'
             h == live'
             t == TopOf(m, r, h)
  <2>1. AllSound(m, ts, p, n, H) /\ Merges(m, ts, p, n, H, r, h, B)
    BY <1>3, <1>6 DEF Sound
  <2>2. Top(src', live') = t
    BY DEF Top, TopOf, Key, KeyOf
  <2>3. Key(r[t], t) = KeyOf(m, r[t], t)
    BY DEF Key, KeyOf
  <2>4. j \in DOMAIN Writes
    BY <1>3, <1>4, <1>13 DEF Least
  <2> HIDE DEF m, ts, p, n, r, h, H, B, t
  <2>5. Reads(m, ts, p, r[t], t, j)
    BY <1>13, <2>1, TopReads DEF t
  <2>6. Key(r[t], t) = InternalKey(j)
    BY <2>3, <2>5 DEF Reads
  <2>7. UserKey(InternalKey(j)) = Writes[j].key
    BY <2>4, PartsOfWrite
  <2>8. QED
    BY <2>2, <2>6, <2>7 DEF r
<1>14. ASSUME PrefixFree, ~clobbered'
       PROVE  \E V : Controls(H, from.key, B, V, out', call'.pc, call'.back, call'.given, dbi'.valid)
  <2> DEFINE f == from.key
             o == out
             back == call.back
             given == call.given
             valid == dbi.valid
  <2>1. ~clobbered /\ (live' # {} => (user = seen <=> user = given))
    BY <1>7, <1>14
  <2>2. PICK V : Controls(H, f, A, V, o, "skip", back, given, valid)
    BY <1>1, <1>4, <1>14, <2>1 DEF Controlled
  <2>3. H \in SUBSET DOMAIN Writes /\ Unprefixed(KeysIn(H)) /\ A \subseteq H
    BY <1>3, <1>4, <1>14
  <2>4. out' = o /\ dbi'.valid = valid
    BY <1>1
  <2>5. skips => call'.pc = "skip" /\ call'.back = back /\ call'.given = given
    BY <1>8
  <2>6. ~skips => call'.pc = back /\ call'.back = "idle"
    BY <1>9
  <2>7. skips <=> (live' # {} /\ user = given)
    BY <2>1
  <2> HIDE DEF H, f, o, back, given, valid, user, skips
  <2>8. Ahead(H, f, V) /\ Returned(H, f, V, o) /\ Skipping(H, A, V, back, given, valid)
    BY <2>2 DEF Controls
  <2>9. V \subseteq KeysIn(H) /\ back \in {"idle", "visible"} /\ (back = "idle" => valid)
    BY <2>8 DEF Ahead, Skipping
  <2>10. CASE B = {}
    <3>1. V = {} /\ \A l \in H : l \in B <=> Writes[l].key \in V
      BY <1>5, <2>3, <2>8, <2>9, <2>10, SkipEnds
    <3>2. call'.pc = back
      BY <1>12, <2>6, <2>7, <2>10
    <3>3. Controls(H, f, B, V, o, call'.pc, call'.back, call'.given, valid)
      BY <2>8, <2>9, <3>1, <3>2 DEF Controls
    <3>4. QED
      BY <2>4, <3>3 DEF f
  <2>11. CASE B # {}
    <3>1. PICK j \in B : Least(j, B)
      <4>1. B \in SUBSET DOMAIN Writes
        BY <2>3
      <4> HIDE DEF B
      <4>2. QED
        BY <2>11, <4>1, LeastExists
    <3>2. /\ Writes[j].key = given => Skipping(H, B, V, back, given, valid)
          /\ Writes[j].key # given => \A l \in H : l \in B <=> Writes[l].key \in V
      <4>1. B = A \ {i} /\ Least(i, A)
        BY <1>5
      <4>2. V \subseteq KeysIn(H)
        BY <2>9
      <4> HIDE DEF B
      <4>3. QED
        BY <2>3, <2>8, <3>1, <4>1, <4>2, SkipGoesOn
    <3>3. skips <=> Writes[j].key = given
      BY <1>12, <1>13, <2>7, <2>11, <3>1
    <3> HIDE DEF B
    <3>4. CASE skips
      <4>1. Controls(H, f, B, V, o, "skip", back, given, valid)
        BY <2>8, <3>2, <3>3, <3>4 DEF Controls
      <4>2. Controls(H, f, B, V, out', call'.pc, call'.back, call'.given, dbi'.valid)
        BY <2>4, <2>5, <3>4, <4>1
      <4>3. QED
        BY <4>2 DEF f
    <3>5. CASE ~skips
      <4>1. Controls(H, f, B, V, o, call'.pc, call'.back, call'.given, valid)
        BY <2>6, <2>8, <2>9, <3>2, <3>3, <3>5 DEF Controls
      <4>2. Controls(H, f, B, V, out', call'.pc, call'.back, call'.given, dbi'.valid)
        BY <2>4, <4>1
      <4>3. QED
        BY <4>2 DEF f
    <3>6. QED
      BY <3>4, <3>5
  <2>12. QED
    BY <2>10, <2>11
<1>15. from'.placed /\ from'.key = from.key /\ Records'
  BY <1>1, <1>2, <1>8, <1>9
<1> HIDE DEF skips, user, B
<1>16. QED
  BY <1>1, <1>6, <1>10, <1>11, <1>14, <1>15, ReadInvNext

\* Nothing that the invariant is about changes.
LEMMA OutsideRead ==
    ASSUME ReadInv, UNCHANGED <<buildVars, readVars>> PROVE ReadInv'
BY DEF ReadInv, Records, SrcSound, MergesIn, Controlled, PrefixFree, UserKeys, Held, buildVars, readVars

\* A write goes into the memtable where it belongs.
LEMMA MemtableSetRead ==
    ASSUME BuildInv, ReadInv, NEW i \in DOMAIN Writes, MemtableSet(i) PROVE ReadInv'
<1> DEFINE n == MemBelow(InternalKey(i))
<1>1. /\ phase = "build" /\ \A j \in put[1] : j < i
      /\ mem' = SubSeq(mem, 1, n) \o <<i>> \o SubSeq(mem, n + 1, Len(mem))
      /\ put' = [put EXCEPT ![1] = @ \cup {i}]
      /\ UNCHANGED <<phase, wtr, tables>> /\ UNCHANGED readVars
  BY DEF MemtableSet
<1>2. put'[1] = put[1] \cup {i}
  BY <1>1, BoundsAssumption DEF BuildInv, Sources
<1>3. i \notin put[1]
  <2>1. i \in Nat
    BY WriteIs
  <2>2. QED
    BY <1>1, <2>1
<1>4. n = BelowIn(mem, InternalKey(i))
  BY DEF MemBelow, BelowIn
<1>5. MemSound(mem', put'[1])
  <2> DEFINE m == mem
             W == put[1]
  <2>1. MemSound(m, W) /\ i \notin W /\ n = BelowIn(m, InternalKey(i))
    BY <1>3, <1>4 DEF ReadInv
  <2> HIDE DEF m, W, n
  <2>2. MemSound(SubSeq(m, 1, n) \o <<i>> \o SubSeq(m, n + 1, Len(m)), W \cup {i})
    BY <2>1, MemInsert
  <2>3. QED
    BY <1>1, <1>2, <2>2 DEF m, W
<1>6. ~from.placed /\ phase' # "read"
  BY <1>1 DEF ReadInv
<1>7. QED
  BY <1>1, <1>5, <1>6 DEF ReadInv, Records, readVars

\* A table is written: the iterator has not been opened.
LEMMA TableRead ==
    ASSUME BuildInv, ReadInv, TableClose \/ \E i \in DOMAIN Writes : TableAdd(i) PROVE ReadInv'
<1>1. phase = "build" /\ UNCHANGED <<phase, mem>> /\ UNCHANGED readVars
  BY DEF TableClose, TableAdd
<1>2. put'[1] = put[1]
  <2>1. CASE TableClose
    BY <2>1 DEF TableClose
  <2>2. ASSUME NEW i \in DOMAIN Writes, TableAdd(i) PROVE put'[1] = put[1]
    <3>1. put' = [put EXCEPT ![Writing] = @ \cup {i}] /\ Writing # 1
      BY <2>2 DEF TableAdd, Writing, BuildInv
    <3>2. QED
      BY <3>1 DEF BuildInv
  <2>3. QED
    BY <2>1, <2>2
<1>3. ~from.placed /\ phase' # "read"
  BY <1>1 DEF ReadInv
<1>4. QED
  BY <1>1, <1>2, <1>3 DEF ReadInv, Records, readVars

\* The iterator is opened: an iterator for every source.
LEMMA NewIteratorRead ==
    ASSUME BuildInv, ReadInv, NewIterator PROVE ReadInv'
<1> DEFINE n == Len(tables) + 1
           f == [s \in 1 .. n |-> IF s = 1 THEN [pos |-> 0, ok |-> FALSE, loads |-> <<>>]
                                  ELSE NewTableIterator(tables[s - 1], s - 1)]
<1>1. /\ phase = "build" /\ wtr = NewWriter /\ phase' = "read"
      /\ UNCHANGED <<mem, put, wtr, tables>> /\ UNCHANGED <<live, dbi, call, from, out, clobbered>>
      /\ src' = <<>> \o f
  BY DEF NewIterator, EachSource
<1>2. tables \in Seq(Tables) /\ n \in Nat /\ Len(tables) \in Nat
  BY DEF BuildInv
<1>3. /\ f = [s \in 1 .. n |-> f[s]] /\ DOMAIN f = 1 .. n
      /\ \A s \in 1 .. n : s = 1 => f[s] = [pos |-> 0, ok |-> FALSE, loads |-> <<>>]
      /\ \A s \in 1 .. n : s # 1 => f[s] = NewTableIterator(tables[s - 1], s - 1)
  OBVIOUS
<1> HIDE DEF f
<1>4. src' = f
  BY <1>1, <1>2, <1>3, EachSourceIs
<1>5. ASSUME NEW s \in 1 .. n PROVE f[s] \in SourceIterators(s)
  <2>1. CASE s = 1
    <3>1. f[s] = [pos |-> 0, ok |-> FALSE, loads |-> <<>>]
      BY <1>3, <2>1
    <3>2. f[s] \in MemIterators
      BY <3>1 DEF MemIterators
    <3>3. QED
      BY <2>1, <3>2 DEF SourceIterators
  <2>2. CASE s # 1
    <3>1. s - 1 \in 1 .. Len(tables)
      BY <1>2, <2>2
    <3>2. TableHolds(tables[s - 1], EntriesOf(put[(s - 1) + 1]))
      BY <3>1 DEF BuildInv, TablesSound
    <3> DEFINE t == tables[s - 1]
               P == EntriesOf(put[(s - 1) + 1])
               g == s - 1
    <3>3. TableHolds(t, P) /\ f[s] = NewTableIterator(t, g)
      BY <1>3, <2>2, <3>2
    <3> HIDE DEF t, P, g
    <3>4. f[s] \in TableIterators(g)
      BY <3>3, NewTableIteratorIs
    <3>5. QED
      BY <2>2, <3>4 DEF SourceIterators, g
  <2>3. QED
    BY <2>1, <2>2
<1>6. SrcSound'
  BY <1>1, <1>2, <1>3, <1>4, <1>5 DEF SrcSound
<1>7. ~from.placed
  BY <1>1 DEF ReadInv
<1>8. QED
  BY <1>1, <1>6, <1>7 DEF ReadInv, Records

\* Nothing has been read in the beginning.
LEMMA ReadInit ==
    ASSUME Init PROVE ReadInv
<1>1. mem = <<>> /\ put[1] = {}
  BY BoundsAssumption DEF Init, Sources
<1>2. MemSound(mem, put[1])
  <2> DEFINE m == mem
  <2>1. m \in Seq(DOMAIN Writes) /\ Len(m) = 0
    BY <1>1
  <2> HIDE DEF m
  <2>2. MemSound(m, {})
    BY <2>1 DEF MemSound
  <2>3. QED
    BY <1>1, <2>2 DEF m
<1>3. QED
  BY <1>2 DEF Init, ReadInv, Records, Idle, Unpositioned

\* Every step keeps the invariant.
LEMMA ReadStep ==
    ASSUME BuildInv, ReadInv, [Next]_vars PROVE ReadInv'
<1>1. ASSUME NEW i \in DOMAIN Writes, MemtableSet(i) PROVE ReadInv'
  BY <1>1, MemtableSetRead
<1>2. CASE TableClose \/ \E i \in DOMAIN Writes : TableAdd(i)
  BY <1>2, TableRead
<1>3. CASE NewIterator
  BY <1>3, NewIteratorRead
<1>4. CASE First
  BY <1>4, FirstRead
<1>5. ASSUME NEW t \in Targets, SeekGE(t) PROVE ReadInv'
  BY <1>5, SeekRead
<1>6. CASE NextKey
  BY <1>6, NextKeyRead
<1>7. CASE Below
  BY <1>7, BelowRead
<1>8. CASE Exhausted
  BY <1>8, ExhaustedRead
<1>9. CASE FoundSet
  BY <1>9, FoundSetRead
<1>10. CASE FoundTombstone
  BY <1>10, FoundTombstoneRead
<1>11. CASE Skip
  BY <1>11, SkipRead
<1>12. ASSUME NEW r \in Readers, ReadCached(r) \/ ReadRaw(r) PROVE ReadInv'
  BY <1>12, OutsideRead DEF ReadCached, ReadRaw
<1>13. ASSUME NEW f \in DOMAIN tables,
              Evict(f) \/ \E n \in DOMAIN tables[f].blocks : OtherRead(f, n)
       PROVE  ReadInv'
  BY <1>13, OutsideRead DEF Evict, OtherRead
<1>14. CASE UNCHANGED vars
  BY <1>14, OutsideRead DEF vars
<1>15. QED
  BY <1>1, <1>2, <1>3, <1>4, <1>5, <1>6, <1>7, <1>8, <1>9, <1>10, <1>11, <1>12, <1>13, <1>14 DEF Next

\* The iterator is exact in every state of the invariant.
LEMMA IteratesExactly ==
    ASSUME BuildInv, ReadInv PROVE IteratorExact
<1>1. SUFFICES ASSUME PrefixFree, ~clobbered, from.placed, call.pc = "idle"
               PROVE  /\ Len(out) <= Len(Expected)
                      /\ \A n \in DOMAIN out : out[n] = Expected[n]
                      /\ ~dbi.valid => Len(out) = Len(Expected)
  BY DEF IteratorExact, IteratesLive
<1>2. Held \in SUBSET DOMAIN Writes
  BY <1>1, PlacedIs
<1>3. PICK A : Controlled(A)
  BY <1>1, PlacedIs
<1> DEFINE H == Held
           f == from.key
           o == out
           L == LiveIn(H, f)
<1>4. PICK V : Controls(H, f, A, V, o, call.pc, call.back, call.given, dbi.valid)
  BY <1>3 DEF Controlled
<1>5. Live = L
  BY DEF Live, LiveIn, NewestWrite, NewestIn, UserKeys, KeysIn
<1>6. Expected = [n \in 1 .. Cardinality(L) |-> ExpectedIn(H, f, n)]
  <2>1. Expected = [n \in 1 .. Cardinality(Live) |->
                        [key |-> AtRank(Live, n), val |-> NewestIn(H, AtRank(Live, n))]]
    BY DEF Expected, AtRank, RankIn, NewestWrite, NewestIn
  <2>2. QED
    BY <1>5, <2>1 DEF ExpectedIn
<1>7. IsFiniteSet(L) /\ Cardinality(L) \in Nat
  BY <1>2, LiveInIs, FS_CardinalityType
<1>8. Returned(H, f, V, o) /\ (~dbi.valid => V = {})
  BY <1>1, <1>4 DEF Controls
<1> DEFINE e(n) == ExpectedIn(H, f, n)
           x == Expected
           c == Cardinality(L)
<1>9. x = [n \in 1 .. c |-> e(n)]
  BY <1>6
<1> HIDE DEF H, f, L, e, x, c
<1>10. Len(x) = c
  <2>1. c \in Nat
    BY <1>7 DEF c
  <2>2. x \in [1 .. c -> {e(n) : n \in 1 .. c}]
    BY <1>9, Zenon
  <2>3. QED
    BY <2>1, <2>2
<1>11. L \ V \subseteq L
  OBVIOUS
<1>12. Cardinality(L \ V) \in Nat /\ Cardinality(L \ V) <= c
  BY <1>7, <1>11, FS_Subset, FS_CardinalityType DEF c
<1>13. /\ \E S : o \in Seq(S)
       /\ Len(o) = Cardinality(L \ V)
       /\ \A n \in 1 .. Len(o) : o[n] = e(n)
  BY <1>8 DEF Returned, L, e
<1>14. DOMAIN o = 1 .. Len(o) /\ Len(o) \in Nat
  BY <1>13
<1>15. \A n \in DOMAIN o : o[n] = x[n]
  <2>1. c \in Nat /\ Len(o) <= c
    BY <1>7, <1>12, <1>13 DEF c
  <2>2. \A n \in 1 .. Len(o) : n \in 1 .. c
    BY <1>14, <2>1
  <2>3. \A n \in 1 .. c : x[n] = e(n)
    BY <1>9
  <2>4. QED
    BY <1>13, <1>14, <2>2, <2>3
<1>16. ~dbi.valid => Len(o) = c
  <2>1. V = {} => L \ V = L
    OBVIOUS
  <2>2. QED
    BY <1>8, <1>13, <2>1 DEF c
<1>17. QED
  BY <1>10, <1>12, <1>13, <1>15, <1>16 DEF o, x

\* DBIterator returns exactly the live keys in order, each with its newest value,
\* and ends when it has returned them all: for every number of sources, wherever
\* the versions of a key are, whatever blocks and restart intervals they are in and
\* whatever was called before, as long as no user key is a prefix of another and no
\* comparison has met an overwritten buffer (lsm.go:371-373, 606-704,
\* merge_iterator.go).
THEOREM IteratorIsExact == Spec => []IteratorExact
<1>1. Init => ReadInv
  BY ReadInit
<1>2. BuildInv /\ ReadInv /\ [Next]_vars => ReadInv'
  BY ReadStep
<1>3. BuildInv /\ ReadInv => IteratorExact
  BY IteratesExactly
<1>4. QED
  BY <1>1, <1>2, <1>3, BuildInvariant, PTL DEF Spec

-----------------------------------------------------------------------------
(* The blocks that are read *)

\* The blocks there are.
BlocksOf(ts) == {k \in CacheKeys : k[1] \in 1 .. Len(ts) /\ k[2] \in 1 .. Len(ts[k[1]].blocks)}

Loads(ts) == [todo: Seq(BlocksOf(ts)), missed: BOOLEAN]

\* Readers read blocks that there are; one that has missed a block still has it to read.
LoadersSound(l, ts) ==
    /\ l \in [Readers -> Loads(ts)]
    /\ \A r \in Readers : l[r].missed => l[r].todo # <<>>

CacheInv ==
    /\ \E s : Caches(cache, s)
    /\ LoadersSound(loader, tables)
    /\ phase = "build" => loader = [r \in Readers |-> NoLoads]

\* Readers that read nothing are sound.
LEMMA NoLoadsSound ==
    ASSUME NEW ts, NEW l, l = [r \in Readers |-> NoLoads]
    PROVE  LoadersSound(l, ts)
<1>1. NoLoads \in Loads(ts) /\ NoLoads.missed = FALSE
  BY DEF NoLoads, Loads
<1>2. QED
  BY <1>1 DEF LoadersSound

\* Other blocks are to be read, or the first of them has been missed.
LEMMA TodoIs ==
    ASSUME NEW ts, NEW e \in Loads(ts), NEW t, NEW b
    PROVE  /\ [e EXCEPT !.todo = t] = [todo |-> t, missed |-> e.missed]
           /\ [e EXCEPT !.missed = b] = [todo |-> e.todo, missed |-> b]
BY DEF Loads

\* One reader goes on.
LEMMA LoaderStep ==
    ASSUME NEW l, NEW ts, LoadersSound(l, ts), NEW r \in Readers, NEW x \in Loads(ts),
           x.missed => x.todo # <<>>
    PROVE  LoadersSound([l EXCEPT ![r] = x], ts)
<1> DEFINE m == [l EXCEPT ![r] = x]
<1>1. l \in [Readers -> Loads(ts)] /\ \A o \in Readers : l[o].missed => l[o].todo # <<>>
  BY DEF LoadersSound
<1>2. m \in [Readers -> Loads(ts)] /\ m[r] = x /\ \A o \in Readers : o # r => m[o] = l[o]
  BY <1>1
<1> HIDE DEF m
<1>3. ASSUME NEW o \in Readers, m[o].missed PROVE m[o].todo # <<>>
  <2>1. CASE o = r
    BY <1>2, <1>3, <2>1, Zenon
  <2>2. CASE o # r
    <3>1. m[o] = l[o]
      BY <1>2, <2>2
    <3>2. QED
      BY <1>1, <1>3, <3>1, Zenon
  <2>3. QED
    BY <2>1, <2>2
<1>4. QED
  BY <1>2, <1>3 DEF LoadersSound, m

\* A block of a table is a block with a length.
LEMMA BlockIs ==
    ASSUME BuildInv, NEW f \in 1 .. Len(tables), NEW n \in 1 .. Len(tables[f].blocks)
    PROVE  <<f, n>> \in BlocksOf(tables)
<1>1. /\ tables \in Seq(Tables) /\ Len(tables) <= MaxTables /\ Len(tables) \in Nat
      /\ Len(tables[f].blocks) \in 0 .. Len(Writes)
  BY DEF BuildInv, TablesSound
<1>2. Len(Writes) \in Nat /\ MaxTables \in Nat
  BY WritesAssumption, BoundsAssumption
<1>3. f \in 1 .. MaxTables /\ n \in 1 .. Len(Writes)
  BY <1>1, <1>2
<1>4. QED
  BY <1>3 DEF BlocksOf, CacheKeys

\* Its length is a natural number.
LEMMA BlockLengthIs ==
    ASSUME BuildInv, NEW k \in BlocksOf(tables)
    PROVE  k \in CacheKeys /\ BlockLength(k) \in Nat
<1>1. k \in CacheKeys /\ k[1] \in 1 .. Len(tables) /\ k[2] \in 1 .. Len(tables[k[1]].blocks)
  BY DEF BlocksOf
<1>2. QED
  <2> DEFINE b == tables[k[1]].blocks
  <2>1. b \in Seq(Blocks)
    BY <1>1 DEF BuildInv, TablesSound
  <2>2. b[k[2]] \in Blocks
    BY <1>1, <2>1
  <2>3. b[k[2]].len \in Nat
    BY <2>2 DEF Blocks
  <2>4. QED
    BY <1>1, <2>3 DEF BlockLength

\* The blocks the iterator over a source has loaded.
LEMMA SourceLoadsIs ==
    ASSUME BuildInv, NEW s \in 1 .. Len(tables) + 1, NEW it \in SourceIterators(s),
           SourceLoads(tables, it, s)
    PROVE  it.loads \in Seq(BlocksOf(tables))
<1>1. CASE s = 1
  <2>1. it.loads = <<>>
    BY <1>1 DEF SourceLoads
  <2>2. <<>> \in Seq(BlocksOf(tables))
    OBVIOUS
  <2>3. QED
    BY <2>1, <2>2, Zenon
<1>2. CASE s # 1
  <2> DEFINE f == s - 1
             T == {f} \X (Nat \ {0})
  <2>1. Len(tables) \in Nat
    BY DEF BuildInv
  <2>2. f \in 1 .. Len(tables)
    BY <1>2, <2>1
  <2>3. it.loads \in Seq(T) /\ LoadsSound(tables[f], it)
    BY <1>2 DEF SourceIterators, TableIterators, SourceLoads
  <2> HIDE DEF f
  <2>4. ASSUME NEW i \in 1 .. Len(it.loads) PROVE it.loads[i] \in BlocksOf(tables)
    <3>1. it.loads[i] \in T
      BY <2>3
    <3>2. PICK n \in Nat \ {0} : it.loads[i] = <<f, n>>
      BY <3>1
    <3>3. n \in 1 .. Len(tables[f].blocks)
      BY <2>3, <3>2 DEF LoadsSound
    <3>4. QED
      BY <2>2, <3>2, <3>3, BlockIs
  <2>5. it.loads \in [1 .. Len(it.loads) -> BlocksOf(tables)] /\ Len(it.loads) \in Nat
    BY <2>3, <2>4
  <2>6. QED
    BY <2>5
<1>3. QED
  BY <1>1, <1>2

\* The blocks of several sources, one after the other.
LEMMA CatLoads ==
    ASSUME NEW n \in Nat, NEW T, NEW y \in [1 .. n -> Seq(T)]
    PROVE  Cat!Loop(<<>>, y) \in Seq(T)
<1> DEFINE S == Seq(T)
           f == [i \in 0 .. n |-> S]
           z == <<>>
<1>1. Len(y) = n /\ z \in S /\ \A i \in 1 .. n : y[i] \in S
  OBVIOUS
<1>2. \A i \in 0 .. n : f[i] = S
  OBVIOUS
<1>3. \A a, b \in S : a \o b \in S
  OBVIOUS
<1> HIDE DEF f, S, z
<1>4. z \in f[0] /\ \A i \in 1 .. Len(y) : \A a \in f[i - 1] : a \o y[i] \in f[i]
  BY <1>1, <1>2, <1>3
<1>5. Cat!Loop(z, y) \in f[Len(y)]
  BY <1>1, <1>4, Cat!LoopInvariant
<1>6. QED
  BY <1>1, <1>2, <1>5 DEF S, z

\* After a move the iterator has the blocks of the sources that moved to read.
LEMMA MovedLoads ==
    ASSUME BuildInv, LoadersSound(loader, tables), loader["iterator"] = NoLoads,
           NEW srcs, NEW ss, Moved(srcs, ss), DOMAIN srcs = 1 .. Len(tables) + 1,
           \A s \in 1 .. Len(tables) + 1 : srcs[s] \in SourceIterators(s),
           \A s \in 1 .. Len(tables) + 1 : s \in ss => SourceLoads(tables, srcs[s], s)
    PROVE  LoadersSound(loader', tables)
<1> DEFINE n == Len(tables) + 1
           T == BlocksOf(tables)
           y == [s \in DOMAIN srcs |-> IF s \in ss THEN srcs[s].loads ELSE <<>>]
           todo == Cat!Loop(<<>>, y)
<1>1. n \in Nat
  BY DEF BuildInv
<1>2. y \in [1 .. n -> Seq(T)]
  <2>1. ASSUME NEW s \in 1 .. n PROVE (IF s \in ss THEN srcs[s].loads ELSE <<>>) \in Seq(T)
    <3>1. CASE s \in ss
      <4>1. srcs[s].loads \in Seq(T)
        BY <3>1, SourceLoadsIs
      <4>2. QED
        BY <3>1, <4>1
    <3>2. CASE s \notin ss
      <4>1. <<>> \in Seq(T)
        OBVIOUS
      <4>2. QED
        BY <3>2, <4>1
    <3>3. QED
      BY <3>1, <3>2
  <2>2. QED
    BY <2>1
<1>3. loader' = [loader EXCEPT !["iterator"].todo = todo]
  BY DEF Moved
<1> HIDE DEF n, y, T
<1>4. todo \in Seq(T)
  BY <1>1, <1>2, CatLoads
<1> HIDE DEF todo
<1> DEFINE l == loader
           ts == tables
           e == l["iterator"]
           x == [e EXCEPT !.todo = todo]
<1>5. LoadersSound(l, ts) /\ l \in [Readers -> Loads(ts)] /\ "iterator" \in Readers
  BY DEF LoadersSound, Readers
<1>6. e \in Loads(ts) /\ e.missed = FALSE
  <2>1. e \in Loads(ts)
    BY <1>5
  <2>2. e = NoLoads
    OBVIOUS
  <2> HIDE DEF e
  <2>3. e.missed = FALSE
    BY <2>2, Zenon DEF NoLoads
  <2>4. QED
    BY <2>1, <2>3
<1>7. loader' = [l EXCEPT !["iterator"] = x]
  BY <1>3
<1>8. todo \in Seq(BlocksOf(ts))
  BY <1>4 DEF T
<1> HIDE DEF l, ts, e
<1>9. x = [todo |-> todo, missed |-> FALSE]
  <2>1. x = [todo |-> todo, missed |-> e.missed]
    BY <1>6, TodoIs
  <2> HIDE DEF x
  <2>2. QED
    BY <1>6, <2>1
<1> HIDE DEF x
<1>10. x \in Loads(ts) /\ x.missed = FALSE
  BY <1>8, <1>9 DEF Loads
<1>11. LoadersSound([l EXCEPT !["iterator"] = x], ts)
  BY <1>5, <1>10, LoaderStep
<1>12. QED
  BY <1>7, <1>11 DEF ts

-----------------------------------------------------------------------------
(* The steps *)

\* In the beginning the cache is empty, and nothing is read.
LEMMA CacheInit ==
    ASSUME Init PROVE CacheInv
<1>1. cache = NewBlockCache(CacheKeys) /\ loader = [r \in Readers |-> NoLoads]
  BY DEF Init
<1>2. Caches(cache, <<>>)
  BY <1>1, NewCacheIs
<1>3. LoadersSound(loader, tables)
  <2> DEFINE l == loader
             ts == tables
  <2>1. l = [r \in Readers |-> NoLoads]
    BY <1>1
  <2> HIDE DEF l, ts
  <2>2. LoadersSound(l, ts)
    BY <2>1, NoLoadsSound
  <2>3. QED
    BY <2>2 DEF l, ts
<1>4. QED
  BY <1>1, <1>2, <1>3, Zenon DEF CacheInv

\* Steps that use neither the cache nor a block.
LEMMA CacheKept ==
    ASSUME CacheInv, UNCHANGED <<tables, cache, loader>>, phase' = "build" => phase = "build"
    PROVE  CacheInv' /\ CacheStep(cache, cache')
<1>1. CacheStep(cache, cache')
  BY Zenon DEF CacheStep
<1>2. (\E s : Caches(cache', s)) /\ LoadersSound(loader', tables')
  BY Zenon DEF CacheInv
<1>3. phase' = "build" => loader' = [r \in Readers |-> NoLoads]
  BY DEF CacheInv
<1>4. QED
  BY <1>1, <1>2, <1>3, Zenon DEF CacheInv

\* A table is finished while nothing is read.
LEMMA TableCloseCaches ==
    ASSUME CacheInv, TableClose
    PROVE  CacheInv' /\ CacheStep(cache, cache')
<1>1. phase = "build" /\ phase' = phase /\ cache' = cache /\ loader' = loader
  BY DEF TableClose
<1>2. loader' = [r \in Readers |-> NoLoads]
  BY <1>1 DEF CacheInv
<1>3. LoadersSound(loader', tables')
  <2> DEFINE l == loader'
             ts == tables'
  <2>1. l = [r \in Readers |-> NoLoads]
    BY <1>2
  <2> HIDE DEF l, ts
  <2>2. LoadersSound(l, ts)
    BY <2>1, NoLoadsSound
  <2>3. QED
    BY <2>2 DEF l, ts
<1>4. \E s : Caches(cache', s)
  BY <1>1, Zenon DEF CacheInv
<1>5. CacheStep(cache, cache')
  BY <1>1, Zenon DEF CacheStep
<1>6. QED
  BY <1>2, <1>3, <1>4, <1>5, Zenon DEF CacheInv

\* The iterator moves: it has blocks to read.
LEMMA MovesCaches ==
    ASSUME BuildInv, CacheInv, phase = "read", UNCHANGED <<phase, tables, cache>>,
           loader["iterator"] = NoLoads,
           NEW srcs, NEW ss, Moved(srcs, ss), DOMAIN srcs = 1 .. Len(tables) + 1,
           \A s \in 1 .. Len(tables) + 1 : srcs[s] \in SourceIterators(s),
           \A s \in 1 .. Len(tables) + 1 : s \in ss => SourceLoads(tables, srcs[s], s)
    PROVE  CacheInv' /\ CacheStep(cache, cache')
<1>1. LoadersSound(loader, tables)
  BY DEF CacheInv
<1>2. LoadersSound(loader', tables)
  BY <1>1, MovedLoads
<1>3. LoadersSound(loader', tables')
  BY <1>2, Zenon
<1>4. \E s : Caches(cache', s)
  BY Zenon DEF CacheInv
<1>5. CacheStep(cache, cache')
  BY Zenon DEF CacheStep
<1>6. ~(phase' = "build")
  OBVIOUS
<1>7. QED
  BY <1>3, <1>4, <1>5, <1>6, Zenon DEF CacheInv

\* First moves all sources to their first entries.
LEMMA FirstCaches ==
    ASSUME BuildInv, ReadInv, CacheInv, First
    PROVE  CacheInv' /\ CacheStep(cache, cache')
<1> DEFINE n == Len(tables) + 1
           f == [s \in 1 .. n |-> SourceFirst(src[s], s)]
<1>1. /\ phase = "read" /\ UNCHANGED <<phase, tables, cache>> /\ loader["iterator"] = NoLoads
      /\ Moved(<<>> \o f, DOMAIN src)
  BY DEF First, MayStep, ReadFrame, buildVars, EachSource
<1>2. SrcSound /\ Sound(Held)
  BY <1>1, SourcesSound
<1>3. /\ tables \in Seq(Tables) /\ DOMAIN src = 1 .. n
      /\ \A s \in 1 .. n : src[s] \in SourceIterators(s)
                               /\ SourceSound(mem, tables, put, s) /\ s \in Nat \ {0}
  BY <1>2 DEF SrcSound, Sound, AllSound
<1>4. ASSUME NEW s \in 1 .. n
      PROVE  f[s] \in SourceIterators(s) /\ SourceLoads(tables, f[s], s)
  <2>1. SourceFirst(src[s], s) \in SourceIterators(s) /\ SourceLoads(tables, SourceFirst(src[s], s), s)
    BY <1>3, SourceFirstIs
  <2>2. f[s] = SourceFirst(src[s], s)
    OBVIOUS
  <2>3. QED
    BY <2>1, <2>2
<1>5. f = [s \in 1 .. n |-> f[s]] /\ DOMAIN f = 1 .. n
  OBVIOUS
<1> HIDE DEF f
<1>6. Moved(f, DOMAIN src)
  <2>1. (<<>> \o f) = f
    BY <1>3, <1>5, EachSourceIs
  <2>2. QED
    BY <1>1, <2>1
<1>7. QED
  BY <1>1, <1>4, <1>5, <1>6, MovesCaches

\* SeekGE moves all sources.
LEMMA SeekCaches ==
    ASSUME BuildInv, ReadInv, CacheInv, NEW target \in Targets, SeekGE(target)
    PROVE  CacheInv' /\ CacheStep(cache, cache')
<1> DEFINE n == Len(tables) + 1
           sk == MakeInternalKey(target, MaxSeqNum, KindSet)
           f == [s \in 1 .. n |-> SourceSeekGE(src[s], s, sk)]
<1>1. /\ phase = "read" /\ UNCHANGED <<phase, tables, cache>> /\ loader["iterator"] = NoLoads
      /\ Moved(<<>> \o f, DOMAIN src)
  BY DEF SeekGE, MayStep, ReadFrame, buildVars, EachSource
<1>2. SrcSound /\ Sound(Held)
  BY <1>1, SourcesSound
<1>3. /\ tables \in Seq(Tables) /\ DOMAIN src = 1 .. n
      /\ \A s \in 1 .. n : src[s] \in SourceIterators(s)
                               /\ SourceSound(mem, tables, put, s) /\ s \in Nat \ {0}
  BY <1>2 DEF SrcSound, Sound, AllSound
<1>4. sk \in Keys
  BY SeekKeyIs
<1> HIDE DEF sk
<1>5. ASSUME NEW s \in 1 .. n
      PROVE  f[s] \in SourceIterators(s) /\ SourceLoads(tables, f[s], s)
  <2>1. /\ SourceSeekGE(src[s], s, sk) \in SourceIterators(s)
        /\ SourceLoads(tables, SourceSeekGE(src[s], s, sk), s)
    BY <1>3, <1>4, SourceSeekIs
  <2>2. f[s] = SourceSeekGE(src[s], s, sk)
    OBVIOUS
  <2>3. QED
    BY <2>1, <2>2
<1>6. f = [s \in 1 .. n |-> f[s]] /\ DOMAIN f = 1 .. n
  OBVIOUS
<1> HIDE DEF f
<1>7. Moved(f, DOMAIN src)
  <2>1. (<<>> \o f) = f
    BY <1>3, <1>6, EachSourceIs
  <2>2. QED
    BY <1>1, <2>1
<1>8. QED
  BY <1>1, <1>5, <1>6, <1>7, MovesCaches

\* merge.Next moves the sources at the top, which read a write.
LEMMA SkipCaches ==
    ASSUME BuildInv, ReadInv, CacheInv, Skip
    PROVE  CacheInv' /\ CacheStep(cache, cache')
<1> DEFINE n == Len(tables) + 1
           T == AtTop
           f == [s \in 1 .. n |-> IF s \in T THEN SourceNext(src[s], s) ELSE src[s]]
<1>1. /\ phase = "read" /\ UNCHANGED <<phase, tables, cache>> /\ loader["iterator"] = NoLoads
      /\ call.pc = "skip" /\ Moved(<<>> \o f, T)
  BY DEF Skip, MayStep, ReadFrame, buildVars, EachSource
<1>2. from.placed /\ live # {}
  BY <1>1 DEF ReadInv
<1>3. /\ SrcSound /\ Sound(Held) /\ Held \in SUBSET DOMAIN Writes
      /\ \E A : MergesIn(Held, A) /\ A \subseteq Held /\ (live = {} <=> A = {})
  BY <1>2, PlacedIs
<1>4. PICK A : MergesIn(Held, A) /\ A \subseteq Held /\ A # {}
  BY <1>2, <1>3
<1>5. PICK i : Least(i, A)
  BY <1>3, <1>4, LeastExists
<1>6. T \subseteq live /\ \A s \in live : s \in T => Reads(mem, tables, put, src[s], s, i)
  <2> DEFINE H == Held
  <2>1. Sound(H) /\ MergesIn(H, A)
    BY <1>3, <1>4
  <2> HIDE DEF H
  <2>2. \A s \in live : /\ s \in AtTop <=> i \in put[s]
                        /\ i \in put[s] => Reads(mem, tables, put, src[s], s, i)
    BY <1>5, <2>1, TopIs
  <2>3. QED
    BY <2>2 DEF AtTop
<1>7. /\ tables \in Seq(Tables) /\ DOMAIN src = 1 .. n
      /\ \A s \in 1 .. n : src[s] \in SourceIterators(s)
                               /\ SourceSound(mem, tables, put, s) /\ s \in Nat \ {0}
  BY <1>3 DEF SrcSound, Sound, AllSound
<1>8. /\ f = [s \in 1 .. n |-> f[s]] /\ DOMAIN f = 1 .. n
      /\ \A s \in 1 .. n : s \in T => f[s] = SourceNext(src[s], s)
      /\ \A s \in 1 .. n : s \notin T => f[s] = src[s]
  OBVIOUS
<1> HIDE DEF f, T
<1>9. ASSUME NEW s \in 1 .. n, s \in T
      PROVE  f[s] \in SourceIterators(s) /\ SourceLoads(tables, f[s], s)
  <2>1. Reads(mem, tables, put, src[s], s, i)
    BY <1>6, <1>9
  <2>2. SourceNext(src[s], s) \in SourceIterators(s) /\ SourceLoads(tables, SourceNext(src[s], s), s)
    BY <1>7, <2>1, SourceNextIs
  <2>3. f[s] = SourceNext(src[s], s)
    BY <1>8, <1>9
  <2>4. QED
    BY <2>2, <2>3
<1>10. \A s \in 1 .. n : f[s] \in SourceIterators(s)
  BY <1>7, <1>8, <1>9
<1>11. Moved(f, T)
  <2>1. (<<>> \o f) = f
    BY <1>7, <1>8, EachSourceIs
  <2>2. QED
    BY <1>1, <2>1
<1>12. QED
  BY <1>1, <1>8, <1>9, <1>10, <1>11, MovesCaches

\* The first of the blocks to be read, and the others.
LEMMA TodoHead ==
    ASSUME NEW ts, NEW e \in Loads(ts), e.todo # <<>>
    PROVE  /\ Head(e.todo) \in BlocksOf(ts) /\ Tail(e.todo) \in Seq(BlocksOf(ts))
           /\ e.todo \in Seq(BlocksOf(ts)) /\ e.missed \in BOOLEAN
<1>1. e.todo \in Seq(BlocksOf(ts)) /\ e.missed \in BOOLEAN
  BY DEF Loads
<1> DEFINE q == e.todo
           B == BlocksOf(ts)
<1>2. q \in Seq(B) /\ q # <<>>
  BY <1>1
<1> HIDE DEF q, B
<1>3. Head(q) \in B /\ Tail(q) \in Seq(B)
  BY <1>2
<1>4. QED
  BY <1>1, <1>3 DEF q, B

\* The cache after a step of a reader.
LEMMA ReaderCaches ==
    ASSUME CacheInv, UNCHANGED <<phase, tables>>, phase # "build",
           NEW r \in Readers, NEW x \in Loads(tables), x.missed => x.todo # <<>>,
           loader' = [loader EXCEPT ![r] = x],
           (\E t : Caches(cache', t)) /\ CacheStep(cache, cache')
    PROVE  CacheInv' /\ CacheStep(cache, cache')
<1>1. LoadersSound(loader', tables)
  <2> DEFINE l == loader
             ts == tables
  <2>1. LoadersSound(l, ts) /\ x \in Loads(ts) /\ loader' = [l EXCEPT ![r] = x]
    BY DEF CacheInv
  <2> HIDE DEF l, ts
  <2>2. LoadersSound([l EXCEPT ![r] = x], ts)
    BY <2>1, LoaderStep
  <2>3. QED
    BY <2>1, <2>2 DEF ts
<1>2. LoadersSound(loader', tables')
  BY <1>1, Zenon
<1>3. QED
  BY <1>2, Zenon DEF CacheInv

\* While the sources are made nothing is read.
LEMMA ReaderReads ==
    ASSUME CacheInv, NEW r \in Readers, loader[r].todo # <<>>
    PROVE  phase # "build" /\ loader[r] \in Loads(tables)
<1>1. loader[r] \in Loads(tables)
  BY DEF CacheInv, LoadersSound
<1>2. ASSUME phase = "build" PROVE FALSE
  <2>1. loader = [o \in Readers |-> NoLoads]
    BY <1>2 DEF CacheInv
  <2>2. loader[r] = NoLoads
    BY <2>1
  <2>3. NoLoads.todo = <<>>
    BY DEF NoLoads
  <2>4. QED
    BY <2>2, <2>3, Zenon
<1>3. QED
  BY <1>1, <1>2

\* A block is looked up.
LEMMA ReadCachedCaches ==
    ASSUME CacheInv, NEW r \in Readers, ReadCached(r)
    PROVE  CacheInv' /\ CacheStep(cache, cache')
<1> DEFINE l == loader
           ts == tables
           e == l[r]
           k == Head(e.todo)
           x == IF CacheHas(cache, k) THEN [e EXCEPT !.todo = Tail(e.todo)] ELSE [e EXCEPT !.missed = TRUE]
<1>1. /\ e.todo # <<>> /\ ~e.missed /\ cache' = CacheGet(cache, k)
      /\ loader' = [l EXCEPT ![r] = x] /\ UNCHANGED <<phase, tables>>
  <2>1. e.todo # <<>> /\ ~e.missed /\ cache' = CacheGet(cache, k)
    BY DEF ReadCached
  <2>2. UNCHANGED <<phase, tables>>
    BY DEF ReadCached, buildVars
  <2>3. loader' = [l EXCEPT ![r] = x]
    BY DEF ReadCached
  <2>4. QED
    BY <2>1, <2>2, <2>3
<1>2. phase # "build" /\ e \in Loads(ts)
  BY <1>1, ReaderReads
<1> HIDE DEF e
<1>3. /\ Tail(e.todo) \in Seq(BlocksOf(ts)) /\ e.todo \in Seq(BlocksOf(ts)) /\ e.missed = FALSE
  <2> HIDE DEF ts
  <2>1. QED
    BY <1>1, <1>2, TodoHead
<1>4. x \in Loads(ts) /\ (x.missed => x.todo # <<>>)
  <2> DEFINE u == Tail(e.todo)
  <2>1. /\ [e EXCEPT !.todo = u] = [todo |-> u, missed |-> e.missed]
        /\ [e EXCEPT !.missed = TRUE] = [todo |-> e.todo, missed |-> TRUE]
    <3> HIDE DEF ts, u
    <3>1. QED
      BY <1>2, TodoIs
  <2> DEFINE a == [todo |-> u, missed |-> FALSE]
             b == [todo |-> e.todo, missed |-> TRUE]
  <2>2. x = a \/ x = b
    BY <1>3, <2>1, Zenon
  <2> HIDE DEF x, ts, u
  <2>3. a \in Loads(ts) /\ b \in Loads(ts)
    BY <1>3 DEF Loads, u
  <2>4. a.missed = FALSE /\ b.todo = e.todo
    OBVIOUS
  <2> HIDE DEF a, b
  <2>5. QED
    BY <1>1, <2>2, <2>3, <2>4, Zenon
<1>5. (\E t : Caches(cache', t)) /\ CacheStep(cache, cache')
  <2> DEFINE c == cache
  <2>1. PICK s : Caches(c, s)
    BY DEF CacheInv
  <2> HIDE DEF c, k
  <2>2. (\E t : Caches(CacheGet(c, k), t)) /\ CacheStep(c, CacheGet(c, k))
    BY <2>1, CacheGetIs
  <2>3. QED
    BY <1>1, <2>2, Zenon DEF c
<1> HIDE DEF x
<1>6. QED
  BY <1>1, <1>2, <1>4, <1>5, ReaderCaches

\* A block that was missed is put into the cache.
LEMMA ReadRawCaches ==
    ASSUME BuildInv, CacheInv, NEW r \in Readers, ReadRaw(r)
    PROVE  CacheInv' /\ CacheStep(cache, cache')
<1> DEFINE l == loader
           ts == tables
           e == l[r]
           k == Head(e.todo)
           x == [todo |-> Tail(e.todo), missed |-> FALSE]
<1>1. /\ e.missed /\ cache' = CacheSet(cache, k, BlockLength(k), CacheCapacity)
      /\ loader' = [l EXCEPT ![r] = x] /\ UNCHANGED <<phase, tables>>
  BY DEF ReadRaw, buildVars
<1>2. e.todo # <<>>
  BY <1>1 DEF CacheInv, LoadersSound
<1>3. phase # "build" /\ e \in Loads(ts)
  BY <1>2, ReaderReads
<1> HIDE DEF e
<1>4. k \in BlocksOf(ts) /\ Tail(e.todo) \in Seq(BlocksOf(ts))
  <2> HIDE DEF ts
  <2>1. QED
    BY <1>2, <1>3, TodoHead
<1>5. x \in Loads(ts) /\ ~x.missed
  <2> DEFINE u == Tail(e.todo)
  <2> HIDE DEF ts, u
  <2>1. QED
    BY <1>4 DEF Loads, u
<1>6. (\E t : Caches(cache', t)) /\ CacheStep(cache, cache')
  <2> DEFINE c == cache
             len == BlockLength(k)
  <2>1. PICK s : Caches(c, s)
    BY DEF CacheInv
  <2>2. k \in CacheKeys /\ len \in Nat
    <3> HIDE DEF k
    <3>1. QED
      BY <1>4, BlockLengthIs
  <2> HIDE DEF c, k, len
  <2>3. /\ \E t : Caches(CacheSet(c, k, len, CacheCapacity), t)
        /\ CacheStep(c, CacheSet(c, k, len, CacheCapacity))
    BY <2>1, <2>2, CacheSetIs
  <2>4. QED
    BY <1>1, <2>3, Zenon DEF c, len
<1> HIDE DEF x
<1>7. QED
  BY <1>1, <1>3, <1>5, <1>6, ReaderCaches

\* The other reader begins with a block.
LEMMA OtherReadCaches ==
    ASSUME BuildInv, CacheInv, NEW f \in DOMAIN tables, NEW n \in DOMAIN tables[f].blocks, OtherRead(f, n)
    PROVE  CacheInv' /\ CacheStep(cache, cache')
<1> DEFINE l == loader
           ts == tables
           e == l["other"]
           todo == <<<<f, n>>>>
           x == [e EXCEPT !.todo = todo]
<1>1. /\ phase = "read" /\ e = NoLoads /\ loader' = [l EXCEPT !["other"] = x]
      /\ UNCHANGED <<phase, tables, cache>>
  BY DEF OtherRead, buildVars
<1>2. <<f, n>> \in BlocksOf(ts)
  <2>1. tables \in Seq(Tables)
    BY DEF BuildInv
  <2>2. f \in 1 .. Len(tables)
    BY <2>1
  <2>3. n \in 1 .. Len(tables[f].blocks)
    <3>1. tables[f].blocks \in Seq(Blocks)
      BY <2>2 DEF BuildInv, TablesSound
    <3>2. QED
      BY <3>1
  <2>4. QED
    BY <2>2, <2>3, BlockIs
<1>3. "other" \in Readers /\ e \in Loads(ts)
  BY DEF CacheInv, LoadersSound, Readers
<1> HIDE DEF e
<1>4. e.missed = FALSE
  BY <1>1, Zenon DEF NoLoads
<1>5. x = [todo |-> todo, missed |-> e.missed]
  <2> HIDE DEF ts, todo
  <2>1. QED
    BY <1>3, TodoIs
<1>6. todo \in Seq(BlocksOf(ts))
  <2> DEFINE k == <<f, n>>
             B == BlocksOf(ts)
  <2>1. k \in B
    BY <1>2
  <2> HIDE DEF k, B
  <2>2. <<k>> \in Seq(B)
    BY <2>1
  <2>3. QED
    BY <2>2 DEF k, B
<1> HIDE DEF x, todo
<1>7. x \in Loads(ts) /\ ~x.missed
  <2> HIDE DEF ts
  <2>1. QED
    BY <1>4, <1>5, <1>6 DEF Loads
<1>8. (\E t : Caches(cache', t)) /\ CacheStep(cache, cache')
  BY <1>1, Zenon DEF CacheInv, CacheStep
<1>9. QED
  BY <1>1, <1>3, <1>7, <1>8, ReaderCaches

\* The blocks of a file are evicted.
LEMMA EvictCaches ==
    ASSUME BuildInv, CacheInv, NEW f \in DOMAIN tables, Evict(f)
    PROVE  CacheInv' /\ CacheStep(cache, cache')
<1>1. phase = "read" /\ cache' = CacheEvict(cache, f) /\ UNCHANGED <<phase, tables, loader>>
  BY DEF Evict, buildVars
<1>2. f \in 1 .. MaxTables
  BY BoundsAssumption DEF BuildInv
<1>3. (\E t : Caches(cache', t)) /\ CacheStep(cache, cache')
  <2> DEFINE c == cache
  <2>1. PICK s : Caches(c, s)
    BY DEF CacheInv
  <2> HIDE DEF c
  <2>2. (\E t : Caches(CacheEvict(c, f), t)) /\ CacheStep(c, CacheEvict(c, f))
    BY <1>2, <2>1, CacheEvictIs
  <2>3. QED
    BY <1>1, <2>2, Zenon DEF c
<1>4. LoadersSound(loader', tables')
  BY <1>1, Zenon DEF CacheInv
<1>5. ~(phase' = "build")
  BY <1>1
<1>6. QED
  BY <1>3, <1>4, <1>5, Zenon DEF CacheInv

\* Every step keeps the invariant, and does to the cache what the abstract cache
\* allows.
LEMMA CacheNext ==
    ASSUME BuildInv, ReadInv, CacheInv, [Next]_vars
    PROVE  CacheInv' /\ CacheStep(cache, cache')
<1>1. ASSUME NEW i \in DOMAIN Writes, MemtableSet(i) \/ TableAdd(i)
      PROVE  CacheInv' /\ CacheStep(cache, cache')
  <2>1. UNCHANGED <<phase, tables, cache, loader>>
    BY <1>1 DEF MemtableSet, TableAdd
  <2>2. QED
    BY <2>1, CacheKept
<1>2. CASE TableClose
  BY <1>2, TableCloseCaches
<1>3. CASE NewIterator
  <2>1. UNCHANGED <<tables, cache, loader>> /\ phase' = "read"
    BY <1>3 DEF NewIterator
  <2>2. QED
    BY <2>1, CacheKept
<1>4. CASE First
  BY <1>4, FirstCaches
<1>5. ASSUME NEW t \in Targets, SeekGE(t) PROVE CacheInv' /\ CacheStep(cache, cache')
  BY <1>5, SeekCaches
<1>6. CASE NextKey \/ Below \/ Exhausted \/ FoundSet \/ FoundTombstone
  <2>1. UNCHANGED <<phase, tables, cache, loader>>
    BY <1>6 DEF NextKey, Below, Exhausted, FoundSet, FoundTombstone, ReadFrame, buildVars
  <2>2. QED
    BY <2>1, CacheKept
<1>7. CASE Skip
  BY <1>7, SkipCaches
<1>8. ASSUME NEW r \in Readers, ReadCached(r) \/ ReadRaw(r)
      PROVE  CacheInv' /\ CacheStep(cache, cache')
  BY <1>8, ReadCachedCaches, ReadRawCaches
<1>9. ASSUME NEW f \in DOMAIN tables, Evict(f) PROVE CacheInv' /\ CacheStep(cache, cache')
  BY <1>9, EvictCaches
<1>10. ASSUME NEW f \in DOMAIN tables, NEW n \in DOMAIN tables[f].blocks, OtherRead(f, n)
       PROVE  CacheInv' /\ CacheStep(cache, cache')
  BY <1>10, OtherReadCaches
<1>11. CASE UNCHANGED vars
  <2>1. UNCHANGED <<phase, tables, cache, loader>>
    BY <1>11 DEF vars, buildVars
  <2>2. QED
    BY <2>1, CacheKept
<1>12. QED
  BY <1>1, <1>2, <1>3, <1>4, <1>5, <1>6, <1>7, <1>8, <1>9, <1>10, <1>11 DEF Next

\* What the abstract cache sees of a cache that holds the blocks s.
LEMMA AbstractIs ==
    ASSUME NEW c, NEW s, Caches(c, s)
    PROVE  /\ ContentsOf(c) = s /\ s \in Seq(CachedBlocks)
           /\ c.items = {e.block : e \in ToSet(s)}
           /\ c.items = {s[i].block : i \in 1 .. Len(s)}
           /\ c.size = TotalLen(s)
<1>1. Listed(c, s) /\ c.size = TotalLen(s)
  BY DEF Caches
<1>2. s \in Seq(CachedBlocks) /\ c.items = {s[i].block : i \in 1 .. Len(s)} /\ DOMAIN s = 1 .. Len(s)
  BY <1>1 DEF Listed
<1>3. {e.block : e \in ToSet(s)} = {s[i].block : i \in 1 .. Len(s)}
  BY <1>2 DEF ToSet
<1>4. ContentsOf(c) = s
  BY <1>1, ContentsIs
<1>5. QED
  BY <1>1, <1>2, <1>3, <1>4, Zenon

\* Such a step is a step of the abstract cache, or none.
LEMMA RefinesStep ==
    ASSUME CacheStep(cache, cache') PROVE [Lru!Next]_(Lru!vars)
<1>1. CacheContents = ContentsOf(cache) /\ CacheContents' = ContentsOf(cache')
  BY DEF CacheContents, ContentsOf
<1> DEFINE c == cache
           d == cache'
<1>2. CASE c = d
  <2>1. cache' = cache
    BY <1>2
  <2>2. CacheContents' = CacheContents
    BY <1>1, <2>1, Zenon
  <2>3. QED
    BY <2>1, <2>2 DEF Lru!vars
<1>3. CASE c # d
  <2>1. PICK s, t : Caches(c, s) /\ Caches(d, t) /\ Lists(s, t)
    BY <1>3, Zenon DEF CacheStep
  <2> HIDE DEF c, d
  <2>2. /\ ContentsOf(c) = s /\ s \in Seq(CachedBlocks)
        /\ c.items = {s[i].block : i \in 1 .. Len(s)}
    BY <2>1, AbstractIs
  <2>3. ContentsOf(d) = t /\ d.items = {e.block : e \in ToSet(t)} /\ d.size = TotalLen(t)
    BY <2>1, AbstractIs
  <2>4. CacheContents = s /\ CacheContents' = t
    BY <1>1, <2>2, <2>3, Zenon DEF c, d
  <2>5. Lru!Becomes(t)
    <3>1. cache.items' = {e.block : e \in Lru!ToSet(t)} /\ cache.size' = Lru!TotalLen(t)
      <4>1. cache'.items = {e.block : e \in ToSet(t)} /\ cache'.size = TotalLen(t)
        BY <2>3, Zenon DEF d
      <4>2. Lru!ToSet(t) = ToSet(t)
        BY DEF Lru!ToSet, ToSet
      <4>3. Lru!TotalLen(t) = TotalLen(t)
        BY DEF TotalLen
      <4>4. QED
        BY <4>1, <4>2, <4>3, Zenon
    <3>2. QED
      BY <2>4, <3>1, Zenon DEF Lru!Becomes
  <2>6. CASE \E i \in DOMAIN s : t = Touched(s, i)
    <3>1. PICK i \in DOMAIN s : t = <<s[i]>> \o Lru!RemoveAt(s, i)
      <4>1. \A i : Lru!RemoveAt(s, i) = RemoveAt(s, i)
        BY Zenon DEF Lru!RemoveAt, RemoveAt
      <4>2. QED
        BY <2>6, <4>1, Zenon DEF Touched
    <3>2. Lru!Becomes(<<CacheContents[i]>> \o Lru!RemoveAt(CacheContents, i)) /\ i \in DOMAIN CacheContents
      BY <2>4, <2>5, <3>1, Zenon
    <3>3. Lru!Touch
      BY <3>2, Zenon DEF Lru!Touch
    <3>4. QED
      BY <3>3, Zenon DEF Lru!Next
  <2>7. CASE \E e \in ToSet(t) : /\ \A i \in 1 .. Len(s) : s[i].block # e.block
                                 /\ t = Lru!Fitting(<<e>> \o s)
    <3>1. PICK e \in ToSet(t) : /\ \A i \in 1 .. Len(s) : s[i].block # e.block
                                /\ t = Lru!Fitting(<<e>> \o s)
      BY <2>7, Zenon
    <3>2. e.block \notin cache.items
      BY <2>2, <3>1, Zenon DEF c
    <3>3. e \in Lru!ToSet(CacheContents') /\ Lru!Becomes(Lru!Fitting(<<e>> \o CacheContents))
      <4>1. Lru!ToSet(t) = ToSet(t)
        BY DEF Lru!ToSet, ToSet
      <4>2. QED
        BY <2>4, <2>5, <3>1, <4>1, Zenon
    <3>4. Lru!Insert
      BY <3>2, <3>3, Zenon DEF Lru!Insert
    <3>5. QED
      BY <3>4, Zenon DEF Lru!Next
  <2>8. CASE t = <<>>
    <3>1. Lru!Overflow
      BY <2>5, <2>8, Zenon DEF Lru!Overflow
    <3>2. QED
      BY <3>1, Zenon DEF Lru!Next
  <2>9. CASE \E g \in 1 .. MaxTables : t = Lru!Without(s, g)
    <3>1. \E g \in 1 .. MaxTables : Lru!Becomes(Lru!Without(CacheContents, g))
      BY <2>4, <2>5, <2>9, Zenon
    <3>2. Lru!Drop
      BY <3>1, Zenon DEF Lru!Drop
    <3>3. QED
      BY <3>2, Zenon DEF Lru!Next
  <2>10. QED
    BY <2>1, <2>6, <2>7, <2>8, <2>9, Zenon DEF Lists
<1>4. QED
  BY <1>2, <1>3

\* A new cache is an empty abstract cache.
LEMMA RefinesInit ==
    ASSUME Init PROVE Lru!Init
<1> DEFINE c == cache
           s == <<>>
<1>1. Caches(c, s)
  BY NewCacheIs DEF Init
<1>2. CacheContents = ContentsOf(c)
  BY DEF CacheContents, ContentsOf
<1>3. c.items = {} /\ c.size = 0
  BY DEF Init, NewBlockCache
<1> HIDE DEF c, s
<1>4. ContentsOf(c) = s
  BY <1>1, AbstractIs
<1>5. QED
  BY <1>2, <1>3, <1>4, Zenon DEF Lru!Init, c, s

\* The block cache of the code, a map and a linked list under one lock, is an
\* LRU cache (cache.go:54-142): whatever tables are read, by two readers that miss
\* the same block, put in a block twice or put in a block of a file that has just
\* been evicted, and whatever the capacity, each of its steps is one of LruCache.
THEOREM CacheImplementsLru == Spec => ImplementsLruCache
<1>1. Init => ReadInv /\ CacheInv /\ Lru!Init
  BY ReadInit, CacheInit, RefinesInit
<1>2. BuildInv /\ ReadInv /\ CacheInv /\ [Next]_vars => ReadInv' /\ CacheInv' /\ [Lru!Next]_(Lru!vars)
  BY ReadStep, CacheNext, RefinesStep
<1>3. QED
  BY <1>1, <1>2, BuildInvariant, PTL DEF Spec, ImplementsLruCache, Lru!Spec
=============================================================================
