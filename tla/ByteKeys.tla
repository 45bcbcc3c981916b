------------------------------ MODULE ByteKeys ------------------------------
(***************************************************************************)
(* Keys as strings of bytes: their order (compareBytes, compareKeys), the  *)
(* internal keys of pkg/lsm/memtable/internalkey.go, and the shortened     *)
(* keys of an SSTable's index (pkg/lsm/sstable/writer.go).                 *)
(*                                                                         *)
(* A byte is a number up to MaxByte (0xFF in the code).  The trailer has   *)
(* two bytes instead of eight, and the kind one bit of it.                 *)
(***************************************************************************)
EXTENDS Naturals, Sequences, FiniteSets

CONSTANT MaxByte

\* A byte has an even number of values.
ASSUME MaxByteAssumption == MaxByte \in Nat \ {0} /\ MaxByte % 2 = 1

KindDelete == 0
KindSet == 1

-----------------------------------------------------------------------------
(* Order *)

\* compareBytes(a, b) < 0
Less(a, b) ==
    \E i \in 1 .. Len(b) :
        /\ i <= Len(a) + 1
        /\ \A j \in 1 .. i - 1 : a[j] = b[j]
        /\ i <= Len(a) => a[i] < b[i]

AtLeast(a, b) == ~Less(a, b)

\* The number of leading bytes a and b share.
SharedPrefix(a, b) ==
    Cardinality({i \in 1 .. Len(a) : i <= Len(b) /\ \A j \in 1 .. i : a[j] = b[j]})

IsProperPrefix(a, b) == Len(a) < Len(b) /\ SharedPrefix(a, b) = Len(a)

-----------------------------------------------------------------------------
(* Internal keys *)

TrailerSize == 2
Base == MaxByte + 1

\* The trailer is the complement of (seqNum, kind): the newest version comes first.
MakeInternalKey(userKey, seqNum, kind) ==
    LET v == Base * Base - 1 - (2 * seqNum + kind)
    IN  userKey \o <<v \div Base, v % Base>>

UserKey(ikey) == SubSeq(ikey, 1, Len(ikey) - TrailerSize)

\* The complement of the trailer, of which ParseInternalKey takes both parts.
TrailerValue(ikey) ==
    Base * Base - 1 - (Base * ikey[Len(ikey) - 1] + ikey[Len(ikey)])
SeqOfKey(ikey) == TrailerValue(ikey) \div 2
KindOfKey(ikey) == TrailerValue(ikey) % 2

\* The largest sequence number a trailer has room for.
MaxSeqNum == (Base * Base - 2) \div 2

-----------------------------------------------------------------------------
(* Keys of the index block *)

\* a with its i-th byte incremented and cut off after it
Incremented(a, i) == SubSeq(a, 1, i - 1) \o <<a[i] + 1>>

\* A short key that is >= a and < b, where a < b.
ShortSeparator(a, b) ==
    LET i == SharedPrefix(a, b) + 1
    IN  IF i <= Len(a) /\ a[i] + 1 < b[i] THEN Incremented(a, i) ELSE a

\* A key >= a that is no longer than a: the last byte that can be is incremented.
ShortSuccessor(a) ==
    LET below == {i \in 1 .. Len(a) : a[i] < MaxByte}
    IN  IF below = {} THEN a
        ELSE Incremented(a, CHOOSE i \in below : \A j \in below : j <= i)
=============================================================================
