------------------------------- MODULE Bloom -------------------------------
(***************************************************************************)
(* The bloom filter of an SSTable (pkg/lsm/sstable/bloom.go): every key    *)
(* sets some bits of one line of the filter.  The filter is the set of its *)
(* bits that are set.  Hashes have HashBits bits (32 in the code) and a    *)
(* line LineBits (512 in the code).  bloomHash is a parameter: nothing     *)
(* here depends on which function from keys to hashes it is.               *)
(***************************************************************************)
EXTENDS Naturals, Sequences

CONSTANTS
    LineBits,
    BitsPerKey,
    BloomHash(_)    \* bloomHash

ASSUME BloomAssumption == LineBits \in Nat \ {0} /\ BitsPerKey \in Nat \ {0}

HashBits == 8
HashRange == 2 ^ HashBits

\* (h >> 17) | (h << 15), for words of HashBits bits
Delta(h) == (h \div 2 ^ 5) + (h % 2 ^ 5) * 2 ^ 3

\* The hash of the j-th probe, from 0.
Probe(h, j) == (h + j * Delta(h)) % HashRange

\* calcNumProbes: ln 2 times the bits per key, at least 1 and at most 30
NumProbes ==
    LET n == (BitsPerKey * 693147) \div 1000000
    IN  IF n < 1 THEN 1 ELSE IF n > 30 THEN 30 ELSE n

\* calcNLines: room for all keys, an odd number
NLines(numKeys) ==
    LET n == (numKeys * BitsPerKey + LineBits - 1) \div LineBits
    IN  IF n % 2 = 0 THEN n + 1 ELSE n

\* The bit probed j-th: all are in the line of the hash itself.
FilterBit(h, j, nLines) == <<h % nLines, Probe(h, j) % LineBits>>

\* bloomFilterWriter.finish
BuildFilter(hashes) ==
    LET n == NLines(Len(hashes))
    IN  [nLines |-> n,
         bits |-> {FilterBit(hashes[i], j, n) : i \in 1 .. Len(hashes), j \in 0 .. NumProbes - 1}]

\* Mutant of MayContain: one line less than the filter has.
MayContainFewerLines(f, key) ==
    \A j \in 0 .. NumProbes - 1 :
        <<BloomHash(key) % (IF f.nLines > 1 THEN f.nLines - 1 ELSE 1),
          Probe(BloomHash(key), j) % LineBits>> \in f.bits

MayContain(f, key) ==
    \A j \in 0 .. NumProbes - 1 : FilterBit(BloomHash(key), j, f.nLines) \in f.bits
=============================================================================
