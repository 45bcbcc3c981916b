----------------------------- MODULE MCMemtable -----------------------------
(* The instances of Memtable that TLC checks.  Internal keys 1 and 2 are    *)
(* two versions of one user key, the newer first; 3 is another user key.    *)
EXTENDS Memtable

MCSeqNum == [k \in Keys |-> CASE k = 1 -> 2 [] k = 2 -> 1 [] OTHER -> 3]

MCKeySize == [k \in Keys |-> 1 + (k % 2)]
=============================================================================
