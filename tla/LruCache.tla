------------------------------ MODULE LruCache ------------------------------
(***************************************************************************)
(* What the block cache promises: the blocks used last, as many of them as *)
(* fit.  order is the sequence of cached blocks, the one used last first;  *)
(* cached says which blocks a lookup finds, total what they take together. *)
(***************************************************************************)
EXTENDS Naturals, Sequences, SequencesExt

CONSTANTS
    Files,
    Capacity

VARIABLES
    order,   \* records with the block (a file and a position in it) and its length
    cached, total

vars == <<order, cached, total>>

AddLen(n, e) == n + e.len

Adding == INSTANCE Loops WITH Step <- AddLen

TotalLen(s) == Adding!Loop(0, s)

\* The longest prefix of s that fits into the cache.
Fitting(s) ==
    LET n == CHOOSE n \in 0 .. Len(s) :
                /\ TotalLen(SubSeq(s, 1, n)) <= Capacity
                /\ n < Len(s) => TotalLen(SubSeq(s, 1, n + 1)) > Capacity
    IN  SubSeq(s, 1, n)

Becomes(s) ==
    /\ order' = s
    /\ cached' = {e.block : e \in ToSet(s)}
    /\ total' = TotalLen(s)

Init == order = <<>> /\ cached = {} /\ total = 0

\* A block that is cached is used, or cached again.
Touch == \E i \in DOMAIN order : Becomes(<<order[i]>> \o RemoveAt(order, i))

\* A block comes in; the ones used longest ago make room for it.
Insert == \E e \in ToSet(order') : e.block \notin cached /\ Becomes(Fitting(<<e>> \o order))

\* A block larger than the cache pushes out everything, itself included.
Overflow == Becomes(<<>>)

Cat == INSTANCE Loops WITH Step <- \o

\* s without the blocks of file f
Without(s, f) ==
    Cat!Loop(<<>>, [i \in DOMAIN s |-> IF s[i].block[1] = f THEN <<>> ELSE <<s[i]>>])

\* All blocks of a file are dropped.
Drop == \E f \in Files : Becomes(Without(order, f))

Next == Touch \/ Insert \/ Overflow \/ Drop

Spec == Init /\ [][Next]_vars
=============================================================================
