---------------------------- MODULE MCDBIterator ----------------------------
EXTENDS DBIterator

MCSet(k) == [key |-> k, kind |-> KindSet]
MCDelete(k) == [key |-> k, kind |-> KindDelete]

\* Versions of two keys of the same length, a tombstone among them, and a key
\* one of them is a prefix of.
MCWrites == <<MCSet(<<1>>), MCSet(<<2>>), MCDelete(<<1>>), MCSet(<<2>>), MCSet(<<1, 2>>)>>

\* Two keys of the same length.
MCTwoKeys == <<MCSet(<<1>>), MCSet(<<2>>)>>

\* A hash of eight bits.
MCHash(k) ==
    LET h[i \in 0 .. Len(k)] ==
            IF i = 0 THEN (13 * Len(k)) % 256 ELSE (31 * (h[i - 1] + k[i])) % 256
    IN  h[Len(k)]

MCTargets == {<<1, 2>>, <<2>>}
=============================================================================
