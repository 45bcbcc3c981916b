------------------------------ MODULE LsmStore ------------------------------
(***************************************************************************)
(* What the LSM database promises about its contents, with memtables,      *)
(* tables, levels and the MANIFEST left out: a write adds one entry, the   *)
(* background work moves entries to disk and changes nothing a reader can  *)
(* see, and a restart keeps at least what had been moved.                  *)
(***************************************************************************)
VARIABLES
    contents,   \* every entry a reader may find
    durable     \* the entries that survive a crash

vars == <<contents, durable>>

Init == contents = {} /\ durable = {}

Write ==
    /\ \E e \in contents' : contents' = contents \cup {e}
    /\ UNCHANGED durable

Persist ==
    /\ durable \subseteq durable'
    /\ durable' \subseteq contents
    /\ UNCHANGED contents

\* A restart: the contents are what is on disk.
Restart ==
    /\ contents' = durable
    /\ UNCHANGED durable

Next == Write \/ Persist \/ Restart

Spec == Init /\ [][Next]_vars
=============================================================================
