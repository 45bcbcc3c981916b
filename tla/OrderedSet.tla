----------------------------- MODULE OrderedSet -----------------------------
(***************************************************************************)
(* What a memtable promises the goroutines that share it: a set of keys to *)
(* which an Add inserts its key in one step between its call and its       *)
(* return, and an iterator whose every movement sees the set as it is at   *)
(* one moment.                                                             *)
(***************************************************************************)
EXTENDS Naturals

CONSTANTS Procs, Keys      \* goroutines; keys are positive numbers

VARIABLES
    set,        \* the keys inserted so far
    adding,     \* adding[p]: the key of the Add p is in, 0 when in none
    inserted,   \* the goroutines whose current Add has inserted its key
    seeking,    \* seeking[p]: the target of the SeekGE p is in, 0 when in none
    pos,        \* pos[p]: the key p's iterator is at, 0 when it is not valid
    ret         \* ret[p]: the result of p's last Add

vars == <<set, adding, inserted, seeking, pos, ret>>

Init ==
    /\ set = {}
    /\ adding = [p \in Procs |-> 0]
    /\ inserted = {}
    /\ seeking = [p \in Procs |-> 0]
    /\ pos = [p \in Procs |-> 0]
    /\ ret = [p \in Procs |-> "none"]

\* k is the first key of the set that is at least t (0: there is none).
IsFirstFrom(k, t) ==
    \/ k = 0 /\ \A x \in set : x < t
    \/ k \in set /\ t <= k /\ \A x \in set : x < t \/ k <= x

Idle(p) == adding[p] = 0 /\ seeking[p] = 0

CallAdd(p, k) ==
    /\ Idle(p)
    /\ adding' = [adding EXCEPT ![p] = k]
    /\ ret' = [ret EXCEPT ![p] = "none"]
    /\ UNCHANGED <<set, inserted, seeking, pos>>

Insert(p) ==
    /\ adding[p] # 0
    /\ p \notin inserted
    /\ adding[p] \notin set
    /\ set' = set \cup {adding[p]}
    /\ inserted' = inserted \cup {p}
    /\ UNCHANGED <<adding, seeking, pos, ret>>

ReturnAdd(p) ==
    /\ adding[p] # 0
    /\ \E r \in {"ok", "exists", "full"} :
        /\ r = "ok" <=> p \in inserted
        /\ r = "exists" => adding[p] \in set
        /\ ret' = [ret EXCEPT ![p] = r]
    /\ adding' = [adding EXCEPT ![p] = 0]
    /\ inserted' = inserted \ {p}
    /\ UNCHANGED <<set, seeking, pos>>

CallSeek(p, k) ==
    /\ Idle(p)
    /\ seeking' = [seeking EXCEPT ![p] = k]
    /\ UNCHANGED <<set, adding, inserted, pos, ret>>

\* The iterator moves to the first key from t on.
MoveTo(p, t) ==
    /\ \E k \in Keys \cup {0} : IsFirstFrom(k, t) /\ pos' = [pos EXCEPT ![p] = k]
    /\ UNCHANGED <<set, adding, inserted, ret>>

Seek(p) ==
    /\ seeking[p] # 0
    /\ seeking' = [seeking EXCEPT ![p] = 0]
    /\ MoveTo(p, seeking[p])

First(p) == Idle(p) /\ MoveTo(p, 0) /\ UNCHANGED seeking

Advance(p) == Idle(p) /\ pos[p] # 0 /\ MoveTo(p, pos[p] + 1) /\ UNCHANGED seeking

Next ==
    \E p \in Procs :
        \/ \E k \in Keys : CallAdd(p, k) \/ CallSeek(p, k)
        \/ Insert(p) \/ ReturnAdd(p)
        \/ Seek(p) \/ First(p) \/ Advance(p)

Spec == Init /\ [][Next]_vars
=============================================================================
