---------------------------- MODULE GroupCommit ----------------------------
(***************************************************************************)
(* What WAL.Sync promises its callers, with the leader, the followers and  *)
(* the channels left out: records get numbers as they are appended, some   *)
(* prefix of them is durable, and a Sync call may return "ok" only when    *)
(* every record appended before the call is in that prefix.  An I/O error  *)
(* may lose the records from some point on, never durable ones; a call     *)
(* answers for the records in front of that point only, and its caller may *)
(* never have been told of the error.                                      *)
(***************************************************************************)
EXTENDS Naturals

CONSTANT Procs       \* the goroutines that call Append and Sync

VARIABLES
    appended,   \* number of records appended so far
    durable,    \* records 1..durable survive a crash
    lost,       \* the first record that can never be read back (0: none)
    calling,    \* the goroutines inside Sync
    want,       \* want[p]: the records p's last Sync call has to cover
    result      \* result[p]: what p's last completed Sync call returned

vars == <<appended, durable, lost, calling, want, result>>

Results == {"none", "ok", "failed", "closed"}

Init ==
    /\ appended = 0
    /\ durable = 0
    /\ lost = 0
    /\ calling = {}
    /\ want = [p \in Procs |-> 0]
    /\ result = [p \in Procs |-> "none"]

\* Of the records 1..n, those that can be read back: 1..Readable(n).
Readable(n) == IF lost = 0 \/ n < lost THEN n ELSE lost - 1

\* One more record, of which some prefix may reach the disk at once (a full
\* buffer or a rotation writes and syncs what is there).
Append ==
    /\ appended' = appended + 1
    /\ durable' \in durable .. Readable(appended)
    /\ UNCHANGED <<lost, calling, want, result>>

Commit ==
    /\ durable' = Readable(appended)
    /\ UNCHANGED <<appended, lost, calling, want, result>>

\* A failing write or fsync takes records that were not durable, or breaks the
\* chain in front of the next one.
Lose ==
    /\ lost' \in durable + 1 .. appended + 1
    /\ lost = 0 \/ lost' < lost
    /\ UNCHANGED <<appended, durable, calling, want, result>>

Call(p) ==
    /\ p \notin calling
    /\ calling' = calling \cup {p}
    /\ want' = [want EXCEPT ![p] = appended]
    /\ result' = [result EXCEPT ![p] = "none"]
    /\ UNCHANGED <<appended, durable, lost>>

Return(p) ==
    /\ p \in calling
    /\ calling' = calling \ {p}
    /\ \E r \in Results \ {"none"} :
        /\ r = "ok" => Readable(want[p]) <= durable
        /\ result' = [result EXCEPT ![p] = r]
    /\ UNCHANGED <<appended, durable, lost, want>>

Next ==
    \/ Append
    \/ Commit
    \/ Lose
    \/ \E p \in Procs : Call(p) \/ Return(p)

Spec == Init /\ [][Next]_vars
=============================================================================
