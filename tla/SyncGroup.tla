----------------------------- MODULE SyncGroup -----------------------------
(***************************************************************************)
(* Leader-follower group commit (pkg/wal/sync_group.go) over the WAL's     *)
(* critical sections (pkg/wal/wal.go).  Everything done while sg.mu or     *)
(* w.mu is held is one action; between two critical sections any other     *)
(* goroutine may run.                                                      *)
(*                                                                         *)
(* Records are their sequence numbers: 1..appended have been accepted by   *)
(* Append, 1..flushed have left the page writer's buffer, and fsync has    *)
(* succeeded when there were 1..synced of them.  The records in lost left  *)
(* the buffer without reaching the disk: a failed write drops the buffer,  *)
(* and after a failed fsync the kernel may take its pages for clean.  The  *)
(* CRC chain has counted the lost records, so nothing from brokenAt on can *)
(* be decoded after a restart (brokenAt = 0: the chain is intact).         *)
(***************************************************************************)
EXTENDS Naturals

CONSTANTS
    Procs,        \* goroutines that append records and call Sync
    MaxAppends,   \* bound on the number of records
    Faults        \* the I/O errors that may occur

ASSUME ProcsAssumption == "none" \notin Procs
ASSUME MaxAppendsAssumption == MaxAppends \in Nat
ASSUME FaultsAssumption == Faults \subseteq {"write", "fsync"}

VARIABLES
    pc,        \* pc[p]: "idle", leader at "sync" or "notify", follower at "wait"
    syncing,   \* sg.syncing
    pending,   \* sg.pending: followers nobody has taken yet
    batch,     \* batch[p]: the followers leader p took for its current round
    lastErr,   \* lastErr[p]: result of leader p's last round
    answer,    \* answer[p]: content of follower p's channel
    ret,       \* ret[p]: what p's last completed Sync call returned
    target,    \* target[p]: records appended when p last entered Sync
    appended, flushed, synced, lost, brokenAt,
    closed     \* w.closed

sgVars == <<syncing, pending, batch, lastErr, answer, ret, target>>
walVars == <<appended, flushed, synced, lost, brokenAt, closed>>
vars == <<pc, sgVars, walVars>>

Results == {"none", "ok", "failed", "closed"}

Init ==
    /\ pc = [p \in Procs |-> "idle"]
    /\ syncing = FALSE
    /\ pending = {}
    /\ batch = [p \in Procs |-> {}]
    /\ lastErr = [p \in Procs |-> "none"]
    /\ answer = [p \in Procs |-> "none"]
    /\ ret = [p \in Procs |-> "none"]
    /\ target = [p \in Procs |-> 0]
    /\ appended = 0 /\ flushed = 0 /\ synced = 0 /\ lost = {} /\ brokenAt = 0
    /\ closed = FALSE

-----------------------------------------------------------------------------
(* Append: the record is buffered; a full buffer is written out first, a   *)
(* full segment is flushed and synced first (rotate).                      *)

CanAppend(p) == pc[p] = "idle" /\ ~closed /\ appended < MaxAppends

\* PageWriter.Write spills when the buffer is full: the records in front of
\* the new one reach the file, and the new one too if it ends with the page.
Append(p) ==
    /\ CanAppend(p)
    /\ appended' = appended + 1
    /\ flushed' \in {flushed, appended, appended + 1}
    /\ UNCHANGED <<pc, sgVars, synced, lost, brokenAt, closed>>

AppendRotates(p) ==
    /\ CanAppend(p)
    /\ appended' = appended + 1
    /\ flushed' = appended
    /\ synced' = appended
    /\ UNCHANGED <<pc, sgVars, lost, brokenAt, closed>>

\* The records from k on do not reach the disk.
Lose(k) ==
    /\ lost' = lost \cup (k .. appended)
    /\ brokenAt' = IF brokenAt = 0 \/ k < brokenAt THEN k ELSE brokenAt

\* PageWriter.Flush fails: the buffer is empty all the same, and a short write
\* may have put the first of its records into the file.
WriteError == "write" \in Faults /\ flushed < appended /\ \E k \in flushed + 1 .. appended : Lose(k)

\* file.Sync fails: a later one may cover what was written, or the kernel has
\* given up the pages from some record on and a later one succeeds without them.
FsyncError ==
    /\ "fsync" \in Faults
    /\ UNCHANGED <<lost, brokenAt>> \/ \E k \in synced + 1 .. appended : Lose(k)

\* The write of a spill fails: the encoder's CRC already includes the record
\* that it did not write.
SpillError == "write" \in Faults /\ \E k \in flushed + 1 .. appended + 1 : Lose(k)

\* Append returns an error, from a spill or from the flush or fsync in rotate.
AppendFails(p) ==
    /\ CanAppend(p)
    /\ flushed' = appended
    /\ SpillError \/ WriteError \/ FsyncError
    /\ UNCHANGED <<pc, sgVars, appended, synced, closed>>

-----------------------------------------------------------------------------
(* syncGroup.sync *)

\* sg.mu is free and a sync is in progress: become a follower.
Follow(p) ==
    /\ pc[p] = "idle"
    /\ syncing
    /\ pending' = pending \cup {p}
    /\ pc' = [pc EXCEPT ![p] = "wait"]
    /\ target' = [target EXCEPT ![p] = appended]
    /\ ret' = [ret EXCEPT ![p] = "none"]
    /\ UNCHANGED <<syncing, batch, lastErr, answer, walVars>>

\* Mutant of Lead: sg.syncing is not looked at.
LeadAnyway(p) ==
    /\ pc[p] = "idle"
    /\ syncing' = TRUE
    /\ batch' = [batch EXCEPT ![p] = pending]
    /\ pending' = {}
    /\ pc' = [pc EXCEPT ![p] = "sync"]
    /\ target' = [target EXCEPT ![p] = appended]
    /\ ret' = [ret EXCEPT ![p] = "none"]
    /\ UNCHANGED <<lastErr, answer, walVars>>

\* Nobody syncs: become the leader and take the waiters.
Lead(p) ==
    /\ pc[p] = "idle"
    /\ ~syncing
    /\ syncing' = TRUE
    /\ batch' = [batch EXCEPT ![p] = pending]
    /\ pending' = {}
    /\ pc' = [pc EXCEPT ![p] = "sync"]
    /\ target' = [target EXCEPT ![p] = appended]
    /\ ret' = [ret EXCEPT ![p] = "none"]
    /\ UNCHANGED <<lastErr, answer, walVars>>

\* syncFunc returns r to leader p.
SyncFuncReturns(p, r) ==
    /\ pc[p] = "sync"
    /\ lastErr' = [lastErr EXCEPT ![p] = r]
    /\ pc' = [pc EXCEPT ![p] = "notify"]
    /\ UNCHANGED <<syncing, pending, batch, answer, ret, target, appended, closed>>

SyncOk(p) ==
    /\ ~closed
    /\ flushed' = appended
    /\ synced' = appended
    /\ UNCHANGED <<lost, brokenAt>>
    /\ SyncFuncReturns(p, "ok")

SyncClosed(p) ==
    /\ closed
    /\ UNCHANGED <<flushed, synced, lost, brokenAt>>
    /\ SyncFuncReturns(p, "closed")

\* encoder.Flush or file.Sync fails.
SyncFails(p) ==
    /\ ~closed
    /\ flushed' = appended
    /\ WriteError \/ FsyncError
    /\ UNCHANGED synced
    /\ SyncFuncReturns(p, "failed")

SyncFunc(p) == SyncOk(p) \/ SyncClosed(p) \/ SyncFails(p)

\* The leader sends lastErr to one follower of its batch.
Notify(p, q) ==
    /\ pc[p] = "notify"
    /\ q \in batch[p]
    /\ answer' = [answer EXCEPT ![q] = lastErr[p]]
    /\ batch' = [batch EXCEPT ![p] = @ \ {q}]
    /\ UNCHANGED <<pc, syncing, pending, lastErr, ret, target, walVars>>

\* Mutant of Again: latecomers get the answer of the round that just ended.
AgainWithoutSync(p) ==
    /\ pc[p] = "notify"
    /\ batch[p] = {}
    /\ pending # {}
    /\ batch' = [batch EXCEPT ![p] = pending]
    /\ pending' = {}
    /\ UNCHANGED <<pc, syncing, lastErr, answer, ret, target, walVars>>

\* Mutant of Again: pending is cleared before the batch is taken from it.
AgainLosesWaiters(p) ==
    /\ pc[p] = "notify"
    /\ batch[p] = {}
    /\ pending # {}
    /\ pending' = {}
    /\ pc' = [pc EXCEPT ![p] = "sync"]
    /\ UNCHANGED <<syncing, batch, lastErr, answer, ret, target, walVars>>

\* Everybody in the batch is told; followers that came meanwhile need a new round.
Again(p) ==
    /\ pc[p] = "notify"
    /\ batch[p] = {}
    /\ pending # {}
    /\ batch' = [batch EXCEPT ![p] = pending]
    /\ pending' = {}
    /\ pc' = [pc EXCEPT ![p] = "sync"]
    /\ UNCHANGED <<syncing, lastErr, answer, ret, target, walVars>>

\* Mutant of Release: the leader leaves without looking for latecomers.
ReleaseEarly(p) ==
    /\ pc[p] = "notify"
    /\ batch[p] = {}
    /\ syncing' = FALSE
    /\ ret' = [ret EXCEPT ![p] = lastErr[p]]
    /\ lastErr' = [lastErr EXCEPT ![p] = "none"]
    /\ pc' = [pc EXCEPT ![p] = "idle"]
    /\ UNCHANGED <<pending, batch, answer, target, walVars>>

\* Mutant of Release: the exit test accepts an empty queue as work to do.
ReleaseLoops(p) ==
    /\ pc[p] = "notify"
    /\ batch[p] = {}
    /\ pending = {}
    /\ pc' = [pc EXCEPT ![p] = "sync"]
    /\ UNCHANGED <<sgVars, walVars>>

\* The leader's last look under sg.mu: nobody queues, so it stops being leader.

Release(p) ==
    /\ pc[p] = "notify"
    /\ batch[p] = {}
    /\ pending = {}
    /\ syncing' = FALSE
    /\ ret' = [ret EXCEPT ![p] = lastErr[p]]
    /\ lastErr' = [lastErr EXCEPT ![p] = "none"]
    /\ pc' = [pc EXCEPT ![p] = "idle"]
    /\ UNCHANGED <<pending, batch, answer, target, walVars>>

\* Mutant of Receive: the error sent on the channel is ignored.
ReceiveIgnoresError(p) ==
    /\ pc[p] = "wait"
    /\ answer[p] # "none"
    /\ ret' = [ret EXCEPT ![p] = "ok"]
    /\ answer' = [answer EXCEPT ![p] = "none"]
    /\ pc' = [pc EXCEPT ![p] = "idle"]
    /\ UNCHANGED <<syncing, pending, batch, lastErr, target, walVars>>

Receive(p) ==
    /\ pc[p] = "wait"
    /\ answer[p] # "none"
    /\ ret' = [ret EXCEPT ![p] = answer[p]]
    /\ answer' = [answer EXCEPT ![p] = "none"]
    /\ pc' = [pc EXCEPT ![p] = "idle"]
    /\ UNCHANGED <<syncing, pending, batch, lastErr, target, walVars>>

-----------------------------------------------------------------------------
(* WAL.Close: closed is set before the flush and the fsync are tried.       *)

Close ==
    /\ ~closed
    /\ closed' = TRUE
    /\ flushed' = appended
    /\ synced' = appended
    /\ UNCHANGED <<pc, sgVars, appended, lost, brokenAt>>

CloseFails ==
    /\ ~closed
    /\ closed' = TRUE
    /\ flushed' = appended
    /\ WriteError \/ FsyncError
    /\ UNCHANGED <<pc, sgVars, appended, synced>>

-----------------------------------------------------------------------------
Next ==
    \/ \E p \in Procs :
        \/ Append(p) \/ AppendRotates(p) \/ AppendFails(p)
        \/ Follow(p) \/ Lead(p)
        \/ SyncFunc(p)
        \/ \E q \in Procs : Notify(p, q)
        \/ Again(p) \/ Release(p)
        \/ Receive(p)
    \/ Close
    \/ CloseFails

\* Every goroutine inside Sync keeps running; nobody is obliged to call it.
Fairness ==
    \A p \in Procs :
        /\ WF_vars(SyncFunc(p))
        /\ WF_vars(\E q \in Procs : Notify(p, q))
        /\ WF_vars(Again(p) \/ Release(p))
        /\ WF_vars(Receive(p))

Spec == Init /\ [][Next]_vars
FairSpec == Spec /\ Fairness

-----------------------------------------------------------------------------
TypeOK ==
    /\ pc \in [Procs -> {"idle", "sync", "notify", "wait"}]
    /\ syncing \in BOOLEAN
    /\ pending \in SUBSET Procs
    /\ batch \in [Procs -> SUBSET Procs]
    /\ lastErr \in [Procs -> Results]
    /\ answer \in [Procs -> Results]
    /\ ret \in [Procs -> Results]
    /\ target \in [Procs -> Nat]
    /\ appended \in Nat /\ flushed \in Nat /\ synced \in Nat /\ brokenAt \in Nat
    /\ lost \in SUBSET (1 .. appended)
    /\ closed \in BOOLEAN

\* The records that are in a file an fsync of which has succeeded since.
Covered == 1 .. synced \ lost

\* The promise of group commit (sync_group.go:9-14): when Sync returns nil,
\* every record any goroutine appended before the call was made is covered by
\* a successful fsync, whether the caller led the sync, followed one, or
\* arrived during one.  The exception is a record that an I/O error has lost.
\* Its caller need not know of the error: it may have been returned to another
\* goroutine's call, or to nobody, for a leader returns the result of its last
\* round only (sync_group.go:55, 75), and the later rounds succeed.
SyncCovers == \A p \in Procs : ret[p] = "ok" => 1 .. target[p] \subseteq Covered \cup lost

Leader(p) == pc[p] \in {"sync", "notify"}

Taken(q) == \E p \in Procs : q \in batch[p]

\* At most one goroutine runs the loop of sync(), sg.syncing says whether one
\* does, and followers queue only while one does.
OneLeader ==
    /\ \A p, q \in Procs : Leader(p) /\ Leader(q) => p = q
    /\ syncing <=> \E p \in Procs : Leader(p)
    /\ pending # {} => syncing

\* No follower is forgotten and none is answered twice: a follower without an
\* answer is in pending or in exactly one leader's batch, and one that has its
\* answer (or does not wait) is in neither (sync_group.go:38-60).
WaitersOwned ==
    \A q \in Procs :
        /\ pc[q] = "wait" /\ answer[q] = "none" <=> q \in pending \/ Taken(q)
        /\ ~(q \in pending /\ Taken(q))
        /\ \A p \in Procs : q \in batch[p] => Leader(p)

\* Every follower is answered: the leader that runs when it queues, or the
\* round that leader starts for latecomers, sends on its channel.
FollowerAnswered == \A p \in Procs : pc[p] = "wait" ~> pc[p] = "idle"

\* The leader gets out of its loop once followers stop arriving; while they
\* keep arriving it serves rounds for ever (sync_group.go:48-70 has no bound).
LeaderReleased == <>[](pending = {}) => []<>(~syncing)

\* The records a crash cannot take away.
Durable == IF brokenAt = 0 \/ synced < brokenAt THEN synced ELSE brokenAt - 1

Abstract == INSTANCE GroupCommit WITH
    durable <- Durable,
    lost <- brokenAt,
    calling <- {p \in Procs : pc[p] # "idle"},
    want <- target,
    result <- ret

\* Every step of the group commit is a step of the abstract log or changes
\* nothing a caller can see (wal.go:179-184).  In particular an I/O error
\* never takes a durable record back, and a Sync that returns nil is wrong only
\* about records from the first on that an I/O error has lost.
ImplementsGroupCommit == Abstract!Spec
=============================================================================
