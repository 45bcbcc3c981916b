-------------------------- MODULE SyncGroupProofs --------------------------
(***************************************************************************)
(* Proofs about group commit, for any number of goroutines and records.    *)
(*                                                                         *)
(* SyncCovers is not inductive: it speaks of results already returned,     *)
(* while the promise is carried by the results still on their way, in the  *)
(* leader's lastErr and in the followers' channels.  RoundCovers and       *)
(* AnswerCovers say what those are worth, and they survive a new call only *)
(* because the members of a batch are still waiting (WaitersOwned), which  *)
(* in turn needs OneLeader.                                                *)
(***************************************************************************)
EXTENDS SyncGroup, TLAPS

\* A channel holds an answer only while its owner waits for it, and a leader
\* that notifies has a result to send.
AnswerPending ==
    \A p \in Procs :
        /\ answer[p] # "none" => pc[p] = "wait"
        /\ pc[p] = "notify" => lastErr[p] # "none"

\* The queueing discipline: who leads, who waits, and where.
Discipline == TypeOK /\ OneLeader /\ WaitersOwned /\ AnswerPending

\* Nothing is synced before it is flushed or flushed before it is appended,
\* and no call asks for the future.
Ordered ==
    /\ synced <= flushed
    /\ flushed <= appended
    /\ \A p \in Procs : target[p] <= appended

\* A successful round covers the leader and everybody it still has to notify.
RoundCovers ==
    \A p \in Procs : pc[p] = "notify" /\ lastErr[p] = "ok" =>
        /\ target[p] <= synced
        /\ \A q \in batch[p] : target[q] <= synced

AnswerCovers == \A p \in Procs : answer[p] = "ok" => target[p] <= synced

RetCovers == \A p \in Procs : ret[p] = "ok" => target[p] <= synced

Coverage == Ordered /\ RoundCovers /\ AnswerCovers /\ RetCovers

-----------------------------------------------------------------------------
\* A WAL that has just been opened has no leader, no waiter and no answer.
LEMMA InitDiscipline == Init => Discipline
<1> SUFFICES ASSUME Init PROVE Discipline
  OBVIOUS
<1>1. TypeOK
  BY DEF Init, TypeOK, Results
<1>2. OneLeader
  BY DEF Init, OneLeader, Leader
<1>3. WaitersOwned
  BY DEF Init, WaitersOwned, Taken, Leader
<1>4. AnswerPending
  BY DEF Init, AnswerPending
<1> QED
  BY <1>1, <1>2, <1>3, <1>4 DEF Discipline

\* The typing of the state is kept by every step.
LEMMA TypeStep == TypeOK /\ [Next]_vars => TypeOK'
<1> SUFFICES ASSUME TypeOK, [Next]_vars PROVE TypeOK'
  OBVIOUS
<1> USE DEF TypeOK, Results, sgVars, walVars
<1>e. ASSUME SpillError \/ WriteError \/ FsyncError, appended' = appended
      PROVE  brokenAt' \in Nat /\ lost' \in SUBSET (1 .. appended')
  <2>1. ASSUME NEW k \in Nat \ {0}, Lose(k) PROVE brokenAt' \in Nat /\ lost' \in SUBSET (1 .. appended')
    BY <1>e, <2>1 DEF Lose
  <2>2. (\E k \in Nat \ {0} : Lose(k)) \/ UNCHANGED <<lost, brokenAt>>
    <3>1. CASE SpillError
      BY <3>1 DEF SpillError
    <3>2. CASE WriteError
      BY <3>2 DEF WriteError
    <3>3. CASE FsyncError
      BY <3>3 DEF FsyncError
    <3> QED
      BY <1>e, <3>1, <3>2, <3>3
  <2> QED
    BY <1>e, <2>1, <2>2
<1>1. ASSUME NEW p \in Procs, Append(p) PROVE TypeOK'
  BY <1>1 DEF Append, CanAppend
<1>2. ASSUME NEW p \in Procs, AppendRotates(p) PROVE TypeOK'
  BY <1>2 DEF AppendRotates, CanAppend
<1>3. ASSUME NEW p \in Procs, AppendFails(p) PROVE TypeOK'
  BY <1>3, <1>e DEF AppendFails
<1>4. ASSUME NEW p \in Procs, Follow(p) PROVE TypeOK'
  BY <1>4 DEF Follow
<1>5. ASSUME NEW p \in Procs, Lead(p) PROVE TypeOK'
  BY <1>5 DEF Lead
<1>6. ASSUME NEW p \in Procs, SyncFunc(p) PROVE TypeOK'
  <2>1. CASE SyncOk(p)
    BY <2>1 DEF SyncOk, SyncFuncReturns
  <2>2. CASE SyncClosed(p)
    BY <2>2 DEF SyncClosed, SyncFuncReturns
  <2>3. CASE SyncFails(p)
    BY <2>3, <1>e DEF SyncFails, SyncFuncReturns
  <2> QED
    BY <1>6, <2>1, <2>2, <2>3 DEF SyncFunc
<1>7. ASSUME NEW p \in Procs, NEW q \in Procs, Notify(p, q) PROVE TypeOK'
  BY <1>7 DEF Notify
<1>8. ASSUME NEW p \in Procs, Again(p) PROVE TypeOK'
  BY <1>8 DEF Again
<1>9. ASSUME NEW p \in Procs, Release(p) PROVE TypeOK'
  BY <1>9 DEF Release
<1>10. ASSUME NEW p \in Procs, Receive(p) PROVE TypeOK'
  BY <1>10 DEF Receive
<1>11. CASE Close
  BY <1>11 DEF Close
<1>12. CASE CloseFails
  BY <1>12, <1>e DEF CloseFails
<1>13. CASE UNCHANGED vars
  BY <1>13 DEF vars
<1> QED
  BY <1>1, <1>2, <1>3, <1>4, <1>5, <1>6, <1>7, <1>8, <1>9, <1>10, <1>11, <1>12, <1>13 DEF Next

-----------------------------------------------------------------------------
\* A step of the WAL or of Sync keeps one leader, keeps every unanswered
\* follower in exactly one queue, and leaves no answer behind.
LEMMA DisciplineStep == Discipline /\ [Next]_vars => Discipline'
<1> SUFFICES ASSUME Discipline, [Next]_vars PROVE Discipline'
  OBVIOUS
<1>t. TypeOK /\ TypeOK'
  BY TypeStep DEF Discipline
<1> DEFINE D == OneLeader /\ WaitersOwned /\ AnswerPending
<1> USE DEF OneLeader, WaitersOwned, AnswerPending, Leader, Taken, Discipline
<1>u. ASSUME UNCHANGED <<pc, syncing, pending, batch, lastErr, answer>> PROVE D'
  BY <1>u
<1>1. ASSUME NEW p \in Procs, Append(p) \/ AppendRotates(p) \/ AppendFails(p) PROVE D'
  BY <1>1, <1>u DEF Append, AppendRotates, AppendFails, sgVars
<1>4. ASSUME NEW p \in Procs, Follow(p) PROVE D'
  <2> USE <1>4, <1>t DEF Follow, TypeOK
  <2>1. OneLeader'
    OBVIOUS
  <2>2. WaitersOwned'
    OBVIOUS
  <2>3. AnswerPending'
    OBVIOUS
  <2> QED
    BY <2>1, <2>2, <2>3
<1>5. ASSUME NEW p \in Procs, Lead(p) PROVE D'
  <2> USE <1>5, <1>t DEF Lead, TypeOK
  <2>1. OneLeader'
    OBVIOUS
  <2>2. WaitersOwned'
    OBVIOUS
  <2>3. AnswerPending'
    OBVIOUS
  <2> QED
    BY <2>1, <2>2, <2>3
<1>6. ASSUME NEW p \in Procs, SyncFunc(p) PROVE D'
  <2>1. /\ pc[p] = "sync"
        /\ pc' = [pc EXCEPT ![p] = "notify"]
        /\ UNCHANGED <<syncing, pending, batch, answer>>
        /\ \E r \in Results \ {"none"} : lastErr' = [lastErr EXCEPT ![p] = r]
    BY <1>6 DEF SyncFunc, SyncOk, SyncClosed, SyncFails, SyncFuncReturns, Results
  <2> QED
    BY <2>1, <1>t DEF TypeOK
<1>7. ASSUME NEW p \in Procs, NEW q \in Procs, Notify(p, q) PROVE D'
  <2> USE <1>7, <1>t DEF Notify, TypeOK
  <2>1. OneLeader'
    OBVIOUS
  <2>2. WaitersOwned'
    OBVIOUS
  <2>3. AnswerPending'
    OBVIOUS
  <2> QED
    BY <2>1, <2>2, <2>3
<1>8. ASSUME NEW p \in Procs, Again(p) PROVE D'
  <2> USE <1>8, <1>t DEF Again, TypeOK
  <2>1. OneLeader'
    OBVIOUS
  <2>2. WaitersOwned'
    OBVIOUS
  <2>3. AnswerPending'
    OBVIOUS
  <2> QED
    BY <2>1, <2>2, <2>3
<1>9. ASSUME NEW p \in Procs, Release(p) PROVE D'
  <2> USE <1>9, <1>t DEF Release, TypeOK
  <2>1. OneLeader'
    OBVIOUS
  <2>2. WaitersOwned'
    OBVIOUS
  <2>3. AnswerPending'
    OBVIOUS
  <2> QED
    BY <2>1, <2>2, <2>3
<1>10. ASSUME NEW p \in Procs, Receive(p) PROVE D'
  <2> USE <1>10, <1>t DEF Receive, TypeOK
  <2>1. OneLeader'
    OBVIOUS
  <2>2. WaitersOwned'
    OBVIOUS
  <2>3. AnswerPending'
    OBVIOUS
  <2> QED
    BY <2>1, <2>2, <2>3
<1>11. ASSUME Close \/ CloseFails \/ UNCHANGED vars PROVE D'
  <2>1. UNCHANGED <<pc, syncing, pending, batch, lastErr, answer>>
    BY <1>11 DEF Close, CloseFails, vars, sgVars
  <2> QED
    BY <2>1, <1>u
<1> QED
  BY <1>t, <1>1, <1>4, <1>5, <1>6, <1>7, <1>8, <1>9, <1>10, <1>11 DEF Next

\* What an "ok" is worth, wherever it is on its way, is kept by every step.
LEMMA CoverageStep == Discipline /\ Coverage /\ [Next]_vars => Coverage'
<1> SUFFICES ASSUME Discipline, Coverage, [Next]_vars PROVE Coverage'
  OBVIOUS
<1>t. TypeOK /\ TypeOK'
  BY TypeStep DEF Discipline
<1>d. WaitersOwned /\ AnswerPending /\ OneLeader
  BY DEF Discipline
<1> USE DEF Coverage, Ordered, RoundCovers, AnswerCovers, RetCovers
\* Steps that only append records or sync more of them.
<1>u. ASSUME UNCHANGED <<pc, sgVars>>, appended' >= appended, synced' >= synced,
             synced' <= flushed', flushed' <= appended'
      PROVE  Coverage'
  BY <1>u, <1>t DEF sgVars, TypeOK
<1>1. ASSUME NEW p \in Procs, Append(p) \/ AppendRotates(p) \/ AppendFails(p) PROVE Coverage'
  <2>1. /\ UNCHANGED <<pc, sgVars>>
        /\ appended' >= appended /\ synced' >= synced
        /\ synced' <= flushed' /\ flushed' <= appended'
    BY <1>1, <1>t DEF Append, AppendRotates, AppendFails, CanAppend, TypeOK
  <2> QED
    BY <2>1, <1>u
<1>4. ASSUME NEW p \in Procs, Follow(p) PROVE Coverage'
  <2>1. \A q \in Procs : p \notin batch[q]
    BY <1>4, <1>t, <1>d DEF Follow, WaitersOwned, Taken, TypeOK
  <2>2. answer[p] = "none"
    BY <1>4, <1>t, <1>d DEF Follow, AnswerPending, TypeOK
  <2> QED
    BY <1>4, <1>t, <2>1, <2>2 DEF Follow, TypeOK, walVars
<1>5. ASSUME NEW p \in Procs, Lead(p) PROVE Coverage'
  <2>1. \A q \in Procs : p \notin batch[q]
    BY <1>5, <1>t, <1>d DEF Lead, WaitersOwned, Taken, TypeOK
  <2>2. answer[p] = "none"
    BY <1>5, <1>t, <1>d DEF Lead, AnswerPending, TypeOK
  <2> QED
    BY <1>5, <1>t, <2>1, <2>2 DEF Lead, TypeOK, walVars
<1>6. ASSUME NEW p \in Procs, SyncOk(p) PROVE Coverage'
  <2>1. \A q \in Procs : target[q] <= synced'
    BY <1>6 DEF SyncOk
  <2> QED
    BY <1>6, <1>t, <2>1 DEF SyncOk, SyncFuncReturns, TypeOK
<1>7. ASSUME NEW p \in Procs, SyncClosed(p) \/ SyncFails(p) PROVE Coverage'
  <2>1. /\ UNCHANGED <<batch, answer, ret, target, appended, synced>>
        /\ flushed' \in {flushed, appended}
        /\ pc' = [pc EXCEPT ![p] = "notify"]
        /\ \E r \in {"closed", "failed"} : lastErr' = [lastErr EXCEPT ![p] = r]
    BY <1>7 DEF SyncClosed, SyncFails, SyncFuncReturns
  <2> QED
    BY <1>t, <2>1 DEF TypeOK
<1>8. ASSUME NEW p \in Procs, NEW q \in Procs, Notify(p, q) PROVE Coverage'
  BY <1>8, <1>t DEF Notify, TypeOK, walVars
<1>9. ASSUME NEW p \in Procs, Again(p) PROVE Coverage'
  BY <1>9, <1>t DEF Again, TypeOK, walVars
<1>10. ASSUME NEW p \in Procs, Release(p) PROVE Coverage'
  BY <1>10, <1>t DEF Release, TypeOK, walVars
<1>11. ASSUME NEW p \in Procs, Receive(p) PROVE Coverage'
  BY <1>11, <1>t DEF Receive, TypeOK, walVars
<1>12. CASE Close \/ CloseFails \/ UNCHANGED vars
  <2>1. /\ UNCHANGED <<pc, sgVars>>
        /\ appended' >= appended /\ synced' >= synced
        /\ synced' <= flushed' /\ flushed' <= appended'
    BY <1>12, <1>t DEF Close, CloseFails, vars, sgVars, walVars, TypeOK
  <2> QED
    BY <2>1, <1>u
<1> QED
  BY <1>1, <1>4, <1>5, <1>6, <1>7, <1>8, <1>9, <1>10, <1>11, <1>12 DEF Next, SyncFunc

-----------------------------------------------------------------------------
\* Group commit keeps its queueing discipline: one leader, no forgotten
\* follower, no answer left in a channel (sync_group.go:33-76).
THEOREM DisciplineInvariant == Spec => []Discipline
<1>1. Discipline /\ [Next]_vars => Discipline'
  BY DisciplineStep
<1> QED
  BY InitDiscipline, <1>1, PTL DEF Spec

\* The variables of group commit keep their types.
THEOREM TypeCorrect == Spec => []TypeOK
  BY DisciplineInvariant, PTL DEF Discipline

\* No follower is forgotten and none is answered twice, whatever the I/O does.
THEOREM WaitersOwnedInvariant == Spec => []WaitersOwned
  BY DisciplineInvariant, PTL DEF Discipline

\* When Sync returns nil, every record appended before the call is covered by
\* a successful fsync or was lost in a failed write or fsync, of whichever
\* goroutine, for any number of goroutines and records (sync_group.go:9-14).
THEOREM SyncCoversInvariant == Spec => []SyncCovers
<1>1. Init => Coverage
  BY DEF Init, Coverage, Ordered, RoundCovers, AnswerCovers, RetCovers
<1>2. Discipline /\ Coverage /\ [Next]_vars => Coverage'
  BY CoverageStep
<1>3. Discipline /\ Coverage => SyncCovers
  BY DEF Discipline, TypeOK, Coverage, RetCovers, SyncCovers, Covered
<1> QED
  BY <1>1, <1>2, <1>3, DisciplineInvariant, PTL DEF Spec

-----------------------------------------------------------------------------
\* One step of group commit is one step of the abstract log, or invisible.
LEMMA AbstractStep ==
  Discipline /\ Coverage /\ [Next]_vars => [Abstract!Next]_(Abstract!vars)
<1> SUFFICES ASSUME Discipline, Coverage, [Next]_vars
             PROVE  Abstract!Next \/ UNCHANGED Abstract!vars
  OBVIOUS
<1> DEFINE calling == {p \in Procs : pc[p] # "idle"}
<1>t. TypeOK
  BY DEF Discipline
<1>o. synced <= flushed /\ flushed <= appended
  BY DEF Coverage, Ordered
\* Steps inside Sync or of the page writer change nothing a caller can see.
<1>s. ASSUME UNCHANGED <<appended, synced, brokenAt, target, ret>>,
             \A p \in Procs : pc'[p] # "idle" <=> pc[p] # "idle"
      PROVE  UNCHANGED Abstract!vars
  BY <1>s DEF Abstract!vars, Durable
\* A successful fsync commits all that can still be read.
<1>c. ASSUME appended' = appended, synced' = appended, UNCHANGED <<brokenAt, target, ret>>,
             \A p \in Procs : pc'[p] # "idle" <=> pc[p] # "idle"
      PROVE  Abstract!Next
  <2>1. Durable' = Abstract!Readable(appended)
    BY <1>c DEF Durable, Abstract!Readable
  <2> QED
    BY <1>c, <2>1 DEF Abstract!Next, Abstract!Commit
\* An I/O error loses records that no fsync has covered.
<1>l. ASSUME UNCHANGED <<appended, synced, target, ret>>, SpillError \/ WriteError \/ FsyncError,
             \A p \in Procs : pc'[p] # "idle" <=> pc[p] # "idle"
      PROVE  Abstract!Next \/ UNCHANGED Abstract!vars
  <2>1. CASE brokenAt' = brokenAt
    BY <1>l, <2>1, <1>s
  <2>2. CASE brokenAt' # brokenAt
    <3>1. /\ brokenAt' \in synced + 1 .. appended + 1
          /\ brokenAt = 0 \/ brokenAt' < brokenAt
      <4>1. \E k \in synced + 1 .. appended + 1 : Lose(k)
        BY <1>l, <2>2, <1>o, <1>t DEF SpillError, WriteError, FsyncError, TypeOK
      <4> QED
        BY <2>2, <4>1, <1>t DEF Lose, TypeOK
    <3>2. Durable = synced /\ Durable' = synced
      <4>1. /\ synced' = synced /\ synced < brokenAt'
            /\ brokenAt = 0 \/ synced < brokenAt
        BY <1>l, <3>1, <1>t DEF TypeOK
      <4> QED
        BY <4>1 DEF Durable
    <3> QED
      BY <1>l, <3>1, <3>2 DEF Abstract!Next, Abstract!Lose
  <2> QED
    BY <2>1, <2>2
<1>1. ASSUME NEW p \in Procs, Append(p) \/ AppendRotates(p) PROVE Abstract!Append
  <2>1. /\ appended' = appended + 1
        /\ synced' \in synced .. appended
        /\ UNCHANGED <<pc, ret, target, brokenAt>>
    BY <1>1, <1>t, <1>o DEF Append, AppendRotates, sgVars, TypeOK
  <2>2. Durable' \in Durable .. Abstract!Readable(appended)
    BY <2>1, <1>t, <1>o DEF Durable, Abstract!Readable, TypeOK
  <2> QED
    BY <2>1, <2>2 DEF Abstract!Append
<1>2. ASSUME NEW p \in Procs, AppendFails(p) PROVE Abstract!Next \/ UNCHANGED Abstract!vars
  BY <1>2, <1>l DEF AppendFails, sgVars
<1>3. ASSUME NEW p \in Procs, Follow(p) \/ Lead(p) PROVE Abstract!Call(p)
  <2>1. /\ pc[p] = "idle"
        /\ \E s \in {"sync", "wait"} : pc' = [pc EXCEPT ![p] = s]
        /\ target' = [target EXCEPT ![p] = appended]
        /\ ret' = [ret EXCEPT ![p] = "none"]
        /\ UNCHANGED <<appended, synced, brokenAt>>
    BY <1>3 DEF Follow, Lead, walVars
  <2>2. calling' = calling \cup {p} /\ p \notin calling
    BY <2>1, <1>t DEF TypeOK
  <2> QED
    BY <2>1, <2>2 DEF Abstract!Call, Durable
<1>4. ASSUME NEW p \in Procs, SyncFunc(p) PROVE Abstract!Next \/ UNCHANGED Abstract!vars
  <2>1. /\ pc[p] = "sync" /\ pc' = [pc EXCEPT ![p] = "notify"]
        /\ UNCHANGED <<ret, target, appended>>
        /\ \/ synced' = synced /\ brokenAt' = brokenAt
           \/ synced' = appended /\ brokenAt' = brokenAt
           \/ synced' = synced /\ (WriteError \/ FsyncError)
    BY <1>4 DEF SyncFunc, SyncOk, SyncClosed, SyncFails, SyncFuncReturns
  <2>2. \A q \in Procs : pc'[q] # "idle" <=> pc[q] # "idle"
    BY <2>1, <1>t DEF TypeOK
  <2> QED
    BY <2>1, <2>2, <1>s, <1>c, <1>l
<1>5. ASSUME NEW p \in Procs, NEW q \in Procs, Notify(p, q) PROVE UNCHANGED Abstract!vars
  BY <1>5, <1>s DEF Notify, walVars
<1>6. ASSUME NEW p \in Procs, Again(p) PROVE UNCHANGED Abstract!vars
  <2>1. \A q \in Procs : pc'[q] # "idle" <=> pc[q] # "idle"
    BY <1>6, <1>t DEF Again, TypeOK
  <2> QED
    BY <1>6, <2>1, <1>s DEF Again, walVars
<1>7. ASSUME NEW p \in Procs, Release(p) \/ Receive(p) PROVE Abstract!Return(p)
  <2>1. /\ pc[p] # "idle"
        /\ pc' = [pc EXCEPT ![p] = "idle"]
        /\ UNCHANGED <<appended, synced, brokenAt, target>>
    BY <1>7 DEF Release, Receive, walVars
  <2>2. \E r \in Results \ {"none"} :
          /\ r = "ok" => target[p] <= synced
          /\ ret' = [ret EXCEPT ![p] = r]
    <3>1. CASE Release(p)
      <4>1. lastErr[p] \in Results \ {"none"}
        BY <3>1, <1>t DEF Release, Discipline, AnswerPending, TypeOK
      <4> QED
        BY <3>1, <4>1 DEF Release, Coverage, RoundCovers
    <3>2. CASE Receive(p)
      <4>1. answer[p] \in Results \ {"none"}
        BY <3>2, <1>t DEF Receive, TypeOK
      <4> QED
        BY <3>2, <4>1 DEF Receive, Coverage, AnswerCovers
    <3> QED
      BY <1>7, <3>1, <3>2
  <2>3. calling' = calling \ {p} /\ p \in calling
    BY <2>1, <1>t DEF TypeOK
  <2>4. target[p] <= synced => Abstract!Readable(target[p]) <= Durable
    BY <1>t DEF Durable, Abstract!Readable, TypeOK
  <2>5. Durable' = Durable
    BY <2>1 DEF Durable
  <2> QED
    BY <2>1, <2>2, <2>3, <2>4, <2>5 DEF Abstract!Return, Abstract!Results, Results
<1>8. CASE Close
  BY <1>8, <1>c DEF Close, sgVars
<1>9. CASE CloseFails
  BY <1>9, <1>l DEF CloseFails, sgVars
<1>10. CASE UNCHANGED vars
  BY <1>10, <1>s DEF vars, sgVars, walVars
<1> QED
  BY <1>1, <1>2, <1>3, <1>4, <1>5, <1>6, <1>7, <1>8, <1>9, <1>10 DEF Next, Abstract!Next

\* Group commit implements the abstract log under any I/O errors: Sync returns
\* "ok" only when the records its caller had to wait for are durable, up to the
\* first record that an I/O error has lost, and no error takes back a record
\* that was durable.
THEOREM Refinement == Spec => ImplementsGroupCommit
<1>1. Init => Abstract!Init
  BY DEF Init, Abstract!Init, Durable
<1>2. Init => Coverage
  BY DEF Init, Coverage, Ordered, RoundCovers, AnswerCovers, RetCovers
<1>3. Discipline /\ Coverage /\ [Next]_vars => Coverage' /\ [Abstract!Next]_(Abstract!vars)
  BY CoverageStep, AbstractStep
<1> QED
  BY <1>1, <1>2, <1>3, DisciplineInvariant, PTL DEF Spec, ImplementsGroupCommit, Abstract!Spec

\* At most one goroutine leads, and followers queue only while one does.
THEOREM OneLeaderInvariant == Spec => []OneLeader
  BY DisciplineInvariant, PTL DEF Discipline
=============================================================================
