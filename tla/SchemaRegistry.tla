--------------------------- MODULE SchemaRegistry ---------------------------
(***************************************************************************)
(* The schema registry (pkg/schema: registry.go, schema.go, walentry.go):  *)
(* a map from type names to schemas, changed only after an entry for the   *)
(* change has gone to a WAL of its own, and rebuilt from it by Open.       *)
(*                                                                         *)
(* A mutation holds r.mu from its checks to its return, so that nobody     *)
(* sees the registry in between; a crash may still come between the        *)
(* Append, the Sync and the return.  The WAL is used through what          *)
(* SyncGroup and Wal establish of it: Append adds an entry at the end,     *)
(* Sync makes all of them durable, a crash keeps the durable ones and any  *)
(* prefix of the rest, ReadAll returns what was kept.  An I/O error may    *)
(* lose the entries that are not durable; the CRC chain has counted them,  *)
(* so whatever is written behind them cannot be read again.  Names and     *)
(* paths are model values; the empty string, which every operation         *)
(* refuses, is left out.                                                   *)
(***************************************************************************)
EXTENDS Naturals, SequencesExt

CONSTANTS
    Types,          \* type names
    Paths,          \* index paths and primary keys
    EndWildcards,   \* the paths that end in ".*"
    MidWildcards,   \* the paths with a ".*" that is not at the end
    MaxIndexes,     \* bound on the indexes a schema is registered with
    MaxLog,         \* bound on the entries of the WAL
    MaxCrashes,     \* bound on crashes
    Faults          \* the calls of the WAL that may return an error

ASSUME PathsAssumption ==
    EndWildcards \subseteq Paths /\ MidWildcards \subseteq Paths /\ EndWildcards \cap MidWildcards = {}
ASSUME RegistryBoundsAssumption == MaxIndexes \in Nat /\ MaxLog \in Nat /\ MaxCrashes \in Nat
ASSUME RegistryFaultsAssumption == Faults \subseteq {"append", "sync"}

VARIABLES
    up,        \* "open", "closed" or "down"
    types,     \* r.types
    current,   \* the mutation that holds r.mu, after its Append: a sequence of at most one entry
    log,       \* the entries of the WAL
    durable,   \* how many of them are fsynced
    broken,    \* the entries from this one on are behind a lost one (0: none is lost)
    unsure,    \* history: a mutation has reported an error of the WAL
    crashes

vars == <<up, types, current, log, durable, broken, unsure, crashes>>

Schema(pk, idx) == [pk |-> pk, idx |-> idx]

Register(t, pk, idx) == [op |-> "register", type |-> t, pk |-> pk, idx |-> idx]
AddIndex(t, path) == [op |-> "add", type |-> t, pk |-> path, idx |-> <<path>>]
RemoveIndex(t, path) == [op |-> "remove", type |-> t, pk |-> path, idx |-> <<path>>]

IndexLists == UNION {[1 .. n -> Paths] : n \in 0 .. MaxIndexes}

Init ==
    /\ up = "open"
    /\ types = <<>>
    /\ current = <<>>
    /\ log = <<>>
    /\ durable = 0
    /\ broken = 0
    /\ unsure = FALSE
    /\ crashes = 0

-----------------------------------------------------------------------------
(* Schemas *)

HasIndex(s, path) == path \in ToSet(s.idx)

\* Schema.Validate
Validate(s) ==
    /\ s.pk \notin EndWildcards
    /\ s.pk \notin ToSet(s.idx)
    /\ ToSet(s.idx) \cap MidWildcards = {}
    /\ IsInjective(s.idx)

Cat == INSTANCE Loops WITH Step <- \o

\* The loop of applyRemoveIndex: the indexes other than path, in order.
Filtered(idx, path) ==
    Cat!Loop(<<>>, [i \in DOMAIN idx |-> IF idx[i] = path THEN <<>> ELSE <<idx[i]>>])

Put(ts, t, s) == [u \in DOMAIN ts \cup {t} |-> IF u = t THEN s ELSE ts[u]]

ApplyRegister(ts, e) == Put(ts, e.type, Schema(e.pk, e.idx))

\* Mutant of ApplyAddIndex: the index is appended whether it is there or not.
ApplyAddIndexTwice(ts, e) ==
    IF e.type \in DOMAIN ts THEN [ts EXCEPT ![e.type].idx = @ \o e.idx] ELSE ts

ApplyAddIndex(ts, e) ==
    IF e.type \in DOMAIN ts /\ ~HasIndex(ts[e.type], e.pk)
    THEN [ts EXCEPT ![e.type].idx = @ \o e.idx] ELSE ts

ApplyRemoveIndex(ts, e) ==
    IF e.type \in DOMAIN ts
    THEN [ts EXCEPT ![e.type].idx = Filtered(@, e.pk)] ELSE ts

Apply(ts, e) ==
    CASE e.op = "register" -> ApplyRegister(ts, e)
      [] e.op = "add" -> ApplyAddIndex(ts, e)
      [] e.op = "remove" -> ApplyRemoveIndex(ts, e)

Recover == INSTANCE Loops WITH Step <- Apply

\* recover: the entries are applied in order.
Replay(entries) == Recover!Loop(<<>>, entries)

-----------------------------------------------------------------------------
(* Register, AddIndex, RemoveIndex *)

\* Mutant of MayRegister: the existing types are not looked at.
MayRegisterAgain(e) == Validate(Schema(e.pk, e.idx))

\* The checks of the three mutations, under r.mu.
MayRegister(e) == Validate(Schema(e.pk, e.idx)) /\ e.type \notin DOMAIN types

MayAddIndex(e) ==
    /\ e.type \in DOMAIN types
    /\ ~HasIndex(types[e.type], e.pk)
    /\ e.pk # types[e.type].pk

MayRemoveIndex(e) == e.type \in DOMAIN types /\ HasIndex(types[e.type], e.pk)

\* r.w.Append; the caller keeps r.mu.
Begin(e) ==
    /\ up = "open"
    /\ current = <<>>
    /\ Len(log) < MaxLog
    /\ log' = Append(log, e)
    /\ current' = <<e>>
    /\ UNCHANGED <<up, types, durable, broken, unsure, crashes>>

\* The entries from k on are lost; the next one written follows a gap.
Lose(k) ==
    /\ log' = SubSeq(log, 1, k - 1)
    /\ broken' = IF broken = 0 \/ k < broken THEN k ELSE broken

\* r.w.Append fails, in a spill or in a rotation, and the mutation returns the
\* error: its entry is not in the WAL, and entries that were not durable may be
\* lost.  (One that loses nothing changes nothing.)
AppendFails ==
    /\ "append" \in Faults
    /\ up = "open"
    /\ current = <<>>
    /\ \E k \in durable + 1 .. Len(log) + 1 : Lose(k)
    /\ unsure' = TRUE
    /\ UNCHANGED <<up, types, current, durable, crashes>>

\* Mutant of Commit: memory is changed and the caller told before the Sync.
CommitUnsynced ==
    /\ current # <<>>
    /\ types' = Apply(types, current[1])
    /\ current' = <<>>
    /\ UNCHANGED <<up, log, durable, broken, unsure, crashes>>

\* r.w.Sync succeeds, the change is applied and the mutation returns nil.
Commit ==
    /\ current # <<>>
    /\ durable' = Len(log)
    /\ types' = Apply(types, current[1])
    /\ current' = <<>>
    /\ UNCHANGED <<up, log, broken, unsure, crashes>>

\* r.w.Sync fails and the mutation returns the error: its entry stays in the
\* WAL (file.Sync), or is lost with others that are not durable.
SyncFails ==
    /\ "sync" \in Faults
    /\ current # <<>>
    /\ current' = <<>>
    /\ UNCHANGED <<log, broken>> \/ \E k \in durable + 1 .. Len(log) : Lose(k)
    /\ unsure' = TRUE
    /\ UNCHANGED <<up, types, durable, crashes>>

-----------------------------------------------------------------------------
(* Close, crash, Open *)

\* Close waits for r.mu; the WAL's Close flushes and fsyncs.
Close ==
    /\ up = "open"
    /\ current = <<>>
    /\ up' = "closed"
    /\ durable' = Len(log)
    /\ UNCHANGED <<types, current, log, broken, unsure, crashes>>

Crash ==
    /\ up = "open"
    /\ crashes < MaxCrashes
    /\ crashes' = crashes + 1
    /\ up' = "down"
    /\ \E n \in durable .. Len(log) : log' = SubSeq(log, 1, n) /\ durable' = n
    /\ current' = <<>>
    /\ UNCHANGED <<types, broken, unsure>>

\* There are entries behind a lost one.
Gap == broken \in 1 .. Len(log)

Readable == IF Gap THEN SubSeq(log, 1, broken - 1) ELSE log

\* Open: a new registry, recovered from the WAL.  The entries behind a gap are
\* a torn tail, which the WAL cuts off, or a CRC error, with which Open fails
\* and changes nothing.
Open ==
    /\ up \in {"closed", "down"}
    /\ up' = "open"
    /\ types' = Replay(Readable)
    /\ log' = Readable
    /\ durable' = Len(Readable)
    /\ broken' = 0
    /\ unsure' = FALSE
    /\ UNCHANGED <<current, crashes>>

-----------------------------------------------------------------------------
Next ==
    \/ \E t \in Types, pk \in Paths, idx \in IndexLists :
        LET e == Register(t, pk, idx) IN MayRegister(e) /\ (Begin(e) \/ AppendFails)
    \/ \E t \in Types, path \in Paths :
        LET e == AddIndex(t, path) IN MayAddIndex(e) /\ (Begin(e) \/ AppendFails)
    \/ \E t \in Types, path \in Paths :
        LET e == RemoveIndex(t, path) IN MayRemoveIndex(e) /\ (Begin(e) \/ AppendFails)
    \/ Commit
    \/ SyncFails
    \/ Close
    \/ Crash
    \/ Open

Spec == Init /\ [][Next]_vars

-----------------------------------------------------------------------------
TypeOK ==
    /\ up \in {"open", "closed", "down"}
    /\ DOMAIN types \subseteq Types
    /\ \A t \in DOMAIN types : types[t].pk \in Paths /\ ToSet(types[t].idx) \subseteq Paths
    /\ Len(current) <= 1
    /\ Len(log) <= MaxLog /\ durable \in 0 .. Len(log)
    /\ broken \in 0 .. MaxLog + 1
    /\ unsure \in BOOLEAN
    /\ crashes \in 0 .. MaxCrashes

\* The entries in the WAL whose mutations have been reported to their callers,
\* while the WAL has returned no error.
Settled == SubSeq(log, 1, Len(log) - Len(current))

\* "All mutations ... are persisted to a WAL before updating in-memory state. On
\* startup, the WAL is replayed via recover to materialize the full registry
\* state" (registry.go:24-26): until the WAL returns an error, what an open
\* registry answers is what a recovery from the durable entries would answer, so
\* that a crash at any moment loses no acknowledged change.
RecoveryExact ==
    up = "open" /\ ~unsure => types = Replay(SubSeq(Settled, 1, durable))

\* Whatever fails and is retried, a schema never has an index twice nor its
\* primary key as an index, in memory and after a recovery (schema.go:56-57):
\* an AddIndex that is repeated because its Sync failed is in the WAL twice.
IndexesDistinct ==
    \A ts \in {types, Replay(log)} : \A t \in DOMAIN ts :
        IsInjective(ts[t].idx) /\ ts[t].pk \notin ToSet(ts[t].idx)

\* "Register is a one-time operation per type" (registry.go:59): a type keeps
\* its primary key and never disappears, whatever Append and Sync return.  That
\* goes for a restart too, where entries of mutations that reported an error may
\* turn up, unless the WAL went on behind an entry that an I/O error had lost.
TypesPermanent ==
    [][ up = "open" \/ ~Gap => \A t \in DOMAIN types :
            t \in DOMAIN types' /\ types'[t].pk = types[t].pk ]_vars
=============================================================================
