------------------------ MODULE SchemaRegistryProofs ------------------------
(***************************************************************************)
(* Proofs about the schema registry, for any types, paths and number of    *)
(* entries, with failing Syncs, crashes and reopenings.                    *)
(*                                                                         *)
(* RecoveryExact relates the map to one replay of the WAL; the next        *)
(* mutation needs more.  Every prefix of the WAL must replay to lists      *)
(* without duplicates (PrefixesDistinct), because a Sync that failed       *)
(* leaves entries the map does not have, and the entry being written must  *)
(* be the one behind the map (Pending, MemoryLogged).  That types stay     *)
(* rests on KeysLogged: every prefix a crash or an I/O error can leave has *)
(* the types of memory.                                                    *)
(***************************************************************************)
EXTENDS SchemaRegistry, TLAPS

-----------------------------------------------------------------------------
(* The values *)

Schemas == [pk : Paths, idx : Seq(Paths)]

Registries == UNION {[D -> Schemas] : D \in SUBSET Types}

Entries == [op : {"register", "add", "remove"}, type : Types, pk : Paths, idx : Seq(Paths)]

-----------------------------------------------------------------------------
(* Filtered *)

\* What the loop of applyRemoveIndex leaves of a list of indexes.
FilterExact(idx, path) ==
    /\ Filtered(idx, path) \in Seq(Paths)
    /\ ToSet(Filtered(idx, path)) = ToSet(idx) \ {path}
    /\ IsInjective(idx) => IsInjective(Filtered(idx, path))

\* Of no indexes nothing is left.
LEMMA FilteredEmpty ==
    ASSUME NEW path
    PROVE  Filtered(<<>>, path) = <<>>
<1>1. [i \in DOMAIN <<>> |-> IF <<>>[i] = path THEN <<>> ELSE <<<<>>[i]>>] = <<>>
  OBVIOUS
<1>2. QED
  BY <1>1, Cat!LoopEmpty DEF Filtered

\* One more index stays, unless it is the one that is removed.
LEMMA FilteredAppend ==
    ASSUME NEW idx \in Seq(Paths), NEW p \in Paths, NEW path
    PROVE  Filtered(Append(idx, p), path) =
                Filtered(idx, path) \o (IF p = path THEN <<>> ELSE <<p>>)
<1> DEFINE piece(q) == IF q = path THEN <<>> ELSE <<q>>
           pieces == [i \in DOMAIN idx |-> piece(idx[i])]
           longer == [i \in DOMAIN Append(idx, p) |-> piece(Append(idx, p)[i])]
<1>1. \A q \in Paths : piece(q) \in Seq(Paths)
  OBVIOUS
<1>2. Filtered(idx, path) = Cat!Loop(<<>>, pieces) /\ Filtered(Append(idx, p), path) = Cat!Loop(<<>>, longer)
  BY Zenon DEF Filtered
<1> HIDE DEF piece
<1>3. pieces \in Seq(Seq(Paths))
  <2>1. Len(idx) \in Nat /\ pieces \in [1 .. Len(idx) -> Seq(Paths)]
    BY <1>1
  <2> HIDE DEF pieces
  <2>2. QED
    BY <2>1
<1>4. longer = Append(pieces, piece(p))
  BY <1>1
<1>5. Cat!Loop(<<>>, Append(pieces, piece(p))) = Cat!Loop(<<>>, pieces) \o piece(p)
  BY <1>1, <1>3, Cat!LoopAppend
<1>6. QED
  BY <1>2, <1>4, <1>5 DEF piece

\* The elements of a sequence with one more.
LEMMA AppendSet ==
    ASSUME NEW T, NEW s \in Seq(T), NEW x \in T
    PROVE  ToSet(Append(s, x)) = ToSet(s) \cup {x}
<1> DEFINE t == Append(s, x)
<1>1. /\ Len(s) \in Nat /\ DOMAIN s = 1 .. Len(s) /\ DOMAIN t = 1 .. Len(s) + 1
      /\ t[Len(s) + 1] = x
      /\ \A i \in 1 .. Len(s) : t[i] = s[i]
  OBVIOUS
<1> HIDE DEF t
<1>2. ToSet(s) = {s[i] : i \in DOMAIN s} /\ ToSet(t) = {t[i] : i \in DOMAIN t}
  BY Zenon DEF ToSet
<1>3. ASSUME NEW y PROVE y \in ToSet(t) <=> y \in ToSet(s) \cup {x}
  <2>1. ASSUME y \in ToSet(t) PROVE y \in ToSet(s) \cup {x}
    <3>1. PICK i \in 1 .. Len(s) + 1 : y = t[i]
      BY <2>1, <1>1, <1>2
    <3>2. i \in 1 .. Len(s) \/ i = Len(s) + 1
      BY <3>1, <1>1
    <3>3. QED
      BY <3>1, <3>2, <1>1, <1>2
  <2>2. ASSUME y \in ToSet(s) PROVE y \in ToSet(t)
    <3>1. PICK i \in 1 .. Len(s) : y = s[i]
      BY <2>2, <1>1, <1>2
    <3>2. i \in 1 .. Len(s) + 1 /\ t[i] = y
      BY <3>1, <1>1
    <3>3. QED
      BY <3>2, <1>1, <1>2
  <2>3. x \in ToSet(t)
    <3>1. Len(s) + 1 \in 1 .. Len(s) + 1
      BY <1>1
    <3>2. QED
      BY <3>1, <1>1, <1>2
  <2>4. QED
    BY <2>1, <2>2, <2>3
<1>4. QED
  BY <1>3 DEF t

\* applyRemoveIndex takes the index away, and only that; a list without
\* repetitions stays one.
LEMMA FilteredExact ==
    ASSUME NEW idx \in Seq(Paths), NEW path
    PROVE  FilterExact(idx, path)
<1> DEFINE Bad == {n \in Nat : \E s \in Seq(Paths) : Len(s) = n /\ ~FilterExact(s, path)}
<1> SUFFICES ASSUME Bad # {} PROVE FALSE
  OBVIOUS
<1>1. PICK n \in Bad : \A m \in Bad : n <= m
  BY Cat!NatMin
<1>2. PICK s \in Seq(Paths) : Len(s) = n /\ ~FilterExact(s, path)
  BY <1>1
<1>3. CASE n = 0
  <2>1. s = <<>>
    BY <1>2, <1>3
  <2>2. FilterExact(<<>>, path)
    <3>1. <<>> \in Seq(Paths) /\ DOMAIN <<>> = {}
      OBVIOUS
    <3>2. ToSet(<<>>) = {}
      BY <3>1 DEF ToSet
    <3>3. QED
      BY FilteredEmpty, <3>1, <3>2 DEF FilterExact
  <2>3. QED
    BY <1>2, <2>1, <2>2
<1>4. CASE n # 0
  <2> DEFINE r == SubSeq(s, 1, n - 1)
             p == s[n]
  <2>1. r \in Seq(Paths) /\ Len(r) = n - 1 /\ p \in Paths /\ s = Append(r, p)
    BY <1>2, <1>4
  <2>2. FilterExact(r, path)
    <3>1. n - 1 \in Nat /\ n - 1 \notin Bad
      BY <1>1, <1>4
    <3> HIDE DEF r
    <3>2. QED
      BY <2>1, <3>1
  <2> HIDE DEF r, p
  <2> DEFINE f == Filtered(r, path)
             g == Filtered(s, path)
  <2>3. /\ f \in Seq(Paths)
        /\ ToSet(f) = ToSet(r) \ {path}
        /\ IsInjective(r) => IsInjective(f)
    BY <2>2 DEF FilterExact
  <2>4. g = f \o (IF p = path THEN <<>> ELSE <<p>>)
    BY <2>1, FilteredAppend
  <2> HIDE DEF f, g
  <2>5. ToSet(s) = ToSet(r) \cup {p}
    BY <2>1, AppendSet
  <2>6. IsInjective(s) => IsInjective(r) /\ p \notin ToSet(r)
    <3> SUFFICES ASSUME IsInjective(s) PROVE IsInjective(r) /\ p \notin ToSet(r)
      OBVIOUS
    <3>1. /\ \A i \in 1 .. Len(r) : s[i] = r[i]
          /\ s[Len(r) + 1] = p /\ DOMAIN s = 1 .. Len(r) + 1 /\ DOMAIN r = 1 .. Len(r)
          /\ Len(r) \in Nat
      BY <2>1
    <3>2. \A i, j \in DOMAIN s : s[i] = s[j] => i = j
      BY DEF IsInjective
    <3>3. IsInjective(r)
      BY <3>1, <3>2 DEF IsInjective
    <3>4. ASSUME NEW i \in DOMAIN r PROVE r[i] # p
      <4>1. i \in DOMAIN s /\ Len(r) + 1 \in DOMAIN s /\ i # Len(r) + 1 /\ s[i] = r[i]
        BY <3>1
      <4>2. s[i] # s[Len(r) + 1]
        BY <3>2, <4>1
      <4>3. QED
        BY <3>1, <4>1, <4>2
    <3>5. QED
      BY <3>3, <3>4 DEF ToSet
  <2>7. CASE p = path
    <3>1. g = f
      BY <2>3, <2>4, <2>7
    <3>2. ToSet(g) = ToSet(s) \ {path}
      BY <3>1, <2>3, <2>5, <2>7
    <3>3. QED
      BY <1>2, <3>1, <3>2, <2>3, <2>6 DEF FilterExact, g
  <2>8. CASE p # path
    <3>1. g = Append(f, p) /\ g \in Seq(Paths)
      BY <2>1, <2>3, <2>4, <2>8
    <3>2. ToSet(g) = ToSet(f) \cup {p}
      BY <3>1, <2>1, <2>3, AppendSet
    <3>3. ToSet(g) = ToSet(s) \ {path}
      BY <3>2, <2>3, <2>5, <2>8
    <3>4. IsInjective(s) => IsInjective(g)
      <4> SUFFICES ASSUME IsInjective(s) PROVE IsInjective(g)
        OBVIOUS
      <4>1. IsInjective(f) /\ p \notin ToSet(f)
        BY <2>3, <2>6
      <4>2. /\ \A i \in 1 .. Len(f) : g[i] = f[i]
            /\ g[Len(f) + 1] = p /\ DOMAIN g = 1 .. Len(f) + 1 /\ DOMAIN f = 1 .. Len(f)
            /\ Len(f) \in Nat
        BY <3>1, <2>1, <2>3
      <4>3. \A i \in DOMAIN f : f[i] # p
        BY <4>1 DEF ToSet
      <4>4. \A i, j \in DOMAIN f : f[i] = f[j] => i = j
        BY <4>1 DEF IsInjective
      <4> HIDE DEF g
      <4>5. ASSUME NEW i \in DOMAIN g, NEW j \in DOMAIN g, g[i] = g[j] PROVE i = j
        <5>1. /\ i \in DOMAIN f \/ i = Len(f) + 1
              /\ j \in DOMAIN f \/ j = Len(f) + 1
          BY <4>2
        <5>2. \A k \in DOMAIN f : g[k] = f[k]
          BY <4>2
        <5>3. QED
          BY <4>2, <4>3, <4>4, <4>5, <5>1, <5>2
      <4>6. QED
        BY <4>5 DEF IsInjective
    <3>5. QED
      BY <1>2, <3>1, <3>3, <3>4 DEF FilterExact, g
  <2>9. QED
    BY <2>7, <2>8
<1>5. QED
  BY <1>3, <1>4

-----------------------------------------------------------------------------
(* Apply *)

\* No schema has an index twice, or its primary key as an index.
Distinct(ts) ==
    \A t \in DOMAIN ts : IsInjective(ts[t].idx) /\ ts[t].pk \notin ToSet(ts[t].idx)

\* An entry that may be applied to ts: the checks of its mutation that the
\* schema depends on would let it pass.
Fits(ts, e) ==
    /\ e.op = "register" => IsInjective(e.idx) /\ e.pk \notin ToSet(e.idx)
    /\ e.op = "add" => /\ e.idx = <<e.pk>>
                       /\ e.type \in DOMAIN ts => e.pk # ts[e.type].pk

\* A registry, by its domain and its values.
LEMMA RegistryParts ==
    ASSUME NEW ts
    PROVE  ts \in Registries <=>
              /\ ts = [t \in DOMAIN ts |-> ts[t]]
              /\ DOMAIN ts \subseteq Types
              /\ \A t \in DOMAIN ts : ts[t] \in Schemas
<1>1. ASSUME ts \in Registries
      PROVE  /\ ts = [t \in DOMAIN ts |-> ts[t]]
             /\ DOMAIN ts \subseteq Types
             /\ \A t \in DOMAIN ts : ts[t] \in Schemas
  <2>1. PICK D \in SUBSET Types : ts \in [D -> Schemas]
    BY <1>1 DEF Registries
  <2>2. QED
    BY <2>1
<1>2. ASSUME ts = [t \in DOMAIN ts |-> ts[t]], DOMAIN ts \subseteq Types,
             \A t \in DOMAIN ts : ts[t] \in Schemas
      PROVE  ts \in Registries
  <2>1. ts \in [DOMAIN ts -> Schemas]
    BY <1>2
  <2>2. QED
    BY <1>2, <2>1 DEF Registries
<1>3. QED
  BY <1>1, <1>2

\* What one entry changes: the schema of its type, and nothing else.
Changes(ts, us, e, s) ==
    /\ us \in Registries
    /\ DOMAIN us = DOMAIN ts \cup {e.type}
    /\ us[e.type] = s
    /\ s \in Schemas
    /\ \A t \in DOMAIN ts : t # e.type => us[t] = ts[t]

\* A REGISTER entry, however often it is applied, leaves its own schema.
LEMMA RegisterChanges ==
    ASSUME NEW ts \in Registries, NEW e \in Entries, e.op = "register"
    PROVE  Changes(ts, Apply(ts, e), e, [pk |-> e.pk, idx |-> e.idx])
<1> DEFINE s == [pk |-> e.pk, idx |-> e.idx]
           us == [u \in DOMAIN ts \cup {e.type} |-> IF u = e.type THEN s ELSE ts[u]]
<1>1. s \in Schemas /\ e.type \in Types
  BY DEF Entries, Schemas
<1>2. Apply(ts, e) = us
  BY DEF Apply, ApplyRegister, Put, Schema
<1> HIDE DEF s
<1>3. DOMAIN ts \subseteq Types /\ \A t \in DOMAIN ts : ts[t] \in Schemas
  BY RegistryParts
<1>4. us \in Registries
  <2>1. us \in [DOMAIN ts \cup {e.type} -> Schemas]
    BY <1>1, <1>3
  <2>2. QED
    BY <2>1, <1>1, <1>3 DEF Registries
<1>5. Changes(ts, us, e, s)
  BY <1>1, <1>4 DEF Changes
<1>6. QED
  BY <1>2, <1>5 DEF s

\* An ADD_INDEX entry appends its path to a schema that has not got it.
LEMMA AddChanges ==
    ASSUME NEW ts \in Registries, NEW e \in Entries, e.op = "add", e.type \in DOMAIN ts,
           ~HasIndex(ts[e.type], e.pk)
    PROVE  Changes(ts, Apply(ts, e), e, [pk |-> ts[e.type].pk, idx |-> ts[e.type].idx \o e.idx])
<1> DEFINE s == [pk |-> ts[e.type].pk, idx |-> ts[e.type].idx \o e.idx]
           us == [ts EXCEPT ![e.type] = s]
<1>1. ts = [t \in DOMAIN ts |-> ts[t]] /\ DOMAIN ts \subseteq Types /\ \A t \in DOMAIN ts : ts[t] \in Schemas
  BY RegistryParts
<1>2. s \in Schemas
  BY <1>1 DEF Entries, Schemas
<1>3. Apply(ts, e) = us
  <2>1. Apply(ts, e) = [ts EXCEPT ![e.type].idx = @ \o e.idx]
    BY DEF Apply, ApplyAddIndex
  <2>2. [ts[e.type] EXCEPT !.idx = @ \o e.idx] = s
    <3> DEFINE r == ts[e.type]
               j == r.idx \o e.idx
    <3>1. r = [pk |-> r.pk, idx |-> r.idx]
      BY <1>1 DEF Schemas
    <3> HIDE DEF r, j
    <3>2. [r EXCEPT !.idx = j] = [pk |-> r.pk, idx |-> j]
      BY <3>1
    <3>3. QED
      BY <3>2 DEF r, j
  <2>3. QED
    BY <2>1, <2>2
<1> HIDE DEF s
<1>4. us \in [DOMAIN ts -> Schemas]
  BY <1>1, <1>2
<1>5. us \in Registries
  BY <1>1, <1>4 DEF Registries
<1>6. Changes(ts, us, e, s)
  BY <1>1, <1>2, <1>5 DEF Changes
<1>7. QED
  BY <1>3, <1>6 DEF s

\* A REMOVE_INDEX entry filters the indexes of its type.
LEMMA RemoveChanges ==
    ASSUME NEW ts \in Registries, NEW e \in Entries, e.op = "remove", e.type \in DOMAIN ts
    PROVE  Changes(ts, Apply(ts, e), e,
                   [pk |-> ts[e.type].pk, idx |-> Filtered(ts[e.type].idx, e.pk)])
<1> DEFINE f == Filtered(ts[e.type].idx, e.pk)
           s == [pk |-> ts[e.type].pk, idx |-> f]
           us == [ts EXCEPT ![e.type] = s]
<1>1. ts = [t \in DOMAIN ts |-> ts[t]] /\ DOMAIN ts \subseteq Types /\ \A t \in DOMAIN ts : ts[t] \in Schemas
  BY RegistryParts
<1>2. f \in Seq(Paths)
  <2>1. ts[e.type].idx \in Seq(Paths)
    BY <1>1 DEF Schemas
  <2>2. FilterExact(ts[e.type].idx, e.pk)
    BY <2>1, FilteredExact
  <2>3. QED
    BY <2>2 DEF FilterExact
<1>3. Apply(ts, e) = us
  <2>1. Apply(ts, e) = [ts EXCEPT ![e.type].idx = Filtered(@, e.pk)]
    BY DEF Apply, ApplyRemoveIndex
  <2>2. [ts[e.type] EXCEPT !.idx = f] = s
    BY <1>1 DEF Schemas
  <2>3. QED
    BY <2>1, <2>2
<1> HIDE DEF f
<1>4. s \in Schemas
  BY <1>1, <1>2 DEF Schemas
<1> HIDE DEF s
<1>5. us \in [DOMAIN ts -> Schemas]
  BY <1>1, <1>4
<1>6. us \in Registries
  BY <1>1, <1>5 DEF Registries
<1>7. Changes(ts, us, e, s)
  BY <1>1, <1>4, <1>6 DEF Changes
<1>8. QED
  BY <1>3, <1>7 DEF s, f

\* An entry changes the schema of its type in one of three ways, or nothing.
LEMMA ApplyCases ==
    ASSUME NEW ts \in Registries, NEW e \in Entries
    PROVE  \/ e.op # "register" /\ Apply(ts, e) = ts
           \/ e.op = "register" /\ Changes(ts, Apply(ts, e), e, [pk |-> e.pk, idx |-> e.idx])
           \/ /\ e.op = "add" /\ e.type \in DOMAIN ts /\ ~HasIndex(ts[e.type], e.pk)
              /\ Changes(ts, Apply(ts, e), e, [pk |-> ts[e.type].pk, idx |-> ts[e.type].idx \o e.idx])
           \/ /\ e.op = "remove" /\ e.type \in DOMAIN ts
              /\ Changes(ts, Apply(ts, e), e,
                         [pk |-> ts[e.type].pk, idx |-> Filtered(ts[e.type].idx, e.pk)])
<1>1. e.op \in {"register", "add", "remove"}
  BY DEF Entries
<1>2. CASE e.op = "register"
  BY <1>2, RegisterChanges
<1>3. CASE e.op = "add" /\ e.type \in DOMAIN ts /\ ~HasIndex(ts[e.type], e.pk)
  BY <1>3, AddChanges
<1>4. CASE e.op = "add" /\ ~(e.type \in DOMAIN ts /\ ~HasIndex(ts[e.type], e.pk))
  BY <1>4 DEF Apply, ApplyAddIndex
<1>5. CASE e.op = "remove" /\ e.type \in DOMAIN ts
  BY <1>5, RemoveChanges
<1>6. CASE e.op = "remove" /\ e.type \notin DOMAIN ts
  BY <1>6 DEF Apply, ApplyRemoveIndex
<1>7. QED
  BY <1>1, <1>2, <1>3, <1>4, <1>5, <1>6

\* Applying an entry gives a registry in which the type of a REGISTER entry has
\* the entry's primary key, and every other type is there with the one it had.
LEMMA ApplyKeeps ==
    ASSUME NEW ts \in Registries, NEW e \in Entries
    PROVE  /\ Apply(ts, e) \in Registries
           /\ DOMAIN ts \subseteq DOMAIN Apply(ts, e)
           /\ e.op = "register" => e.type \in DOMAIN Apply(ts, e) /\ Apply(ts, e)[e.type].pk = e.pk
           /\ \A t \in DOMAIN ts :
                e.op # "register" \/ t # e.type => Apply(ts, e)[t].pk = ts[t].pk
<1> DEFINE us == Apply(ts, e)
<1>1. CASE e.op # "register" /\ us = ts
  BY <1>1
<1>2. CASE e.op = "register" /\ Changes(ts, us, e, [pk |-> e.pk, idx |-> e.idx])
  BY <1>2 DEF Changes
<1>3. ASSUME e.op # "register", NEW i, e.type \in DOMAIN ts,
             Changes(ts, us, e, [pk |-> ts[e.type].pk, idx |-> i])
      PROVE  /\ us \in Registries
             /\ DOMAIN ts \subseteq DOMAIN us
             /\ \A t \in DOMAIN ts : us[t].pk = ts[t].pk
  <2> HIDE DEF us
  <2>1. us[e.type].pk = ts[e.type].pk
    BY <1>3 DEF Changes
  <2>2. QED
    BY <1>3, <2>1 DEF Changes
<1>4. QED
  <2> HIDE DEF us
  <2>1. \/ e.op # "register" /\ us = ts
        \/ e.op = "register" /\ Changes(ts, us, e, [pk |-> e.pk, idx |-> e.idx])
        \/ e.op # "register" /\ e.type \in DOMAIN ts
           /\ \E i : Changes(ts, us, e, [pk |-> ts[e.type].pk, idx |-> i])
    BY ApplyCases DEF us
  <2>2. QED
    BY <1>1, <1>2, <1>3, <2>1 DEF us

\* An entry that fits leaves the indexes distinct: a repeated ADD_INDEX is
\* skipped, a removal takes one away.
LEMMA ApplyDistinct ==
    ASSUME NEW ts \in Registries, NEW e \in Entries, Distinct(ts), Fits(ts, e)
    PROVE  Distinct(Apply(ts, e))
<1> DEFINE us == Apply(ts, e)
<1> HIDE DEF us
<1>0. \A t \in DOMAIN ts : ts[t].idx \in Seq(Paths)
  BY RegistryParts DEF Schemas
<1>1. ASSUME NEW s, Changes(ts, us, e, s), IsInjective(s.idx), s.pk \notin ToSet(s.idx)
      PROVE  Distinct(us)
  <2>1. ASSUME NEW t \in DOMAIN us
        PROVE  IsInjective(us[t].idx) /\ us[t].pk \notin ToSet(us[t].idx)
    <3>1. CASE t = e.type
      BY <1>1, <3>1 DEF Changes
    <3>2. CASE t # e.type
      <4>1. t \in DOMAIN ts /\ us[t] = ts[t]
        BY <1>1, <3>2 DEF Changes
      <4>2. QED
        BY <4>1 DEF Distinct
    <3>3. QED
      BY <3>1, <3>2
  <2>2. QED
    BY <2>1 DEF Distinct
<1>2. CASE us = ts
  BY <1>2 DEF us
<1>3. CASE e.op = "register" /\ Changes(ts, us, e, [pk |-> e.pk, idx |-> e.idx])
  <2>1. IsInjective(e.idx) /\ e.pk \notin ToSet(e.idx)
    BY <1>3 DEF Fits
  <2>2. Distinct(us)
    BY <1>1, <1>3, <2>1
  <2>3. QED
    BY <2>2 DEF us
<1>4. CASE /\ e.op = "add" /\ e.type \in DOMAIN ts /\ ~HasIndex(ts[e.type], e.pk)
           /\ Changes(ts, us, e, [pk |-> ts[e.type].pk, idx |-> ts[e.type].idx \o e.idx])
  <2> DEFINE r == ts[e.type].idx
             p == e.pk
             g == r \o e.idx
  <2>1. e.idx = <<p>> /\ p # ts[e.type].pk /\ p \in Paths
    BY <1>4 DEF Fits, Entries
  <2>2. r \in Seq(Paths) /\ p \notin ToSet(r) /\ IsInjective(r) /\ ts[e.type].pk \notin ToSet(r)
    BY <1>0, <1>4 DEF HasIndex, Distinct
  <2> HIDE DEF r, p
  <2>3. g = Append(r, p)
    BY <2>1, <2>2
  <2>4. ts[e.type].pk \notin ToSet(g)
    <3> HIDE DEF g
    <3>1. ToSet(g) = ToSet(r) \cup {p}
      BY <2>1, <2>2, <2>3, AppendSet
    <3>2. QED
      BY <2>1, <2>2, <3>1
  <2>5. IsInjective(g)
    <3> HIDE DEF g
    <3>1. /\ \A i \in 1 .. Len(r) : g[i] = r[i]
          /\ g[Len(r) + 1] = p /\ DOMAIN g = 1 .. Len(r) + 1 /\ DOMAIN r = 1 .. Len(r)
          /\ Len(r) \in Nat
      BY <2>1, <2>2, <2>3
    <3>2. \A i \in DOMAIN r : r[i] # p
      BY <2>2 DEF ToSet
    <3>3. \A i, j \in DOMAIN r : r[i] = r[j] => i = j
      BY <2>2 DEF IsInjective
    <3>4. QED
      BY <3>1, <3>2, <3>3 DEF IsInjective
  <2>6. Changes(ts, us, e, [pk |-> ts[e.type].pk, idx |-> g])
    BY <1>4 DEF r
  <2> HIDE DEF g
  <2>7. Distinct(us)
    BY <1>1, <2>4, <2>5, <2>6
  <2>8. QED
    BY <2>7 DEF us
<1>5. CASE /\ e.op = "remove" /\ e.type \in DOMAIN ts
           /\ Changes(ts, us, e, [pk |-> ts[e.type].pk, idx |-> Filtered(ts[e.type].idx, e.pk)])
  <2> DEFINE r == ts[e.type].idx
             f == Filtered(r, e.pk)
  <2>1. FilterExact(r, e.pk)
    BY <1>0, <1>5, FilteredExact
  <2>2. IsInjective(r) /\ ts[e.type].pk \notin ToSet(r)
    BY <1>5 DEF Distinct
  <2>3. IsInjective(f) /\ ts[e.type].pk \notin ToSet(f)
    BY <2>1, <2>2 DEF FilterExact
  <2> HIDE DEF f
  <2>4. Changes(ts, us, e, [pk |-> ts[e.type].pk, idx |-> f])
    BY <1>5 DEF f
  <2>5. Distinct(us)
    BY <1>1, <2>3, <2>4
  <2>6. QED
    BY <2>5 DEF us
<1>6. QED
  BY <1>2, <1>3, <1>4, <1>5, ApplyCases DEF us

-----------------------------------------------------------------------------
(* Replay *)

\* A recovery from an empty WAL finds no type.
LEMMA ReplayEmpty == Replay(<<>>) = <<>> /\ Replay(<<>>) \in Registries
<1>1. Replay(<<>>) = <<>>
  BY Recover!LoopEmpty DEF Replay
<1>2. <<>> \in [{} -> Schemas]
  OBVIOUS
<1>3. QED
  BY <1>1, <1>2 DEF Registries

\* A recovery from one more entry applies it to what the others gave.
LEMMA ReplayAppend ==
    ASSUME NEW s \in Seq(Entries), NEW e \in Entries
    PROVE  Replay(Append(s, e)) = Apply(Replay(s), e)
  BY Recover!LoopAppend DEF Replay

\* A recovery always gives a registry.
LEMMA ReplayType ==
    ASSUME NEW s \in Seq(Entries)
    PROVE  Replay(s) \in Registries
<1> DEFINE Bad == {n \in Nat : \E r \in Seq(Entries) : Len(r) = n /\ Replay(r) \notin Registries}
<1> SUFFICES ASSUME Bad # {} PROVE FALSE
  OBVIOUS
<1>1. PICK n \in Bad : \A m \in Bad : n <= m
  BY Cat!NatMin
<1>2. PICK r \in Seq(Entries) : Len(r) = n /\ Replay(r) \notin Registries
  BY <1>1
<1>3. CASE n = 0
  <2>1. r = <<>>
    BY <1>2, <1>3
  <2>2. QED
    BY <1>2, <2>1, ReplayEmpty
<1>4. CASE n # 0
  <2> DEFINE q == SubSeq(r, 1, n - 1)
             e == r[n]
  <2>1. q \in Seq(Entries) /\ Len(q) = n - 1 /\ e \in Entries /\ r = Append(q, e)
    BY <1>2, <1>4
  <2> HIDE DEF q, e
  <2>2. n - 1 \in Nat /\ n - 1 \notin Bad
    BY <1>1, <1>4
  <2>3. Replay(q) \in Registries
    BY <2>1, <2>2
  <2>4. Replay(r) = Apply(Replay(q), e)
    BY <2>1, ReplayAppend
  <2>5. QED
    BY <1>2, <2>1, <2>3, <2>4, ApplyKeeps
<1>5. QED
  BY <1>3, <1>4

-----------------------------------------------------------------------------
(* The invariant *)

RegistryType ==
    /\ up \in {"open", "closed", "down"}
    /\ types \in Registries
    /\ current \in Seq(Entries) /\ Len(current) <= 1
    /\ log \in Seq(Entries) /\ Len(log) <= MaxLog
    /\ durable \in 0 .. Len(log)
    /\ broken \in 0 .. MaxLog + 1
    /\ unsure \in BOOLEAN
    /\ crashes \in 0 .. MaxCrashes

\* The mutation that holds r.mu has its entry at the end of the WAL, and its
\* checks still hold.
Pending ==
    /\ current # <<>> =>
        /\ up = "open"
        /\ log # <<>> /\ log[Len(log)] = current[1]
        /\ Fits(types, current[1])
        /\ current[1].op = "register" => current[1].type \notin DOMAIN types
    /\ up # "open" => durable = Len(log)

\* A recovery from any prefix of the WAL gives distinct indexes, and so does
\* memory: a crash may leave any of the prefixes.
PrefixesDistinct ==
    /\ Distinct(types)
    /\ \A n \in 0 .. Len(log) : Distinct(Replay(SubSeq(log, 1, n)))

\* The types of ts are in us, with the same primary keys.
KeepsKeys(ts, us) == \A t \in DOMAIN ts : t \in DOMAIN us /\ us[t].pk = ts[t].pk

\* A type in memory is in the WAL too, with the same primary key, whatever failed
\* mutations have left there and wherever it is cut behind the durable entries.
KeysLogged ==
    \A n \in durable .. Len(log) : KeepsKeys(types, Replay(SubSeq(log, 1, n)))

\* As long as the WAL has returned no error, memory is what the settled entries give, and
\* exactly those are durable.
MemoryLogged ==
    up = "open" /\ ~unsure => types = Replay(Settled) /\ durable = Len(Settled)

Inv ==
    /\ RegistryType
    /\ Pending
    /\ PrefixesDistinct
    /\ KeysLogged
    /\ MemoryLogged

-----------------------------------------------------------------------------
(* The steps *)

\* The registry starts empty.
LEMMA InitInv == Init => Inv
<1> SUFFICES ASSUME Init PROVE Inv
  OBVIOUS
<1>1. RegistryType
  <2>1. types \in Registries
    BY ReplayEmpty DEF Init
  <2>2. unsure \in BOOLEAN
    BY DEF Init
  <2>3. /\ current \in Seq(Entries) /\ Len(current) <= 1
        /\ log \in Seq(Entries) /\ Len(log) <= MaxLog
        /\ durable \in 0 .. Len(log) /\ broken \in 0 .. MaxLog + 1 /\ crashes \in 0 .. MaxCrashes
    BY RegistryBoundsAssumption DEF Init
  <2>4. up \in {"open", "closed", "down"}
    BY DEF Init
  <2>5. QED
    BY <2>1, <2>2, <2>3, <2>4 DEF RegistryType
<1>2. Pending
  BY DEF Init, Pending
<1>3. DOMAIN types = {}
  BY DEF Init
<1>4. PrefixesDistinct
  <2>1. ASSUME NEW n \in 0 .. Len(log) PROVE SubSeq(log, 1, n) = <<>>
    BY DEF Init
  <2>2. QED
    BY <2>1, <1>3, ReplayEmpty DEF Init, PrefixesDistinct, Distinct
<1>5. KeysLogged
  BY <1>3 DEF KeysLogged, KeepsKeys
<1>6. Settled = <<>> /\ Len(Settled) = 0
  BY DEF Init, Settled
<1>7. MemoryLogged
  BY <1>6, ReplayEmpty DEF Init, MemoryLogged
<1>8. QED
  BY <1>1, <1>2, <1>4, <1>5, <1>7 DEF Inv

\* The mutations append entries whose checks hold in memory.
LEMMA MutationFits ==
    ASSUME NEW e, RegistryType,
           \/ \E t \in Types, pk \in Paths, idx \in IndexLists :
                e = Register(t, pk, idx) /\ MayRegister(e)
           \/ \E t \in Types, path \in Paths : e = AddIndex(t, path) /\ MayAddIndex(e)
           \/ \E t \in Types, path \in Paths : e = RemoveIndex(t, path) /\ MayRemoveIndex(e)
    PROVE  /\ e \in Entries
           /\ Fits(types, e)
           /\ e.op = "register" => e.type \notin DOMAIN types
           /\ e.op # "register" => e.type \in DOMAIN types
<1>1. ASSUME NEW t \in Types, NEW pk \in Paths, NEW idx \in IndexLists,
             e = Register(t, pk, idx), MayRegister(e)
      PROVE  /\ e \in Entries
             /\ Fits(types, e)
             /\ e.op = "register" => e.type \notin DOMAIN types
             /\ e.op # "register" => e.type \in DOMAIN types
  <2>1. idx \in Seq(Paths)
    BY DEF IndexLists
  <2>2. e = [op |-> "register", type |-> t, pk |-> pk, idx |-> idx]
    BY <1>1 DEF Register
  <2>3. e \in Entries
    BY <2>1, <2>2 DEF Entries
  <2>4. IsInjective(e.idx) /\ e.pk \notin ToSet(e.idx) /\ e.type \notin DOMAIN types
    BY <1>1, <2>2 DEF MayRegister, Validate, Schema
  <2>5. QED
    BY <2>2, <2>3, <2>4 DEF Fits
<1>2. ASSUME NEW t \in Types, NEW path \in Paths, e = AddIndex(t, path), MayAddIndex(e)
      PROVE  /\ e \in Entries
             /\ Fits(types, e)
             /\ e.op = "register" => e.type \notin DOMAIN types
             /\ e.op # "register" => e.type \in DOMAIN types
  <2>1. <<path>> \in Seq(Paths)
    OBVIOUS
  <2>2. e = [op |-> "add", type |-> t, pk |-> path, idx |-> <<path>>]
    BY <1>2 DEF AddIndex
  <2>3. e \in Entries
    BY <2>1, <2>2 DEF Entries
  <2>4. QED
    BY <1>2, <2>2, <2>3 DEF Fits, MayAddIndex
<1>3. ASSUME NEW t \in Types, NEW path \in Paths, e = RemoveIndex(t, path), MayRemoveIndex(e)
      PROVE  /\ e \in Entries
             /\ Fits(types, e)
             /\ e.op = "register" => e.type \notin DOMAIN types
             /\ e.op # "register" => e.type \in DOMAIN types
  <2>1. <<path>> \in Seq(Paths)
    OBVIOUS
  <2>2. e = [op |-> "remove", type |-> t, pk |-> path, idx |-> <<path>>]
    BY <1>3 DEF RemoveIndex
  <2>3. e \in Entries
    BY <2>1, <2>2 DEF Entries
  <2>4. QED
    BY <1>3, <2>2, <2>3 DEF Fits, MayRemoveIndex
<1>4. QED
  BY <1>1, <1>2, <1>3

\* Append: the entry is at the end of the WAL, memory is as before.
LEMMA BeginInv ==
    ASSUME Inv, NEW e \in Entries, Begin(e), Fits(types, e),
           e.op = "register" => e.type \notin DOMAIN types,
           e.op # "register" => e.type \in DOMAIN types
    PROVE  Inv'
<1> DEFINE rep == Replay(log)
<1>1. /\ RegistryType /\ Pending /\ PrefixesDistinct /\ KeysLogged /\ MemoryLogged
  BY DEF Inv
<1>2. /\ up = "open" /\ current = <<>> /\ Len(log) < MaxLog
      /\ log' = Append(log, e) /\ current' = <<e>>
      /\ UNCHANGED <<up, types, durable, broken, unsure, crashes>>
  BY DEF Begin
<1>3. /\ log \in Seq(Entries) /\ Len(log) \in Nat
      /\ Len(log') = Len(log) + 1 /\ log'[Len(log')] = e /\ log' \in Seq(Entries)
      /\ Len(current') = 1 /\ current' \in Seq(Entries) /\ current'[1] = e /\ log' # <<>>
  BY <1>1, <1>2 DEF RegistryType
<1>4. rep \in Registries /\ Replay(log') = Apply(rep, e)
  BY <1>2, <1>3, ReplayType, ReplayAppend
<1>5. RegistryType'
  BY <1>1, <1>2, <1>3, RegistryBoundsAssumption DEF RegistryType
<1>6. Pending'
  <2>1. Fits(types', e)
    BY <1>2
  <2>2. QED
    BY <1>2, <1>3, <2>1 DEF Pending
<1>7. \A t \in DOMAIN types : t \in DOMAIN rep /\ rep[t].pk = types[t].pk
  <2>1. Len(log) \in durable .. Len(log) /\ SubSeq(log, 1, Len(log)) = log
    BY <1>1, <1>3 DEF RegistryType
  <2>2. QED
    BY <1>1, <2>1 DEF KeysLogged, KeepsKeys
<1>8. PrefixesDistinct'
  <2>1. SubSeq(log, 1, Len(log)) = log
    BY <1>3
  <2>2. Distinct(rep)
    <3>1. Len(log) \in 0 .. Len(log)
      BY <1>3
    <3>2. QED
      BY <1>1, <2>1, <3>1 DEF PrefixesDistinct
  <2>3. Fits(rep, e)
    <3>1. e.op = "add" => e.pk # rep[e.type].pk
      BY <1>7 DEF Fits
    <3>2. QED
      BY <3>1 DEF Fits
  <2>4. Distinct(Replay(log'))
    BY <1>4, <2>2, <2>3, ApplyDistinct
  <2>5. ASSUME NEW n \in 0 .. Len(log') PROVE Distinct(Replay(SubSeq(log', 1, n)))
    <3>1. CASE n = Len(log')
      <4>1. SubSeq(log', 1, n) = log'
        BY <1>3, <3>1
      <4>2. QED
        BY <2>4, <4>1
    <3>2. CASE n # Len(log')
      <4>1. n \in 0 .. Len(log)
        BY <1>3, <3>2
      <4>2. SubSeq(log', 1, n) = SubSeq(log, 1, n)
        BY <1>2, <1>3, <4>1
      <4>3. QED
        BY <1>1, <4>1, <4>2 DEF PrefixesDistinct
    <3>3. QED
      BY <3>1, <3>2
  <2>6. Distinct(types')
    BY <1>1, <1>2 DEF PrefixesDistinct
  <2>7. QED
    BY <2>5, <2>6 DEF PrefixesDistinct
<1>9. KeysLogged'
  <2>1. ASSUME NEW t \in DOMAIN types
        PROVE  t \in DOMAIN Apply(rep, e) /\ Apply(rep, e)[t].pk = types[t].pk
    <3>1. t \in DOMAIN rep /\ rep[t].pk = types[t].pk
      BY <1>7
    <3>2. e.op # "register" \/ t # e.type
      OBVIOUS
    <3>3. QED
      BY <1>4, <3>1, <3>2, ApplyKeeps
  <2>2. ASSUME NEW n \in durable .. Len(log')
        PROVE  KeepsKeys(types, Replay(SubSeq(log', 1, n)))
    <3>1. CASE n = Len(log')
      <4>1. SubSeq(log', 1, n) = log'
        BY <1>3, <3>1
      <4>2. QED
        BY <1>4, <2>1, <4>1 DEF KeepsKeys
    <3>2. CASE n # Len(log')
      <4>1. durable \in Nat
        BY <1>1, <1>3 DEF RegistryType
      <4>2. n \in durable .. Len(log)
        BY <1>3, <3>2, <4>1
      <4>3. SubSeq(log', 1, n) = SubSeq(log, 1, n)
        BY <1>2, <1>3, <4>1, <4>2
      <4>4. QED
        BY <1>1, <4>2, <4>3 DEF KeysLogged
    <3>3. QED
      BY <3>1, <3>2
  <2>3. QED
    BY <1>2, <2>2 DEF KeysLogged
<1>10. MemoryLogged'
  <2>1. Settled = log
    BY <1>2, <1>3 DEF Settled
  <2>2. Settled' = log
    <3>1. Settled' = SubSeq(log', 1, Len(log') - Len(current'))
      BY DEF Settled
    <3>2. QED
      BY <3>1, <1>2, <1>3
  <2>3. QED
    BY <1>1, <1>2, <2>1, <2>2 DEF MemoryLogged
<1>11. QED
  BY <1>5, <1>6, <1>8, <1>9, <1>10 DEF Inv

\* A range from a number to itself.
LEMMA OneInRange == \A m \in Nat : \A n \in m .. m : n = m
  OBVIOUS

\* The mutation returns: its entry is durable and applied.
LEMMA CommitInv ==
    ASSUME Inv, Commit
    PROVE  Inv' /\ \A t \in DOMAIN types : t \in DOMAIN types' /\ types'[t].pk = types[t].pk
<1> DEFINE e == current[1]
           front == SubSeq(log, 1, Len(log) - 1)
<1>1. /\ RegistryType /\ Pending /\ PrefixesDistinct /\ KeysLogged /\ MemoryLogged
  BY DEF Inv
<1>2. /\ current # <<>> /\ durable' = Len(log) /\ types' = Apply(types, e) /\ current' = <<>>
      /\ UNCHANGED <<up, log, broken, unsure, crashes>>
  BY DEF Commit
<1>3. /\ log \in Seq(Entries) /\ Len(log) \in Nat /\ log # <<>> /\ log[Len(log)] = e
      /\ up = "open" /\ Fits(types, e)
      /\ e.op = "register" => e.type \notin DOMAIN types
      /\ Len(current) = 1 /\ e \in Entries
      /\ types \in Registries
  <2>1. log \in Seq(Entries) /\ Len(log) \in Nat /\ types \in Registries
    BY <1>1 DEF RegistryType
  <2>2. current \in Seq(Entries) /\ Len(current) <= 1
    BY <1>1 DEF RegistryType
  <2>3. Len(current) = 1 /\ e \in Entries
    <3>1. Len(current) = 0 => current = <<>>
      BY <2>2
    <3>2. Len(current) = 1
      <4>1. Len(current) \in Nat /\ Len(current) <= 1
        BY <2>2
      <4>2. Len(current) # 0
        BY <1>2, <3>1
      <4>3. Len(current) = 0 \/ Len(current) = 1
        BY <4>1
      <4>4. QED
        BY <4>2, <4>3
    <3>3. QED
      BY <2>2, <3>2
  <2>4. /\ log # <<>> /\ log[Len(log)] = e /\ up = "open" /\ Fits(types, e)
        /\ e.op = "register" => e.type \notin DOMAIN types
    BY <1>1, <1>2 DEF Pending
  <2>5. QED
    BY <2>1, <2>3, <2>4
<1>4. log = Append(front, e) /\ front \in Seq(Entries) /\ Settled = front
  BY <1>3 DEF Settled
<1> HIDE DEF e, front
<1>5. Replay(log) = Apply(Replay(front), e) /\ Replay(front) \in Registries
      /\ Replay(log) \in Registries
  BY <1>3, <1>4, ReplayAppend, ReplayType
<1>6. /\ types' \in Registries
      /\ \A t \in DOMAIN types : t \in DOMAIN types' /\ types'[t].pk = types[t].pk
  <2>1. \A t \in DOMAIN types : e.op # "register" \/ t # e.type
    BY <1>3
  <2>2. QED
    BY <1>2, <1>3, <2>1, ApplyKeeps
<1>7. RegistryType'
  BY <1>1, <1>2, <1>3, <1>6 DEF RegistryType
<1>8. Pending'
  BY <1>2, <1>3 DEF Pending
<1>9. PrefixesDistinct'
  <2>1. Distinct(types')
    BY <1>1, <1>2, <1>3, ApplyDistinct DEF PrefixesDistinct
  <2>2. QED
    BY <1>1, <1>2, <2>1 DEF PrefixesDistinct
<1>10. KeysLogged'
  <2>. SubSeq(log, 1, Len(log)) = log
    BY <1>3
  <2>0. KeepsKeys(types, Replay(log))
    <3>1. Len(log) \in durable .. Len(log)
      BY <1>1, <1>3 DEF RegistryType
    <3>2. QED
      BY <1>1, <3>1 DEF KeysLogged
  <2>1. ASSUME NEW t \in DOMAIN types'
        PROVE  t \in DOMAIN Replay(log) /\ Replay(log)[t].pk = types'[t].pk
    <3>1. CASE t \in DOMAIN types
      BY <3>1, <1>6, <2>0 DEF KeepsKeys
    <3>2. CASE t \notin DOMAIN types
      <4>1. e.op = "register" /\ t = e.type
        <5>1. \/ e.op # "register" /\ types' = types
              \/ e.op = "register" /\ DOMAIN types' = DOMAIN types \cup {e.type}
              \/ e.type \in DOMAIN types /\ DOMAIN types' = DOMAIN types \cup {e.type}
          BY <1>2, <1>3, ApplyCases DEF Changes
        <5>2. QED
          BY <5>1, <3>2
      <4>2. types'[t].pk = e.pk
        BY <1>2, <1>3, <4>1, ApplyKeeps
      <4>3. t \in DOMAIN Replay(log) /\ Replay(log)[t].pk = e.pk
        <5> DEFINE rep == Replay(front)
        <5> HIDE DEF rep
        <5>1. rep \in Registries /\ Replay(log) = Apply(rep, e)
          BY <1>5 DEF rep
        <5>2. e.type \in DOMAIN Apply(rep, e) /\ Apply(rep, e)[e.type].pk = e.pk
          BY <5>1, <1>3, <4>1, ApplyKeeps
        <5>3. QED
          BY <5>1, <5>2, <4>1
      <4>4. QED
        BY <4>2, <4>3
    <3>3. QED
      BY <3>1, <3>2
  <2>2. KeepsKeys(types', Replay(log))
    BY <2>1 DEF KeepsKeys
  <2>3. \A n \in Len(log) .. Len(log) : n = Len(log)
    BY <1>3, OneInRange
  <2>4. QED
    BY <1>2, <2>2, <2>3 DEF KeysLogged
<1>11. MemoryLogged'
  <2>1. Settled' = log
    <3>1. Settled' = SubSeq(log', 1, Len(log') - Len(current'))
      BY DEF Settled
    <3>2. Len(current') = 0 /\ log' = log
      BY <1>2
    <3>3. SubSeq(log, 1, Len(log)) = log
      BY <1>3
    <3>4. QED
      BY <3>1, <3>2, <3>3, <1>3
  <2>2. ~unsure => types' = Replay(log)
    BY <1>1, <1>2, <1>3, <1>4, <1>5 DEF MemoryLogged
  <2>3. QED
    BY <1>2, <2>1, <2>2 DEF MemoryLogged
<1>12. QED
  BY <1>6, <1>7, <1>8, <1>9, <1>10, <1>11 DEF Inv

\* A mutation that returns an error leaves memory as it was, and of the WAL at
\* least the durable entries.
LEMMA FailedInv ==
    ASSUME Inv, up = "open", current' = <<>>, unsure' = TRUE,
           UNCHANGED <<up, types, durable, crashes>>,
           NEW n \in durable .. Len(log), log' = SubSeq(log, 1, n), broken' \in 0 .. MaxLog + 1
    PROVE  Inv'
<1>1. /\ RegistryType /\ PrefixesDistinct /\ KeysLogged
  BY DEF Inv
<1>2. log \in Seq(Entries) /\ Len(log) \in Nat /\ Len(log) <= MaxLog /\ durable \in 0 .. Len(log)
  BY <1>1 DEF RegistryType
<1>3. n \in 0 .. Len(log) /\ log' \in Seq(Entries) /\ Len(log') = n
  BY <1>2
<1>4. \A m \in 0 .. n : m \in 0 .. Len(log) /\ SubSeq(log', 1, m) = SubSeq(log, 1, m)
  BY <1>2, <1>3
<1>5. RegistryType'
  <2>1. current' \in Seq(Entries) /\ Len(current') <= 1
    OBVIOUS
  <2>2. unsure' \in BOOLEAN
    OBVIOUS
  <2>3. durable' \in 0 .. Len(log') /\ Len(log') <= MaxLog
    BY <1>2, <1>3, RegistryBoundsAssumption
  <2>4. /\ up' \in {"open", "closed", "down"} /\ types' \in Registries
        /\ crashes' \in 0 .. MaxCrashes
    BY <1>1 DEF RegistryType
  <2>5. QED
    BY <1>3, <2>1, <2>2, <2>3, <2>4 DEF RegistryType
<1>6. Pending'
  BY DEF Pending
<1>7. PrefixesDistinct'
  BY <1>1, <1>3, <1>4 DEF PrefixesDistinct
<1>8. KeysLogged'
  <2>1. \A m \in durable .. n : m \in durable .. Len(log) /\ SubSeq(log', 1, m) = SubSeq(log, 1, m)
    BY <1>2, <1>3, <1>4
  <2>2. QED
    BY <1>1, <1>3, <2>1 DEF KeysLogged
<1>9. MemoryLogged'
  BY DEF MemoryLogged
<1>10. QED
  BY <1>5, <1>6, <1>7, <1>8, <1>9 DEF Inv

\* Entries are lost only from the end, and none that is durable.
LEMMA LoseCuts ==
    ASSUME RegistryType, NEW k \in durable + 1 .. Len(log) + 1, Lose(k)
    PROVE  /\ \E n \in durable .. Len(log) : log' = SubSeq(log, 1, n)
           /\ broken' \in 0 .. MaxLog + 1
<1>1. Len(log) \in Nat /\ Len(log) <= MaxLog /\ durable \in 0 .. Len(log) /\ broken \in 0 .. MaxLog + 1
  BY DEF RegistryType
<1>2. k \in 1 .. MaxLog + 1 /\ k - 1 \in durable .. Len(log)
  BY <1>1, RegistryBoundsAssumption
<1>3. QED
  BY <1>1, <1>2 DEF Lose

\* A failed Append loses entries, or the chance to read later ones.
LEMMA AppendFailsInv ==
    ASSUME Inv, AppendFails
    PROVE  Inv'
<1>1. /\ up = "open" /\ current' = <<>> /\ unsure' = TRUE
      /\ UNCHANGED <<up, types, durable, crashes>>
      /\ \E k \in durable + 1 .. Len(log) + 1 : Lose(k)
  BY DEF AppendFails
<1>2. RegistryType
  BY DEF Inv
<1>3. PICK n \in durable .. Len(log) : log' = SubSeq(log, 1, n) /\ broken' \in 0 .. MaxLog + 1
  BY <1>1, <1>2, LoseCuts
<1>4. QED
  BY <1>1, <1>3, FailedInv

\* A failed Sync leaves the entry in the WAL or not, and memory without it.
LEMMA SyncFailsInv ==
    ASSUME Inv, SyncFails
    PROVE  Inv'
<1>1. /\ current # <<>> /\ current' = <<>> /\ unsure' = TRUE
      /\ UNCHANGED <<up, types, durable, crashes>>
      /\ UNCHANGED <<log, broken>> \/ \E k \in durable + 1 .. Len(log) : Lose(k)
  BY DEF SyncFails
<1>2. RegistryType /\ Pending
  BY DEF Inv
<1>3. up = "open"
  BY <1>1, <1>2 DEF Pending
<1>4. log \in Seq(Entries) /\ Len(log) \in Nat /\ durable \in 0 .. Len(log) /\ broken \in 0 .. MaxLog + 1
  BY <1>2 DEF RegistryType
<1>5. \E n \in durable .. Len(log) : log' = SubSeq(log, 1, n) /\ broken' \in 0 .. MaxLog + 1
  <2>1. CASE UNCHANGED <<log, broken>>
    <3>1. SubSeq(log, 1, Len(log)) = log /\ Len(log) \in durable .. Len(log)
      BY <1>4
    <3>2. QED
      BY <1>4, <2>1, <3>1
  <2>2. CASE \E k \in durable + 1 .. Len(log) : Lose(k)
    <3>1. PICK k \in durable + 1 .. Len(log) + 1 : Lose(k)
      BY <1>4, <2>2
    <3>2. QED
      BY <1>2, <3>1, LoseCuts
  <2>3. QED
    BY <1>1, <2>1, <2>2
<1>6. QED
  BY <1>1, <1>3, <1>5, FailedInv

\* Close makes every entry durable.
LEMMA CloseInv ==
    ASSUME Inv, Close
    PROVE  Inv'
<1>1. /\ RegistryType /\ Pending /\ PrefixesDistinct /\ KeysLogged
  BY DEF Inv
<1>2. /\ up = "open" /\ current = <<>> /\ up' = "closed" /\ durable' = Len(log)
      /\ UNCHANGED <<types, current, log, broken, unsure, crashes>>
  BY DEF Close
<1>3. RegistryType'
  <2>1. durable' \in 0 .. Len(log')
    BY <1>1, <1>2 DEF RegistryType
  <2>2. unsure' \in BOOLEAN
    BY <1>1, <1>2 DEF RegistryType
  <2>3. /\ up' \in {"open", "closed", "down"} /\ types' \in Registries
        /\ current' \in Seq(Entries) /\ Len(current') <= 1
        /\ log' \in Seq(Entries) /\ Len(log') <= MaxLog /\ crashes' \in 0 .. MaxCrashes
        /\ broken' \in 0 .. MaxLog + 1
    BY <1>1, <1>2 DEF RegistryType
  <2>4. QED
    BY <2>1, <2>2, <2>3 DEF RegistryType
<1>4. Pending'
  BY <1>2 DEF Pending
<1>5. PrefixesDistinct'
  BY <1>1, <1>2 DEF PrefixesDistinct
<1>6. KeysLogged'
  <2>1. \A n \in Len(log) .. Len(log) : n \in durable .. Len(log)
    BY <1>1 DEF RegistryType
  <2>2. QED
    BY <1>1, <1>2, <2>1 DEF KeysLogged
<1>7. MemoryLogged'
  BY <1>2 DEF MemoryLogged
<1>8. QED
  BY <1>3, <1>4, <1>5, <1>6, <1>7 DEF Inv

\* A crash keeps the durable entries and some of the rest.
LEMMA CrashInv ==
    ASSUME Inv, Crash
    PROVE  Inv'
<1>1. /\ RegistryType /\ Pending /\ PrefixesDistinct /\ KeysLogged /\ MemoryLogged
  BY DEF Inv
<1>2. PICK n \in durable .. Len(log) : log' = SubSeq(log, 1, n) /\ durable' = n
  BY DEF Crash
<1>3. /\ up = "open" /\ crashes < MaxCrashes /\ crashes' = crashes + 1 /\ up' = "down"
      /\ current' = <<>> /\ UNCHANGED <<types, broken, unsure>>
  BY DEF Crash
<1>4. /\ log \in Seq(Entries) /\ Len(log) \in Nat /\ durable \in 0 .. Len(log) /\ Len(log) <= MaxLog
      /\ current \in Seq(Entries) /\ Len(current) <= 1 /\ crashes \in 0 .. MaxCrashes
  BY <1>1 DEF RegistryType
<1>5. n \in 0 .. Len(log) /\ log' \in Seq(Entries) /\ Len(log') = n
  BY <1>2, <1>4
<1>6. RegistryType'
  <2>1. unsure' \in BOOLEAN
    BY <1>1, <1>3 DEF RegistryType
  <2>2. durable' \in 0 .. Len(log') /\ Len(log') <= MaxLog /\ crashes' \in 0 .. MaxCrashes
    BY <1>2, <1>3, <1>4, <1>5, RegistryBoundsAssumption
  <2>3. up' \in {"open", "closed", "down"} /\ current' \in Seq(Entries) /\ Len(current') <= 1
    BY <1>3
  <2>4. types' \in Registries /\ broken' \in 0 .. MaxLog + 1
    BY <1>1, <1>3 DEF RegistryType
  <2>5. QED
    BY <1>5, <2>1, <2>2, <2>3, <2>4 DEF RegistryType
<1>7. Pending'
  BY <1>2, <1>3, <1>5 DEF Pending
<1>8. PrefixesDistinct'
  <2>1. ASSUME NEW m \in 0 .. Len(log') PROVE Distinct(Replay(SubSeq(log', 1, m)))
    <3>1. m \in 0 .. Len(log) /\ SubSeq(log', 1, m) = SubSeq(log, 1, m)
      BY <1>2, <1>4, <1>5
    <3>2. QED
      BY <1>1, <3>1 DEF PrefixesDistinct
  <2>2. Distinct(types')
    BY <1>1, <1>3 DEF PrefixesDistinct
  <2>3. QED
    BY <2>1, <2>2 DEF PrefixesDistinct
<1>9. KeysLogged'
  <2>1. \A m \in n .. n : m \in durable .. Len(log) /\ SubSeq(log', 1, m) = SubSeq(log, 1, m)
    BY <1>2, <1>4, <1>5
  <2>2. QED
    BY <1>1, <1>2, <1>3, <1>5, <2>1 DEF KeysLogged
<1>10. MemoryLogged'
  BY <1>3 DEF MemoryLogged
<1>11. QED
  BY <1>6, <1>7, <1>8, <1>9, <1>10 DEF Inv

\* Open rebuilds memory from what can be read of the WAL.
LEMMA OpenInv ==
    ASSUME Inv, Open
    PROVE  Inv' /\ (~Gap => KeepsKeys(types, types'))
<1>1. /\ RegistryType /\ Pending /\ PrefixesDistinct /\ KeysLogged
  BY DEF Inv
<1>2. /\ up \in {"closed", "down"} /\ up' = "open" /\ unsure' = FALSE
      /\ types' = Replay(log') /\ log' = Readable /\ durable' = Len(log') /\ broken' = 0
      /\ UNCHANGED <<current, crashes>>
  BY DEF Open
<1>3. log \in Seq(Entries) /\ Len(log) \in Nat /\ Len(log) <= MaxLog /\ broken \in 0 .. MaxLog + 1
  BY <1>1 DEF RegistryType
<1>4. current = <<>> /\ durable = Len(log)
  BY <1>1, <1>2 DEF Pending
<1>5. SubSeq(log, 1, Len(log)) = log
  BY <1>3
<1>6. /\ log' \in Seq(Entries) /\ Len(log') \in 0 .. Len(log)
      /\ log' = SubSeq(log, 1, Len(log'))
  <2>1. CASE Gap
    <3>1. broken \in 1 .. Len(log) /\ log' = SubSeq(log, 1, broken - 1)
      BY <1>2, <2>1 DEF Gap, Readable
    <3>2. broken - 1 \in 0 .. Len(log) /\ Len(SubSeq(log, 1, broken - 1)) = broken - 1
          /\ SubSeq(log, 1, broken - 1) \in Seq(Entries)
      BY <1>3, <3>1
    <3>3. QED
      BY <3>1, <3>2
  <2>2. CASE ~Gap
    <3>1. log' = log
      BY <1>2, <2>2 DEF Readable
    <3>2. QED
      BY <1>3, <1>5, <3>1
  <2>3. QED
    BY <2>1, <2>2
<1>7. RegistryType'
  <2>1. types' \in Registries
    BY <1>2, <1>6, ReplayType
  <2>2. unsure' \in BOOLEAN
    BY <1>2
  <2>3. durable' \in 0 .. Len(log') /\ Len(log') <= MaxLog /\ broken' \in 0 .. MaxLog + 1
    BY <1>2, <1>3, <1>6, RegistryBoundsAssumption
  <2>4. /\ up' \in {"open", "closed", "down"} /\ crashes' \in 0 .. MaxCrashes
        /\ current' \in Seq(Entries) /\ Len(current') <= 1
    BY <1>1, <1>2 DEF RegistryType
  <2>5. QED
    BY <1>6, <2>1, <2>2, <2>3, <2>4 DEF RegistryType
<1>8. Pending'
  BY <1>2, <1>4 DEF Pending
<1>9. PrefixesDistinct'
  <2>1. ASSUME NEW m \in 0 .. Len(log') PROVE Distinct(Replay(SubSeq(log', 1, m)))
    <3>1. m \in 0 .. Len(log) /\ SubSeq(log', 1, m) = SubSeq(log, 1, m)
      BY <1>3, <1>6
    <3>2. QED
      BY <1>1, <3>1 DEF PrefixesDistinct
  <2>2. Distinct(types')
    BY <1>1, <1>2, <1>6 DEF PrefixesDistinct
  <2>3. QED
    BY <2>1, <2>2 DEF PrefixesDistinct
<1>10. SubSeq(log', 1, Len(log')) = log'
  BY <1>6
<1>11. KeysLogged'
  <2>1. \A n \in Len(log') .. Len(log') : n = Len(log')
    <3>1. Len(log') \in Nat
      BY <1>6
    <3>2. QED
      BY <3>1, OneInRange
  <2>2. QED
    BY <1>2, <1>10, <2>1 DEF KeysLogged, KeepsKeys
<1>12. MemoryLogged'
  <2>1. Settled' = SubSeq(log', 1, Len(log') - Len(current'))
    BY DEF Settled
  <2>2. Len(current') = 0
    BY <1>2, <1>4
  <2>3. Settled' = log'
    BY <1>6, <1>10, <2>1, <2>2
  <2>4. QED
    BY <1>2, <2>3 DEF MemoryLogged
<1>13. ASSUME ~Gap PROVE KeepsKeys(types, types')
  <2>1. log' = log
    BY <1>2, <1>13 DEF Readable
  <2>2. Len(log) \in durable .. Len(log)
    BY <1>3, <1>4
  <2>3. QED
    BY <1>1, <1>2, <1>5, <2>1, <2>2 DEF KeysLogged
<1>14. QED
  BY <1>7, <1>8, <1>9, <1>11, <1>12, <1>13 DEF Inv

\* Every step of the registry preserves the invariant and, unless it reads the
\* WAL up to a gap, the types with their primary keys.
LEMMA NextInv ==
    ASSUME Inv, [Next]_vars
    PROVE  Inv' /\ (up = "open" \/ ~Gap => KeepsKeys(types, types'))
<1>0. RegistryType
  BY DEF Inv
<1>k. types' = types => KeepsKeys(types, types')
  BY DEF KeepsKeys
<1>1. ASSUME NEW e, Begin(e),
             \/ \E t \in Types, pk \in Paths, idx \in IndexLists :
                    e = Register(t, pk, idx) /\ MayRegister(e)
             \/ \E t \in Types, path \in Paths : e = AddIndex(t, path) /\ MayAddIndex(e)
             \/ \E t \in Types, path \in Paths : e = RemoveIndex(t, path) /\ MayRemoveIndex(e)
      PROVE  Inv' /\ types' = types
  <2>1. /\ e \in Entries
        /\ Fits(types, e)
        /\ e.op = "register" => e.type \notin DOMAIN types
        /\ e.op # "register" => e.type \in DOMAIN types
    BY <1>0, <1>1, MutationFits
  <2>2. Inv'
    BY <1>1, <2>1, BeginInv
  <2>3. QED
    BY <1>1, <2>2 DEF Begin
<1>2. CASE Commit
  BY <1>2, CommitInv DEF KeepsKeys
<1>3. CASE SyncFails
  BY <1>3, <1>k, SyncFailsInv DEF SyncFails
<1>a. CASE AppendFails
  BY <1>a, <1>k, AppendFailsInv DEF AppendFails
<1>4. CASE Close
  BY <1>4, <1>k, CloseInv DEF Close
<1>5. CASE Crash
  BY <1>5, <1>k, CrashInv DEF Crash
<1>6. CASE Open
  BY <1>6, OpenInv DEF Open
<1>7. CASE UNCHANGED vars
  <2>1. RegistryType'
    BY <1>0, <1>7 DEF RegistryType, vars
  <2>2. Pending'
    BY <1>7 DEF Inv, Pending, vars
  <2>3. PrefixesDistinct'
    BY <1>7 DEF Inv, PrefixesDistinct, vars
  <2>4. KeysLogged'
    BY <1>7 DEF Inv, KeysLogged, vars
  <2>5. MemoryLogged'
    BY <1>7 DEF Inv, MemoryLogged, Settled, vars
  <2>6. QED
    BY <1>7, <1>k, <2>1, <2>2, <2>3, <2>4, <2>5 DEF Inv, vars
<1>8. CASE \E t \in Types, pk \in Paths, idx \in IndexLists :
            LET e == Register(t, pk, idx) IN MayRegister(e) /\ (Begin(e) \/ AppendFails)
  <2>1. PICK t \in Types, pk \in Paths, idx \in IndexLists :
            MayRegister(Register(t, pk, idx)) /\ (Begin(Register(t, pk, idx)) \/ AppendFails)
    BY <1>8
  <2>2. QED
    BY <1>1, <1>a, <1>k, <2>1
<1>9. CASE \E t \in Types, path \in Paths :
            LET e == AddIndex(t, path) IN MayAddIndex(e) /\ (Begin(e) \/ AppendFails)
  <2>1. PICK t \in Types, path \in Paths :
            MayAddIndex(AddIndex(t, path)) /\ (Begin(AddIndex(t, path)) \/ AppendFails)
    BY <1>9
  <2>2. QED
    BY <1>1, <1>a, <1>k, <2>1
<1>10. CASE \E t \in Types, path \in Paths :
            LET e == RemoveIndex(t, path) IN MayRemoveIndex(e) /\ (Begin(e) \/ AppendFails)
  <2>1. PICK t \in Types, path \in Paths :
            MayRemoveIndex(RemoveIndex(t, path)) /\ (Begin(RemoveIndex(t, path)) \/ AppendFails)
    BY <1>10
  <2>2. QED
    BY <1>1, <1>a, <1>k, <2>1
<1>11. QED
  BY <1>2, <1>3, <1>4, <1>5, <1>6, <1>7, <1>8, <1>9, <1>10 DEF Next

-----------------------------------------------------------------------------
(* The theorems *)

\* The invariant holds in every reachable state.
THEOREM Invariance == Spec => []Inv
<1>1. Init => Inv
  BY InitInv
<1>2. Inv /\ [Next]_vars => Inv'
  BY NextInv
<1>3. QED
  BY <1>1, <1>2, PTL DEF Spec

\* The registry keeps the types of its state.
THEOREM TypeCorrect == Spec => []TypeOK
<1>1. Inv => TypeOK
  <2> SUFFICES ASSUME RegistryType PROVE TypeOK
    BY DEF Inv
  <2>1. DOMAIN types \subseteq Types /\ \A t \in DOMAIN types : types[t] \in Schemas
    BY RegistryParts DEF RegistryType
  <2>2. ASSUME NEW t \in DOMAIN types PROVE types[t].pk \in Paths /\ ToSet(types[t].idx) \subseteq Paths
    <3>1. types[t].pk \in Paths /\ types[t].idx \in Seq(Paths)
      BY <2>1 DEF Schemas
    <3>2. QED
      BY <3>1 DEF ToSet
  <2>3. QED
    BY <2>1, <2>2 DEF RegistryType, TypeOK
<1>2. QED
  BY <1>1, Invariance, PTL

\* Until the WAL returns an error, an open registry answers what a recovery from
\* the durable entries would (registry.go:24-26): for every number of types,
\* paths, entries and crashes.
THEOREM RecoveryStaysExact == Spec => []RecoveryExact
<1>1. Inv => RecoveryExact
  <2> SUFFICES ASSUME Inv, up = "open", ~unsure
               PROVE  types = Replay(SubSeq(Settled, 1, durable))
    BY DEF RecoveryExact
  <2>1. types = Replay(Settled) /\ durable = Len(Settled)
    BY DEF Inv, MemoryLogged
  <2>2. Settled \in Seq(Entries)
    BY DEF Inv, RegistryType, Settled
  <2>3. SubSeq(Settled, 1, durable) = Settled
    BY <2>1, <2>2
  <2>4. QED
    BY <2>1, <2>3
<1>2. QED
  BY <1>1, Invariance, PTL

\* Whatever Syncs fail and are retried, and wherever a crash cuts the WAL, no
\* schema has an index twice or its primary key as an index (schema.go:56-57).
THEOREM IndexesStayDistinct == Spec => []IndexesDistinct
<1>1. Inv => IndexesDistinct
  <2> SUFFICES ASSUME Inv PROVE IndexesDistinct
    OBVIOUS
  <2>1. log \in Seq(Entries) /\ Len(log) \in Nat
    BY DEF Inv, RegistryType
  <2>2. SubSeq(log, 1, Len(log)) = log /\ Len(log) \in 0 .. Len(log)
    BY <2>1
  <2>3. Distinct(types) /\ Distinct(Replay(log))
    BY <2>2 DEF Inv, PrefixesDistinct
  <2>4. QED
    BY <2>3 DEF IndexesDistinct, Distinct
<1>2. QED
  BY <1>1, Invariance, PTL

\* A type keeps its primary key and never disappears, whatever Append and Sync
\* return and over restarts, unless entries were written behind one that an I/O
\* error had lost (registry.go:59).
THEOREM TypesStay == Spec => TypesPermanent
<1>1. Inv /\ [Next]_vars =>
        [up = "open" \/ ~Gap =>
            \A t \in DOMAIN types : t \in DOMAIN types' /\ types'[t].pk = types[t].pk]_vars
  BY NextInv DEF KeepsKeys
<1>2. QED
  BY <1>1, Invariance, PTL DEF Spec, TypesPermanent
=============================================================================
