------------------------------ MODULE PlacedProofs ------------------------------
(***************************************************************************)
(* Proofs about PlacedFiles for every number of paths, Entries, acts and   *)
(* kills: the shapes of what a device keeps, what no step of its runs does *)
(* to the files of the person, what a fetch leaves unfetched, and what of  *)
(* the files a sync carries into the Library.                              *)
(***************************************************************************)
EXTENDS PlacedProperties, WellFoundedInduction, FiniteSetTheorems, TLAPS

Entries == [path : Paths, data : Nat]
Catalogs == UNION {[S -> Entries] : S \in SUBSET Nat}
Renamings == UNION {[S -> Paths] : S \in SUBSET Nat}
Changes == [removed : SUBSET Nat, renamed : Renamings, put : Catalogs]

Recs == [entry : Nat, data : Nat]
Records == [Paths -> Recs]
Seens == [path : Mapped, entry : Nat, data : Nat]
Moves == UNION {[S -> Mapped] : S \in SUBSET Mapped}
Names == [entry : Nat, from : Mapped, to : Mapped]
Owes == [forget : SUBSET Mapped, rekey : Moves, seen : SUBSET Seens]

Sights == [to : Paths, entry : Nat, data : Nat, source : Nat, target : Nat]
Views == UNION {[S -> Sights] : S \in SUBSET Mapped}

Kinds == {"sync", "fetch"}
Relocs == {"finish", "decide", "move", "gone", "relocated"}

LookRuns == [phase : {"look"}, kind : Kinds, owed : Owes]
RelocRuns ==
  [phase : Relocs, kind : Kinds, looks : Views, todo : SUBSET Mapped, touched : SUBSET Mapped,
   pending : Moves, cycle : Seq(Mapped), gone : SUBSET Mapped, owed : Owes, changed : BOOLEAN]
DepartRuns ==
  [phase : {"depart"}, owed : Owes, departed : SUBSET Mapped, forgotten : SUBSET Mapped,
   refreshed : SUBSET Seens, adds : SUBSET Mapped, updates : SUBSET [path : Mapped, entry : Nat],
   renames : SUBSET Names]
CommitRuns ==
  [phase : {"commit"}, owed : Owes, adds : SUBSET [path : Mapped, data : Nat],
   updates : SUBSET Seens, renames : SUBSET Names]
RefreshRuns == [phase : {"refresh"}, owed : Owes, renames : SUBSET Names]
EndRuns == [phase : {"end"}, owed : Owes]
PlaceRuns == [phase : {"place"}, owed : Owes, wanted : SUBSET Nat]

Runs ==
  {Idle} \cup LookRuns \cup RelocRuns \cup DepartRuns \cup CommitRuns \cup RefreshRuns
    \cup EndRuns \cup PlaceRuns

Tears == {"replayed", "overlaid", "followed"}

Shapes ==
  /\ cat \in Catalogs /\ rec \in Records /\ disk \in [Paths -> Nat] /\ run \in Runs
  /\ own \subseteq Mapped /\ calm \in BOOLEAN
  /\ journal \in Seq(Changes) /\ rows \subseteq Seens
  /\ held \subseteq Nat /\ born \in Nat /\ made \in Nat
  /\ torn \subseteq Tears
  /\ left \in [person : Nat, others : Nat, kills : Nat]

-----------------------------------------------------------------------------
LEMMA PathFacts ==
  /\ IsFiniteSet(Paths) /\ Paths \subseteq Nat \ {0} /\ Mapped \subseteq Paths
  /\ Cardinality(Paths) \in Nat
<1>1. Cardinality(Paths) \in Nat
  BY PathAssumption, FS_CardinalityType
<1> QED BY <1>1, PathAssumption

LEMMA NothingTyped == NothingOwed \in Owes /\ <<>> \in Moves /\ <<>> \in Catalogs /\ <<>> \in Renamings
<1>1. <<>> \in [{} -> Mapped] /\ <<>> \in [{} -> Entries] /\ <<>> \in [{} -> Paths]
  OBVIOUS
<1>2. <<>> \in Moves /\ <<>> \in Catalogs /\ <<>> \in Renamings
  BY <1>1 DEF Moves, Catalogs, Renamings
<1> QED BY <1>2 DEF NothingOwed, Owes

LEMMA RunKinds ==
  ASSUME NEW r \in Runs
  PROVE  /\ r.phase = "idle" => r = Idle
         /\ r.phase = "look" => r \in LookRuns
         /\ r.phase \in Relocs => r \in RelocRuns
         /\ r.phase = "depart" => r \in DepartRuns
         /\ r.phase = "commit" => r \in CommitRuns
         /\ r.phase = "refresh" => r \in RefreshRuns
         /\ r.phase = "end" => r \in EndRuns
         /\ r.phase = "place" => r \in PlaceRuns
<1> USE DEF Relocs
<1>1. CASE r = Idle
  BY <1>1 DEF Idle
<1>2. CASE r \in LookRuns
  BY <1>2 DEF LookRuns
<1>3. CASE r \in RelocRuns
  BY <1>3 DEF RelocRuns
<1>4. CASE r \in DepartRuns
  BY <1>4 DEF DepartRuns
<1>5. CASE r \in CommitRuns
  BY <1>5 DEF CommitRuns
<1>6. CASE r \in RefreshRuns
  BY <1>6 DEF RefreshRuns
<1>7. CASE r \in EndRuns
  BY <1>7 DEF EndRuns
<1>8. CASE r \in PlaceRuns
  BY <1>8 DEF PlaceRuns
<1> QED BY <1>1, <1>2, <1>3, <1>4, <1>5, <1>6, <1>7, <1>8 DEF Runs

LEMMA CatalogIs ==
  ASSUME NEW c \in Catalogs
  PROVE  /\ DOMAIN c \subseteq Nat
         /\ c \in [DOMAIN c -> Entries]
         /\ \A e \in DOMAIN c : c[e] \in Entries /\ c[e].path \in Paths /\ c[e].data \in Nat
BY DEF Catalogs, Entries

LEMMA MovesAre ==
  ASSUME NEW m \in Moves
  PROVE  DOMAIN m \subseteq Mapped /\ \A p \in DOMAIN m : m[p] \in Mapped
BY DEF Moves

LEMMA ViewsAre ==
  ASSUME NEW v \in Views
  PROVE  /\ DOMAIN v \subseteq Mapped
         /\ \A p \in DOMAIN v : /\ v[p] \in Sights /\ v[p].to \in Paths /\ v[p].entry \in Nat
                                /\ v[p].data \in Nat /\ v[p].source \in Nat /\ v[p].target \in Nat
BY DEF Views, Sights

LEMMA ReplayedTyped ==
  ASSUME NEW c \in Catalogs, NEW r \in Changes
  PROVE  /\ Replayed(c, r) \in Catalogs
         /\ DOMAIN Replayed(c, r) = (DOMAIN c \ r.removed) \cup DOMAIN r.put
         /\ \A e \in DOMAIN r.put : Replayed(c, r)[e] = r.put[e]
         /\ \A e \in DOMAIN c \ r.removed :
              e \notin DOMAIN r.put =>
                /\ Replayed(c, r)[e].data = c[e].data
                /\ Replayed(c, r)[e].path = IF e \in DOMAIN r.renamed THEN r.renamed[e] ELSE c[e].path
<1>1. r.put \in Catalogs /\ r.renamed \in Renamings
  BY DEF Changes
<1>2. \A e \in DOMAIN r.put : r.put[e] \in Entries
  BY <1>1, CatalogIs
<1>3. DOMAIN r.put \subseteq Nat /\ DOMAIN c \subseteq Nat
  BY <1>1, CatalogIs
<1>4. \A e \in DOMAIN c : c[e] \in Entries
  BY CatalogIs
<1>5. \A e \in DOMAIN r.renamed : r.renamed[e] \in Paths
  BY <1>1 DEF Renamings
<1>6. \A e \in DOMAIN c : e \in DOMAIN r.renamed =>
         LET x == [c[e] EXCEPT !.path = r.renamed[e]] IN x \in Entries /\ x.path = r.renamed[e] /\ x.data = c[e].data
  BY <1>4, <1>5 DEF Entries
<1> DEFINE D == (DOMAIN c \ r.removed) \cup DOMAIN r.put
           v(e) == IF e \in DOMAIN r.put THEN r.put[e]
                   ELSE IF e \in DOMAIN r.renamed THEN [c[e] EXCEPT !.path = r.renamed[e]] ELSE c[e]
<1>7. Replayed(c, r) = [e \in D |-> v(e)]
  BY DEF Replayed
<1>8. \A e \in D : v(e) \in Entries
  BY <1>2, <1>4, <1>6
<1>9. D \in SUBSET Nat
  BY <1>3
<1>10. Replayed(c, r) \in [D -> Entries]
  <2> HIDE DEF v, D
  <2> QED BY <1>7, <1>8
<1>11. Replayed(c, r) \in Catalogs
  <2> HIDE DEF D
  <2> QED BY <1>9, <1>10 DEF Catalogs
<1> QED BY <1>11, <1>7, <1>6

LEMMA ReconcileTyped ==
  ASSUME NEW c, NEW r \in Records
  PROVE  /\ Reconcile(c, r) \in Records
         /\ \A p \in Paths : Reconcile(c, r)[p] =
              IF r[p].entry \notin DOMAIN c /\ p \in PathsOf(c) THEN NoRecord ELSE r[p]
<1>1. NoRecord \in Recs
  BY DEF NoRecord, Recs, NoFile
<1> QED BY <1>1 DEF Reconcile, Records

LEMMA ForgottenTyped ==
  ASSUME NEW r \in Records, NEW gone
  PROVE  /\ Forgotten(r, gone) \in Records
         /\ \A p \in Paths : Forgotten(r, gone)[p] = IF p \in gone THEN NoRecord ELSE r[p]
<1>1. NoRecord \in Recs
  BY DEF NoRecord, Recs, NoFile
<1> QED BY <1>1 DEF Forgotten, Records

\* Records after observations, and after a re-keying, before they are reconciled.
MarkedAs(m, r, seen) ==
  \A p \in Paths :
    \/ m[p] = r[p] /\ (\A o \in seen : o.path # p)
    \/ \E o \in seen : o.path = p /\ m[p] = [entry |-> o.entry, data |-> o.data]

RekeyedAs(m, r, moves) ==
  \A q \in Paths :
    \/ \E p \in DOMAIN moves : moves[p] = q /\ r[p] # NoRecord /\ m[q] = r[p]
    \/ /\ \A p \in DOMAIN moves : moves[p] = q => r[p] = NoRecord
       /\ m[q] = IF q \in DOMAIN moves THEN NoRecord ELSE r[q]

LEMMA MarkedTyped ==
  ASSUME NEW c, NEW r \in Records, NEW seen \in SUBSET Seens
  PROVE  /\ Marked(c, r, seen) \in Records
         /\ \E m \in Records : Marked(c, r, seen) = Reconcile(c, m) /\ MarkedAs(m, r, seen)
<1> DEFINE new(p) == LET o == CHOOSE o \in seen : o.path = p IN [entry |-> o.entry, data |-> o.data]
           m == [p \in Paths |-> IF \E o \in seen : o.path = p THEN new(p) ELSE r[p]]
<1>1. ASSUME NEW p \in Paths, \E o \in seen : o.path = p
      PROVE  new(p) \in Recs /\ \E o \in seen : o.path = p /\ new(p) = [entry |-> o.entry, data |-> o.data]
  <2>1. PICK o \in seen : o = CHOOSE x \in seen : x.path = p
    BY <1>1
  <2>2. o.path = p /\ o \in Seens
    BY <1>1, <2>1
  <2> QED BY <2>1, <2>2 DEF Seens, Recs
<1>2. Marked(c, r, seen) = Reconcile(c, m)
  BY DEF Marked
<1>3. m \in Records /\ \A p \in Paths :
                   \/ m[p] = r[p] /\ (\A o \in seen : o.path # p)
                   \/ \E o \in seen : o.path = p /\ m[p] = [entry |-> o.entry, data |-> o.data]
  <2> HIDE DEF new
  <2> QED BY <1>1 DEF Records
<1>4. MarkedAs(m, r, seen)
  BY <1>3 DEF MarkedAs
<1> HIDE DEF m
<1> QED BY <1>2, <1>3, <1>4, ReconcileTyped

LEMMA RekeyedTyped ==
  ASSUME NEW c, NEW r \in Records, NEW moves \in Moves
  PROVE  /\ Rekeyed(c, r, moves) \in Records
         /\ \E m \in Records : Rekeyed(c, r, moves) = Reconcile(c, m) /\ RekeyedAs(m, r, moves)
<1> DEFINE taken == {p \in DOMAIN moves : r[p] # NoRecord}
           from(q) == CHOOSE p \in taken : moves[p] = q
           m == [q \in Paths |-> IF \E p \in taken : moves[p] = q THEN r[from(q)]
                                 ELSE IF q \in taken THEN NoRecord ELSE r[q]]
<1>0. Mapped \subseteq Paths /\ DOMAIN moves \subseteq Mapped /\ NoRecord \in Recs
  BY MovesAre, PathFacts DEF NoRecord, Recs, NoFile
<1>1. ASSUME NEW q \in Paths, \E p \in taken : moves[p] = q
      PROVE  from(q) \in taken /\ moves[from(q)] = q
  BY <1>1
<1>2. Rekeyed(c, r, moves) = Reconcile(c, m)
  BY DEF Rekeyed
<1>3. m \in Records
  <2>1. \A q \in Paths : (\E p \in taken : moves[p] = q) => r[from(q)] \in Recs
    <3> HIDE DEF from
    <3> QED BY <1>1, <1>0 DEF Records
  <2> HIDE DEF from
  <2> QED BY <2>1, <1>0 DEF Records
<1>4. \A q \in Paths :
                   \/ \E p \in DOMAIN moves : moves[p] = q /\ r[p] # NoRecord /\ m[q] = r[p]
                   \/ /\ \A p \in DOMAIN moves : moves[p] = q => r[p] = NoRecord
                      /\ m[q] = IF q \in DOMAIN moves THEN NoRecord ELSE r[q]
  <2> HIDE DEF from
  <2> QED BY <1>1
<1>5. RekeyedAs(m, r, moves)
  BY <1>4 DEF RekeyedAs
<1> HIDE DEF m
<1> QED BY <1>2, <1>3, <1>5, ReconcileTyped

LEMMA LeastOf ==
  ASSUME NEW T \in SUBSET Nat, T # {}
  PROVE  \E x \in T : \A y \in T : x <= y
<1>1. PICK x \in T : \A y \in T : ~(<<y, x>> \in OpToRel(<, Nat))
  BY WFMin, NatLessThanWellFounded, Zenon
<1>2. \A y \in T : ~(y < x)
  BY <1>1 DEF OpToRel
<1> QED BY <1>2

LEMMA Stepwise ==
  ASSUME NEW N \in Nat, NEW S, 0 \in S, \A n \in 1 .. N : n - 1 \in S => n \in S
  PROVE  \A n \in 0 .. N : n \in S
<1> DEFINE T == {n \in 0 .. N : n \notin S}
<1>1. ASSUME T # {} PROVE FALSE
  <2>0. T \in SUBSET Nat
    OBVIOUS
  <2>1. PICK n \in T : \A k \in T : n <= k
    <3> HIDE DEF T
    <3> QED BY <2>0, <1>1, LeastOf
  <2>2. n \in 0 .. N /\ n \notin S /\ n # 0
    BY <2>1
  <2>3. n \in 1 .. N /\ n - 1 \in 0 .. N /\ ~(n <= n - 1)
    BY <2>2
  <2>4. n - 1 \in S
    BY <2>1, <2>3
  <2> QED BY <2>2, <2>3, <2>4
<1> QED BY <1>1

LEMMA LeastIs ==
  ASSUME NEW S \in SUBSET Paths, S # {}
  PROVE  Least(S) \in S /\ \A q \in S : Least(S) <= q
<1>1. S \in SUBSET Nat
  BY PathFacts
<1>2. \E p \in S : \A q \in S : p <= q
  BY <1>1, LeastOf
<1> QED BY <1>2 DEF Least

LEMMA ReplaySteps ==
  ASSUME NEW catalog, NEW records, NEW log, Len(log) \in Nat
  PROVE  \E f : f = [n \in 0 .. Len(log) |->
                       IF n = 0 THEN [cat |-> catalog, rec |-> records] ELSE Apply(f[n - 1], log[n])]
<1> DEFINE base == [cat |-> catalog, rec |-> records]
           Upto(f, k) == f = [n \in 0 .. k |-> IF n = 0 THEN base ELSE Apply(f[n - 1], log[n])]
           S == {k \in 0 .. Len(log) : \E f : Upto(f, k)}
<1>1. 0 \in S
  <2> DEFINE f == [n \in 0 .. 0 |-> base]
  <2>1. Upto(f, 0)
    OBVIOUS
  <2> HIDE DEF Upto
  <2> QED BY <2>1
<1>2. ASSUME NEW k \in 1 .. Len(log), k - 1 \in S PROVE k \in S
  <2>1. PICK f : Upto(f, k - 1)
    BY <1>2
  <2> DEFINE g == [n \in 0 .. k |-> IF n = k THEN Apply(f[k - 1], log[k]) ELSE f[n]]
  <2>2. Upto(g, k)
    <3> HIDE DEF g, base
    <3>1. g = [n \in 0 .. k |-> IF n = k THEN Apply(f[k - 1], log[k]) ELSE f[n]]
      BY DEF g
    <3>2. \A n \in 0 .. k : g[n] = IF n = 0 THEN base ELSE Apply(g[n - 1], log[n])
      <4> SUFFICES ASSUME NEW n \in 0 .. k PROVE g[n] = IF n = 0 THEN base ELSE Apply(g[n - 1], log[n])
        OBVIOUS
      <4>1. CASE n = k
        <5>1. g[n] = Apply(f[k - 1], log[k]) /\ g[k - 1] = f[k - 1]
          BY <3>1, <4>1
        <5> QED BY <5>1, <4>1
      <4>2. CASE n # k
        <5>1. g[n] = f[n]
          BY <3>1, <4>2
        <5>2. n # 0 => g[n - 1] = f[n - 1]
          BY <3>1, <4>2
        <5>3. f[n] = IF n = 0 THEN base ELSE Apply(f[n - 1], log[n])
          BY <2>1, <4>2
        <5> QED BY <5>1, <5>2, <5>3
      <4> QED BY <4>1, <4>2
    <3> QED BY <3>1, <3>2
  <2> HIDE DEF Upto, g
  <2> QED BY <2>2
<1> HIDE DEF S
<1>3. \A n \in 0 .. Len(log) : n \in S
  BY <1>1, <1>2, Stepwise
<1>4. Len(log) \in S
  BY <1>3
<1> QED BY <1>4 DEF S

LEMMA ReplayIs ==
  ASSUME NEW catalog, NEW records, NEW log, Len(log) \in Nat
  PROVE  \E f : /\ f[0] = [cat |-> catalog, rec |-> records]
                /\ \A n \in 1 .. Len(log) : f[n] = Apply(f[n - 1], log[n])
                /\ ApplyAll(catalog, records, log) = f[Len(log)]
<1> DEFINE F == CHOOSE f : f = [n \in 0 .. Len(log) |->
                       IF n = 0 THEN [cat |-> catalog, rec |-> records] ELSE Apply(f[n - 1], log[n])]
<1>1. F = [n \in 0 .. Len(log) |->
                       IF n = 0 THEN [cat |-> catalog, rec |-> records] ELSE Apply(F[n - 1], log[n])]
  BY ReplaySteps
<1>2. ApplyAll(catalog, records, log) = F[Len(log)]
  BY DEF ApplyAll
<1> HIDE DEF F
<1> QED BY <1>1, <1>2

\* What a replay passes through: every state typed, one after another.
Passes(f, catalog, records, log) ==
  /\ f[0] = [cat |-> catalog, rec |-> records]
  /\ \A n \in 1 .. Len(log) :
       /\ f[n].cat = Replayed(f[n - 1].cat, log[n])
       /\ f[n].rec = Reconcile(f[n].cat, f[n - 1].rec)
  /\ \A n \in 0 .. Len(log) : f[n].cat \in Catalogs /\ f[n].rec \in Records
  /\ ApplyAll(catalog, records, log) = f[Len(log)]

LEMMA ReplayPasses ==
  ASSUME NEW catalog \in Catalogs, NEW records \in Records, NEW log \in Seq(Changes)
  PROVE  \E f : Passes(f, catalog, records, log)
<1>0. Len(log) \in Nat /\ \A n \in 1 .. Len(log) : log[n] \in Changes
  OBVIOUS
<1>1. PICK f : /\ f[0] = [cat |-> catalog, rec |-> records]
               /\ \A n \in 1 .. Len(log) : f[n] = Apply(f[n - 1], log[n])
               /\ ApplyAll(catalog, records, log) = f[Len(log)]
  BY <1>0, ReplayIs
<1> DEFINE S == {n \in 0 .. Len(log) : f[n].cat \in Catalogs /\ f[n].rec \in Records}
<1>2. 0 \in S
  BY <1>0, <1>1
<1>3. ASSUME NEW n \in 1 .. Len(log)
      PROVE  /\ f[n].cat = Replayed(f[n - 1].cat, log[n])
             /\ f[n].rec = Reconcile(f[n].cat, f[n - 1].rec)
  <2>1. f[n] = Apply(f[n - 1], log[n])
    BY <1>1
  <2>2. f[n] = [cat |-> Replayed(f[n - 1].cat, log[n]),
               rec |-> Reconcile(Replayed(f[n - 1].cat, log[n]), f[n - 1].rec)]
    BY <2>1 DEF Apply
  <2> QED BY <2>2
<1>4. ASSUME NEW n \in 1 .. Len(log), n - 1 \in S PROVE n \in S
  <2>1. f[n].cat = Replayed(f[n - 1].cat, log[n]) /\ f[n].rec = Reconcile(f[n].cat, f[n - 1].rec)
    BY <1>3
  <2>2. f[n - 1].cat \in Catalogs /\ f[n - 1].rec \in Records /\ log[n] \in Changes
    BY <1>0, <1>4
  <2>3. f[n].cat \in Catalogs
    BY <2>1, <2>2, ReplayedTyped
  <2>4. f[n].rec \in Records
    BY <2>1, <2>2, ReconcileTyped
  <2> QED BY <2>3, <2>4
<1> HIDE DEF S
<1>5. \A n \in 0 .. Len(log) : n \in S
  BY <1>0, <1>2, <1>4, Stepwise
<1>6. \A n \in 0 .. Len(log) : f[n].cat \in Catalogs /\ f[n].rec \in Records
  BY <1>5 DEF S
<1>7. Passes(f, catalog, records, log)
  BY <1>1, <1>3, <1>6 DEF Passes
<1> QED BY <1>7

LEMMA ReplayTyped ==
  ASSUME NEW catalog \in Catalogs, NEW records \in Records, NEW log \in Seq(Changes)
  PROVE  /\ ApplyAll(catalog, records, log).cat \in Catalogs
         /\ ApplyAll(catalog, records, log).rec \in Records
<1>1. PICK f : Passes(f, catalog, records, log)
  BY ReplayPasses
<1>2. Len(log) \in 0 .. Len(log)
  OBVIOUS
<1> QED BY <1>1, <1>2 DEF Passes

\* The kinds of phase of a state of the device.
LEMMA RunIs ==
  ASSUME Shapes
  PROVE  /\ run.phase = "look" => run \in LookRuns
         /\ run.phase \in Relocs => run \in RelocRuns
         /\ run.phase = "depart" => run \in DepartRuns
         /\ run.phase = "commit" => run \in CommitRuns
         /\ run.phase = "refresh" => run \in RefreshRuns
         /\ run.phase = "end" => run \in EndRuns
         /\ run.phase = "place" => run \in PlaceRuns
         /\ run.phase = "idle" => run = Idle
  BY RunKinds DEF Shapes

LEMMA KindIsRun ==
  /\ \A r : r \in LookRuns \/ r \in RelocRuns \/ r \in DepartRuns \/ r \in CommitRuns => r \in Runs
  /\ \A r : r \in RefreshRuns \/ r \in EndRuns \/ r \in PlaceRuns \/ r = Idle => r \in Runs
  BY DEF Runs

LEMMA ValuesAre ==
  ASSUME Shapes
  PROVE  /\ NoRecord \in Recs /\ NoFile \in Nat /\ NoFile = 0
         /\ \A p \in Paths : rec[p] \in Recs /\ disk[p] \in Nat /\ rec[p].entry \in Nat /\ rec[p].data \in Nat
         /\ Mapped \subseteq Paths /\ Paths \subseteq Nat \ {0}
         /\ NoRecord.entry = 0 /\ NoRecord.data = 0
<1>1. NoRecord \in Recs /\ NoFile \in Nat /\ NoFile = 0 /\ NoRecord.entry = 0 /\ NoRecord.data = 0
  BY DEF NoRecord, NoFile, Recs
<1>2. \A p \in Paths : rec[p] \in Recs /\ disk[p] \in Nat
  BY DEF Shapes, Records
<1>3. \A p \in Paths : rec[p].entry \in Nat /\ rec[p].data \in Nat
  BY <1>2 DEF Recs
<1> QED BY <1>1, <1>2, <1>3, PathFacts

LEMMA WaitsTyped ==
  ASSUME Shapes, NEW p \in Paths, Waits(cat, rec, p)
  PROVE  WaitsFor(cat, rec, p) \in Paths /\ rec[p].entry \in DOMAIN cat
<1>1. cat \in Catalogs
  BY DEF Shapes
<1>2. rec[p].entry \in DOMAIN cat
  BY DEF Waits
<1> QED BY <1>1, <1>2, CatalogIs DEF WaitsFor

LEMMA LooksTyped ==
  ASSUME Shapes
  PROVE  Looks \in Views
<1> DEFINE W == {q \in Mapped : Waits(cat, rec, q)}
           L(p) == LET to == WaitsFor(cat, rec, p)
                   IN [to |-> to, entry |-> rec[p].entry, data |-> rec[p].data, source |-> disk[p],
                       target |-> IF to \in Mapped THEN disk[to] ELSE NoFile]
<1>1. Looks = [p \in W |-> L(p)]
  BY DEF Looks
<1>2. ASSUME NEW p \in W PROVE L(p) \in Sights
  <2>1. p \in Paths /\ WaitsFor(cat, rec, p) \in Paths
    BY WaitsTyped, ValuesAre
  <2> QED BY <2>1, ValuesAre DEF Sights
<1>3. W \in SUBSET Mapped
  OBVIOUS
<1> HIDE DEF W, L
<1> QED BY <1>1, <1>2, <1>3 DEF Views

LEMMA OnlyTyped ==
  ASSUME NEW p \in Mapped, NEW q \in Mapped
  PROVE  /\ Only(p, q) \in Moves /\ DOMAIN Only(p, q) = {p} /\ Only(p, q)[p] = q
         /\ Exchange(p, q) \in Moves /\ DOMAIN Exchange(p, q) = {p, q}
         /\ Exchange(p, q)[p] = q /\ (p # q => Exchange(p, q)[q] = p)
<1>1. Only(p, q) \in [{p} -> Mapped] /\ Exchange(p, q) \in [{p, q} -> Mapped]
  BY DEF Only, Exchange
<1> QED BY <1>1 DEF Only, Exchange, Moves

LEMMA ViewsMapped ==
  ASSUME Shapes, run \in RelocRuns
  PROVE  run.looks \in Views /\ run.pending \in Moves
  BY DEF RelocRuns

-----------------------------------------------------------------------------
\* Other devices, the person, and kills.

LEMMA LibraryTyped == Shapes => Library \in Catalogs
  BY ReplayTyped DEF Shapes, Library

LEMMA PutTyped ==
  ASSUME NEW e \in Nat, NEW x \in Entries
  PROVE  Only(e, x) \in Catalogs /\ DOMAIN Only(e, x) = {e} /\ Only(e, x)[e] = x
<1>1. Only(e, x) \in [{e} -> Entries]
  BY DEF Only
<1> QED BY <1>1 DEF Only, Catalogs

LEMMA RenamedTyped ==
  ASSUME NEW e \in Nat, NEW p \in Paths
  PROVE  Only(e, p) \in Renamings /\ DOMAIN Only(e, p) = {e} /\ Only(e, p)[e] = p
<1>1. Only(e, p) \in [{e} -> Paths]
  BY DEF Only
<1> QED BY <1>1 DEF Only, Renamings

LEMMA CommittedShapes ==
  ASSUME Shapes, NEW record \in Changes, Committed(record), born' \in Nat, made' \in Nat
  PROVE  Shapes'
<1>1. record.put \in Catalogs
  BY DEF Changes
<1>2. \A e \in DOMAIN record.put : record.put[e].data \in Nat
  BY <1>1, CatalogIs
<1>3. held' \subseteq Nat
  BY <1>2 DEF Committed, Shapes
<1>4. journal' \in Seq(Changes)
  BY DEF Committed, Shapes
<1>5. left' \in [person : Nat, others : Nat, kills : Nat]
  BY DEF Committed, Shapes
<1> QED BY <1>3, <1>4, <1>5 DEF Committed, Shapes, fileVars

LEMMA RecordTyped ==
  ASSUME NEW removed \in SUBSET Nat, NEW renamed \in Renamings, NEW put \in Catalogs
  PROVE  /\ Record(removed, renamed, put) \in Changes
         /\ Record(removed, renamed, put).removed = removed
         /\ Record(removed, renamed, put).renamed = renamed
         /\ Record(removed, renamed, put).put = put
  BY DEF Record, Changes

LEMMA OthersShapes ==
  ASSUME Shapes, Others
  PROVE  Shapes'
<1> DEFINE L == Library
<1>1. L \in Catalogs
  BY LibraryTyped
<1>0. born \in Nat /\ made \in Nat /\ {} \in SUBSET Nat
  BY DEF Shapes
<1>2. DOMAIN L \subseteq Nat /\ \A e \in DOMAIN L : L[e] \in Entries /\ L[e].path \in Paths
  BY <1>1, CatalogIs
<1>3. CASE OtherRename
  <2>1. PICK e \in DOMAIN L, p \in Paths : Committed(Record({}, Only(e, p), <<>>)) /\ UNCHANGED <<born, made>>
    BY <1>3 DEF OtherRename
  <2>2. Record({}, Only(e, p), <<>>) \in Changes
    BY <1>0, <1>2, RenamedTyped, NothingTyped, RecordTyped
  <2> HIDE DEF L
  <2> QED BY <1>0, <2>1, <2>2, CommittedShapes
<1>4. CASE OtherSwap
  <2>1. PICK e \in DOMAIN L, f \in DOMAIN L :
             /\ Committed(Record({}, [g \in {e, f} |-> L[IF g = e THEN f ELSE e].path], <<>>))
             /\ UNCHANGED <<born, made>>
    BY <1>4 DEF OtherSwap
  <2> HIDE DEF L
  <2>2. [g \in {e, f} |-> L[IF g = e THEN f ELSE e].path] \in [{e, f} -> Paths]
    BY <1>2
  <2>3. [g \in {e, f} |-> L[IF g = e THEN f ELSE e].path] \in Renamings
    BY <2>2, <1>2 DEF Renamings
  <2>4. Record({}, [g \in {e, f} |-> L[IF g = e THEN f ELSE e].path], <<>>) \in Changes
    BY <1>0, <2>3, NothingTyped, RecordTyped
  <2> QED BY <1>0, <2>1, <2>4, CommittedShapes
<1>5. CASE OtherRemove
  <2>1. PICK e \in DOMAIN L : Committed(Record({e}, <<>>, <<>>)) /\ UNCHANGED <<born, made>>
    BY <1>5 DEF OtherRemove
  <2>2. Record({e}, <<>>, <<>>) \in Changes
    BY <1>2, NothingTyped, RecordTyped
  <2> HIDE DEF L
  <2> QED BY <1>0, <2>1, <2>2, CommittedShapes
<1>6. CASE OtherUpdate
  <2>1. PICK e \in DOMAIN L :
             /\ Committed(Record({}, <<>>, Only(e, [path |-> L[e].path, data |-> made + 1])))
             /\ made' = made + 1 /\ UNCHANGED born
    BY <1>6 DEF OtherUpdate
  <2>2. [path |-> L[e].path, data |-> made + 1] \in Entries
    BY <1>0, <1>2 DEF Entries
  <2>3. Record({}, <<>>, Only(e, [path |-> L[e].path, data |-> made + 1])) \in Changes
    <3> DEFINE x == [path |-> L[e].path, data |-> made + 1]
    <3> HIDE DEF L, x
    <3>1. Only(e, x) \in Catalogs
      BY <1>2, <2>2, PutTyped DEF x
    <3>2. Record({}, <<>>, Only(e, x)) \in Changes
      BY <1>0, <3>1, NothingTyped, RecordTyped
    <3> QED BY <3>2 DEF x
  <2> HIDE DEF L
  <2> QED BY <1>0, <2>1, <2>3, CommittedShapes
<1>7. CASE OtherAdd
  <2>1. PICK p \in Paths :
             /\ Committed(Record({}, <<>>, Only(born + 1, [path |-> p, data |-> made + 1])))
             /\ made' = made + 1 /\ born' = born + 1
    BY <1>7 DEF OtherAdd
  <2>2. [path |-> p, data |-> made + 1] \in Entries /\ born + 1 \in Nat
    BY <1>0 DEF Entries
  <2>3. Record({}, <<>>, Only(born + 1, [path |-> p, data |-> made + 1])) \in Changes
    <3> DEFINE x == [path |-> p, data |-> made + 1]
    <3> HIDE DEF x
    <3>1. Only(born + 1, x) \in Catalogs
      BY <2>2, PutTyped DEF x
    <3>2. Record({}, <<>>, Only(born + 1, x)) \in Changes
      BY <1>0, <3>1, NothingTyped, RecordTyped
    <3> QED BY <3>2 DEF x
  <2> HIDE DEF L
  <2> QED BY <1>0, <2>1, <2>3, CommittedShapes
<1> QED BY <1>3, <1>4, <1>5, <1>6, <1>7 DEF Others

LEMMA PersonShapes ==
  ASSUME Shapes, Person
  PROVE  Shapes'
<1>0. made \in Nat /\ \A p \in Mapped : p \in Paths /\ disk[p] \in Nat /\ NoFile \in Nat
  BY ValuesAre DEF Shapes
<1>1. ASSUME NEW files \in [Paths -> Nat], NEW theirs, Touch(files, theirs), made' \in Nat
      PROVE  Shapes'
  <2>1. left' \in [person : Nat, others : Nat, kills : Nat]
    BY <1>1 DEF Touch, Shapes
  <2>2. disk' \in [Paths -> Nat] /\ own' \subseteq Mapped /\ calm' \in BOOLEAN
    BY <1>1 DEF Touch, Shapes
  <2> QED BY <1>1, <2>1, <2>2 DEF Touch, Shapes
<1>2. ASSUME NEW p \in Mapped, Write(p) PROVE Shapes'
  <2>1. [disk EXCEPT ![p] = made + 1] \in [Paths -> Nat] /\ made' \in Nat
    BY <1>0, <1>2 DEF Shapes, Write
  <2> QED BY <1>1, <1>2, <2>1 DEF Write
<1>3. ASSUME NEW p \in Mapped, TakeAway(p) PROVE Shapes'
  <2>1. [disk EXCEPT ![p] = NoFile] \in [Paths -> Nat] /\ made' \in Nat
    BY <1>0, <1>3 DEF Shapes, TakeAway
  <2> QED BY <1>1, <1>3, <2>1 DEF TakeAway
<1>4. ASSUME NEW p \in Mapped, NEW q \in Mapped, Move(p, q) PROVE Shapes'
  <2>1. [disk EXCEPT ![q] = disk[p], ![p] = NoFile] \in [Paths -> Nat] /\ made' \in Nat
    BY <1>0, <1>4 DEF Shapes, Move
  <2> QED BY <1>1, <1>4, <2>1 DEF Move
<1>5. ASSUME NEW p \in Mapped, NEW q \in Mapped, Copy(p, q) PROVE Shapes'
  <2>1. [disk EXCEPT ![q] = disk[p]] \in [Paths -> Nat] /\ made' \in Nat
    BY <1>0, <1>5 DEF Shapes, Copy
  <2> QED BY <1>1, <1>5, <2>1 DEF Copy
<1> QED BY <1>2, <1>3, <1>4, <1>5 DEF Person

LEMMA KillShapes ==
  ASSUME Shapes, Kill
  PROVE  Shapes'
<1>1. left' \in [person : Nat, others : Nat, kills : Nat]
  BY DEF Kill, Shapes
<1>2. run' \in Runs
  BY DEF Kill, Runs
<1>3. torn' \subseteq Tears
  BY DEF Kill, Shapes, Tears
<1> QED BY <1>1, <1>2, <1>3 DEF Kill, Shapes, libraryVars

-----------------------------------------------------------------------------
\* The walk over the pending files comes back on the members of a cycle.

LEMMA WalkSteps ==
  ASSUME NEW N \in Nat, NEW a, NEW F
  PROVE  \E f : f = [n \in 0 .. N |-> IF n = 0 THEN a ELSE F[f[n - 1]]]
<1> DEFINE Upto(f, k) == f = [n \in 0 .. k |-> IF n = 0 THEN a ELSE F[f[n - 1]]]
           S == {k \in 0 .. N : \E f : Upto(f, k)}
<1>1. 0 \in S
  <2> DEFINE f == [n \in 0 .. 0 |-> a]
  <2>1. Upto(f, 0)
    OBVIOUS
  <2> HIDE DEF Upto
  <2> QED BY <2>1
<1>2. ASSUME NEW k \in 1 .. N, k - 1 \in S PROVE k \in S
  <2>1. PICK f : Upto(f, k - 1)
    BY <1>2
  <2> DEFINE g == [n \in 0 .. k |-> IF n = k THEN F[f[k - 1]] ELSE f[n]]
  <2>2. Upto(g, k)
    <3> HIDE DEF g
    <3>1. g = [n \in 0 .. k |-> IF n = k THEN F[f[k - 1]] ELSE f[n]]
      BY DEF g
    <3>2. \A n \in 0 .. k : g[n] = IF n = 0 THEN a ELSE F[g[n - 1]]
      <4> SUFFICES ASSUME NEW n \in 0 .. k PROVE g[n] = IF n = 0 THEN a ELSE F[g[n - 1]]
        OBVIOUS
      <4>1. CASE n = k
        <5>1. g[n] = F[f[k - 1]] /\ g[k - 1] = f[k - 1]
          BY <3>1, <4>1
        <5> QED BY <5>1, <4>1
      <4>2. CASE n # k
        <5>1. g[n] = f[n]
          BY <3>1, <4>2
        <5>2. n # 0 => g[n - 1] = f[n - 1]
          BY <3>1, <4>2
        <5>3. f[n] = IF n = 0 THEN a ELSE F[f[n - 1]]
          BY <2>1, <4>2
        <5> QED BY <5>1, <5>2, <5>3
      <4> QED BY <4>1, <4>2
    <3> QED BY <3>1, <3>2
  <2> HIDE DEF Upto, g
  <2> QED BY <2>2
<1> HIDE DEF S
<1>3. \A n \in 0 .. N : n \in S
  BY <1>1, <1>2, Stepwise
<1>4. N \in S
  BY <1>3
<1> QED BY <1>4 DEF S

\* What a cycle of pending files is: each waits for the next one's place, and the
\* last for the first one's.
Circle(pending, c) ==
  /\ c \in Seq(DOMAIN pending) /\ Len(c) >= 1
  /\ \A i \in 1 .. Len(c) : pending[c[i]] = c[IF i = Len(c) THEN 1 ELSE i + 1]
  /\ \A i, j \in 1 .. Len(c) : c[i] = c[j] => i = j

LEMMA CycleIs ==
  ASSUME NEW pending \in Moves, DOMAIN pending # {},
         \A p \in DOMAIN pending : pending[p] \in DOMAIN pending
  PROVE  Circle(pending, CycleOf(pending))
<1> DEFINE D == DOMAIN pending
           N == Cardinality(Paths)
           a == Least(D)
           V == CHOOSE f : f = [n \in 0 .. N |-> IF n = 0 THEN a ELSE pending[f[n - 1]]]
           back == Least({n \in DOMAIN V : \E m \in DOMAIN V : m > n /\ V[m] = V[n]})
           again == Least({m \in DOMAIN V : m > back /\ V[m] = V[back]})
<1>0. N \in Nat /\ D \subseteq Mapped /\ D \subseteq Paths /\ D # {}
  BY PathFacts, MovesAre
<1>1. V = [n \in 0 .. N |-> IF n = 0 THEN a ELSE pending[V[n - 1]]]
  BY <1>0, WalkSteps
<1>2. CycleOf(pending) = [i \in 1 .. (again - back) |-> V[back + i - 1]]
  BY DEF CycleOf
<1> HIDE DEF V
<1>3. DOMAIN V = 0 .. N /\ V[0] = a /\ \A n \in 1 .. N : V[n] = pending[V[n - 1]]
  BY <1>0, <1>1
<1>4. a \in D
  BY <1>0, LeastIs
<1> HIDE DEF a
<1>5. \A n \in 0 .. N : V[n] \in D
  <2> DEFINE S == {n \in 0 .. N : V[n] \in D}
  <2>1. 0 \in S
    BY <1>0, <1>3, <1>4
  <2>2. ASSUME NEW n \in 1 .. N, n - 1 \in S PROVE n \in S
    BY <1>3, <2>2
  <2> HIDE DEF S
  <2>3. \A n \in 0 .. N : n \in S
    BY <1>0, <2>1, <2>2, Stepwise
  <2> QED BY <2>3 DEF S
<1>6. PICK x \in 0 .. N, y \in 0 .. N : x # y /\ V[x] = V[y]
  <2>1. IsFiniteSet(0 .. N) /\ Cardinality(0 .. N) = N + 1
    BY <1>0, FS_Interval
  <2>2. IsFiniteSet(D) /\ Cardinality(D) <= N /\ Cardinality(D) \in Nat
    BY <1>0, PathFacts, FS_Subset, FS_CardinalityType
  <2>3. V \in [0 .. N -> D]
    <3>1. V = [n \in 0 .. N |-> V[n]]
      BY <1>1, <1>3
    <3> QED BY <3>1, <1>5
  <2>4. Cardinality(D) < Cardinality(0 .. N)
    BY <1>0, <2>1, <2>2
  <2> HIDE DEF D, N
  <2> QED BY <2>1, <2>2, <2>3, <2>4, FS_PigeonHole
<1> DEFINE B == {n \in DOMAIN V : \E m \in DOMAIN V : m > n /\ V[m] = V[n]}
<1>7. B \in SUBSET Nat /\ B # {}
  BY <1>0, <1>3, <1>6
<1>8. back \in B /\ \A n \in B : back <= n
  BY <1>7, LeastOf DEF Least
<1> DEFINE A == {m \in DOMAIN V : m > back /\ V[m] = V[back]}
<1>9. A \in SUBSET Nat /\ A # {}
  <2>1. A \in SUBSET Nat
    BY <1>3, <1>0
  <2>2. \E m \in DOMAIN V : m > back /\ V[m] = V[back]
    BY <1>8
  <2> HIDE DEF back
  <2> QED BY <2>1, <2>2
<1>10. again \in A /\ \A m \in A : again <= m
  BY <1>9, LeastOf DEF Least
<1>11. /\ back \in 0 .. N /\ again \in 0 .. N /\ again > back /\ V[again] = V[back]
       /\ \A m \in 0 .. N : m > back /\ V[m] = V[back] => again <= m
  BY <1>3, <1>8, <1>10
<1> HIDE DEF back, again, A, B
<1> DEFINE L == again - back
           c == [i \in 1 .. L |-> V[back + i - 1]]
<1>12. L \in Nat /\ L >= 1 /\ back + L = again
  BY <1>11
<1>13. \A i \in 1 .. L : back + i - 1 \in 0 .. N /\ c[i] = V[back + i - 1] /\ c[i] \in D
  <2>1. \A i \in 1 .. L : back + i - 1 \in 0 .. N
    BY <1>0, <1>11
  <2> QED BY <2>1, <1>5
<1>14. c \in Seq(D) /\ Len(c) = L
  <2>1. c \in [1 .. L -> D]
    BY <1>13
  <2> HIDE DEF c, D, L
  <2> QED BY <2>1, <1>12
<1>15. ASSUME NEW i \in 1 .. L
       PROVE  pending[c[i]] = c[IF i = L THEN 1 ELSE i + 1]
  <2>1. back + i \in 1 .. N /\ V[back + i] = pending[V[back + i - 1]] /\ c[i] = V[back + i - 1]
    <3>1. back + i \in 1 .. N /\ (back + i) - 1 = back + i - 1
      BY <1>0, <1>11
    <3> QED BY <3>1, <1>3, <1>13
  <2>2. CASE i = L
    <3>1. back + i = again /\ c[1] = V[back]
      BY <1>11, <2>2
    <3> QED BY <3>1, <2>1, <1>11, <2>2
  <2>3. CASE i # L
    <3>1. i + 1 \in 1 .. L /\ back + (i + 1) - 1 = back + i
      BY <1>12, <1>11, <2>3
    <3>2. c[i + 1] = V[back + i]
      BY <3>1
    <3> QED BY <3>2, <2>1, <2>3
  <2> QED BY <2>2, <2>3
<1>16. ASSUME NEW i \in 1 .. L, NEW j \in 1 .. L, i < j, c[i] = c[j]
       PROVE  FALSE
  <2> DEFINE x0 == back + i - 1
             y0 == back + j - 1
             M == again - y0
             S == {k \in 0 .. M : V[x0 + k] = V[y0 + k]}
  <2>0. x0 \in 0 .. N /\ y0 \in 0 .. N /\ x0 < y0 /\ y0 < again /\ back <= x0 /\ V[x0] = V[y0]
    <3>1. c[i] = V[x0] /\ c[j] = V[y0]
      BY <1>13
    <3>2. x0 \in 0 .. N /\ y0 \in 0 .. N /\ x0 < y0 /\ y0 < again /\ back <= x0
      BY <1>0, <1>11, <1>12, <1>16
    <3> QED BY <3>1, <3>2, <1>16
  <2> HIDE DEF x0, y0
  <2>1. M \in Nat /\ \A k \in 0 .. M : x0 + k \in 0 .. N /\ y0 + k \in 0 .. N
    BY <1>0, <2>0, <1>11
  <2>2. 0 \in S
    BY <2>0, <2>1
  <2>3. ASSUME NEW k \in 1 .. M, k - 1 \in S PROVE k \in S
    <3>1. V[x0 + (k - 1)] = V[y0 + (k - 1)] /\ k \in 0 .. M
      BY <2>3, <2>1
    <3>2. x0 + k \in 1 .. N /\ y0 + k \in 1 .. N /\ (x0 + k) - 1 = x0 + (k - 1) /\ (y0 + k) - 1 = y0 + (k - 1)
      BY <3>1, <2>1, <2>0
    <3>3. V[x0 + k] = V[y0 + k]
      BY <3>1, <3>2, <1>3
    <3> QED BY <3>1, <3>3
  <2> HIDE DEF S, M
  <2>4. \A k \in 0 .. M : k \in S
    BY <2>1, <2>2, <2>3, Stepwise
  <2>5. V[x0 + M] = V[y0 + M]
    <3>1. M \in S
      BY <2>1, <2>4
    <3> QED BY <3>1 DEF S
  <2>6. y0 + M = again /\ x0 + M \in 0 .. N /\ x0 + M > back /\ x0 + M < again
    BY <2>0, <2>1, <1>11 DEF M
  <2>7. V[x0 + M] = V[back]
    BY <2>5, <2>6, <1>11
  <2>8. again <= x0 + M
    BY <2>6, <2>7, <1>11
  <2>9. again \in Nat /\ x0 + M \in Nat
    BY <2>6, <1>11
  <2> QED BY <2>6, <2>8, <2>9
<1>17. \A i, j \in 1 .. L : c[i] = c[j] => i = j
  <2> HIDE DEF c
  <2>1. L \in Nat
    BY <1>12
  <2> HIDE DEF L
  <2> QED BY <1>16, <2>1
<1>18. Circle(pending, c)
  <2> HIDE DEF c, L
  <2> QED BY <1>12, <1>14, <1>15, <1>17 DEF Circle
<1> QED BY <1>2, <1>18

-----------------------------------------------------------------------------
\* Every step of a run keeps the shapes.

LEMMA StartShapes ==
  ASSUME Shapes, Start("sync") \/ Start("fetch")
  PROVE  Shapes'
<1> DEFINE caught == ApplyAll(cat, rec, journal)
           done == {o \in rows : Completes(caught.cat, o)}
<1>1. caught.cat \in Catalogs /\ caught.rec \in Records /\ done \in SUBSET Seens
  BY ReplayTyped DEF Shapes
<1>2. /\ cat' = caught.cat /\ rec' = Marked(caught.cat, caught.rec, done) /\ own' \subseteq own
      /\ journal' = <<>> /\ rows' = {} /\ torn' = torn \cup TornBy(journal)
      /\ UNCHANGED <<disk, calm, held, born, made, left>>
      /\ \E kind \in Kinds : run' = [phase |-> "look", kind |-> kind, owed |-> NothingOwed]
  BY DEF Start, Kinds
<1> HIDE DEF caught, done
<1>3. rec' \in Records
  BY <1>1, <1>2, MarkedTyped
<1>4. run' \in Runs
  <2>1. run' \in LookRuns
    BY <1>2, NothingTyped DEF LookRuns
  <2> QED BY <2>1, KindIsRun
<1>5. journal' \in Seq(Changes)
  BY <1>2
<1>6. torn' \subseteq Tears
  BY <1>2 DEF TornBy, Shapes, Tears
<1>7. own' \subseteq Mapped /\ disk' \in [Paths -> Nat] /\ calm' \in BOOLEAN /\ rows' \subseteq Seens
      /\ held' \subseteq Nat /\ born' \in Nat /\ made' \in Nat /\ left' \in [person : Nat, others : Nat, kills : Nat]
  BY <1>2 DEF Shapes
<1> QED BY <1>1, <1>2, <1>3, <1>4, <1>5, <1>6, <1>7 DEF Shapes

\* What a relocation holds beside its types: what it decided follows what it saw.
Tidy ==
  run.phase \in Relocs =>
    /\ run.todo \subseteq DOMAIN run.looks
    /\ \A p \in DOMAIN run.pending : p \in DOMAIN run.looks /\ run.pending[p] = run.looks[p].to
    /\ \A p \in run.gone : p \in DOMAIN run.looks /\ run.looks[p].to \in Mapped
    /\ run.phase = "finish" => DOMAIN run.pending = {} /\ run.gone = {}
    /\ run.phase \in {"finish", "decide"} => run.cycle = <<>>
    /\ run.phase \in {"finish", "gone", "relocated"} => run.owed = NothingOwed
    /\ run.phase \notin {"finish", "decide"} => run.todo = {}
    /\ run.phase \in {"gone", "relocated"} => DOMAIN run.pending = {} /\ run.cycle = <<>>
    /\ run.phase = "relocated" => run.gone = {}

LEMMA RelocatingTyped ==
  ASSUME Shapes, NEW kind \in Kinds
  PROVE  Relocating(kind, Looks) \in RelocRuns
<1>1. Looks \in Views /\ DOMAIN Looks \subseteq Mapped
  BY LooksTyped, ViewsAre
<1>2. <<>> \in Seq(Mapped) /\ <<>> \in Moves /\ NothingOwed \in Owes
  BY NothingTyped
<1> QED BY <1>1, <1>2 DEF Relocating, RelocRuns, Relocs

LEMMA LookShapes ==
  ASSUME Shapes, Look
  PROVE  Shapes'
<1>1. run \in LookRuns
  BY RunIs DEF Look, Free
<1>2. run.kind \in Kinds
  BY <1>1 DEF LookRuns
<1>3. run' \in Runs
  BY <1>2, RelocatingTyped, KindIsRun DEF Look
<1> QED BY <1>3 DEF Look, Shapes, libraryVars

\* What a step of the relocation needs to show.
LEMMA RelocShapes ==
  ASSUME Shapes, run' \in RelocRuns, rec' \in Records, disk' \in [Paths -> Nat],
         own' \subseteq Mapped, calm' \in BOOLEAN, cat' = cat, UNCHANGED <<libraryVars, rows, left>>, torn' \subseteq Tears
  PROVE  Shapes'
<1>1. run' \in Runs
  BY KindIsRun
<1> QED BY <1>1 DEF Shapes, libraryVars

LEMMA EmptyMoves ==
  ASSUME NEW m \in Moves
  PROVE  m = <<>> <=> DOMAIN m = {}
<1>1. m \in [DOMAIN m -> Mapped]
  BY DEF Moves
<1>2. ASSUME DOMAIN m = {} PROVE m = <<>>
  <2>1. m \in [{} -> Mapped]
    BY <1>1, <1>2
  <2> QED BY <2>1
<1> QED BY <1>2

LEMMA RelocFields ==
  ASSUME Shapes, run.phase \in Relocs
  PROVE  /\ run \in RelocRuns /\ run.looks \in Views /\ run.pending \in Moves
         /\ run.todo \subseteq Mapped /\ run.touched \subseteq Mapped /\ run.gone \subseteq Mapped
         /\ run.cycle \in Seq(Mapped) /\ run.owed \in Owes /\ run.changed \in BOOLEAN
         /\ DOMAIN run.looks \subseteq Mapped /\ run.kind \in Kinds
<1>1. run \in RelocRuns
  BY RunIs
<1>2. run.looks \in Views
  BY <1>1 DEF RelocRuns
<1> QED BY <1>1, <1>2, ViewsAre DEF RelocRuns

LEMMA FinishNextIs ==
  ASSUME Shapes, Tidy, FinishNext
  PROVE  \E p \in run.todo :
           /\ p \in Mapped /\ p \in DOMAIN run.looks
           /\ run.phase = "finish" /\ run.owed = NothingOwed
           /\ UNCHANGED <<cat, disk, calm>>
           /\ run' \in RelocRuns
           /\ run'.phase = "finish" /\ run'.owed = NothingOwed /\ run'.kind = run.kind
           /\ run'.looks = run.looks /\ run'.todo = run.todo \ {p} /\ run'.pending = run.pending
           /\ run'.cycle = run.cycle /\ run'.gone = run.gone
           /\ \/ /\ UNCHANGED <<rec, own>>
                 /\ run'.touched = run.touched /\ run'.changed = run.changed
              \/ /\ Untouched(p) /\ (MovedAlready(p) \/ ExchangedAlready(p))
                 /\ run.looks[p].to \in Mapped
                 /\ run'.touched = run.touched \cup {p, run.looks[p].to} /\ run'.changed = TRUE
                 /\ LET moves == IF MovedAlready(p) THEN Only(p, run.looks[p].to)
                                 ELSE Exchange(p, run.looks[p].to)
                    IN moves \in Moves /\ Keep(Rekeyed(cat, rec, moves))
<1>0. run.phase = "finish" /\ run.owed = NothingOwed /\ run.phase \in Relocs /\ run.todo # {}
  BY DEF FinishNext, Free, Relocs
<1>1. run \in RelocRuns /\ run.todo \subseteq Mapped
  BY <1>0, RelocFields
<1> DEFINE p == Least(run.todo)
           to == run.looks[p].to
           moves == IF MovedAlready(p) THEN Only(p, to) ELSE Exchange(p, to)
<1>2. p \in run.todo /\ p \in Mapped /\ p \in DOMAIN run.looks
  BY <1>0, <1>1, PathFacts, LeastIs DEF Tidy
<1>3. CASE Untouched(p) /\ (MovedAlready(p) \/ ExchangedAlready(p))
  <2>1. Keep(Rekeyed(cat, rec, moves))
        /\ run' = [run EXCEPT !.todo = @ \ {p}, !.touched = @ \cup {p, to}, !.changed = TRUE]
        /\ UNCHANGED <<cat, disk, calm>>
    BY <1>3 DEF FinishNext
  <2>2. to \in Mapped
    BY <1>3 DEF Untouched
  <2>3. moves \in Moves
    <3> HIDE DEF p, to
    <3> QED BY <1>2, <2>2, OnlyTyped
  <2>4. run' \in RelocRuns
        /\ run'.phase = "finish" /\ run'.owed = NothingOwed /\ run'.kind = run.kind
        /\ run'.looks = run.looks /\ run'.todo = run.todo \ {p} /\ run'.pending = run.pending
        /\ run'.cycle = run.cycle /\ run'.gone = run.gone
        /\ run'.touched = run.touched \cup {p, to} /\ run'.changed = TRUE
    <3> HIDE DEF p, to, moves
    <3> QED BY <1>0, <1>1, <1>2, <2>1, <2>2 DEF RelocRuns
  <2> HIDE DEF p
  <2> QED BY <1>0, <1>2, <1>3, <2>1, <2>2, <2>3, <2>4
<1>4. CASE ~(Untouched(p) /\ (MovedAlready(p) \/ ExchangedAlready(p)))
  <2>1. run' = [run EXCEPT !.todo = @ \ {p}] /\ UNCHANGED <<rec, own, cat, disk, calm>>
    BY <1>4 DEF FinishNext
  <2> HIDE DEF p
  <2>2. run' \in RelocRuns
        /\ run'.phase = "finish" /\ run'.owed = NothingOwed /\ run'.kind = run.kind
        /\ run'.looks = run.looks /\ run'.todo = run.todo \ {p} /\ run'.pending = run.pending
        /\ run'.cycle = run.cycle /\ run'.gone = run.gone
        /\ run'.touched = run.touched /\ run'.changed = run.changed
    BY <1>0, <1>1, <2>1 DEF RelocRuns
  <2> QED BY <1>0, <1>2, <2>1, <2>2
<1> QED BY <1>3, <1>4

LEMMA FinishDoneIs ==
  ASSUME Shapes, Tidy, FinishDone
  PROVE  LET looks == IF run.touched = {} THEN run.looks ELSE Looks IN
         /\ run.phase = "finish" /\ run.owed = NothingOwed /\ run.todo = {}
         /\ looks \in Views /\ UNCHANGED <<cat, rec, disk, own>>
         /\ calm' = (calm \/ run.touched # {})
         /\ run' \in RelocRuns
         /\ run'.phase = "decide" /\ run'.owed = NothingOwed /\ run'.kind = run.kind
         /\ run'.looks = looks /\ run'.todo = DOMAIN looks /\ run'.touched = run.touched
         /\ run'.pending = run.pending /\ run'.cycle = run.cycle /\ run'.gone = run.gone
         /\ run'.changed = run.changed
<1>0. run.phase = "finish" /\ run.owed = NothingOwed /\ run.phase \in Relocs /\ run.todo = {}
  BY DEF FinishDone, Free, Relocs
<1>1. run \in RelocRuns
  BY <1>0, RelocFields
<1> DEFINE looks == IF run.touched = {} THEN run.looks ELSE Looks
<1>2. looks \in Views /\ DOMAIN looks \subseteq Mapped
  BY <1>1, LooksTyped, ViewsAre, ViewsMapped
<1>3. run' = [run EXCEPT !.phase = "decide", !.looks = looks, !.todo = DOMAIN looks]
      /\ UNCHANGED <<cat, rec, disk, own>> /\ calm' = (calm \/ run.touched # {})
  BY DEF FinishDone
<1> HIDE DEF looks
<1>4. run' \in RelocRuns
         /\ run'.phase = "decide" /\ run'.owed = NothingOwed /\ run'.kind = run.kind
         /\ run'.looks = looks /\ run'.todo = DOMAIN looks /\ run'.touched = run.touched
         /\ run'.pending = run.pending /\ run'.cycle = run.cycle /\ run'.gone = run.gone
         /\ run'.changed = run.changed
  BY <1>0, <1>1, <1>2, <1>3 DEF RelocRuns, Relocs
<1> QED BY <1>0, <1>2, <1>3, <1>4 DEF looks

LEMMA DecisionIs ==
  ASSUME NEW p
  PROVE  LET one == run.looks[p] IN
         /\ Decision(p) \in {"discard", "forget", "gone", "move", "refuse"}
         /\ Decision(p) = "forget" => one.to \notin Mapped /\ one.source = NoFile
         /\ Decision(p) = "gone" => one.to \in Mapped /\ one.source = NoFile
         /\ Decision(p) = "discard" => /\ one.source # NoFile /\ one.source = one.data
                                       /\ one.to \notin Mapped \/ Redundant(p)
         /\ Decision(p) = "move" => /\ one.source # NoFile /\ one.source = one.data /\ one.to \in Mapped
                                    /\ one.target = NoFile \/ Waits(cat, rec, one.to)
         /\ Decision(p) = "refuse" =>
              /\ one.source # NoFile
              /\ \/ one.source # one.data
                 \/ one.target # NoFile /\ ~Redundant(p) /\ ~Waits(cat, rec, one.to) /\ one.to \in Mapped
  BY DEF Decision

DecideKeeps(p) ==
  /\ UNCHANGED <<cat, calm>>
  /\ run' \in RelocRuns /\ run'.phase = "decide" /\ run'.kind = run.kind
  /\ run'.looks = run.looks /\ run'.todo = run.todo \ {p} /\ run'.touched = run.touched
  /\ run'.cycle = run.cycle

LEMMA DecideNextIs ==
  ASSUME Shapes, Tidy, DecideNext
  PROVE  \E p \in run.todo :
           /\ p \in Mapped /\ p \in DOMAIN run.looks
           /\ run.phase = "decide" /\ run.owed = NothingOwed
           /\ DecideKeeps(p)
           /\ \/ /\ Decision(p) \in {"discard", "refuse"} /\ (Decision(p) = "discard" => disk[p] = NoFile)
                 /\ UNCHANGED <<rec, disk, own>> /\ run'.owed = NothingOwed
                 /\ run'.pending = run.pending /\ run'.gone = run.gone /\ run'.changed = run.changed
              \/ /\ Decision(p) = "discard" /\ disk[p] # NoFile
                 /\ disk' = [disk EXCEPT ![p] = NoFile] /\ own' = own \ {p} /\ rec' = rec
                 /\ run'.owed = [NothingOwed EXCEPT !.forget = {p}]
                 /\ run'.pending = run.pending /\ run'.gone = run.gone /\ run'.changed = TRUE
              \/ /\ Decision(p) = "forget"
                 /\ rec' = Forgotten(rec, {p}) /\ UNCHANGED <<disk, own>> /\ run'.owed = NothingOwed
                 /\ run'.pending = run.pending /\ run'.gone = run.gone /\ run'.changed = TRUE
              \/ /\ Decision(p) = "gone"
                 /\ UNCHANGED <<rec, disk, own>> /\ run'.owed = NothingOwed
                 /\ run'.pending = run.pending /\ run'.gone = run.gone \cup {p}
                 /\ run'.changed = run.changed
              \/ /\ Decision(p) = "move"
                 /\ UNCHANGED <<rec, disk, own>> /\ run'.owed = NothingOwed
                 /\ DOMAIN run'.pending = DOMAIN run.pending \cup {p}
                 /\ \A q \in DOMAIN run'.pending : run'.pending[q] = run.looks[q].to
                 /\ run'.gone = run.gone /\ run'.changed = run.changed
<1>0. run.phase = "decide" /\ run.owed = NothingOwed /\ run.phase \in Relocs /\ run.todo # {}
  BY DEF DecideNext, Free, Relocs
<1>1. run \in RelocRuns /\ run.todo \subseteq Mapped /\ run.pending \in Moves
  BY <1>0, RelocFields
<1> DEFINE p == Least(run.todo)
           decided == [run EXCEPT !.todo = @ \ {p}]
<1>2. p \in run.todo /\ p \in Mapped /\ p \in DOMAIN run.looks
  BY <1>0, <1>1, PathFacts, LeastIs DEF Tidy
<1>3. UNCHANGED <<cat, calm>>
  BY DEF DecideNext
<1>4. /\ decided \in RelocRuns /\ decided.phase = "decide" /\ decided.kind = run.kind
      /\ decided.looks = run.looks /\ decided.todo = run.todo \ {p} /\ decided.touched = run.touched
      /\ decided.cycle = run.cycle /\ decided.owed = NothingOwed
      /\ decided.pending = run.pending /\ decided.gone = run.gone /\ decided.changed = run.changed
  BY <1>0, <1>1 DEF RelocRuns
<1>5. CASE Decision(p) = "discard"
  <2>1. Discarded(p) /\ UNCHANGED rec
    BY <1>5 DEF DecideNext
  <2>2. CASE disk[p] = NoFile
    <3>1. UNCHANGED <<disk, own>> /\ run' = decided
      BY <2>1, <2>2 DEF Discarded
    <3> HIDE DEF p, decided
    <3> QED BY <1>0, <1>2, <1>3, <1>4, <1>5, <2>1, <2>2, <3>1 DEF DecideKeeps
  <2>3. CASE disk[p] # NoFile
    <3>1. /\ disk' = [disk EXCEPT ![p] = NoFile] /\ own' = own \ {p}
          /\ run' = [run EXCEPT !.todo = @ \ {p}, !.owed.forget = {p}, !.changed = TRUE]
      BY <2>1, <2>3 DEF Discarded
    <3> HIDE DEF p, decided
    <3>2. /\ run' \in RelocRuns /\ run'.phase = "decide" /\ run'.kind = run.kind
          /\ run'.looks = run.looks /\ run'.todo = run.todo \ {p} /\ run'.touched = run.touched
          /\ run'.cycle = run.cycle /\ run'.owed = [NothingOwed EXCEPT !.forget = {p}]
          /\ run'.pending = run.pending /\ run'.gone = run.gone /\ run'.changed = TRUE
      BY <1>0, <1>1, <1>2, <3>1 DEF RelocRuns, Owes
    <3> QED BY <1>0, <1>2, <1>3, <1>5, <2>1, <2>3, <3>1, <3>2 DEF DecideKeeps
  <2> QED BY <2>2, <2>3
<1>6. CASE Decision(p) = "forget"
  <2>1. rec' = Forgotten(rec, {p}) /\ run' = [decided EXCEPT !.changed = TRUE] /\ UNCHANGED <<disk, own>>
    BY <1>6 DEF DecideNext
  <2> HIDE DEF p, decided
  <2>2. /\ run' \in RelocRuns /\ run'.phase = "decide" /\ run'.kind = run.kind
        /\ run'.looks = run.looks /\ run'.todo = run.todo \ {p} /\ run'.touched = run.touched
        /\ run'.cycle = run.cycle /\ run'.owed = NothingOwed
        /\ run'.pending = run.pending /\ run'.gone = run.gone /\ run'.changed = TRUE
    BY <1>4, <2>1 DEF RelocRuns
  <2> QED BY <1>0, <1>2, <1>3, <1>6, <2>1, <2>2 DEF DecideKeeps
<1>7. CASE Decision(p) = "gone"
  <2>1. run' = [decided EXCEPT !.gone = @ \cup {p}] /\ UNCHANGED <<rec, disk, own>>
    BY <1>7 DEF DecideNext
  <2> HIDE DEF p, decided
  <2>2. /\ run' \in RelocRuns /\ run'.phase = "decide" /\ run'.kind = run.kind
        /\ run'.looks = run.looks /\ run'.todo = run.todo \ {p} /\ run'.touched = run.touched
        /\ run'.cycle = run.cycle /\ run'.owed = NothingOwed
        /\ run'.pending = run.pending /\ run'.gone = run.gone \cup {p} /\ run'.changed = run.changed
    BY <1>2, <1>4, <2>1 DEF RelocRuns
  <2> QED BY <1>0, <1>2, <1>3, <1>7, <2>1, <2>2 DEF DecideKeeps
<1>8. CASE Decision(p) = "move"
  <2> DEFINE more == [q \in DOMAIN run.pending \cup {p} |-> run.looks[q].to]
  <2>1. run' = [decided EXCEPT !.pending = [q \in DOMAIN @ \cup {p} |-> run.looks[q].to]]
        /\ UNCHANGED <<rec, disk, own>>
    BY <1>8 DEF DecideNext
  <2>2. run' = [decided EXCEPT !.pending = more]
    BY <1>4, <2>1
  <2>3. more \in [DOMAIN run.pending \cup {p} -> Mapped]
    <3> HIDE DEF p
    <3>1. \A q \in DOMAIN run.pending : run.looks[q].to \in Mapped
      BY <1>0, <1>1, MovesAre DEF Tidy
    <3>2. run.looks[p].to \in Mapped
      BY <1>8 DEF Decision
    <3> QED BY <3>1, <3>2
  <2>4. DOMAIN run.pending \cup {p} \in SUBSET Mapped
    BY <1>1, <1>2, MovesAre
  <2>5. more \in Moves /\ DOMAIN more = DOMAIN run.pending \cup {p}
        /\ \A q \in DOMAIN more : more[q] = run.looks[q].to
    BY <2>3, <2>4 DEF Moves
  <2> HIDE DEF p, decided, more
  <2>6. /\ run' \in RelocRuns /\ run'.phase = "decide" /\ run'.kind = run.kind
        /\ run'.looks = run.looks /\ run'.todo = run.todo \ {p} /\ run'.touched = run.touched
        /\ run'.cycle = run.cycle /\ run'.owed = NothingOwed
        /\ run'.pending = more /\ run'.gone = run.gone /\ run'.changed = run.changed
    BY <1>4, <2>2, <2>5 DEF RelocRuns
  <2> QED BY <1>0, <1>2, <1>3, <1>8, <2>1, <2>5, <2>6 DEF DecideKeeps
<1>9. CASE Decision(p) = "refuse"
  <2>1. run' = decided /\ UNCHANGED <<rec, disk, own>>
    BY <1>9 DEF DecideNext
  <2> HIDE DEF p, decided
  <2> QED BY <1>0, <1>2, <1>3, <1>4, <1>9, <2>1 DEF DecideKeeps
<1> QED BY <1>5, <1>6, <1>7, <1>8, <1>9, DecisionIs

LEMMA DecideDoneIs ==
  ASSUME Shapes, Tidy, DecideDone
  PROVE  /\ run.phase = "decide" /\ run.owed = NothingOwed /\ run.todo = {}
         /\ UNCHANGED <<cat, rec, disk, own, calm>>
         /\ run' \in RelocRuns /\ run'.phase = "move" /\ run'.owed = NothingOwed /\ run'.kind = run.kind
         /\ run'.looks = run.looks /\ run'.todo = run.todo /\ run'.touched = run.touched
         /\ run'.pending = run.pending /\ run'.cycle = run.cycle /\ run'.gone = run.gone
         /\ run'.changed = run.changed
<1>0. run.phase = "decide" /\ run.owed = NothingOwed /\ run.phase \in Relocs /\ run.todo = {}
  BY DEF DecideDone, Free, Relocs
<1>1. run \in RelocRuns
  BY <1>0, RelocFields
<1>2. run' = [run EXCEPT !.phase = "move"] /\ UNCHANGED <<cat, rec, disk, own, calm>>
  BY DEF DecideDone
<1> QED BY <1>0, <1>1, <1>2 DEF RelocRuns, Relocs

MoveKeeps ==
  /\ run.phase = "move" /\ run.owed = NothingOwed
  /\ UNCHANGED <<cat, rec, calm>>
  /\ run' \in RelocRuns /\ run'.phase = "move" /\ run'.kind = run.kind
  /\ run'.looks = run.looks /\ run'.todo = run.todo /\ run'.touched = run.touched
  /\ run'.gone = run.gone

LEMMA WithoutIs ==
  ASSUME NEW m \in Moves, NEW p
  PROVE  /\ Without(m, p) \in Moves /\ DOMAIN Without(m, p) = DOMAIN m \ {p}
         /\ \A q \in DOMAIN m \ {p} : Without(m, p)[q] = m[q]
<1>1. Without(m, p) \in [DOMAIN m \ {p} -> Mapped]
  BY MovesAre DEF Without
<1>2. DOMAIN m \ {p} \in SUBSET Mapped
  BY MovesAre
<1> QED BY <1>1, <1>2 DEF Without, Moves

LEMMA MoveOneIs ==
  ASSUME Shapes, NEW p \in Paths, MoveOne(p)
  PROVE  LET to == run.pending[p] IN
         /\ MoveKeeps /\ run.cycle = <<>> /\ run'.cycle = <<>>
         /\ p \in DOMAIN run.pending /\ p \in Mapped /\ to \in Mapped /\ to \notin DOMAIN run.pending
         /\ DOMAIN run'.pending = DOMAIN run.pending \ {p}
         /\ \A q \in DOMAIN run.pending \ {p} : run'.pending[q] = run.pending[q]
         /\ \/ /\ disk[p] # NoFile /\ disk[to] = NoFile
               /\ disk' = [disk EXCEPT ![to] = disk[p], ![p] = NoFile]
               /\ own' = Carried(p, to)
               /\ run'.owed = [NothingOwed EXCEPT !.rekey = Only(p, to)] /\ run'.changed = TRUE
            \/ /\ disk[p] = NoFile \/ disk[to] # NoFile
               /\ UNCHANGED <<disk, own>> /\ run'.owed = NothingOwed /\ run'.changed = run.changed
<1>0. run.phase = "move" /\ run.owed = NothingOwed /\ run.phase \in Relocs /\ run.cycle = <<>> /\ p \in Ready
  BY DEF MoveOne, Free, Relocs
<1>1. run \in RelocRuns /\ run.pending \in Moves
  BY <1>0, RelocFields
<1> DEFINE to == run.pending[p]
           left1 == [run EXCEPT !.pending = Without(@, p)]
<1>2. p \in DOMAIN run.pending /\ to \notin DOMAIN run.pending
  BY <1>0 DEF Ready
<1>3. p \in Mapped /\ to \in Mapped
  BY <1>1, <1>2, MovesAre
<1>4. /\ Without(run.pending, p) \in Moves /\ DOMAIN Without(run.pending, p) = DOMAIN run.pending \ {p}
      /\ \A q \in DOMAIN run.pending \ {p} : Without(run.pending, p)[q] = run.pending[q]
  BY <1>1, WithoutIs
<1>5. /\ left1 \in RelocRuns /\ left1.phase = "move" /\ left1.kind = run.kind
      /\ left1.looks = run.looks /\ left1.todo = run.todo /\ left1.touched = run.touched
      /\ left1.gone = run.gone /\ left1.pending = Without(run.pending, p) /\ left1.cycle = <<>>
      /\ left1.owed = NothingOwed /\ left1.changed = run.changed
  BY <1>0, <1>1, <1>4 DEF RelocRuns
<1>6. CASE disk[p] # NoFile /\ disk[to] = NoFile
  <2>1. /\ disk' = [disk EXCEPT ![to] = disk[p], ![p] = NoFile] /\ own' = Carried(p, to)
        /\ run' = [left1 EXCEPT !.owed.rekey = Only(p, to), !.changed = TRUE]
        /\ UNCHANGED <<cat, rec, calm>>
    BY <1>6 DEF MoveOne
  <2>2. Only(p, to) \in Moves
    BY <1>3, OnlyTyped
  <2> HIDE DEF to, left1
  <2>3. /\ run' \in RelocRuns /\ run'.phase = "move" /\ run'.kind = run.kind
        /\ run'.looks = run.looks /\ run'.todo = run.todo /\ run'.touched = run.touched
        /\ run'.gone = run.gone /\ run'.pending = Without(run.pending, p) /\ run'.cycle = <<>>
        /\ run'.owed = [NothingOwed EXCEPT !.rekey = Only(p, to)] /\ run'.changed = TRUE
    BY <1>5, <2>1, <2>2 DEF RelocRuns, Owes
  <2> QED BY <1>0, <1>2, <1>3, <1>4, <1>6, <2>1, <2>3 DEF MoveKeeps, to
<1>7. CASE ~(disk[p] # NoFile /\ disk[to] = NoFile)
  <2>1. run' = left1 /\ UNCHANGED <<disk, own, cat, rec, calm>>
    BY <1>7 DEF MoveOne
  <2> HIDE DEF left1
  <2> QED BY <1>0, <1>2, <1>3, <1>4, <1>5, <1>7, <2>1 DEF MoveKeeps
<1> QED BY <1>6, <1>7

LEMMA BeginCycleIs ==
  ASSUME Shapes, BeginCycle
  PROVE  /\ MoveKeeps /\ run.cycle = <<>> /\ DOMAIN run.pending # {}
         /\ UNCHANGED <<disk, own>> /\ run'.owed = NothingOwed /\ run'.changed = run.changed
         /\ Circle(run.pending, run'.cycle)
         /\ DOMAIN run'.pending = DOMAIN run.pending \ Range(run'.cycle)
         /\ \A q \in DOMAIN run'.pending : run'.pending[q] = run.pending[q]
<1>0. run.phase = "move" /\ run.owed = NothingOwed /\ run.phase \in Relocs /\ run.cycle = <<>>
      /\ Ready = {} /\ run.pending # <<>>
  BY DEF BeginCycle, Free, Relocs
<1>1. run \in RelocRuns /\ run.pending \in Moves
  BY <1>0, RelocFields
<1>2. DOMAIN run.pending # {}
  BY <1>0, <1>1, EmptyMoves
<1> DEFINE members == CycleOf(run.pending)
           rest == [p \in DOMAIN run.pending \ Range(members) |-> run.pending[p]]
<1>3. Circle(run.pending, members)
  BY <1>0, <1>1, <1>2, CycleIs DEF Ready
<1>4. run' = [run EXCEPT !.cycle = members, !.pending = rest] /\ UNCHANGED <<cat, rec, disk, own, calm>>
  BY DEF BeginCycle
<1> HIDE DEF members
<1>5. members \in Seq(Mapped)
  <2>1. members \in Seq(DOMAIN run.pending) /\ DOMAIN run.pending \subseteq Mapped
    BY <1>1, <1>3, MovesAre DEF Circle
  <2> QED BY <2>1
<1>6. rest \in Moves
  <2>1. rest \in [DOMAIN run.pending \ Range(members) -> Mapped]
    BY <1>1, MovesAre
  <2>2. DOMAIN run.pending \ Range(members) \in SUBSET Mapped
    BY <1>1, MovesAre
  <2> QED BY <2>1, <2>2 DEF Moves
<1>7. DOMAIN rest = DOMAIN run.pending \ Range(members) /\ \A q \in DOMAIN rest : rest[q] = run.pending[q]
  OBVIOUS
<1> HIDE DEF rest
<1>8. /\ run' \in RelocRuns /\ run'.phase = "move" /\ run'.kind = run.kind
      /\ run'.looks = run.looks /\ run'.todo = run.todo /\ run'.touched = run.touched
      /\ run'.gone = run.gone /\ run'.pending = rest /\ run'.cycle = members
      /\ run'.owed = NothingOwed /\ run'.changed = run.changed
  BY <1>0, <1>1, <1>4, <1>5, <1>6 DEF RelocRuns
<1> QED BY <1>0, <1>2, <1>3, <1>4, <1>7, <1>8 DEF MoveKeeps

LEMMA ExchangeNextIs ==
  ASSUME Shapes, ExchangeNext
  PROVE  LET p == run.cycle[1]  q == run.cycle[2]  n == Len(run.cycle) IN
         /\ MoveKeeps /\ run.cycle # <<>> /\ n \in Nat /\ n >= 1 /\ run'.pending = run.pending
         /\ \/ /\ n = 1 \/ disk[p] = NoFile \/ disk[q] = NoFile
               /\ run'.cycle = <<>> /\ UNCHANGED <<disk, own>>
               /\ run'.owed = NothingOwed /\ run'.changed = run.changed
            \/ /\ n >= 2 /\ disk[p] # NoFile /\ disk[q] # NoFile /\ p \in Mapped /\ q \in Mapped
               /\ disk' = [disk EXCEPT ![p] = disk[q], ![q] = disk[p]] /\ own' = Carried(p, q)
               /\ run'.owed = [NothingOwed EXCEPT !.rekey = Exchange(p, q)] /\ run'.changed = TRUE
               /\ run'.cycle = <<p>> \o SubSeq(run.cycle, 3, n)
<1>0. run.phase = "move" /\ run.owed = NothingOwed /\ run.phase \in Relocs /\ run.cycle # <<>>
  BY DEF ExchangeNext, Free, Relocs
<1>1. run \in RelocRuns /\ run.cycle \in Seq(Mapped)
  BY <1>0, RelocFields
<1> DEFINE n == Len(run.cycle)
           p == run.cycle[1]
           q == run.cycle[2]
<1>2. n \in Nat /\ n >= 1 /\ p \in Mapped
  BY <1>0, <1>1
<1>3. CASE n = 1 \/ disk[p] = NoFile \/ disk[q] = NoFile
  <2>1. run' = [run EXCEPT !.cycle = <<>>] /\ UNCHANGED <<disk, own, cat, rec, calm>>
    BY <1>3 DEF ExchangeNext
  <2>2. <<>> \in Seq(Mapped)
    OBVIOUS
  <2>3. /\ run' \in RelocRuns /\ run'.phase = "move" /\ run'.kind = run.kind
        /\ run'.looks = run.looks /\ run'.todo = run.todo /\ run'.touched = run.touched
        /\ run'.gone = run.gone /\ run'.pending = run.pending /\ run'.cycle = <<>>
        /\ run'.owed = NothingOwed /\ run'.changed = run.changed
    BY <1>0, <1>1, <2>1, <2>2 DEF RelocRuns
  <2> QED BY <1>0, <1>2, <1>3, <2>1, <2>3 DEF MoveKeeps
<1>4. CASE ~(n = 1 \/ disk[p] = NoFile \/ disk[q] = NoFile)
  <2>1. /\ disk' = [disk EXCEPT ![p] = disk[q], ![q] = disk[p]] /\ own' = Carried(p, q)
        /\ run' = [run EXCEPT !.cycle = <<p>> \o SubSeq(@, 3, Len(@)), !.changed = TRUE,
                              !.owed.rekey = Exchange(p, q)]
        /\ UNCHANGED <<cat, rec, calm>>
    BY <1>4 DEF ExchangeNext
  <2>2. n >= 2 /\ q \in Mapped
    <3>0. n # 1
      BY <1>4
    <3>1. n >= 2 /\ 2 \in 1 .. n
      <4> HIDE DEF n
      <4> QED BY <1>2, <3>0
    <3> QED BY <3>1, <1>1
  <2>3. Exchange(p, q) \in Moves
    BY <1>2, <2>2, OnlyTyped
  <2> DEFINE left1 == <<p>> \o SubSeq(run.cycle, 3, n)
  <2>4. left1 \in Seq(Mapped)
    <3>1. SubSeq(run.cycle, 3, n) \in Seq(Mapped)
      BY <1>1, <1>2
    <3>2. <<p>> \in Seq(Mapped)
      BY <1>2
    <3> QED BY <3>1, <3>2
  <2>5. run' = [run EXCEPT !.cycle = left1, !.changed = TRUE, !.owed.rekey = Exchange(p, q)]
    BY <2>1
  <2> HIDE DEF left1, p, q
  <2>6. /\ run' \in RelocRuns /\ run'.phase = "move" /\ run'.kind = run.kind
        /\ run'.looks = run.looks /\ run'.todo = run.todo /\ run'.touched = run.touched
        /\ run'.gone = run.gone /\ run'.pending = run.pending /\ run'.cycle = left1
        /\ run'.owed = [NothingOwed EXCEPT !.rekey = Exchange(p, q)] /\ run'.changed = TRUE
    BY <1>0, <1>1, <2>3, <2>4, <2>5 DEF RelocRuns, Owes
  <2> QED BY <1>0, <1>2, <1>4, <2>1, <2>2, <2>6 DEF MoveKeeps, left1, p, q
<1> QED BY <1>3, <1>4

LEMMA MovesDoneIs ==
  ASSUME Shapes, MovesDone
  PROVE  /\ run.phase = "move" /\ run.owed = NothingOwed /\ run.cycle = <<>> /\ DOMAIN run.pending = {}
         /\ UNCHANGED <<cat, rec, disk, own, calm>>
         /\ run' \in RelocRuns /\ run'.phase = "gone" /\ run'.owed = NothingOwed /\ run'.kind = run.kind
         /\ run'.looks = run.looks /\ run'.todo = run.todo /\ run'.touched = run.touched
         /\ run'.pending = run.pending /\ run'.cycle = run.cycle /\ run'.gone = run.gone
         /\ run'.changed = run.changed
<1>0. run.phase = "move" /\ run.owed = NothingOwed /\ run.phase \in Relocs /\ run.cycle = <<>> /\ run.pending = <<>>
  BY DEF MovesDone, Free, Relocs
<1>1. run \in RelocRuns /\ DOMAIN run.pending = {}
  BY <1>0, RelocFields, EmptyMoves
<1>2. run' = [run EXCEPT !.phase = "gone"] /\ UNCHANGED <<cat, rec, disk, own, calm>>
  BY DEF MovesDone
<1> QED BY <1>0, <1>1, <1>2 DEF RelocRuns, Relocs

\* The records as the write to the Index that is due leaves them.
Due == Marked(cat, Forgotten(Rekeyed(cat, rec, run.owed.rekey), run.owed.forget), run.owed.seen)

LEMMA FollowNextIs ==
  ASSUME Shapes, Tidy, FollowNext
  PROVE  \E p \in run.gone :
           LET to == run.looks[p].to IN
           /\ p = Least(run.gone) /\ p \in Mapped /\ p \in DOMAIN run.looks /\ to \in Mapped
           /\ run.phase = "gone" /\ run.owed = NothingOwed
           /\ UNCHANGED <<cat, disk, calm>>
           /\ run' \in RelocRuns
           /\ run'.phase = "gone" /\ run'.owed = NothingOwed /\ run'.kind = run.kind
           /\ run'.looks = run.looks /\ run'.todo = run.todo /\ run'.pending = run.pending
           /\ run'.cycle = run.cycle /\ run'.gone = run.gone \ {p}
           /\ run'.touched = run.touched /\ run'.changed = TRUE
           /\ \/ /\ run.looks[p].target = NoFile /\ rec[to] = NoRecord
                 /\ Only(p, to) \in Moves /\ Keep(Rekeyed(cat, rec, Only(p, to)))
              \/ /\ ~(run.looks[p].target = NoFile /\ rec[to] = NoRecord)
                 /\ Keep(Forgotten(rec, {p}))
<1>0. run.phase = "gone" /\ run.owed = NothingOwed /\ run.phase \in Relocs /\ run.gone # {}
  BY DEF FollowNext, Free, Relocs
<1>1. run \in RelocRuns /\ run.gone \subseteq Mapped
  BY <1>0, RelocFields
<1> DEFINE p == Least(run.gone)
           to == run.looks[p].to
<1>2. p \in run.gone
  BY <1>0, <1>1, PathFacts, LeastIs
<1>3. p \in Mapped /\ p \in DOMAIN run.looks /\ to \in Mapped
  BY <1>0, <1>1, <1>2 DEF Tidy
<1>4. /\ Keep(IF run.looks[p].target = NoFile /\ rec[to] = NoRecord
                  THEN Rekeyed(cat, rec, Only(p, to)) ELSE Forgotten(rec, {p}))
      /\ run' = [run EXCEPT !.gone = @ \ {p}, !.changed = TRUE]
      /\ UNCHANGED <<cat, disk, calm>>
  BY DEF FollowNext
<1>9. p = Least(run.gone)
  OBVIOUS
<1> HIDE DEF p
<1>5. /\ run' \in RelocRuns
      /\ run'.phase = "gone" /\ run'.owed = NothingOwed /\ run'.kind = run.kind
      /\ run'.looks = run.looks /\ run'.todo = run.todo /\ run'.pending = run.pending
      /\ run'.cycle = run.cycle /\ run'.gone = run.gone \ {p}
      /\ run'.touched = run.touched /\ run'.changed = TRUE
  BY <1>0, <1>1, <1>4 DEF RelocRuns
<1>6. Only(p, to) \in Moves
  <2> HIDE DEF to
  <2> QED BY <1>3, OnlyTyped
<1>7. CASE run.looks[p].target = NoFile /\ rec[to] = NoRecord
  <2>1. Keep(Rekeyed(cat, rec, Only(p, to)))
    BY <1>4, <1>7
  <2> QED BY <1>0, <1>2, <1>3, <1>4, <1>5, <1>6, <1>7, <1>9, <2>1
<1>8. CASE ~(run.looks[p].target = NoFile /\ rec[to] = NoRecord)
  <2>1. Keep(Forgotten(rec, {p}))
    BY <1>4, <1>8
  <2> QED BY <1>0, <1>2, <1>3, <1>4, <1>5, <1>8, <1>9, <2>1
<1> QED BY <1>7, <1>8

LEMMA FollowDoneIs ==
  ASSUME Shapes, FollowDone
  PROVE  /\ run.phase = "gone" /\ run.owed = NothingOwed /\ run.gone = {}
         /\ UNCHANGED <<cat, rec, disk, own, calm>>
         /\ run' \in RelocRuns /\ run'.phase = "relocated" /\ run'.owed = NothingOwed /\ run'.kind = run.kind
         /\ run'.looks = run.looks /\ run'.todo = run.todo /\ run'.touched = run.touched
         /\ run'.pending = run.pending /\ run'.cycle = run.cycle /\ run'.gone = run.gone
         /\ run'.changed = run.changed
<1>0. run.phase = "gone" /\ run.owed = NothingOwed /\ run.phase \in Relocs /\ run.gone = {}
  BY DEF FollowDone, Free, Relocs
<1>1. run \in RelocRuns
  BY <1>0, RelocFields
<1>2. run' = [run EXCEPT !.phase = "relocated"] /\ UNCHANGED <<cat, rec, disk, own, calm>>
  BY DEF FollowDone
<1> QED BY <1>0, <1>1, <1>2 DEF RelocRuns, Relocs

LEMMA DueTyped ==
  ASSUME Shapes, run.owed \in Owes
  PROVE  /\ Due \in Records
         /\ Rekeyed(cat, rec, run.owed.rekey) \in Records
         /\ Forgotten(Rekeyed(cat, rec, run.owed.rekey), run.owed.forget) \in Records
         /\ run.owed.rekey \in Moves /\ run.owed.forget \subseteq Mapped /\ run.owed.seen \subseteq Seens
<1>1. run.owed.rekey \in Moves /\ run.owed.forget \subseteq Mapped /\ run.owed.seen \in SUBSET Seens
  BY DEF Owes
<1>2. Rekeyed(cat, rec, run.owed.rekey) \in Records
  BY <1>1, RekeyedTyped DEF Shapes
<1>3. Forgotten(Rekeyed(cat, rec, run.owed.rekey), run.owed.forget) \in Records
  BY <1>2, ForgottenTyped
<1>4. Due \in Records
  BY <1>1, <1>3, MarkedTyped DEF Due
<1> QED BY <1>1, <1>2, <1>3, <1>4

LEMMA RecordItIs ==
  ASSUME Shapes, RecordIt
  PROVE  /\ run.phase # "idle" /\ run.owed # NothingOwed /\ run.owed \in Owes
         /\ rec' = Due /\ Due \in Records /\ own' = own
         /\ UNCHANGED <<cat, disk, calm>>
         /\ run.phase = "end" => run' = Idle
         /\ run.phase # "end" => run' \in Runs /\ run'.owed = NothingOwed /\ run'.phase = run.phase
         /\ run.phase \in Relocs =>
              /\ run' \in RelocRuns /\ run'.kind = run.kind
              /\ run'.looks = run.looks /\ run'.todo = run.todo /\ run'.touched = run.touched
              /\ run'.pending = run.pending /\ run'.cycle = run.cycle /\ run'.gone = run.gone
              /\ run'.changed = run.changed
         /\ run.phase = "depart" =>
              /\ run' \in DepartRuns /\ run'.departed = run.departed /\ run'.forgotten = run.forgotten
              /\ run'.refreshed = run.refreshed /\ run'.adds = run.adds /\ run'.updates = run.updates
              /\ run'.renames = run.renames
         /\ run.phase = "place" => run' \in PlaceRuns /\ run'.wanted = run.wanted
<1>0. /\ run.phase # "idle" /\ run.owed # NothingOwed /\ rec' = Due /\ own' = own
      /\ run' = IF run.phase = "end" THEN Idle ELSE [run EXCEPT !.owed = NothingOwed]
      /\ UNCHANGED <<cat, disk, calm>>
  BY DEF RecordIt, Keep, Due
<1>1. run \in Runs /\ NothingOwed \in Owes
  BY NothingTyped DEF Shapes
<1> DEFINE next == [run EXCEPT !.owed = NothingOwed]
<1>2. CASE run \in LookRuns
  <2>1. run.phase = "look" /\ run.owed \in Owes /\ next \in LookRuns /\ next.owed = NothingOwed /\ next.phase = "look"
    BY <1>1, <1>2 DEF LookRuns
  <2> HIDE DEF next
  <2>2. next \in Runs /\ run' = next
    BY <1>0, <2>1, KindIsRun DEF next
  <2> QED BY <1>0, <2>1, <2>2, DueTyped DEF Relocs
<1>3. CASE run \in RelocRuns
  <2>1. /\ run.phase \in Relocs /\ run.owed \in Owes /\ next \in RelocRuns /\ next.owed = NothingOwed
        /\ next.phase = run.phase /\ next.kind = run.kind
        /\ next.looks = run.looks /\ next.todo = run.todo /\ next.touched = run.touched
        /\ next.pending = run.pending /\ next.cycle = run.cycle /\ next.gone = run.gone
        /\ next.changed = run.changed
    BY <1>1, <1>3 DEF RelocRuns
  <2>2. next \in Runs /\ run' = next
    <3>1. run.phase # "end"
      BY <2>1 DEF Relocs
    <3> HIDE DEF next
    <3> QED BY <1>0, <2>1, <3>1, KindIsRun DEF next
  <2> HIDE DEF next
  <2> QED BY <1>0, <2>1, <2>2, DueTyped DEF Relocs
<1>4. CASE run \in DepartRuns
  <2>1. /\ run.phase = "depart" /\ run.owed \in Owes /\ next \in DepartRuns /\ next.owed = NothingOwed
        /\ next.phase = "depart" /\ next.departed = run.departed /\ next.forgotten = run.forgotten
        /\ next.refreshed = run.refreshed /\ next.adds = run.adds /\ next.updates = run.updates
        /\ next.renames = run.renames
    BY <1>1, <1>4 DEF DepartRuns
  <2> HIDE DEF next
  <2>2. next \in Runs /\ run' = next
    BY <1>0, <2>1, KindIsRun DEF next
  <2> QED BY <1>0, <2>1, <2>2, DueTyped DEF Relocs
<1>5. CASE run \in CommitRuns
  <2>1. run.phase = "commit" /\ run.owed \in Owes /\ next \in CommitRuns /\ next.owed = NothingOwed /\ next.phase = "commit"
    BY <1>1, <1>5 DEF CommitRuns
  <2> HIDE DEF next
  <2>2. next \in Runs /\ run' = next
    BY <1>0, <2>1, KindIsRun DEF next
  <2> QED BY <1>0, <2>1, <2>2, DueTyped DEF Relocs
<1>6. CASE run \in RefreshRuns
  <2>1. run.phase = "refresh" /\ run.owed \in Owes /\ next \in RefreshRuns /\ next.owed = NothingOwed /\ next.phase = "refresh"
    BY <1>1, <1>6 DEF RefreshRuns
  <2> HIDE DEF next
  <2>2. next \in Runs /\ run' = next
    BY <1>0, <2>1, KindIsRun DEF next
  <2> QED BY <1>0, <2>1, <2>2, DueTyped DEF Relocs
<1>7. CASE run \in EndRuns
  <2>1. run.phase = "end" /\ run.owed \in Owes
    BY <1>7 DEF EndRuns
  <2>2. run' = Idle
    BY <1>0, <2>1
  <2> QED BY <1>0, <2>1, <2>2, DueTyped DEF Relocs
<1>8. CASE run \in PlaceRuns
  <2>1. /\ run.phase = "place" /\ run.owed \in Owes /\ next \in PlaceRuns /\ next.owed = NothingOwed
        /\ next.phase = "place" /\ next.wanted = run.wanted
    BY <1>1, <1>8 DEF PlaceRuns
  <2> HIDE DEF next
  <2>2. next \in Runs /\ run' = next
    BY <1>0, <2>1, KindIsRun DEF next
  <2> QED BY <1>0, <2>1, <2>2, DueTyped DEF Relocs
<1>9. CASE run = Idle
  BY <1>0, <1>9 DEF Idle
<1> QED BY <1>1, <1>2, <1>3, <1>4, <1>5, <1>6, <1>7, <1>8, <1>9 DEF Runs

-----------------------------------------------------------------------------
\* The scan and what follows it.

LEMMA ScanSets ==
  /\ Departed \subseteq Standing /\ Standing \subseteq Considered /\ Considered \subseteq Mapped
  /\ NewFiles \subseteq Standing /\ Changed \subseteq Standing /\ Refreshed \subseteq Changed
  /\ Gone \subseteq Considered /\ DeletedLocally \subseteq Gone
  BY DEF Departed, Standing, Considered, NewFiles, Changed, Refreshed, Gone, DeletedLocally

LEMMA PairsAre ==
  ASSUME NEW pair \in Pairs
  PROVE  /\ pair[1] \in DeletedLocally /\ pair[2] \in NewFiles
         /\ LET d == disk[pair[2]] IN
            GoneWith(d) = {pair[1]} /\ AppearedWith(d) = {pair[2]} /\ StandingWith(d) = {}
  BY DEF Pairs

LEMMA ScanIs ==
  ASSUME Shapes, Scan
  PROVE  /\ run.phase = "relocated" /\ run.owed = NothingOwed /\ run.kind = "sync"
         /\ UNCHANGED <<cat, rec, disk, own, libraryVars, rows, torn, left>> /\ calm' = TRUE
         /\ run' \in DepartRuns /\ run'.phase = "depart" /\ run'.owed = NothingOwed
         /\ run'.departed = Departed /\ run'.forgotten = Gone \ DeletedLocally
         /\ run'.refreshed = {[path |-> p, entry |-> rec[p].entry, data |-> disk[p]] : p \in Refreshed}
         /\ run'.adds = NewFiles \ {pair[2] : pair \in Pairs}
         /\ run'.updates = {[path |-> p, entry |-> rec[p].entry] : p \in Changed \ Refreshed}
         /\ run'.renames = {[entry |-> rec[pair[1]].entry, from |-> pair[1], to |-> pair[2]] : pair \in Pairs}
<1> DEFINE refreshed == {[path |-> p, entry |-> rec[p].entry, data |-> disk[p]] : p \in Refreshed}
           updates == {[path |-> p, entry |-> rec[p].entry] : p \in Changed \ Refreshed}
           renames == {[entry |-> rec[pair[1]].entry, from |-> pair[1], to |-> pair[2]] : pair \in Pairs}
           adds == NewFiles \ {pair[2] : pair \in Pairs}
<1>0. /\ run.phase = "relocated" /\ run.owed = NothingOwed /\ run.kind = "sync"
      /\ UNCHANGED <<cat, rec, disk, own, libraryVars, rows, torn, left>> /\ calm' = TRUE
      /\ run' = [phase |-> "depart", owed |-> NothingOwed, departed |-> Departed,
                 forgotten |-> Gone \ DeletedLocally, refreshed |-> refreshed, adds |-> adds,
                 updates |-> updates, renames |-> renames]
  BY DEF Scan, Free
<1>1. \A p \in Mapped : p \in Paths /\ rec[p].entry \in Nat /\ disk[p] \in Nat
  BY ValuesAre
<1>2. refreshed \in SUBSET Seens
  BY <1>1, ScanSets DEF Seens
<1>3. updates \in SUBSET [path : Mapped, entry : Nat]
  BY <1>1, ScanSets
<1>4. renames \in SUBSET Names
  <2> SUFFICES ASSUME NEW pair \in Pairs
               PROVE  [entry |-> rec[pair[1]].entry, from |-> pair[1], to |-> pair[2]] \in Names
    OBVIOUS
  <2>1. pair[1] \in Mapped /\ pair[2] \in Mapped
    BY PairsAre, ScanSets
  <2> QED BY <1>1, <2>1 DEF Names
<1>5. adds \in SUBSET Mapped /\ Departed \in SUBSET Mapped /\ Gone \ DeletedLocally \in SUBSET Mapped
  BY ScanSets
<1> HIDE DEF refreshed, updates, renames, adds
<1>6. run' \in DepartRuns
  BY <1>0, <1>2, <1>3, <1>4, <1>5, NothingTyped DEF DepartRuns
<1> QED BY <1>0, <1>6 DEF refreshed, updates, renames, adds

LEMMA ForgetIs ==
  ASSUME Shapes, Forget
  PROVE  /\ run.phase = "depart" /\ run.owed = NothingOwed
         /\ rec' = Forgotten(rec, run.forgotten) /\ own' = own /\ run.forgotten \subseteq Mapped
         /\ UNCHANGED <<cat, disk, calm, libraryVars, rows, torn, left>>
         /\ run' \in DepartRuns /\ run'.phase = "depart" /\ run'.owed = NothingOwed
         /\ run'.departed = run.departed /\ run'.forgotten = {} /\ run'.refreshed = run.refreshed
         /\ run'.adds = run.adds /\ run'.updates = run.updates /\ run'.renames = run.renames
<1>0. /\ run.phase = "depart" /\ run.owed = NothingOwed
      /\ rec' = Forgotten(rec, run.forgotten) /\ own' = own
      /\ run' = [run EXCEPT !.forgotten = {}]
      /\ UNCHANGED <<cat, disk, calm, libraryVars, rows, torn, left>>
  BY DEF Forget, Free, Keep
<1>1. run \in DepartRuns
  BY <1>0, RunIs
<1>2. /\ run' \in DepartRuns /\ run'.phase = "depart" /\ run'.owed = NothingOwed
      /\ run'.departed = run.departed /\ run'.forgotten = {} /\ run'.refreshed = run.refreshed
      /\ run'.adds = run.adds /\ run'.updates = run.updates /\ run'.renames = run.renames
      /\ run.forgotten \subseteq Mapped
  BY <1>0, <1>1 DEF DepartRuns
<1> QED BY <1>0, <1>2

LEMMA DiscardDepartedIs ==
  ASSUME Shapes, NEW p \in Paths, DiscardDeparted(p)
  PROVE  /\ run.phase = "depart" /\ run.owed = NothingOwed /\ p \in run.departed /\ p \in Mapped
         /\ UNCHANGED <<cat, rec, calm, libraryVars, rows, torn, left>>
         /\ run' \in DepartRuns /\ run'.phase = "depart"
         /\ run'.departed = run.departed \ {p} /\ run'.forgotten = run.forgotten
         /\ run'.refreshed = run.refreshed
         /\ run'.adds = run.adds /\ run'.updates = run.updates /\ run'.renames = run.renames
         /\ \/ disk[p] = NoFile /\ UNCHANGED <<disk, own>> /\ run'.owed = NothingOwed
            \/ /\ disk[p] # NoFile /\ disk' = [disk EXCEPT ![p] = NoFile] /\ own' = own \ {p}
               /\ run'.owed = [NothingOwed EXCEPT !.forget = {p}]
<1>0. /\ run.phase = "depart" /\ run.owed = NothingOwed /\ p \in run.departed
      /\ UNCHANGED <<cat, rec, calm, libraryVars, rows, torn, left>>
  BY DEF DiscardDeparted, Free
<1>1. run \in DepartRuns
  BY <1>0, RunIs
<1>2. p \in Mapped
  BY <1>0, <1>1 DEF DepartRuns
<1>3. CASE disk[p] = NoFile
  <2>1. UNCHANGED <<disk, own>> /\ run' = [run EXCEPT !.departed = @ \ {p}]
    BY <1>3 DEF DiscardDeparted
  <2>2. /\ run' \in DepartRuns /\ run'.phase = "depart" /\ run'.owed = NothingOwed
        /\ run'.departed = run.departed \ {p} /\ run'.forgotten = run.forgotten
        /\ run'.refreshed = run.refreshed
        /\ run'.adds = run.adds /\ run'.updates = run.updates /\ run'.renames = run.renames
    BY <1>0, <1>1, <2>1 DEF DepartRuns
  <2> QED BY <1>0, <1>2, <1>3, <2>1, <2>2
<1>4. CASE disk[p] # NoFile
  <2>1. /\ disk' = [disk EXCEPT ![p] = NoFile] /\ own' = own \ {p}
        /\ run' = [run EXCEPT !.departed = @ \ {p}, !.owed.forget = {p}]
    BY <1>4 DEF DiscardDeparted
  <2>2. /\ run' \in DepartRuns /\ run'.phase = "depart" /\ run'.owed = [NothingOwed EXCEPT !.forget = {p}]
        /\ run'.departed = run.departed \ {p} /\ run'.forgotten = run.forgotten
        /\ run'.refreshed = run.refreshed
        /\ run'.adds = run.adds /\ run'.updates = run.updates /\ run'.renames = run.renames
    BY <1>0, <1>1, <1>2, <2>1 DEF DepartRuns, Owes
  <2> QED BY <1>0, <1>2, <1>4, <2>1, <2>2
<1> QED BY <1>3, <1>4

LEMMA PackIs ==
  ASSUME Shapes, Pack
  PROVE  /\ run.phase = "depart" /\ run.owed = NothingOwed /\ run \in DepartRuns
         /\ run.forgotten = {} /\ run.departed = {}
         /\ UNCHANGED <<cat, disk, calm, libraryVars, rows, torn, left>>
         /\ \/ /\ \E p \in Carrying : disk[p] = NoFile
               /\ run' = Idle /\ UNCHANGED <<rec, own>>
            \/ /\ \A p \in Carrying : disk[p] # NoFile
               /\ rec' = Marked(cat, rec, run.refreshed) /\ own' = own
               /\ \/ run' = Idle
                  \/ /\ run' \in CommitRuns /\ run'.phase = "commit" /\ run'.owed = NothingOwed
                     /\ run'.adds = {[path |-> p, data |-> disk[p]] : p \in run.adds}
                     /\ run'.updates = {[path |-> u.path, entry |-> u.entry, data |-> disk[u.path]] :
                                           u \in run.updates}
                     /\ run'.renames = run.renames
<1>0. /\ run.phase = "depart" /\ run.owed = NothingOwed /\ run.forgotten = {} /\ run.departed = {}
      /\ UNCHANGED <<cat, disk, calm, libraryVars, rows, torn, left>>
  BY DEF Pack, Free
<1>1. run \in DepartRuns
  BY <1>0, RunIs
<1>2. run.adds \subseteq Mapped /\ run.updates \subseteq [path : Mapped, entry : Nat] /\ run.renames \subseteq Names
  BY <1>1 DEF DepartRuns
<1> DEFINE adds == {[path |-> p, data |-> disk[p]] : p \in run.adds}
           updates == {[path |-> u.path, entry |-> u.entry, data |-> disk[u.path]] : u \in run.updates}
<1>3. adds \in SUBSET [path : Mapped, data : Nat]
  BY <1>2, ValuesAre
<1>4. updates \in SUBSET Seens
  BY <1>2, ValuesAre DEF Seens
<1>5. CASE \E p \in Carrying : disk[p] = NoFile
  BY <1>0, <1>1, <1>5 DEF Pack
<1>6. CASE ~\E p \in Carrying : disk[p] = NoFile
  <2>1. /\ rec' = Marked(cat, rec, run.refreshed) /\ own' = own
        /\ run' = IF Carrying = {} /\ run.renames = {} THEN Idle
                  ELSE [phase |-> "commit", owed |-> NothingOwed, adds |-> adds,
                        updates |-> updates, renames |-> run.renames]
    BY <1>6 DEF Pack, Keep
  <2>2. CASE run' = Idle
    BY <1>0, <1>1, <1>6, <2>1, <2>2
  <2>3. CASE run' # Idle
    <3> HIDE DEF adds, updates
    <3>1. run' = [phase |-> "commit", owed |-> NothingOwed, adds |-> adds,
                  updates |-> updates, renames |-> run.renames]
      BY <2>1, <2>3
    <3>2. /\ run' \in CommitRuns /\ run'.phase = "commit" /\ run'.owed = NothingOwed
          /\ run'.adds = adds /\ run'.updates = updates /\ run'.renames = run.renames
      BY <1>2, <1>3, <1>4, <3>1, NothingTyped DEF CommitRuns
    <3>3. \A p \in Carrying : disk[p] # NoFile
      BY <1>6
    <3> QED BY <1>0, <1>1, <2>1, <3>2, <3>3 DEF adds, updates
  <2> QED BY <2>2, <2>3
<1> QED BY <1>5, <1>6

-----------------------------------------------------------------------------
\* The fetch.

LEMMA SelectIs ==
  ASSUME Shapes, Select
  PROVE  /\ run.phase = "relocated" /\ run.owed = NothingOwed
         /\ UNCHANGED <<cat, rec, disk, own, libraryVars, rows, torn, left>> /\ calm' = TRUE
         /\ run' \in PlaceRuns /\ run'.phase = "place" /\ run'.owed = NothingOwed /\ run'.wanted = Wanted
<1>0. /\ run.phase = "relocated" /\ run.owed = NothingOwed
      /\ UNCHANGED <<cat, rec, disk, own, libraryVars, rows, torn, left>> /\ calm' = TRUE
      /\ run' = [phase |-> "place", owed |-> NothingOwed, wanted |-> Wanted]
  BY DEF Select, Free
<1>1. Wanted \in SUBSET Nat
  BY CatalogIs DEF Wanted, Shapes
<1> QED BY <1>0, <1>1, NothingTyped DEF PlaceRuns

LEMMA PublishIs ==
  ASSUME Shapes, NEW e \in DOMAIN cat, Publish(e), cat[e].path \in Mapped
  PROVE  LET p == cat[e].path IN
         /\ run.phase = "place" /\ run.owed = NothingOwed /\ run \in PlaceRuns /\ e \in run.wanted
         /\ UNCHANGED <<cat, rec, calm, libraryVars, rows, torn, left>>
         /\ disk' = [disk EXCEPT ![p] = cat[e].data] /\ own' = own \cup {p}
         /\ run' \in PlaceRuns /\ run'.phase = "place" /\ run'.wanted = run.wanted \ {e}
         /\ run'.owed = [NothingOwed EXCEPT !.seen = {[path |-> p, entry |-> e, data |-> cat[e].data]}]
<1> DEFINE p == cat[e].path
           seen == {[path |-> p, entry |-> e, data |-> cat[e].data]}
<1>0. /\ run.phase = "place" /\ run.owed = NothingOwed /\ e \in run.wanted
      /\ UNCHANGED <<cat, rec, calm, libraryVars, rows, torn, left>>
      /\ disk' = [disk EXCEPT ![p] = cat[e].data] /\ own' = own \cup {p}
      /\ run' = [run EXCEPT !.wanted = @ \ {e}, !.owed.seen = seen]
  BY DEF Publish, Free
<1>1. run \in PlaceRuns
  BY <1>0, RunIs
<1>2. e \in Nat /\ cat[e].data \in Nat
  BY CatalogIs DEF Shapes
<1>3. seen \in SUBSET Seens
  BY <1>2 DEF Seens
<1> HIDE DEF seen, p
<1>4. /\ run' \in PlaceRuns /\ run'.phase = "place" /\ run'.wanted = run.wanted \ {e}
      /\ run'.owed = [NothingOwed EXCEPT !.seen = seen]
  BY <1>0, <1>1, <1>3, NothingTyped DEF PlaceRuns, Owes
<1> QED BY <1>0, <1>1, <1>4 DEF seen, p

-----------------------------------------------------------------------------
\* Catalogs over the records not replayed yet.

CatGood(c, b, h) ==
  /\ \A e \in DOMAIN c : e \in 1 .. b /\ c[e].data \in h
  /\ \A e, f \in DOMAIN c : c[e].path = c[f].path => e = f

Follows(cs, c, log) ==
  cs[0] = c /\ \A n \in 1 .. Len(log) : cs[n] = Replayed(cs[n - 1], log[n])

Lined(c, log, b, h) ==
  \E cs : /\ Follows(cs, c, log)
          /\ \A n \in 0 .. Len(log) : cs[n] \in Catalogs /\ CatGood(cs[n], b, h)

LEMMA GoodGrows ==
  ASSUME NEW c, NEW b \in Nat, NEW h, NEW b2 \in Nat, NEW h2, b <= b2, h \subseteq h2, CatGood(c, b, h)
  PROVE  CatGood(c, b2, h2)
  BY DEF CatGood

LEMMA LinedFirst ==
  ASSUME NEW c, NEW log \in Seq(Changes), NEW b, NEW h, Lined(c, log, b, h)
  PROVE  CatGood(c, b, h)
<1>1. 0 \in 0 .. Len(log)
  OBVIOUS
<1> QED BY <1>1 DEF Lined, Follows

LEMMA LinedIs ==
  ASSUME NEW c \in Catalogs, NEW records \in Records, NEW log \in Seq(Changes), NEW cs, Follows(cs, c, log)
  PROVE  ApplyAll(c, records, log).cat = cs[Len(log)]
<1>1. PICK f : Passes(f, c, records, log)
  BY ReplayPasses
<1> DEFINE N == Len(log)
           S == {n \in 0 .. N : f[n].cat = cs[n]}
<1>0. N \in Nat
  OBVIOUS
<1>2. f[0].cat = c /\ cs[0] = c
  BY <1>1 DEF Passes, Follows
<1>3. \A n \in 1 .. N : f[n].cat = Replayed(f[n - 1].cat, log[n]) /\ cs[n] = Replayed(cs[n - 1], log[n])
  BY <1>1 DEF Passes, Follows
<1>4. ApplyAll(c, records, log) = f[N]
  BY <1>1 DEF Passes
<1> HIDE DEF N
<1>5. 0 \in S
  BY <1>0, <1>2
<1>6. ASSUME NEW n \in 1 .. N, n - 1 \in S PROVE n \in S
  <2>1. f[n - 1].cat = cs[n - 1] /\ n \in 0 .. N
    BY <1>0, <1>6
  <2>2. f[n].cat = cs[n]
    BY <1>3, <2>1
  <2> QED BY <2>1, <2>2
<1> HIDE DEF S
<1>7. \A n \in 0 .. N : n \in S
  BY <1>0, <1>5, <1>6, Stepwise
<1>8. N \in S
  BY <1>0, <1>7
<1> QED BY <1>4, <1>8 DEF S, N

LEMMA LinedEnd ==
  ASSUME NEW c \in Catalogs, NEW records \in Records, NEW log \in Seq(Changes), NEW b, NEW h, Lined(c, log, b, h)
  PROVE  CatGood(ApplyAll(c, records, log).cat, b, h)
<1>1. PICK cs : /\ Follows(cs, c, log)
                /\ \A n \in 0 .. Len(log) : cs[n] \in Catalogs /\ CatGood(cs[n], b, h)
  BY DEF Lined
<1>2. Len(log) \in 0 .. Len(log)
  OBVIOUS
<1>3. ApplyAll(c, records, log).cat = cs[Len(log)]
  BY <1>1, LinedIs
<1> QED BY <1>1, <1>2, <1>3

LEMMA LinedEmpty ==
  ASSUME NEW c \in Catalogs, NEW b, NEW h, CatGood(c, b, h)
  PROVE  Lined(c, <<>>, b, h)
<1> DEFINE cs == [n \in 0 .. 0 |-> c]
<1>1. cs[0] = c /\ Len(<<>>) = 0
  OBVIOUS
<1>2. Follows(cs, c, <<>>)
  BY <1>1 DEF Follows
<1>3. \A n \in 0 .. Len(<<>>) : cs[n] \in Catalogs /\ CatGood(cs[n], b, h)
  <2>1. \A n \in 0 .. Len(<<>>) : cs[n] = c
    BY <1>1
  <2> QED BY <2>1
<1> HIDE DEF cs
<1> QED BY <1>2, <1>3 DEF Lined

LEMMA LinedTail ==
  ASSUME NEW c \in Catalogs, NEW log \in Seq(Changes), NEW b, NEW h, Lined(c, log, b, h), log # <<>>
  PROVE  Lined(Replayed(c, Head(log)), Tail(log), b, h)
<1>1. PICK cs : /\ Follows(cs, c, log)
                /\ \A n \in 0 .. Len(log) : cs[n] \in Catalogs /\ CatGood(cs[n], b, h)
  BY DEF Lined
<1> DEFINE N == Len(log)
           ds == [n \in 0 .. N - 1 |-> cs[n + 1]]
<1>0. /\ N \in Nat /\ N >= 1 /\ Len(Tail(log)) = N - 1 /\ Head(log) = log[1]
      /\ \A n \in 1 .. N - 1 : Tail(log)[n] = log[n + 1]
  OBVIOUS
<1>2. cs[0] = c /\ \A n \in 1 .. N : cs[n] = Replayed(cs[n - 1], log[n])
  BY <1>1 DEF Follows
<1>3. \A n \in 0 .. N : cs[n] \in Catalogs /\ CatGood(cs[n], b, h)
  BY <1>1
<1> HIDE DEF N
<1>4. \A n \in 0 .. N - 1 : ds[n] = cs[n + 1] /\ n + 1 \in 1 .. N /\ n + 1 \in 0 .. N
  BY <1>0
<1>5. ds[0] = Replayed(c, Head(log))
  <2>1. ds[0] = cs[1] /\ cs[1] = Replayed(cs[1 - 1], log[1]) /\ cs[1 - 1] = c
    BY <1>0, <1>2, <1>4
  <2> QED BY <2>1, <1>0
<1>6. \A n \in 1 .. N - 1 : ds[n] = Replayed(ds[n - 1], Tail(log)[n])
  <2> SUFFICES ASSUME NEW n \in 1 .. N - 1 PROVE ds[n] = Replayed(ds[n - 1], Tail(log)[n])
    OBVIOUS
  <2>1. ds[n] = cs[n + 1] /\ ds[n - 1] = cs[n] /\ n + 1 \in 1 .. N /\ (n + 1) - 1 = n
    <3>1. n \in 0 .. N - 1 /\ n - 1 \in 0 .. N - 1 /\ (n - 1) + 1 = n /\ (n + 1) - 1 = n
      BY <1>0
    <3> QED BY <3>1, <1>4
  <2>2. cs[n + 1] = Replayed(cs[n], log[n + 1])
    BY <2>1, <1>2
  <2> QED BY <2>1, <2>2, <1>0
<1> HIDE DEF ds
<1>7. Follows(ds, Replayed(c, Head(log)), Tail(log))
  BY <1>0, <1>5, <1>6 DEF Follows
<1>8. \A n \in 0 .. Len(Tail(log)) : ds[n] \in Catalogs /\ CatGood(ds[n], b, h)
  BY <1>0, <1>3, <1>4
<1> QED BY <1>7, <1>8 DEF Lined

LEMMA LinedAppend ==
  ASSUME NEW c \in Catalogs, NEW records \in Records, NEW log \in Seq(Changes),
         NEW b \in Nat, NEW h, NEW b2 \in Nat, NEW h2, b <= b2, h \subseteq h2,
         Lined(c, log, b, h), NEW r \in Changes,
         CatGood(Replayed(ApplyAll(c, records, log).cat, r), b2, h2)
  PROVE  Lined(c, Append(log, r), b2, h2)
<1>1. PICK cs : /\ Follows(cs, c, log)
                /\ \A n \in 0 .. Len(log) : cs[n] \in Catalogs /\ CatGood(cs[n], b, h)
  BY DEF Lined
<1> DEFINE N == Len(log)
           last == ApplyAll(c, records, log).cat
           ds == [n \in 0 .. N + 1 |-> IF n = N + 1 THEN Replayed(last, r) ELSE cs[n]]
<1>0. /\ N \in Nat /\ Len(Append(log, r)) = N + 1 /\ Append(log, r)[N + 1] = r
      /\ \A n \in 1 .. N : Append(log, r)[n] = log[n]
  OBVIOUS
<1>2. cs[0] = c /\ \A n \in 1 .. N : cs[n] = Replayed(cs[n - 1], log[n])
  BY <1>1 DEF Follows
<1>3. \A n \in 0 .. N : cs[n] \in Catalogs /\ CatGood(cs[n], b2, h2)
  <2>1. \A n \in 0 .. N : CatGood(cs[n], b, h) => CatGood(cs[n], b2, h2)
    BY GoodGrows
  <2> QED BY <1>1, <2>1
<1>4. last = cs[N]
  BY <1>1, LinedIs
<1>5. Replayed(last, r) \in Catalogs /\ CatGood(Replayed(last, r), b2, h2)
  <2>1. last \in Catalogs
    BY ReplayTyped
  <2> HIDE DEF last
  <2>2. Replayed(last, r) \in Catalogs
    BY <2>1, ReplayedTyped
  <2> QED BY <2>2 DEF last
<1> HIDE DEF N, last
<1>6. /\ \A n \in 0 .. N : ds[n] = cs[n]
      /\ ds[N + 1] = Replayed(last, r)
  BY <1>0
<1>7. \A n \in 1 .. N + 1 : ds[n] = Replayed(ds[n - 1], Append(log, r)[n])
  <2> SUFFICES ASSUME NEW n \in 1 .. N + 1 PROVE ds[n] = Replayed(ds[n - 1], Append(log, r)[n])
    OBVIOUS
  <2>1. CASE n = N + 1
    <3>1. n - 1 = N /\ ds[n - 1] = cs[N]
      BY <1>0, <1>6, <2>1
    <3> QED BY <3>1, <2>1, <1>0, <1>4, <1>6
  <2>2. CASE n # N + 1
    <3>1. n \in 1 .. N /\ n \in 0 .. N /\ n - 1 \in 0 .. N
      BY <1>0, <2>2
    <3>2. ds[n] = cs[n] /\ ds[n - 1] = cs[n - 1] /\ Append(log, r)[n] = log[n]
      BY <3>1, <1>0, <1>6
    <3> QED BY <3>1, <3>2, <1>2
  <2> QED BY <2>1, <2>2
<1> HIDE DEF ds
<1>8. Follows(ds, c, Append(log, r))
  <2>1. ds[0] = c
    BY <1>0, <1>2, <1>6
  <2> QED BY <2>1, <1>0, <1>7 DEF Follows
<1>9. \A n \in 0 .. Len(Append(log, r)) : ds[n] \in Catalogs /\ CatGood(ds[n], b2, h2)
  <2> SUFFICES ASSUME NEW n \in 0 .. N + 1 PROVE ds[n] \in Catalogs /\ CatGood(ds[n], b2, h2)
    BY <1>0
  <2>1. CASE n = N + 1
    BY <2>1, <1>5, <1>6
  <2>2. CASE n # N + 1
    <3>1. n \in 0 .. N
      BY <1>0, <2>2
    <3> QED BY <3>1, <1>3, <1>6
  <2> QED BY <2>1, <2>2
<1> QED BY <1>8, <1>9 DEF Lined

LEMMA LinedGrows ==
  ASSUME NEW c, NEW log \in Seq(Changes), NEW b \in Nat, NEW h, NEW b2 \in Nat, NEW h2, b <= b2, h \subseteq h2,
         Lined(c, log, b, h)
  PROVE  Lined(c, log, b2, h2)
<1>1. PICK cs : /\ Follows(cs, c, log)
                /\ \A n \in 0 .. Len(log) : cs[n] \in Catalogs /\ CatGood(cs[n], b, h)
  BY DEF Lined
<1>2. \A n \in 0 .. Len(log) : CatGood(cs[n], b, h) => CatGood(cs[n], b2, h2)
  BY GoodGrows
<1>3. \A n \in 0 .. Len(log) : cs[n] \in Catalogs /\ CatGood(cs[n], b2, h2)
  BY <1>1, <1>2
<1> QED BY <1>1, <1>3 DEF Lined

-----------------------------------------------------------------------------
\* Records where a mapped root reaches, of Entries there have been.

RecFine(r, b, h) ==
  \A p \in Paths : r[p] = NoRecord \/ (p \in Mapped /\ r[p].entry \in 1 .. b /\ r[p].data \in h)

SeenFine(seen, b, h) == \A o \in seen : o.entry \in 1 .. b /\ o.data \in h

LEMMA ReconcileFine ==
  ASSUME NEW c, NEW r \in Records, NEW b, NEW h, RecFine(r, b, h)
  PROVE  RecFine(Reconcile(c, r), b, h)
  BY ReconcileTyped DEF RecFine

LEMMA ForgottenFine ==
  ASSUME NEW r \in Records, NEW gone, NEW b, NEW h, RecFine(r, b, h)
  PROVE  RecFine(Forgotten(r, gone), b, h)
  BY ForgottenTyped DEF RecFine

LEMMA MarkedFine ==
  ASSUME NEW c, NEW r \in Records, NEW seen \in SUBSET Seens, NEW b, NEW h, RecFine(r, b, h), SeenFine(seen, b, h)
  PROVE  RecFine(Marked(c, r, seen), b, h)
<1>1. PICK m \in Records : Marked(c, r, seen) = Reconcile(c, m) /\ MarkedAs(m, r, seen)
  BY MarkedTyped
<1>2. RecFine(m, b, h)
  <2> SUFFICES ASSUME NEW p \in Paths
               PROVE  m[p] = NoRecord \/ (p \in Mapped /\ m[p].entry \in 1 .. b /\ m[p].data \in h)
    BY DEF RecFine
  <2>1. CASE m[p] = r[p]
    BY <2>1 DEF RecFine
  <2>2. CASE \E o \in seen : o.path = p /\ m[p] = [entry |-> o.entry, data |-> o.data]
    BY <2>2 DEF SeenFine, Seens
  <2> QED BY <1>1, <2>1, <2>2 DEF MarkedAs
<1> QED BY <1>1, <1>2, ReconcileFine

LEMMA RekeyedFine ==
  ASSUME NEW c, NEW r \in Records, NEW moves \in Moves, NEW b, NEW h, RecFine(r, b, h)
  PROVE  RecFine(Rekeyed(c, r, moves), b, h)
<1>1. PICK m \in Records : Rekeyed(c, r, moves) = Reconcile(c, m) /\ RekeyedAs(m, r, moves)
  BY RekeyedTyped
<1>0. DOMAIN moves \subseteq Paths /\ \A p \in DOMAIN moves : moves[p] \in Mapped
  BY MovesAre, PathFacts
<1>2. RecFine(m, b, h)
  <2> SUFFICES ASSUME NEW q \in Paths
               PROVE  m[q] = NoRecord \/ (q \in Mapped /\ m[q].entry \in 1 .. b /\ m[q].data \in h)
    BY DEF RecFine
  <2>1. CASE \E p \in DOMAIN moves : moves[p] = q /\ r[p] # NoRecord /\ m[q] = r[p]
    BY <1>0, <2>1 DEF RecFine
  <2>2. CASE m[q] = IF q \in DOMAIN moves THEN NoRecord ELSE r[q]
    BY <2>2 DEF RecFine
  <2> QED BY <1>1, <2>1, <2>2 DEF RekeyedAs
<1> QED BY <1>1, <1>2, ReconcileFine

LEMMA ReplayFine ==
  ASSUME NEW c \in Catalogs, NEW records \in Records, NEW log \in Seq(Changes), NEW b, NEW h, RecFine(records, b, h)
  PROVE  RecFine(ApplyAll(c, records, log).rec, b, h)
<1>1. PICK f : Passes(f, c, records, log)
  BY ReplayPasses
<1> DEFINE N == Len(log)
           S == {n \in 0 .. N : RecFine(f[n].rec, b, h)}
<1>0. N \in Nat
  OBVIOUS
<1>2. f[0].rec = records /\ ApplyAll(c, records, log) = f[N]
  BY <1>1 DEF Passes
<1>3. \A n \in 1 .. N : f[n].rec = Reconcile(f[n].cat, f[n - 1].rec)
  BY <1>1 DEF Passes
<1>4. \A n \in 0 .. N : f[n].rec \in Records
  BY <1>1 DEF Passes
<1> HIDE DEF N
<1>5. 0 \in S
  BY <1>0, <1>2
<1>6. ASSUME NEW n \in 1 .. N, n - 1 \in S PROVE n \in S
  <2>1. RecFine(f[n - 1].rec, b, h) /\ n \in 0 .. N /\ n - 1 \in 0 .. N
    BY <1>0, <1>6
  <2>2. f[n - 1].rec \in Records
    BY <1>4, <2>1
  <2>3. RecFine(f[n].rec, b, h)
    BY <1>3, <2>1, <2>2, ReconcileFine
  <2> QED BY <2>1, <2>3
<1> HIDE DEF S
<1>7. \A n \in 0 .. N : n \in S
  BY <1>0, <1>5, <1>6, Stepwise
<1>8. N \in S
  BY <1>0, <1>7
<1> QED BY <1>2, <1>8 DEF S

-----------------------------------------------------------------------------
\* The numbering of a commit's additions, and the record it makes of its batch.

AddsApart == \A a, b \in run.adds : a.path = b.path => a = b
UpdatesApart == \A u, v \in run.updates : u.entry = v.entry => u = v

LEMMA AddsFinite ==
  ASSUME run \in CommitRuns, AddsApart
  PROVE  IsFiniteSet(run.adds) /\ Cardinality(run.adds) \in Nat
<1> DEFINE f == [a \in run.adds |-> a.path]
<1>1. run.adds \subseteq [path : Mapped, data : Nat]
  BY DEF CommitRuns
<1>2. f \in Injection(run.adds, Paths)
  <2>1. f \in [run.adds -> Paths]
    BY <1>1, PathFacts
  <2>2. \A a, b \in run.adds : f[a] = f[b] => a = b
    BY DEF AddsApart
  <2> HIDE DEF f
  <2> QED BY <2>1, <2>2 DEF Injection, IsInjective
<1>3. IsFiniteSet(Paths)
  BY PathFacts
<1> HIDE DEF f
<1>4. IsFiniteSet(run.adds)
  BY <1>2, <1>3, FS_Injection
<1> QED BY <1>4, FS_CardinalityType

LEMMA NumberedIs ==
  ASSUME Shapes, run \in CommitRuns, AddsApart
  PROVE  /\ Cardinality(run.adds) \in Nat
         /\ DOMAIN Numbered = run.adds
         /\ \A a \in run.adds : Numbered[a] \in born + 1 .. born + Cardinality(run.adds)
         /\ \A a, b \in run.adds : Numbered[a] = Numbered[b] => a = b
<1> DEFINE Upto(a) == {b \in run.adds : b.path <= a.path}
           N == Cardinality(run.adds)
<1>1. IsFiniteSet(run.adds) /\ N \in Nat
  BY AddsFinite
<1>2. \A a \in run.adds : a.path \in Nat
  <2>1. run.adds \subseteq [path : Mapped, data : Nat]
    BY DEF CommitRuns
  <2> QED BY <2>1, PathFacts
<1>3. born \in Nat
  BY DEF Shapes
<1>4. \A a \in run.adds : Numbered[a] = born + Cardinality(Upto(a))
  BY DEF Numbered
<1>5. \A a \in run.adds : /\ Upto(a) \in SUBSET run.adds /\ a \in Upto(a)
  BY <1>2
<1>6. ASSUME NEW a \in run.adds
      PROVE  IsFiniteSet(Upto(a)) /\ Cardinality(Upto(a)) \in 1 .. N
  <2> DEFINE U == Upto(a)
  <2>1. U \in SUBSET run.adds /\ a \in U
    BY <1>5
  <2> HIDE DEF U, N
  <2>2. IsFiniteSet(U) /\ Cardinality(U) <= Cardinality(run.adds)
    BY <1>1, <2>1, FS_Subset
  <2>3. Cardinality(U) \in Nat /\ Cardinality(U) # 0
    BY <2>1, <2>2, FS_CardinalityType, FS_EmptySet
  <2>4. Cardinality(U) \in 1 .. N
    BY <1>1, <2>2, <2>3 DEF N
  <2> QED BY <2>2, <2>4 DEF U
<1>7. ASSUME NEW a \in run.adds, NEW b \in run.adds, a # b, a.path <= b.path
      PROVE  Cardinality(Upto(a)) # Cardinality(Upto(b))
  <2> DEFINE U == Upto(a)
             V == Upto(b)
  <2>1. U \in SUBSET V /\ b \in V
    BY <1>2, <1>7
  <2>2. b \notin U
    <3>1. b.path # a.path
      BY <1>7 DEF AddsApart
    <3> QED BY <1>2, <1>7, <3>1
  <2>3. IsFiniteSet(V)
    BY <1>6
  <2> HIDE DEF U, V
  <2>4. Cardinality(V) # Cardinality(U)
    BY <2>1, <2>2, <2>3, FS_Subset
  <2> QED BY <2>4 DEF U, V
<1>8. \A a, b \in run.adds : Cardinality(Upto(a)) = Cardinality(Upto(b)) => a = b
  <2> SUFFICES ASSUME NEW a \in run.adds, NEW b \in run.adds, a # b
               PROVE  Cardinality(Upto(a)) # Cardinality(Upto(b))
    OBVIOUS
  <2> HIDE DEF Upto
  <2>1. a.path <= b.path \/ b.path <= a.path
    BY <1>2
  <2> QED BY <1>7, <2>1
<1> HIDE DEF Upto, N
<1>9. \A a \in run.adds : Numbered[a] \in born + 1 .. born + N
  BY <1>1, <1>3, <1>4, <1>6
<1>10. \A a, b \in run.adds : Numbered[a] = Numbered[b] => a = b
  <2> SUFFICES ASSUME NEW a \in run.adds, NEW b \in run.adds, Numbered[a] = Numbered[b] PROVE a = b
    OBVIOUS
  <2>1. Cardinality(Upto(a)) \in 1 .. N /\ Cardinality(Upto(b)) \in 1 .. N
    BY <1>6
  <2>2. Cardinality(Upto(a)) = Cardinality(Upto(b))
    BY <1>1, <1>3, <1>4, <2>1
  <2> QED BY <1>8, <2>2
<1>11. DOMAIN Numbered = run.adds
  BY DEF Numbered
<1> QED BY <1>1, <1>9, <1>10, <1>11 DEF N

LEMMA PutIs ==
  ASSUME Shapes, run \in CommitRuns, AddsApart, UpdatesApart, NEW c \in Catalogs,
         \A e \in DOMAIN c : e <= born, \A u \in run.updates : u.entry \in DOMAIN c
  PROVE  /\ Put(c) \in Catalogs
         /\ DOMAIN Put(c) = {Numbered[a] : a \in run.adds} \cup {u.entry : u \in run.updates}
         /\ \A a \in run.adds : Put(c)[Numbered[a]] = a
         /\ \A u \in run.updates : Put(c)[u.entry] = [path |-> c[u.entry].path, data |-> u.data]
<1> DEFINE S == {Numbered[a] : a \in run.adds} \cup {u.entry : u \in run.updates}
<1>0. born \in Nat
  BY DEF Shapes
<1>1. /\ Cardinality(run.adds) \in Nat
      /\ DOMAIN Numbered = run.adds
      /\ \A a \in run.adds : Numbered[a] \in born + 1 .. born + Cardinality(run.adds)
      /\ \A a, b \in run.adds : Numbered[a] = Numbered[b] => a = b
  BY NumberedIs
<1>2. run.adds \subseteq Entries /\ run.updates \subseteq Seens
  <2>1. run.adds \subseteq [path : Mapped, data : Nat] /\ run.updates \subseteq Seens
    BY DEF CommitRuns
  <2>2. [path : Mapped, data : Nat] \subseteq Entries
    BY PathFacts DEF Entries
  <2> QED BY <2>1, <2>2
<1>3. Range(Numbered) = {Numbered[a] : a \in run.adds}
  BY <1>1 DEF Range
<1>4. Put(c) = [e \in S |-> IF e > born THEN CHOOSE a \in run.adds : Numbered[a] = e
                            ELSE [path |-> c[e].path, data |-> (CHOOSE u \in run.updates : u.entry = e).data]]
  BY <1>3 DEF Put
<1>5. ASSUME NEW a \in run.adds
      PROVE  Put(c)[Numbered[a]] = a
  <2>1. Numbered[a] > born /\ Numbered[a] \in S
    <3>1. Numbered[a] > born
      BY <1>0, <1>1
    <3> QED BY <3>1
  <2>2. Put(c)[Numbered[a]] = CHOOSE b \in run.adds : Numbered[b] = Numbered[a]
    BY <1>4, <2>1
  <2>3. (CHOOSE b \in run.adds : Numbered[b] = Numbered[a]) = a
    BY <1>1
  <2> QED BY <2>2, <2>3
<1>6. ASSUME NEW u \in run.updates
      PROVE  /\ Put(c)[u.entry] = [path |-> c[u.entry].path, data |-> u.data] /\ u.entry \in Nat
             /\ [path |-> c[u.entry].path, data |-> u.data] \in Entries
  <2>1. u.entry \in DOMAIN c /\ u.entry \in Nat /\ u.entry <= born /\ u.entry \in S
    BY CatalogIs
  <2>2. ~(u.entry > born)
    BY <1>0, <2>1
  <2>3. (CHOOSE v \in run.updates : v.entry = u.entry) = u
    BY DEF UpdatesApart
  <2> HIDE DEF S
  <2>4. Put(c)[u.entry] = [path |-> c[u.entry].path, data |-> (CHOOSE v \in run.updates : v.entry = u.entry).data]
    BY <1>4, <2>1, <2>2
  <2>5. c[u.entry].path \in Paths /\ u.data \in Nat
    BY <1>2, <2>1, CatalogIs DEF Seens
  <2> QED BY <2>1, <2>3, <2>4, <2>5 DEF Entries
<1>7. DOMAIN Put(c) = S
  BY <1>4
<1>8. Put(c) \in Catalogs
  <2>1. \A e \in S : Put(c)[e] \in Entries /\ e \in Nat
    <3>1. \A a \in run.adds : Numbered[a] \in Nat
      BY <1>0, <1>1
    <3> SUFFICES ASSUME NEW e \in S PROVE Put(c)[e] \in Entries /\ e \in Nat
      OBVIOUS
    <3>2. CASE \E a \in run.adds : e = Numbered[a]
      BY <1>2, <1>5, <3>1, <3>2
    <3>3. CASE \E u \in run.updates : e = u.entry
      <4>1. PICK u \in run.updates : e = u.entry
        BY <3>3
      <4> QED BY <1>6, <4>1
    <3> QED BY <3>2, <3>3
  <2> HIDE DEF S
  <2>2. Put(c) = [e \in S |-> Put(c)[e]]
    BY <1>4
  <2>3. Put(c) \in [S -> Entries] /\ S \in SUBSET Nat
    BY <2>1, <2>2
  <2> QED BY <2>3 DEF Catalogs
<1> QED BY <1>5, <1>6, <1>7, <1>8

\* Where a commit's renames lead.
Renaming == [e \in {m.entry : m \in run.renames} |-> (CHOOSE m \in run.renames : m.entry = e).to]

LEMMA RenamingIs ==
  ASSUME run \in CommitRuns
  PROVE  /\ Renaming \in Renamings
         /\ \A e \in DOMAIN Renaming : \E m \in run.renames : m.entry = e /\ Renaming[e] = m.to
<1>1. run.renames \subseteq Names
  BY DEF CommitRuns
<1>2. \A e \in DOMAIN Renaming : \E m \in run.renames : m.entry = e /\ Renaming[e] = m.to
  <2> SUFFICES ASSUME NEW m \in run.renames PROVE \E n \in run.renames : n.entry = m.entry /\ Renaming[m.entry] = n.to
    BY DEF Renaming
  <2>1. PICK n \in run.renames : n = CHOOSE x \in run.renames : x.entry = m.entry
    OBVIOUS
  <2> QED BY <2>1 DEF Renaming
<1>3. DOMAIN Renaming \in SUBSET Nat
  BY <1>1 DEF Renaming, Names
<1>4. \A e \in DOMAIN Renaming : Renaming[e] \in Paths
  BY <1>1, <1>2, PathFacts DEF Names
<1>5. Renaming \in [DOMAIN Renaming -> Paths]
  <2>1. Renaming = [e \in DOMAIN Renaming |-> Renaming[e]]
    BY DEF Renaming
  <2> QED BY <2>1, <1>4
<1> QED BY <1>2, <1>3, <1>5 DEF Renamings

-----------------------------------------------------------------------------
\* What bounds the state: the catalog over the records not replayed yet, the
\* records, the files, and what a run holds in memory.

Bounds ==
  /\ Lined(cat, journal, born, held)
  /\ \A r \in Range(journal) : r.removed \subseteq 1 .. born /\ DOMAIN r.put \subseteq 1 .. born
  /\ RecFine(rec, born, held)
  /\ disk \in [Paths -> 0 .. made] /\ held \subseteq 1 .. made
  /\ \A p \in Paths \ Mapped : disk[p] = NoFile
  /\ \A p \in own : p \in Mapped /\ disk[p] # NoFile
  /\ SeenFine(rows, born, held)

TosApart == \A m, n \in run.renames : m.to = n.to => m = n

Planned ==
  /\ run.phase # "idle" => SeenFine(run.owed.seen, born, held)
  /\ run.phase \in {"look", "commit", "refresh"} => run.owed = NothingOwed
  /\ run.phase = "depart" =>
       /\ SeenFine(run.refreshed, born, held) /\ UpdatesApart
       /\ TosApart /\ \A m \in run.renames : m.to \notin run.adds
  /\ run.phase = "commit" =>
       /\ AddsApart /\ UpdatesApart /\ TosApart
       /\ \A m \in run.renames, a \in run.adds : m.to # a.path
       /\ \A a \in run.adds \cup run.updates : a.data \in 1 .. made
  /\ run.phase = "refresh" => journal # <<>>
  /\ run.phase = "place" => \A e \in run.wanted : e \in DOMAIN cat /\ cat[e].path \in Mapped

Sound == Shapes /\ Tidy /\ Bounds /\ Planned

\* What each step of a run leaves to be shown of the bounds.
LEMMA BoundsKept ==
  ASSUME Bounds, UNCHANGED <<cat, journal, born, held, made>>, RecFine(rec', born, held),
         disk' \in [Paths -> 0 .. made], \A p \in Paths \ Mapped : disk'[p] = NoFile,
         \A p \in own' : p \in Mapped /\ disk'[p] # NoFile, SeenFine(rows', born, held)
  PROVE  Bounds'
  BY DEF Bounds

LEMMA BoundsOfIndex ==
  ASSUME Bounds, UNCHANGED <<cat, journal, born, held, made, disk, rows>>, RecFine(rec', born, held), own' \subseteq own
  PROVE  Bounds'
  BY DEF Bounds

LEMMA BoundsOfDisk ==
  ASSUME Bounds, UNCHANGED <<cat, journal, born, held, made, rec, rows>>, disk' \in [Paths -> 0 .. made],
         \A p \in Paths \ Mapped : disk'[p] = NoFile, \A p \in own' : p \in Mapped /\ disk'[p] # NoFile
  PROVE  Bounds'
  BY DEF Bounds

\* What a change of the disk does to the files and to the device's own.
LEMMA TakenFromDisk ==
  ASSUME Shapes, Bounds, NEW p \in Mapped, disk' = [disk EXCEPT ![p] = NoFile], own' = own \ {p}
  PROVE  /\ disk' \in [Paths -> 0 .. made] /\ \A q \in Paths \ Mapped : disk'[q] = NoFile
         /\ \A q \in own' : q \in Mapped /\ disk'[q] # NoFile
<1>1. p \in Paths /\ made \in Nat /\ NoFile = 0
  BY PathFacts DEF Shapes, NoFile
<1>2. disk \in [Paths -> 0 .. made]
  BY DEF Bounds
<1>3. \A q \in Paths : disk'[q] = IF q = p THEN NoFile ELSE disk[q]
  BY <1>2
<1>4. disk' \in [Paths -> 0 .. made]
  <2>1. 0 \in 0 .. made
    BY <1>1
  <2> QED BY <1>1, <1>2, <2>1
<1> QED BY <1>3, <1>4, PathFacts DEF Bounds

LEMMA MovedOnDisk ==
  ASSUME Shapes, Bounds, NEW p \in Mapped, NEW q \in Mapped, disk[p] # NoFile, disk[q] = NoFile,
         disk' = [disk EXCEPT ![q] = disk[p], ![p] = NoFile], own' = Carried(p, q)
  PROVE  /\ disk' \in [Paths -> 0 .. made] /\ \A r \in Paths \ Mapped : disk'[r] = NoFile
         /\ \A r \in own' : r \in Mapped /\ disk'[r] # NoFile
<1>1. p \in Paths /\ q \in Paths /\ made \in Nat /\ NoFile = 0 /\ p # q
  BY PathFacts DEF Shapes, NoFile
<1>2. disk \in [Paths -> 0 .. made]
  BY DEF Bounds
<1>3. \A r \in Paths : disk'[r] = IF r = p THEN NoFile ELSE IF r = q THEN disk[p] ELSE disk[r]
  BY <1>1, <1>2
<1>4. disk' \in [Paths -> 0 .. made]
  <2>1. 0 \in 0 .. made /\ disk[p] \in 0 .. made
    BY <1>1, <1>2
  <2> QED BY <1>1, <1>2, <2>1
<1>5. \A r \in own' : r \in Mapped /\ r # p /\ (r # q => r \in own)
  <2>1. q \notin own
    BY DEF Bounds
  <2> QED BY <1>1, <2>1 DEF Bounds, Carried
<1> QED BY <1>1, <1>3, <1>4, <1>5, PathFacts DEF Bounds

LEMMA ExchangedOnDisk ==
  ASSUME Shapes, Bounds, NEW p \in Mapped, NEW q \in Mapped, disk[p] # NoFile, disk[q] # NoFile,
         disk' = [disk EXCEPT ![p] = disk[q], ![q] = disk[p]], own' = Carried(p, q)
  PROVE  /\ disk' \in [Paths -> 0 .. made] /\ \A r \in Paths \ Mapped : disk'[r] = NoFile
         /\ \A r \in own' : r \in Mapped /\ disk'[r] # NoFile
<1>1. p \in Paths /\ q \in Paths /\ made \in Nat
  BY PathFacts DEF Shapes
<1>2. disk \in [Paths -> 0 .. made]
  BY DEF Bounds
<1>3. \A r \in Paths : disk'[r] = IF r = q THEN disk[p] ELSE IF r = p THEN disk[q] ELSE disk[r]
  BY <1>1, <1>2
<1>4. disk' \in [Paths -> 0 .. made]
  <2>1. disk[q] \in 0 .. made /\ disk[p] \in 0 .. made
    BY <1>1, <1>2
  <2> QED BY <1>1, <1>2, <2>1
<1>5. \A r \in own' : r \in Mapped /\ (r # p /\ r # q => r \in own)
  BY DEF Bounds, Carried
<1> QED BY <1>1, <1>3, <1>4, <1>5, PathFacts DEF Bounds

\* The write to the Index that is due is of records there may be.
LEMMA DueFine ==
  ASSUME Shapes, Bounds, Planned, run.phase # "idle", run.owed \in Owes
  PROVE  RecFine(Due, born, held)
<1>1. /\ Rekeyed(cat, rec, run.owed.rekey) \in Records
      /\ Forgotten(Rekeyed(cat, rec, run.owed.rekey), run.owed.forget) \in Records
      /\ run.owed.rekey \in Moves /\ run.owed.seen \subseteq Seens /\ rec \in Records
  BY DueTyped DEF Shapes
<1> DEFINE r1 == Rekeyed(cat, rec, run.owed.rekey)
           r2 == Forgotten(r1, run.owed.forget)
<1>2. RecFine(rec, born, held) /\ SeenFine(run.owed.seen, born, held)
  BY DEF Bounds, Planned
<1>3. RecFine(r1, born, held)
  BY <1>1, <1>2, RekeyedFine
<1>4. RecFine(r2, born, held)
  <2> HIDE DEF r1
  <2> QED BY <1>1, <1>3, ForgottenFine DEF r1
<1>5. Due = Marked(cat, r2, run.owed.seen)
  BY DEF Due
<1>6. r2 \in Records
  BY <1>1
<1> HIDE DEF r1, r2
<1>7. RecFine(Marked(cat, r2, run.owed.seen), born, held)
  BY <1>1, <1>2, <1>4, <1>6, MarkedFine
<1> QED BY <1>5, <1>7

-----------------------------------------------------------------------------
\* The relocation keeps the bounds.

LEMMA NothingSeen ==
  ASSUME NEW b, NEW h
  PROVE  /\ SeenFine({}, b, h) /\ NothingOwed.seen = {} /\ NothingOwed.rekey = <<>> /\ NothingOwed.forget = {}
         /\ \A m : [NothingOwed EXCEPT !.rekey = m].seen = {}
         /\ \A s : [NothingOwed EXCEPT !.forget = s].seen = {}
  BY DEF SeenFine, NothingOwed

LEMMA RelocSound ==
  ASSUME Sound, UNCHANGED <<cat, libraryVars, rows, left>>, torn' \subseteq Tears, run' \in RelocRuns, run'.owed.seen = {},
         rec' \in Records, calm' \in BOOLEAN, Bounds', Tidy'
  PROVE  Sound'
<1>1. disk' \in [Paths -> Nat]
  <2>1. disk' \in [Paths -> 0 .. made'] /\ made' = made /\ made \in Nat
    BY DEF Sound, Bounds, Shapes, libraryVars
  <2>2. 0 .. made' \subseteq Nat
    BY <2>1
  <2> QED BY <2>1, <2>2
<1>2. own' \subseteq Mapped
  BY DEF Bounds
<1>3. Shapes'
  BY <1>1, <1>2, RelocShapes DEF Sound
<1>4. run'.phase \in Relocs
  BY DEF RelocRuns
<1>5. Planned'
  <2>1. run'.phase \notin {"idle", "look", "depart", "commit", "refresh", "place"}
    BY <1>4 DEF Relocs
  <2>2. SeenFine(run'.owed.seen, born', held')
    BY NothingSeen
  <2> QED BY <2>1, <2>2 DEF Planned
<1> QED BY <1>3, <1>5 DEF Sound

LEMMA LookSound ==
  ASSUME Sound, Look
  PROVE  Sound'
<1>0. run.phase = "look" /\ run' = Relocating(run.kind, Looks) /\ calm' = TRUE
      /\ UNCHANGED <<cat, rec, disk, own, libraryVars, rows, torn, left>>
  BY DEF Look, Free
<1>1. run \in LookRuns
  BY <1>0, RunIs DEF Sound
<1>2. run.kind \in Kinds
  BY <1>1 DEF LookRuns
<1>3. run' \in RelocRuns
  BY <1>0, <1>2, RelocatingTyped DEF Sound
<1>4. /\ run'.phase = "finish" /\ run'.looks = Looks /\ run'.todo = DOMAIN Looks /\ run'.pending = <<>>
      /\ run'.cycle = <<>> /\ run'.gone = {} /\ run'.owed = NothingOwed
  BY <1>0 DEF Relocating
<1>5. Tidy'
  BY <1>4, EmptyMoves, NothingTyped DEF Tidy
<1>6. Bounds'
  <2>1. SeenFine(rows', born, held) /\ RecFine(rec', born, held)
    BY <1>0 DEF Sound, Bounds
  <2> QED BY <1>0, <2>1, BoundsOfIndex DEF Sound, libraryVars
<1>7. run'.owed.seen = {}
  BY <1>4, NothingSeen
<1> QED BY <1>0, <1>3, <1>5, <1>6, <1>7, RelocSound DEF Sound, Shapes

LEMMA FinishNextSound ==
  ASSUME Sound, FinishNext, UNCHANGED <<libraryVars, rows, left>>, torn' \subseteq Tears
  PROVE  Sound'
<1>1. PICK p \in run.todo :
           /\ p \in Mapped /\ p \in DOMAIN run.looks
           /\ run.phase = "finish" /\ run.owed = NothingOwed
           /\ UNCHANGED <<cat, disk, calm>>
           /\ run' \in RelocRuns
           /\ run'.phase = "finish" /\ run'.owed = NothingOwed /\ run'.kind = run.kind
           /\ run'.looks = run.looks /\ run'.todo = run.todo \ {p} /\ run'.pending = run.pending
           /\ run'.cycle = run.cycle /\ run'.gone = run.gone
           /\ \/ UNCHANGED <<rec, own>>
              \/ \E moves \in Moves : Keep(Rekeyed(cat, rec, moves))
  BY FinishNextIs DEF Sound
<1>2. rec' \in Records /\ own' \subseteq own /\ RecFine(rec', born, held)
  <2>0. rec \in Records /\ RecFine(rec, born, held)
    BY DEF Sound, Shapes, Bounds
  <2>1. CASE UNCHANGED <<rec, own>>
    BY <2>0, <2>1
  <2>2. CASE \E moves \in Moves : Keep(Rekeyed(cat, rec, moves))
    <3>1. PICK moves \in Moves : Keep(Rekeyed(cat, rec, moves))
      BY <2>2
    <3>2. rec' = Rekeyed(cat, rec, moves) /\ own' \subseteq own
      BY <3>1 DEF Keep
    <3> QED BY <2>0, <3>2, RekeyedTyped, RekeyedFine
  <2> QED BY <1>1, <2>1, <2>2
<1>3. Bounds'
  BY <1>1, <1>2, BoundsOfIndex DEF Sound, libraryVars
<1>4. Tidy'
  BY <1>1 DEF Sound, Tidy, Relocs
<1>5. run'.owed.seen = {}
  BY <1>1, NothingSeen
<1> QED BY <1>1, <1>2, <1>3, <1>4, <1>5, RelocSound DEF Sound, Shapes

LEMMA FinishDoneSound ==
  ASSUME Sound, FinishDone, UNCHANGED <<libraryVars, rows, left>>, torn' \subseteq Tears
  PROVE  Sound'
<1>1. LET looks == IF run.touched = {} THEN run.looks ELSE Looks IN
         /\ run.phase = "finish" /\ run.owed = NothingOwed /\ run.todo = {}
         /\ looks \in Views /\ UNCHANGED <<cat, rec, disk, own>>
         /\ calm' = (calm \/ run.touched # {})
         /\ run' \in RelocRuns
         /\ run'.phase = "decide" /\ run'.owed = NothingOwed /\ run'.kind = run.kind
         /\ run'.looks = looks /\ run'.todo = DOMAIN looks /\ run'.touched = run.touched
         /\ run'.pending = run.pending /\ run'.cycle = run.cycle /\ run'.gone = run.gone
         /\ run'.changed = run.changed
  BY FinishDoneIs DEF Sound
<1>2. Tidy'
  <2>1. DOMAIN run.pending = {} /\ run.gone = {} /\ run.cycle = <<>>
    BY <1>1 DEF Sound, Tidy, Relocs
  <2> QED BY <1>1, <2>1 DEF Tidy, Relocs
<1>3. Bounds'
  <2>1. RecFine(rec', born, held) /\ own' \subseteq own
    BY <1>1 DEF Sound, Bounds
  <2> QED BY <1>1, <2>1, BoundsOfIndex DEF Sound, libraryVars
<1>4. run'.owed.seen = {} /\ calm' \in BOOLEAN /\ rec' \in Records
  BY <1>1, NothingSeen DEF Sound, Shapes
<1> QED BY <1>1, <1>2, <1>3, <1>4, RelocSound

LEMMA DecideNextSound ==
  ASSUME Sound, DecideNext, UNCHANGED <<libraryVars, rows, left>>, torn' \subseteq Tears
  PROVE  Sound'
<1>1. PICK p \in run.todo :
           /\ p \in Mapped /\ p \in DOMAIN run.looks
           /\ run.phase = "decide" /\ run.owed = NothingOwed
           /\ DecideKeeps(p)
           /\ \/ /\ UNCHANGED <<rec, disk, own>> /\ run'.owed = NothingOwed
                 /\ run'.pending = run.pending /\ run'.gone = run.gone
              \/ /\ disk[p] # NoFile
                 /\ disk' = [disk EXCEPT ![p] = NoFile] /\ own' = own \ {p} /\ rec' = rec
                 /\ run'.owed = [NothingOwed EXCEPT !.forget = {p}]
                 /\ run'.pending = run.pending /\ run'.gone = run.gone
              \/ /\ rec' = Forgotten(rec, {p}) /\ UNCHANGED <<disk, own>> /\ run'.owed = NothingOwed
                 /\ run'.pending = run.pending /\ run'.gone = run.gone
              \/ /\ Decision(p) = "gone"
                 /\ UNCHANGED <<rec, disk, own>> /\ run'.owed = NothingOwed
                 /\ run'.pending = run.pending /\ run'.gone = run.gone \cup {p}
              \/ /\ UNCHANGED <<rec, disk, own>> /\ run'.owed = NothingOwed
                 /\ DOMAIN run'.pending = DOMAIN run.pending \cup {p}
                 /\ \A q \in DOMAIN run'.pending : run'.pending[q] = run.looks[q].to
                 /\ run'.gone = run.gone
  BY DecideNextIs DEF Sound
<1>2. /\ UNCHANGED <<cat, calm>>
      /\ run' \in RelocRuns /\ run'.phase = "decide" /\ run'.kind = run.kind
      /\ run'.looks = run.looks /\ run'.todo = run.todo \ {p} /\ run'.touched = run.touched
      /\ run'.cycle = run.cycle
  BY <1>1 DEF DecideKeeps
<1>3. Decision(p) = "gone" => run.looks[p].to \in Mapped
  BY DecisionIs
<1>4. Tidy'
  <2>1. /\ run.todo \subseteq DOMAIN run.looks
        /\ \A q \in DOMAIN run.pending : q \in DOMAIN run.looks /\ run.pending[q] = run.looks[q].to
        /\ \A q \in run.gone : q \in DOMAIN run.looks /\ run.looks[q].to \in Mapped
        /\ run.cycle = <<>>
    BY <1>1 DEF Sound, Tidy, Relocs
  <2>2. \A q \in DOMAIN run'.pending : q \in DOMAIN run'.looks /\ run'.pending[q] = run'.looks[q].to
    BY <1>1, <1>2, <2>1
  <2>3. \A q \in run'.gone : q \in DOMAIN run'.looks /\ run'.looks[q].to \in Mapped
    BY <1>1, <1>2, <1>3, <2>1
  <2> QED BY <1>1, <1>2, <2>1, <2>2, <2>3 DEF Tidy, Relocs
<1>5. run'.owed.seen = {} /\ calm' \in BOOLEAN
  BY <1>1, <1>2, NothingSeen DEF Sound, Shapes
<1>6. rec \in Records /\ RecFine(rec, born, held) /\ Bounds /\ Shapes
  BY DEF Sound, Shapes, Bounds
<1>7. Bounds' /\ rec' \in Records
  <2>1. CASE rec' \in Records /\ RecFine(rec', born, held) /\ UNCHANGED <<disk, own>>
    BY <1>2, <1>6, <2>1, BoundsOfIndex DEF libraryVars
  <2>2. CASE /\ disk[p] # NoFile /\ rec' = rec
             /\ disk' = [disk EXCEPT ![p] = NoFile] /\ own' = own \ {p}
    <3>1. /\ disk' \in [Paths -> 0 .. made] /\ \A q \in Paths \ Mapped : disk'[q] = NoFile
          /\ \A q \in own' : q \in Mapped /\ disk'[q] # NoFile
      BY <1>1, <1>6, <2>2, TakenFromDisk
    <3> QED BY <1>2, <1>6, <2>2, <3>1, BoundsOfDisk DEF libraryVars
  <2>3. Forgotten(rec, {p}) \in Records /\ RecFine(Forgotten(rec, {p}), born, held)
    BY <1>6, ForgottenTyped, ForgottenFine
  <2> QED BY <1>1, <1>6, <2>1, <2>2, <2>3
<1> QED BY <1>2, <1>4, <1>5, <1>7, RelocSound

LEMMA DecideDoneSound ==
  ASSUME Sound, DecideDone, UNCHANGED <<libraryVars, rows, left>>, torn' \subseteq Tears
  PROVE  Sound'
<1>1. /\ run.phase = "decide" /\ run.owed = NothingOwed /\ run.todo = {}
      /\ UNCHANGED <<cat, rec, disk, own, calm>>
      /\ run' \in RelocRuns /\ run'.phase = "move" /\ run'.owed = NothingOwed /\ run'.kind = run.kind
      /\ run'.looks = run.looks /\ run'.todo = run.todo /\ run'.touched = run.touched
      /\ run'.pending = run.pending /\ run'.cycle = run.cycle /\ run'.gone = run.gone
      /\ run'.changed = run.changed
  BY DecideDoneIs DEF Sound
<1>2. Tidy'
  BY <1>1 DEF Sound, Tidy, Relocs
<1>3. Bounds'
  <2>1. RecFine(rec', born, held) /\ own' \subseteq own
    BY <1>1 DEF Sound, Bounds
  <2> QED BY <1>1, <2>1, BoundsOfIndex DEF Sound, libraryVars
<1>4. run'.owed.seen = {} /\ calm' \in BOOLEAN /\ rec' \in Records
  BY <1>1, NothingSeen DEF Sound, Shapes
<1> QED BY <1>1, <1>2, <1>3, <1>4, RelocSound

\* A step among the moves, by what it does to the disk.
LEMMA MoveStepSound ==
  ASSUME Sound, MoveKeeps, UNCHANGED <<libraryVars, rows, left>>, torn' \subseteq Tears, run'.owed.seen = {},
         DOMAIN run'.pending \subseteq DOMAIN run.pending,
         \A q \in DOMAIN run'.pending : run'.pending[q] = run.pending[q],
         disk' \in [Paths -> 0 .. made], \A r \in Paths \ Mapped : disk'[r] = NoFile,
         \A r \in own' : r \in Mapped /\ disk'[r] # NoFile
  PROVE  Sound'
<1>1. /\ run.phase = "move" /\ UNCHANGED <<cat, rec, calm>>
      /\ run' \in RelocRuns /\ run'.phase = "move"
      /\ run'.looks = run.looks /\ run'.todo = run.todo /\ run'.gone = run.gone
  BY DEF MoveKeeps
<1>2. Tidy'
  BY <1>1 DEF Sound, Tidy, Relocs
<1>3. Bounds'
  BY <1>1, BoundsOfDisk DEF Sound, libraryVars
<1>4. calm' \in BOOLEAN /\ rec' \in Records
  BY <1>1 DEF Sound, Shapes
<1> QED BY <1>1, <1>2, <1>3, <1>4, RelocSound

LEMMA DiskKept ==
  ASSUME Bounds, UNCHANGED <<disk, own>>
  PROVE  /\ disk' \in [Paths -> 0 .. made] /\ \A r \in Paths \ Mapped : disk'[r] = NoFile
         /\ \A r \in own' : r \in Mapped /\ disk'[r] # NoFile
  BY DEF Bounds

LEMMA MoveOneSound ==
  ASSUME Sound, NEW p \in Paths, MoveOne(p), UNCHANGED <<libraryVars, rows, left>>, torn' \subseteq Tears
  PROVE  Sound'
<1> DEFINE to == run.pending[p]
<1>1. /\ MoveKeeps
      /\ p \in DOMAIN run.pending /\ p \in Mapped /\ to \in Mapped /\ to \notin DOMAIN run.pending
      /\ DOMAIN run'.pending = DOMAIN run.pending \ {p}
      /\ \A q \in DOMAIN run.pending \ {p} : run'.pending[q] = run.pending[q]
      /\ \/ /\ disk[p] # NoFile /\ disk[to] = NoFile
            /\ disk' = [disk EXCEPT ![to] = disk[p], ![p] = NoFile]
            /\ own' = Carried(p, to)
            /\ run'.owed = [NothingOwed EXCEPT !.rekey = Only(p, to)]
         \/ UNCHANGED <<disk, own>> /\ run'.owed = NothingOwed
  BY MoveOneIs DEF Sound
<1>2. run'.owed.seen = {}
  BY <1>1, NothingSeen
<1>3. PICK q \in Mapped : q = to
  BY <1>1
<1> HIDE DEF to
<1>4. /\ disk' \in [Paths -> 0 .. made] /\ \A r \in Paths \ Mapped : disk'[r] = NoFile
      /\ \A r \in own' : r \in Mapped /\ disk'[r] # NoFile
  <2>1. CASE UNCHANGED <<disk, own>>
    BY <2>1, DiskKept DEF Sound
  <2>2. CASE /\ disk[p] # NoFile /\ disk[q] = NoFile
             /\ disk' = [disk EXCEPT ![q] = disk[p], ![p] = NoFile] /\ own' = Carried(p, q)
    BY <1>1, <2>2, MovedOnDisk DEF Sound
  <2> QED BY <1>1, <1>3, <2>1, <2>2
<1> QED BY <1>1, <1>2, <1>4, MoveStepSound

LEMMA BeginCycleSound ==
  ASSUME Sound, BeginCycle, UNCHANGED <<libraryVars, rows, left>>, torn' \subseteq Tears
  PROVE  Sound'
<1>1. /\ MoveKeeps /\ UNCHANGED <<disk, own>> /\ run'.owed = NothingOwed
      /\ DOMAIN run'.pending = DOMAIN run.pending \ Range(run'.cycle)
      /\ \A q \in DOMAIN run'.pending : run'.pending[q] = run.pending[q]
  BY BeginCycleIs DEF Sound
<1>2. run'.owed.seen = {}
  BY <1>1, NothingSeen
<1> QED BY <1>1, <1>2, DiskKept, MoveStepSound DEF Sound

LEMMA ExchangeNextSound ==
  ASSUME Sound, ExchangeNext, UNCHANGED <<libraryVars, rows, left>>, torn' \subseteq Tears
  PROVE  Sound'
<1> DEFINE p == run.cycle[1]
           q == run.cycle[2]
<1>1. /\ MoveKeeps /\ run'.pending = run.pending
      /\ \/ UNCHANGED <<disk, own>> /\ run'.owed = NothingOwed
         \/ /\ disk[p] # NoFile /\ disk[q] # NoFile /\ p \in Mapped /\ q \in Mapped
            /\ disk' = [disk EXCEPT ![p] = disk[q], ![q] = disk[p]] /\ own' = Carried(p, q)
            /\ run'.owed = [NothingOwed EXCEPT !.rekey = Exchange(p, q)]
  BY ExchangeNextIs DEF Sound
<1>2. run'.owed.seen = {}
  BY <1>1, NothingSeen
<1> HIDE DEF p, q
<1>3. /\ disk' \in [Paths -> 0 .. made] /\ \A r \in Paths \ Mapped : disk'[r] = NoFile
      /\ \A r \in own' : r \in Mapped /\ disk'[r] # NoFile
  <2>1. CASE UNCHANGED <<disk, own>>
    BY <2>1, DiskKept DEF Sound
  <2>2. CASE ~UNCHANGED <<disk, own>>
    <3>1. PICK x \in Mapped, y \in Mapped : x = p /\ y = q
      BY <1>1, <2>2
    <3>2. /\ disk[x] # NoFile /\ disk[y] # NoFile
          /\ disk' = [disk EXCEPT ![x] = disk[y], ![y] = disk[x]] /\ own' = Carried(x, y)
      BY <1>1, <2>2, <3>1
    <3> QED BY <3>1, <3>2, ExchangedOnDisk DEF Sound
  <2> QED BY <2>1, <2>2
<1> QED BY <1>1, <1>2, <1>3, MoveStepSound

LEMMA MovesDoneSound ==
  ASSUME Sound, MovesDone, UNCHANGED <<libraryVars, rows, left>>, torn' \subseteq Tears
  PROVE  Sound'
<1>1. /\ run.phase = "move" /\ run.owed = NothingOwed /\ run.cycle = <<>> /\ DOMAIN run.pending = {}
      /\ UNCHANGED <<cat, rec, disk, own, calm>>
      /\ run' \in RelocRuns /\ run'.phase = "gone" /\ run'.owed = NothingOwed
      /\ run'.looks = run.looks /\ run'.todo = run.todo
      /\ run'.pending = run.pending /\ run'.cycle = run.cycle /\ run'.gone = run.gone
  BY MovesDoneIs DEF Sound
<1>2. Tidy'
  BY <1>1 DEF Sound, Tidy, Relocs
<1>3. Bounds'
  <2>1. RecFine(rec', born, held) /\ own' \subseteq own
    BY <1>1 DEF Sound, Bounds
  <2> QED BY <1>1, <2>1, BoundsOfIndex DEF Sound, libraryVars
<1>4. run'.owed.seen = {} /\ calm' \in BOOLEAN /\ rec' \in Records
  BY <1>1, NothingSeen DEF Sound, Shapes
<1> QED BY <1>1, <1>2, <1>3, <1>4, RelocSound

LEMMA FollowNextSound ==
  ASSUME Sound, FollowNext, UNCHANGED <<libraryVars, rows, left>>, torn' \subseteq Tears
  PROVE  Sound'
<1>1. PICK p \in run.gone :
           /\ run.phase = "gone" /\ run.owed = NothingOwed
           /\ UNCHANGED <<cat, disk, calm>>
           /\ run' \in RelocRuns
           /\ run'.phase = "gone" /\ run'.owed = NothingOwed
           /\ run'.looks = run.looks /\ run'.todo = run.todo /\ run'.pending = run.pending
           /\ run'.cycle = run.cycle /\ run'.gone = run.gone \ {p}
           /\ \/ \E moves \in Moves : Keep(Rekeyed(cat, rec, moves))
              \/ Keep(Forgotten(rec, {p}))
  BY FollowNextIs DEF Sound
<1>2. rec \in Records /\ RecFine(rec, born, held)
  BY DEF Sound, Shapes, Bounds
<1>3. rec' \in Records /\ own' \subseteq own /\ RecFine(rec', born, held)
  <2>1. CASE \E moves \in Moves : Keep(Rekeyed(cat, rec, moves))
    <3>1. PICK moves \in Moves : Keep(Rekeyed(cat, rec, moves))
      BY <2>1
    <3>2. rec' = Rekeyed(cat, rec, moves) /\ own' \subseteq own
      BY <3>1 DEF Keep
    <3> QED BY <1>2, <3>2, RekeyedTyped, RekeyedFine
  <2>2. CASE Keep(Forgotten(rec, {p}))
    <3>1. rec' = Forgotten(rec, {p}) /\ own' \subseteq own
      BY <2>2 DEF Keep
    <3> QED BY <1>2, <3>1, ForgottenTyped, ForgottenFine
  <2> QED BY <1>1, <2>1, <2>2
<1>4. Tidy'
  BY <1>1 DEF Sound, Tidy, Relocs
<1>5. Bounds'
  BY <1>1, <1>3, BoundsOfIndex DEF Sound, libraryVars
<1>6. run'.owed.seen = {} /\ calm' \in BOOLEAN
  BY <1>1, NothingSeen DEF Sound, Shapes
<1> QED BY <1>1, <1>3, <1>4, <1>5, <1>6, RelocSound

LEMMA FollowDoneSound ==
  ASSUME Sound, FollowDone, UNCHANGED <<libraryVars, rows, left>>, torn' \subseteq Tears
  PROVE  Sound'
<1>1. /\ run.phase = "gone" /\ run.owed = NothingOwed /\ run.gone = {}
      /\ UNCHANGED <<cat, rec, disk, own, calm>>
      /\ run' \in RelocRuns /\ run'.phase = "relocated" /\ run'.owed = NothingOwed
      /\ run'.looks = run.looks /\ run'.todo = run.todo
      /\ run'.pending = run.pending /\ run'.cycle = run.cycle /\ run'.gone = run.gone
  BY FollowDoneIs DEF Sound
<1>2. Tidy'
  BY <1>1 DEF Sound, Tidy, Relocs
<1>3. Bounds'
  <2>1. RecFine(rec', born, held) /\ own' \subseteq own
    BY <1>1 DEF Sound, Bounds
  <2> QED BY <1>1, <2>1, BoundsOfIndex DEF Sound, libraryVars
<1>4. run'.owed.seen = {} /\ calm' \in BOOLEAN /\ rec' \in Records
  BY <1>1, NothingSeen DEF Sound, Shapes
<1> QED BY <1>1, <1>2, <1>3, <1>4, RelocSound

-----------------------------------------------------------------------------
\* The steps of a run beside the relocation.

LEMMA RunTidy ==
  ASSUME run.phase \notin Relocs
  PROVE  Tidy
  BY DEF Tidy

LEMMA IdlePlanned ==
  ASSUME run' = Idle
  PROVE  Planned' /\ Tidy' /\ run' \in Runs
<1>1. run'.phase = "idle"
  BY DEF Idle
<1> QED BY <1>1, KindIsRun DEF Planned, Tidy, Relocs

LEMMA TornKept == Shapes /\ torn' = torn => torn' \subseteq Tears
  BY DEF Shapes

\* A step of a run that leaves the Library alone.
LEMMA RunShapes ==
  ASSUME Shapes, UNCHANGED <<cat, libraryVars, rows, left>>, torn' \subseteq Tears, run' \in Runs, rec' \in Records,
         Bounds', calm' \in BOOLEAN
  PROVE  Shapes'
<1>1. disk' \in [Paths -> Nat]
  <2>1. disk' \in [Paths -> 0 .. made'] /\ made' = made /\ made \in Nat
    BY DEF Bounds, Shapes, libraryVars
  <2>2. 0 .. made' \subseteq Nat
    BY <2>1
  <2> QED BY <2>1, <2>2
<1>2. own' \subseteq Mapped
  BY DEF Bounds
<1> QED BY <1>1, <1>2 DEF Shapes, libraryVars

LEMMA RecordItSound ==
  ASSUME Sound, RecordIt, UNCHANGED <<libraryVars, rows, left>>, torn' \subseteq Tears
  PROVE  Sound'
<1>1. /\ run.phase # "idle" /\ run.owed # NothingOwed /\ run.owed \in Owes
      /\ rec' = Due /\ Due \in Records /\ own' = own
      /\ UNCHANGED <<cat, disk, calm>>
      /\ run.phase = "end" => run' = Idle
      /\ run.phase # "end" => run' \in Runs /\ run'.owed = NothingOwed /\ run'.phase = run.phase
      /\ run.phase \in Relocs =>
           /\ run' \in RelocRuns /\ run'.looks = run.looks /\ run'.todo = run.todo
           /\ run'.pending = run.pending /\ run'.cycle = run.cycle /\ run'.gone = run.gone
      /\ run.phase = "depart" =>
           /\ run' \in DepartRuns
           /\ run'.refreshed = run.refreshed /\ run'.adds = run.adds /\ run'.updates = run.updates
           /\ run'.renames = run.renames
      /\ run.phase = "place" => run' \in PlaceRuns /\ run'.wanted = run.wanted
  BY RecordItIs DEF Sound
<1>2. Bounds'
  <2>1. RecFine(rec', born, held)
    BY <1>1, DueFine DEF Sound
  <2>2. own' \subseteq own
    BY <1>1
  <2> QED BY <1>1, <2>1, <2>2, BoundsOfIndex DEF Sound, libraryVars
<1>3. run.phase \notin {"look", "commit", "refresh"}
  BY <1>1 DEF Sound, Planned
<1>4. calm' \in BOOLEAN
  BY <1>1 DEF Sound, Shapes
<1>5. CASE run.phase = "end"
  <2>1. Planned' /\ Tidy' /\ run' \in Runs
    BY <1>1, <1>5, IdlePlanned
  <2> QED BY <1>1, <1>2, <1>4, <2>1, RunShapes DEF Sound
<1>6. CASE run.phase # "end"
  <2>1. SeenFine(run'.owed.seen, born', held')
    BY <1>1, <1>6, NothingSeen
  <2>2. Planned'
    <3>1. CASE run.phase = "depart"
      <4>1. UpdatesApart' /\ TosApart' /\ \A m \in run'.renames : m.to \notin run'.adds
        BY <1>1, <3>1 DEF Sound, Planned, UpdatesApart, TosApart
      <4>2. SeenFine(run'.refreshed, born', held')
        BY <1>1, <3>1 DEF Sound, Planned, libraryVars
      <4>3. run'.phase = "depart"
        BY <1>1, <3>1
      <4> QED BY <2>1, <4>1, <4>2, <4>3 DEF Planned
    <3>2. CASE run.phase = "place"
      <4>1. \A e \in run'.wanted : e \in DOMAIN cat' /\ cat'[e].path \in Mapped
        BY <1>1, <3>2 DEF Sound, Planned
      <4>2. run'.phase = "place"
        BY <1>1, <3>2
      <4> QED BY <2>1, <4>1, <4>2 DEF Planned
    <3>3. CASE run.phase \notin {"depart", "place"}
      <4>1. run'.phase \notin {"look", "depart", "commit", "refresh", "place"}
        BY <1>1, <1>3, <1>6, <3>3
      <4> QED BY <2>1, <4>1 DEF Planned
    <3> QED BY <3>1, <3>2, <3>3
  <2>3. Tidy'
    <3>1. CASE run.phase \in Relocs
      <4>1. run'.phase = run.phase
        BY <1>1, <1>6
      <4>2. run.phase \notin {"finish", "gone", "relocated"}
        BY <1>1, <3>1 DEF Sound, Tidy
      <4> QED BY <1>1, <3>1, <4>1, <4>2 DEF Sound, Tidy, Relocs
    <3>2. CASE run.phase \notin Relocs
      BY <1>1, <1>6, <3>2, RunTidy DEF Tidy
    <3> QED BY <3>1, <3>2
  <2> QED BY <1>1, <1>2, <1>4, <1>6, <2>2, <2>3, RunShapes DEF Sound
<1> QED BY <1>5, <1>6

\* The Entry that has a path, and the copies a scan finds there.
LEMMA HolderIs ==
  ASSUME Sound, NEW p \in PathsOf(cat)
  PROVE  /\ HolderOf(cat, p) \in DOMAIN cat /\ cat[HolderOf(cat, p)].path = p
         /\ \A e \in DOMAIN cat : cat[e].path = p => e = HolderOf(cat, p)
<1>1. CatGood(cat, born, held)
  BY LinedFirst DEF Sound, Bounds, Shapes
<1>2. \E e \in DOMAIN cat : cat[e].path = p
  BY DEF PathsOf
<1>3. HolderOf(cat, p) \in DOMAIN cat /\ cat[HolderOf(cat, p)].path = p
  BY <1>2 DEF HolderOf
<1> QED BY <1>1, <1>3 DEF CatGood

LEMMA ScanSound ==
  ASSUME Sound, Scan
  PROVE  Sound'
<1>1. /\ run.phase = "relocated"
      /\ UNCHANGED <<cat, rec, disk, own, libraryVars, rows, torn, left>> /\ calm' = TRUE
      /\ run' \in DepartRuns /\ run'.phase = "depart" /\ run'.owed = NothingOwed
      /\ run'.refreshed = {[path |-> p, entry |-> rec[p].entry, data |-> disk[p]] : p \in Refreshed}
      /\ run'.adds = NewFiles \ {pair[2] : pair \in Pairs}
      /\ run'.updates = {[path |-> p, entry |-> rec[p].entry] : p \in Changed \ Refreshed}
      /\ run'.renames = {[entry |-> rec[pair[1]].entry, from |-> pair[1], to |-> pair[2]] : pair \in Pairs}
  BY ScanIs DEF Sound
<1>2. CatGood(cat, born, held)
  BY LinedFirst DEF Sound, Bounds, Shapes
<1>3. \A p \in Changed : rec[p].entry \in DOMAIN cat /\ cat[rec[p].entry].path = p
  BY HolderIs DEF Changed, EntryAt
<1>4. SeenFine(run'.refreshed, born, held)
  <2> SUFFICES ASSUME NEW p \in Refreshed PROVE rec[p].entry \in 1 .. born /\ disk[p] \in held
    BY <1>1 DEF SeenFine
  <2>1. p \in Changed /\ disk[p] = cat[rec[p].entry].data
    BY DEF Refreshed
  <2> QED BY <1>2, <1>3, <2>1 DEF CatGood
<1>5. UpdatesApart'
  <2> SUFFICES ASSUME NEW u \in run'.updates, NEW v \in run'.updates, u.entry = v.entry PROVE u = v
    BY DEF UpdatesApart
  <2>1. PICK p \in Changed : u = [path |-> p, entry |-> rec[p].entry]
    BY <1>1
  <2>2. PICK q \in Changed : v = [path |-> q, entry |-> rec[q].entry]
    BY <1>1
  <2>3. p = q
    BY <1>3, <2>1, <2>2
  <2> QED BY <2>1, <2>2, <2>3
<1>6. TosApart'
  <2> SUFFICES ASSUME NEW m \in run'.renames, NEW n \in run'.renames, m.to = n.to PROVE m = n
    BY DEF TosApart
  <2>1. PICK x \in Pairs : m = [entry |-> rec[x[1]].entry, from |-> x[1], to |-> x[2]]
    BY <1>1
  <2>2. PICK y \in Pairs : n = [entry |-> rec[y[1]].entry, from |-> y[1], to |-> y[2]]
    BY <1>1
  <2>3. x[2] = y[2]
    BY <2>1, <2>2
  <2>4. GoneWith(disk[x[2]]) = {x[1]} /\ GoneWith(disk[y[2]]) = {y[1]}
    BY PairsAre
  <2>5. x[1] = y[1]
    BY <2>3, <2>4
  <2> QED BY <2>1, <2>2, <2>3, <2>5
<1>7. \A m \in run'.renames : m.to \notin run'.adds
  <2> SUFFICES ASSUME NEW m \in run'.renames PROVE m.to \notin run'.adds
    OBVIOUS
  <2>1. PICK x \in Pairs : m = [entry |-> rec[x[1]].entry, from |-> x[1], to |-> x[2]]
    BY <1>1
  <2> QED BY <1>1, <2>1
<1>8. SeenFine(run'.owed.seen, born', held')
  <2>1. run'.owed.seen = {}
    BY <1>1, NothingSeen
  <2> QED BY <2>1, NothingSeen
<1>9. Planned'
  <2>1. SeenFine(run'.refreshed, born', held')
    BY <1>1, <1>4 DEF libraryVars
  <2> QED BY <1>1, <1>5, <1>6, <1>7, <1>8, <2>1 DEF Planned
<1>10. Tidy'
  BY <1>1 DEF Tidy, Relocs
<1>11. Bounds'
  <2>1. RecFine(rec', born, held) /\ own' \subseteq own
    BY <1>1 DEF Sound, Bounds
  <2> QED BY <1>1, <2>1, BoundsOfIndex DEF Sound, libraryVars
<1>12. Shapes'
  <2>1. run' \in Runs
    BY <1>1, KindIsRun
  <2> QED BY <1>1, <1>11, <2>1, TornKept, RunShapes DEF Sound, Shapes
<1> QED BY <1>9, <1>10, <1>11, <1>12 DEF Sound

\* What a step of the departing keeps.
LEMMA DepartPlanned ==
  ASSUME Sound, run.phase = "depart", run'.phase = "depart", UNCHANGED <<libraryVars>>,
         SeenFine(run'.owed.seen, born, held),
         run'.refreshed = run.refreshed, run'.adds = run.adds, run'.updates = run.updates,
         run'.renames = run.renames
  PROVE  Planned' /\ Tidy'
<1>1. UpdatesApart' /\ TosApart' /\ \A m \in run'.renames : m.to \notin run'.adds
  BY DEF Sound, Planned, UpdatesApart, TosApart
<1>2. SeenFine(run'.refreshed, born', held') /\ SeenFine(run'.owed.seen, born', held')
  BY DEF Sound, Planned, libraryVars
<1>3. Tidy'
  BY DEF Tidy, Relocs
<1> QED BY <1>1, <1>2, <1>3 DEF Planned

LEMMA ForgetSound ==
  ASSUME Sound, Forget
  PROVE  Sound'
<1>1. /\ run.phase = "depart"
      /\ rec' = Forgotten(rec, run.forgotten) /\ own' = own
      /\ UNCHANGED <<cat, disk, calm, libraryVars, rows, torn, left>>
      /\ run' \in DepartRuns /\ run'.phase = "depart" /\ run'.owed = NothingOwed
      /\ run'.refreshed = run.refreshed
      /\ run'.adds = run.adds /\ run'.updates = run.updates /\ run'.renames = run.renames
  BY ForgetIs DEF Sound
<1>2. SeenFine(run'.owed.seen, born, held)
  BY <1>1, NothingSeen
<1>3. Planned' /\ Tidy'
  BY <1>1, <1>2, DepartPlanned
<1>4. rec \in Records /\ RecFine(rec, born, held)
  BY DEF Sound, Shapes, Bounds
<1>5. rec' \in Records /\ RecFine(rec', born, held) /\ own' \subseteq own
  BY <1>1, <1>4, ForgottenTyped, ForgottenFine
<1>6. Bounds'
  BY <1>1, <1>5, BoundsOfIndex DEF Sound, libraryVars
<1>7. run' \in Runs /\ calm' \in BOOLEAN
  BY <1>1, KindIsRun DEF Sound, Shapes
<1>8. Shapes'
  BY <1>1, <1>5, <1>6, <1>7, TornKept, RunShapes DEF Sound
<1> QED BY <1>3, <1>6, <1>8 DEF Sound

LEMMA DiscardDepartedSound ==
  ASSUME Sound, NEW p \in Paths, DiscardDeparted(p)
  PROVE  Sound'
<1>1. /\ run.phase = "depart" /\ p \in Mapped
      /\ UNCHANGED <<cat, rec, calm, libraryVars, rows, torn, left>>
      /\ run' \in DepartRuns /\ run'.phase = "depart"
      /\ run'.refreshed = run.refreshed
      /\ run'.adds = run.adds /\ run'.updates = run.updates /\ run'.renames = run.renames
      /\ \/ UNCHANGED <<disk, own>> /\ run'.owed = NothingOwed
         \/ /\ disk' = [disk EXCEPT ![p] = NoFile] /\ own' = own \ {p}
            /\ run'.owed = [NothingOwed EXCEPT !.forget = {p}]
  BY DiscardDepartedIs DEF Sound
<1>2. run'.owed.seen = {} /\ SeenFine({}, born, held)
  BY <1>1, NothingSeen
<1>3. Planned' /\ Tidy'
  BY <1>1, <1>2, DepartPlanned
<1>4. /\ disk' \in [Paths -> 0 .. made] /\ \A q \in Paths \ Mapped : disk'[q] = NoFile
      /\ \A q \in own' : q \in Mapped /\ disk'[q] # NoFile
  <2>1. CASE UNCHANGED <<disk, own>>
    BY <2>1, DiskKept DEF Sound
  <2>2. CASE disk' = [disk EXCEPT ![p] = NoFile] /\ own' = own \ {p}
    BY <1>1, <2>2, TakenFromDisk DEF Sound
  <2> QED BY <1>1, <2>1, <2>2
<1>5. Bounds'
  BY <1>1, <1>4, BoundsOfDisk DEF Sound, libraryVars
<1>6. run' \in Runs /\ calm' \in BOOLEAN /\ rec' \in Records
  BY <1>1, KindIsRun DEF Sound, Shapes
<1>7. Shapes'
  BY <1>1, <1>5, <1>6, TornKept, RunShapes DEF Sound
<1> QED BY <1>3, <1>5, <1>7 DEF Sound

LEMMA PackSound ==
  ASSUME Sound, Pack
  PROVE  Sound'
<1>1. /\ run.phase = "depart" /\ run \in DepartRuns
      /\ UNCHANGED <<cat, disk, calm, libraryVars, rows, torn, left>>
      /\ \/ run' = Idle /\ UNCHANGED <<rec, own>>
         \/ /\ \A p \in Carrying : disk[p] # NoFile
            /\ rec' = Marked(cat, rec, run.refreshed) /\ own' = own
            /\ \/ run' = Idle
               \/ /\ run' \in CommitRuns /\ run'.phase = "commit" /\ run'.owed = NothingOwed
                  /\ run'.adds = {[path |-> p, data |-> disk[p]] : p \in run.adds}
                  /\ run'.updates = {[path |-> u.path, entry |-> u.entry, data |-> disk[u.path]] :
                                        u \in run.updates}
                  /\ run'.renames = run.renames
  BY PackIs DEF Sound
<1>2. run.refreshed \in SUBSET Seens /\ run.adds \subseteq Mapped
      /\ run.updates \subseteq [path : Mapped, entry : Nat] /\ run.renames \subseteq Names
  BY <1>1 DEF DepartRuns
<1>3. rec \in Records /\ RecFine(rec, born, held) /\ SeenFine(run.refreshed, born, held)
  BY <1>1 DEF Sound, Shapes, Bounds, Planned
<1>4. rec' \in Records /\ RecFine(rec', born, held) /\ own' \subseteq own
  <2>1. CASE rec' = Marked(cat, rec, run.refreshed) /\ own' = own
    BY <1>2, <1>3, <2>1, MarkedTyped, MarkedFine
  <2> QED BY <1>1, <1>3, <2>1
<1>5. Bounds'
  BY <1>1, <1>4, BoundsOfIndex DEF Sound, libraryVars
<1>6. calm' \in BOOLEAN
  BY <1>1 DEF Sound, Shapes
<1>7. CASE run' = Idle
  <2>1. Planned' /\ Tidy' /\ run' \in Runs
    BY <1>7, IdlePlanned
  <2> QED BY <1>1, <1>4, <1>5, <1>6, <2>1, TornKept, RunShapes DEF Sound
<1>8. CASE run' # Idle
  <2>1. /\ \A p \in Carrying : disk[p] # NoFile
        /\ run' \in CommitRuns /\ run'.phase = "commit" /\ run'.owed = NothingOwed
        /\ run'.adds = {[path |-> p, data |-> disk[p]] : p \in run.adds}
        /\ run'.updates = {[path |-> u.path, entry |-> u.entry, data |-> disk[u.path]] : u \in run.updates}
        /\ run'.renames = run.renames
    BY <1>1, <1>8
  <2>2. AddsApart'
    BY <2>1 DEF AddsApart
  <2>3. UpdatesApart'
    <3> SUFFICES ASSUME NEW u \in run'.updates, NEW v \in run'.updates, u.entry = v.entry PROVE u = v
      BY DEF UpdatesApart
    <3>1. PICK x \in run.updates : u = [path |-> x.path, entry |-> x.entry, data |-> disk[x.path]]
      BY <2>1
    <3>2. PICK y \in run.updates : v = [path |-> y.path, entry |-> y.entry, data |-> disk[y.path]]
      BY <2>1
    <3>3. x = y
      <4>1. UpdatesApart
        BY <1>1 DEF Sound, Planned
      <4> QED BY <3>1, <3>2, <4>1 DEF UpdatesApart
    <3> QED BY <3>1, <3>2, <3>3
  <2>4. TosApart'
    <3>1. TosApart
      BY <1>1 DEF Sound, Planned
    <3> QED BY <2>1, <3>1 DEF TosApart
  <2>5. \A m \in run'.renames, a \in run'.adds : m.to # a.path
    <3>1. \A m \in run.renames : m.to \notin run.adds
      BY <1>1 DEF Sound, Planned
    <3> QED BY <2>1, <3>1
  <2>6. \A a \in run'.adds \cup run'.updates : a.data \in 1 .. made'
    <3>1. \A p \in Carrying : disk[p] \in 1 .. made
      <4>1. \A p \in Carrying : p \in Paths
        BY <1>2, PathFacts DEF Carrying
      <4>2. disk \in [Paths -> 0 .. made] /\ made \in Nat /\ NoFile = 0
        BY DEF Sound, Bounds, Shapes, NoFile
      <4> QED BY <2>1, <4>1, <4>2
    <3>2. \A p \in run.adds : p \in Carrying
      BY DEF Carrying
    <3>3. \A u \in run.updates : u.path \in Carrying
      BY DEF Carrying
    <3>4. made' = made
      BY <1>1 DEF libraryVars
    <3> QED BY <2>1, <3>1, <3>2, <3>3, <3>4
  <2>7. SeenFine(run'.owed.seen, born', held')
    BY <2>1, NothingSeen
  <2>8. Planned'
    BY <2>1, <2>2, <2>3, <2>4, <2>5, <2>6, <2>7 DEF Planned
  <2>9. Tidy' /\ run' \in Runs
    BY <2>1, KindIsRun DEF Tidy, Relocs
  <2> QED BY <1>1, <1>4, <1>5, <1>6, <2>8, <2>9, TornKept, RunShapes DEF Sound
<1> QED BY <1>7, <1>8

-----------------------------------------------------------------------------
\* The fetch.

LEMMA SelectSound ==
  ASSUME Sound, Select
  PROVE  Sound'
<1>1. /\ UNCHANGED <<cat, rec, disk, own, libraryVars, rows, torn, left>> /\ calm' = TRUE
      /\ run' \in PlaceRuns /\ run'.phase = "place" /\ run'.owed = NothingOwed /\ run'.wanted = Wanted
  BY SelectIs DEF Sound
<1>2. SeenFine(run'.owed.seen, born', held')
  BY <1>1, NothingSeen
<1>3. Planned' /\ Tidy'
  BY <1>1, <1>2 DEF Planned, Tidy, Relocs, Wanted
<1>4. Bounds'
  <2>1. RecFine(rec', born, held) /\ own' \subseteq own
    BY <1>1 DEF Sound, Bounds
  <2> QED BY <1>1, <2>1, BoundsOfIndex DEF Sound, libraryVars
<1>5. run' \in Runs /\ rec' \in Records
  BY <1>1, KindIsRun DEF Sound, Shapes
<1> QED BY <1>1, <1>3, <1>4, <1>5, TornKept, RunShapes DEF Sound

LEMMA PublishSound ==
  ASSUME Sound, NEW e \in DOMAIN cat, Publish(e)
  PROVE  Sound'
<1> DEFINE p == cat[e].path
<1>0. run.phase = "place" /\ e \in run.wanted
  BY DEF Publish, Free
<1>1. p \in Mapped
  BY <1>0 DEF Sound, Planned
<1>2. /\ UNCHANGED <<cat, rec, calm, libraryVars, rows, torn, left>>
      /\ disk' = [disk EXCEPT ![p] = cat[e].data] /\ own' = own \cup {p}
      /\ run' \in PlaceRuns /\ run'.phase = "place" /\ run'.wanted = run.wanted \ {e}
      /\ run'.owed = [NothingOwed EXCEPT !.seen = {[path |-> p, entry |-> e, data |-> cat[e].data]}]
  BY <1>1, PublishIs DEF Sound
<1>3. CatGood(cat, born, held)
  BY LinedFirst DEF Sound, Bounds, Shapes
<1>4. e \in 1 .. born /\ cat[e].data \in held
  BY <1>3 DEF CatGood
<1>5. SeenFine(run'.owed.seen, born', held')
  <2>1. run'.owed.seen = {[path |-> p, entry |-> e, data |-> cat[e].data]}
    BY <1>2 DEF NothingOwed
  <2> QED BY <1>2, <1>4, <2>1 DEF SeenFine, libraryVars
<1>6. Planned' /\ Tidy'
  BY <1>0, <1>2, <1>5 DEF Planned, Tidy, Relocs, Sound
<1>7. /\ disk' \in [Paths -> 0 .. made] /\ \A q \in Paths \ Mapped : disk'[q] = NoFile
      /\ \A q \in own' : q \in Mapped /\ disk'[q] # NoFile
  <2>1. disk \in [Paths -> 0 .. made] /\ made \in Nat /\ NoFile = 0 /\ held \subseteq 1 .. made
        /\ \A q \in Paths \ Mapped : disk[q] = NoFile
    BY DEF Sound, Bounds, Shapes, NoFile
  <2>2. cat[e].data \in 0 .. made /\ cat[e].data # NoFile /\ p \in Paths
    <3>1. cat[e].data \in 1 .. made
      BY <1>4, <2>1
    <3>2. cat[e].data \in 0 .. made /\ cat[e].data # NoFile
      BY <2>1, <3>1
    <3>3. p \in Paths
      BY <1>1, PathFacts
    <3> QED BY <3>2, <3>3
  <2> HIDE DEF p
  <2>3. disk' \in [Paths -> 0 .. made]
    BY <1>2, <2>1, <2>2
  <2>4. \A q \in Paths : disk'[q] = IF q = p THEN cat[e].data ELSE disk[q]
    BY <1>2, <2>1
  <2>5. \A q \in own : q \in Mapped /\ disk[q] # NoFile
    BY DEF Sound, Bounds
  <2> QED BY <1>1, <1>2, <2>1, <2>2, <2>3, <2>4, <2>5, PathFacts
<1>8. Bounds'
  BY <1>2, <1>7, BoundsOfDisk DEF Sound, libraryVars
<1>9. run' \in Runs /\ rec' \in Records /\ calm' \in BOOLEAN
  BY <1>2, KindIsRun DEF Sound, Shapes
<1> QED BY <1>2, <1>6, <1>8, <1>9, TornKept, RunShapes DEF Sound

LEMMA PublishDoneSound ==
  ASSUME Sound, PublishDone
  PROVE  Sound'
<1>1. run' = Idle /\ UNCHANGED <<cat, rec, disk, own, calm, libraryVars, rows, torn, left>>
  BY DEF PublishDone
<1>2. Planned' /\ Tidy' /\ run' \in Runs
  BY <1>1, IdlePlanned
<1>3. Bounds'
  <2>1. RecFine(rec', born, held) /\ own' \subseteq own
    BY <1>1 DEF Sound, Bounds
  <2> QED BY <1>1, <2>1, BoundsOfIndex DEF Sound, libraryVars
<1> QED BY <1>1, <1>2, <1>3, TornKept, RunShapes DEF Sound, Shapes

-----------------------------------------------------------------------------
\* The commit, its refresh, the beginning of a run, and who else acts.

CommitRecord(c) == Record({}, Renaming, Put(c))

LEMMA CommitIs ==
  ASSUME Shapes, Commit
  PROVE  \E c \in Catalogs, r \in Records :
         /\ c = ApplyAll(cat, rec, journal).cat /\ r = ApplyAll(cat, rec, journal).rec
         /\ cat' = c /\ rec' = r /\ own' = own \ Surrendered(r)
         /\ run.phase = "commit" /\ run \in CommitRuns
         /\ UNCHANGED <<disk, calm, made, left>> /\ torn' = torn \cup TornBy(journal)
         /\ \/ run' = Idle /\ journal' = <<>> /\ UNCHANGED <<rows, held, born>>
            \/ /\ Admits(c) /\ journal' = <<CommitRecord(c)>>
               /\ rows' = {[path |-> a.path, entry |-> Numbered[a], data |-> a.data] : a \in run.adds}
                            \cup run.updates
               /\ held' = held \cup {Put(c)[e].data : e \in DOMAIN Put(c)}
               /\ born' = born + Cardinality(run.adds)
               /\ run' \in RefreshRuns /\ run'.phase = "refresh" /\ run'.owed = NothingOwed
               /\ run'.renames = run.renames
<1> DEFINE c0 == ApplyAll(cat, rec, journal).cat
           r0 == ApplyAll(cat, rec, journal).rec
<1>1. c0 \in Catalogs /\ r0 \in Records
  BY ReplayTyped DEF Shapes
<1>2. PICK c \in Catalogs, r \in Records : c = c0 /\ r = r0
  BY <1>1
<1>3. run.phase = "commit" /\ run \in CommitRuns
  BY RunIs DEF Commit, Free
<1>4. /\ cat' = c /\ rec' = r /\ own' = own \ Surrendered(r)
      /\ UNCHANGED <<disk, calm, made, left>> /\ torn' = torn \cup TornBy(journal)
      /\ \/ run' = Idle /\ journal' = <<>> /\ UNCHANGED <<rows, held, born>>
         \/ /\ Admits(c) /\ journal' = <<CommitRecord(c)>>
            /\ rows' = {[path |-> a.path, entry |-> Numbered[a], data |-> a.data] : a \in run.adds}
                         \cup run.updates
            /\ held' = held \cup {Put(c)[e].data : e \in DOMAIN Put(c)}
            /\ born' = born + Cardinality(run.adds)
            /\ run' = [phase |-> "refresh", owed |-> NothingOwed, renames |-> run.renames]
  BY <1>2, Zenon DEF Commit, CommitRecord, Renaming
<1>5. run.renames \in SUBSET Names
  BY <1>3 DEF CommitRuns
<1>6. ASSUME run' = [phase |-> "refresh", owed |-> NothingOwed, renames |-> run.renames]
      PROVE  run' \in RefreshRuns /\ run'.phase = "refresh" /\ run'.owed = NothingOwed
             /\ run'.renames = run.renames
  BY <1>5, <1>6, NothingTyped DEF RefreshRuns
<1> HIDE DEF c0, r0
<1> QED BY <1>2, <1>3, <1>4, <1>6 DEF c0, r0

\* A record of a commit's over a catalog that admits the batch.
LEMMA CommitRecordIs ==
  ASSUME Sound, run.phase = "commit", run \in CommitRuns, NEW c \in Catalogs, CatGood(c, born, held), Admits(c)
  PROVE  /\ CommitRecord(c) \in Changes
         /\ CommitRecord(c).removed = {} /\ CommitRecord(c).put = Put(c) /\ CommitRecord(c).renamed = Renaming
         /\ Put(c) \in Catalogs /\ Cardinality(run.adds) \in Nat
         /\ DOMAIN Put(c) = {Numbered[a] : a \in run.adds} \cup {u.entry : u \in run.updates}
         /\ \A a \in run.adds : Put(c)[Numbered[a]] = a
         /\ \A u \in run.updates : /\ Put(c)[u.entry] = [path |-> c[u.entry].path, data |-> u.data]
                                   /\ u.entry \in DOMAIN c
         /\ \A a \in run.adds : Numbered[a] \in born + 1 .. born + Cardinality(run.adds)
         /\ \A a, b \in run.adds : Numbered[a] = Numbered[b] => a = b
<1>1. AddsApart /\ UpdatesApart /\ Shapes
  BY DEF Sound, Planned
<1>2. \A u \in run.updates : u.entry \in DOMAIN c
  BY DEF Admits
<1>3. \A e \in DOMAIN c : e <= born
  BY DEF CatGood, Sound, Shapes
<1>4. Put(c) \in Catalogs /\ Renaming \in Renamings
  BY <1>1, <1>2, <1>3, PutIs, RenamingIs
<1>5. /\ DOMAIN Put(c) = {Numbered[a] : a \in run.adds} \cup {u.entry : u \in run.updates}
      /\ \A a \in run.adds : Put(c)[Numbered[a]] = a
      /\ \A u \in run.updates : Put(c)[u.entry] = [path |-> c[u.entry].path, data |-> u.data]
  BY <1>1, <1>2, <1>3, PutIs
<1>6. /\ Cardinality(run.adds) \in Nat
      /\ \A a \in run.adds : Numbered[a] \in born + 1 .. born + Cardinality(run.adds)
      /\ \A a, b \in run.adds : Numbered[a] = Numbered[b] => a = b
  BY <1>1, NumberedIs
<1>7. /\ CommitRecord(c) \in Changes
      /\ CommitRecord(c).removed = {} /\ CommitRecord(c).put = Put(c) /\ CommitRecord(c).renamed = Renaming
  BY <1>4, RecordTyped DEF CommitRecord
<1> QED BY <1>2, <1>4, <1>5, <1>6, <1>7

LEMMA CommitGood ==
  ASSUME Sound, run.phase = "commit", run \in CommitRuns, NEW c \in Catalogs, CatGood(c, born, held), Admits(c)
  PROVE  CatGood(Replayed(c, CommitRecord(c)), born + Cardinality(run.adds),
                 held \cup {Put(c)[e].data : e \in DOMAIN Put(c)})
<1> DEFINE d == Replayed(c, CommitRecord(c))
           b2 == born + Cardinality(run.adds)
           h2 == held \cup {Put(c)[e].data : e \in DOMAIN Put(c)}
<1>0. born \in Nat
  BY DEF Sound, Shapes
<1>1. /\ CommitRecord(c) \in Changes
      /\ CommitRecord(c).removed = {} /\ CommitRecord(c).put = Put(c) /\ CommitRecord(c).renamed = Renaming
      /\ Put(c) \in Catalogs /\ Cardinality(run.adds) \in Nat
      /\ DOMAIN Put(c) = {Numbered[a] : a \in run.adds} \cup {u.entry : u \in run.updates}
      /\ \A a \in run.adds : Put(c)[Numbered[a]] = a
      /\ \A u \in run.updates : /\ Put(c)[u.entry] = [path |-> c[u.entry].path, data |-> u.data]
                                /\ u.entry \in DOMAIN c
      /\ \A a \in run.adds : Numbered[a] \in born + 1 .. born + Cardinality(run.adds)
  BY CommitRecordIs
<1>2. /\ DOMAIN d = DOMAIN c \cup DOMAIN Put(c)
      /\ \A e \in DOMAIN Put(c) : d[e] = Put(c)[e]
      /\ \A e \in DOMAIN c : e \notin DOMAIN Put(c) =>
           /\ d[e].data = c[e].data
           /\ d[e].path = IF e \in DOMAIN Renaming THEN Renaming[e] ELSE c[e].path
  <2> DEFINE x == CommitRecord(c)
  <2>1. x \in Changes /\ x.removed = {} /\ x.put = Put(c) /\ x.renamed = Renaming
    BY <1>1
  <2> HIDE DEF x
  <2>2. /\ DOMAIN Replayed(c, x) = (DOMAIN c \ x.removed) \cup DOMAIN x.put
        /\ \A e \in DOMAIN x.put : Replayed(c, x)[e] = x.put[e]
        /\ \A e \in DOMAIN c \ x.removed :
              e \notin DOMAIN x.put =>
                /\ Replayed(c, x)[e].data = c[e].data
                /\ Replayed(c, x)[e].path = IF e \in DOMAIN x.renamed THEN x.renamed[e] ELSE c[e].path
    BY <2>1, ReplayedTyped
  <2>3. d = Replayed(c, x)
    BY DEF x
  <2> HIDE DEF d
  <2> QED BY <2>1, <2>2, <2>3
<1>3. \A e \in DOMAIN Renaming : \E m \in run.renames : m.entry = e /\ Renaming[e] = m.to
  BY RenamingIs
<1>4. /\ \A a \in run.adds : a.path \notin PathsOf(c)
      /\ \A m \in run.renames : m.to \notin PathsOf(c)
  BY DEF Admits
<1>5. /\ AddsApart /\ TosApart
      /\ \A m \in run.renames, a \in run.adds : m.to # a.path
  BY DEF Sound, Planned
<1>6. /\ \A e \in DOMAIN c : e \in 1 .. born /\ c[e].data \in held
      /\ \A e, f \in DOMAIN c : c[e].path = c[f].path => e = f
  BY DEF CatGood
<1>7. \A e \in DOMAIN d : \/ \E a \in run.adds : e = Numbered[a] /\ d[e].path = a.path
                          \/ e \in DOMAIN c /\ d[e].path = c[e].path
                          \/ \E m \in run.renames : m.entry = e /\ d[e].path = m.to
  <2> SUFFICES ASSUME NEW e \in DOMAIN d
               PROVE  \/ \E a \in run.adds : e = Numbered[a] /\ d[e].path = a.path
                      \/ e \in DOMAIN c /\ d[e].path = c[e].path
                      \/ \E m \in run.renames : m.entry = e /\ d[e].path = m.to
    OBVIOUS
  <2> HIDE DEF d
  <2>1. CASE \E a \in run.adds : e = Numbered[a]
    BY <1>1, <1>2, <2>1
  <2>2. CASE \E u \in run.updates : e = u.entry
    <3>1. PICK u \in run.updates : e = u.entry
      BY <2>2
    <3>2. e \in DOMAIN Put(c) /\ e \in DOMAIN c /\ Put(c)[e] = [path |-> c[e].path, data |-> u.data]
      BY <1>1, <3>1
    <3>3. d[e] = [path |-> c[e].path, data |-> u.data]
      BY <1>2, <3>2
    <3> QED BY <3>2, <3>3
  <2>3. CASE e \notin DOMAIN Put(c)
    <3>1. e \in DOMAIN c
      BY <1>2, <2>3
    <3> QED BY <1>2, <1>3, <2>3, <3>1
  <2> QED BY <1>1, <2>1, <2>2, <2>3
<1>8. \A e \in DOMAIN c : c[e].path \in PathsOf(c)
  BY DEF PathsOf
<1> HIDE DEF d
<1>9. ASSUME NEW e \in DOMAIN d, NEW f \in DOMAIN d, d[e].path = d[f].path
      PROVE  e = f
  <2>1. CASE \E a \in run.adds : e = Numbered[a] /\ d[e].path = a.path
    <3>1. PICK a \in run.adds : e = Numbered[a] /\ d[e].path = a.path
      BY <2>1
    <3>2. \A m \in run.renames : d[f].path # m.to
      BY <1>5, <1>9, <3>1
    <3>3. f \in DOMAIN c => d[f].path # c[f].path
      BY <1>4, <1>8, <1>9, <3>1
    <3>4. PICK b \in run.adds : f = Numbered[b] /\ d[f].path = b.path
      BY <1>7, <3>2, <3>3
    <3>5. a = b
      BY <1>5, <1>9, <3>1, <3>4 DEF AddsApart
    <3> QED BY <3>1, <3>4, <3>5
  <2>2. CASE e \in DOMAIN c /\ d[e].path = c[e].path
    <3>1. \A m \in run.renames : d[f].path # m.to
      BY <1>4, <1>8, <1>9, <2>2
    <3>2. \A a \in run.adds : d[f].path # a.path
      BY <1>4, <1>8, <1>9, <2>2
    <3>3. f \in DOMAIN c /\ d[f].path = c[f].path
      BY <1>7, <3>1, <3>2
    <3> QED BY <1>6, <1>9, <2>2, <3>3
  <2>3. CASE \E m \in run.renames : m.entry = e /\ d[e].path = m.to
    <3>1. PICK m \in run.renames : m.entry = e /\ d[e].path = m.to
      BY <2>3
    <3>2. \A a \in run.adds : d[f].path # a.path
      BY <1>5, <1>9, <3>1
    <3>3. f \in DOMAIN c => d[f].path # c[f].path
      BY <1>4, <1>8, <1>9, <3>1
    <3>4. PICK n \in run.renames : n.entry = f /\ d[f].path = n.to
      BY <1>7, <3>2, <3>3
    <3>5. m = n
      BY <1>5, <1>9, <3>1, <3>4 DEF TosApart
    <3> QED BY <3>1, <3>4, <3>5
  <2> QED BY <1>7, <2>1, <2>2, <2>3
<1>10. ASSUME NEW e \in DOMAIN d
       PROVE  e \in 1 .. b2 /\ d[e].data \in h2
  <2>1. CASE e \in DOMAIN Put(c)
    <3>1. d[e].data \in h2
      BY <1>2, <2>1
    <3>2. e \in 1 .. b2
      <4>1. CASE \E a \in run.adds : e = Numbered[a]
        <5>1. e \in born + 1 .. born + Cardinality(run.adds)
          BY <1>1, <4>1
        <5> QED BY <1>0, <1>1, <5>1
      <4>2. CASE \E u \in run.updates : e = u.entry
        <5>0. e \in DOMAIN c
          BY <1>1, <4>2
        <5>1. e \in 1 .. born
          BY <1>6, <5>0
        <5> QED BY <1>0, <1>1, <5>1
      <4> QED BY <1>1, <2>1, <4>1, <4>2
    <3> QED BY <3>1, <3>2
  <2>2. CASE e \notin DOMAIN Put(c)
    <3>1. e \in DOMAIN c /\ d[e].data = c[e].data
      BY <1>2, <2>2
    <3>2. e \in 1 .. born /\ c[e].data \in held
      BY <1>6, <3>1
    <3>3. e \in 1 .. b2
      BY <1>0, <1>1, <3>2
    <3> QED BY <3>1, <3>2, <3>3
  <2> QED BY <2>1, <2>2
<1> HIDE DEF b2, h2
<1>11. CatGood(d, b2, h2)
  BY <1>9, <1>10 DEF CatGood
<1> QED BY <1>11 DEF d, b2, h2

LEMMA ReplayNone ==
  ASSUME NEW c \in Catalogs, NEW r \in Records
  PROVE  ApplyAll(c, r, <<>>).cat = c /\ ApplyAll(c, r, <<>>).rec = r
<1>1. <<>> \in Seq(Changes) /\ Len(<<>>) = 0
  OBVIOUS
<1>2. PICK f : Passes(f, c, r, <<>>)
  BY <1>1, ReplayPasses
<1> QED BY <1>1, <1>2 DEF Passes

LEMMA RangeOf ==
  ASSUME NEW T, NEW s \in Seq(T), NEW x \in T
  PROVE  /\ Range(Append(s, x)) = Range(s) \cup {x} /\ Range(<<x>>) = {x} /\ Append(<<>>, x) = <<x>>
         /\ s # <<>> => Head(s) \in Range(s) /\ Range(Tail(s)) \subseteq Range(s)
<1>1. /\ DOMAIN s = 1 .. Len(s) /\ DOMAIN Append(s, x) = 1 .. Len(s) + 1 /\ Len(s) \in Nat
      /\ \A i \in 1 .. Len(s) : Append(s, x)[i] = s[i]
      /\ Append(s, x)[Len(s) + 1] = x
  OBVIOUS
<1>2. Range(Append(s, x)) \subseteq Range(s) \cup {x}
  BY <1>1 DEF Range
<1>3. Range(s) \cup {x} \subseteq Range(Append(s, x))
  <2>1. \A i \in 1 .. Len(s) : i \in 1 .. Len(s) + 1
    BY <1>1
  <2>2. Len(s) + 1 \in 1 .. Len(s) + 1
    BY <1>1
  <2> QED BY <1>1, <2>1, <2>2 DEF Range
<1>4. Range(<<x>>) = {x} /\ Append(<<>>, x) = <<x>>
  BY DEF Range
<1>5. ASSUME s # <<>> PROVE Head(s) \in Range(s) /\ Range(Tail(s)) \subseteq Range(s)
  <2>1. /\ Len(s) >= 1 /\ Head(s) = s[1] /\ Tail(s) \in Seq(T) /\ Len(Tail(s)) = Len(s) - 1
        /\ \A i \in 1 .. Len(s) - 1 : Tail(s)[i] = s[i + 1]
    BY <1>5
  <2>2. DOMAIN Tail(s) = 1 .. Len(s) - 1
    BY <2>1
  <2>3. 1 \in DOMAIN s /\ \A i \in 1 .. Len(s) - 1 : i + 1 \in DOMAIN s
    BY <1>1, <2>1
  <2> QED BY <2>1, <2>2, <2>3 DEF Range
<1> QED BY <1>2, <1>3, <1>4, <1>5

LEMMA BoundsAre ==
  ASSUME Lined(cat', journal', born', held'),
         \A r \in Range(journal') : r.removed \subseteq 1 .. born' /\ DOMAIN r.put \subseteq 1 .. born',
         RecFine(rec', born', held'), disk' \in [Paths -> 0 .. made'], held' \subseteq 1 .. made',
         \A p \in Paths \ Mapped : disk'[p] = NoFile, \A p \in own' : p \in Mapped /\ disk'[p] # NoFile,
         SeenFine(rows', born', held')
  PROVE  Bounds'
  BY DEF Bounds

LEMMA CommitSound ==
  ASSUME Sound, Commit
  PROVE  Sound'
<1>1. PICK c \in Catalogs, r \in Records :
         /\ c = ApplyAll(cat, rec, journal).cat /\ r = ApplyAll(cat, rec, journal).rec
         /\ cat' = c /\ rec' = r /\ own' = own \ Surrendered(r)
         /\ run.phase = "commit" /\ run \in CommitRuns
         /\ UNCHANGED <<disk, calm, made, left>> /\ torn' = torn \cup TornBy(journal)
         /\ \/ run' = Idle /\ journal' = <<>> /\ UNCHANGED <<rows, held, born>>
            \/ /\ Admits(c) /\ journal' = <<CommitRecord(c)>>
               /\ rows' = {[path |-> a.path, entry |-> Numbered[a], data |-> a.data] : a \in run.adds}
                            \cup run.updates
               /\ held' = held \cup {Put(c)[e].data : e \in DOMAIN Put(c)}
               /\ born' = born + Cardinality(run.adds)
               /\ run' \in RefreshRuns /\ run'.phase = "refresh" /\ run'.owed = NothingOwed
               /\ run'.renames = run.renames
  BY CommitIs DEF Sound
<1>2. CatGood(c, born, held) /\ RecFine(r, born, held)
  BY <1>1, LinedEnd, ReplayFine DEF Sound, Bounds, Shapes
<1>3. /\ torn' \subseteq Tears /\ calm' \in BOOLEAN /\ made' \in Nat
      /\ own' \subseteq own /\ left' \in [person : Nat, others : Nat, kills : Nat]
      /\ disk' \in [Paths -> Nat] /\ born \in Nat /\ own \subseteq Mapped /\ held \subseteq Nat
  BY <1>1 DEF Sound, Shapes, TornBy, Tears
<1>4. /\ disk' \in [Paths -> 0 .. made'] /\ \A p \in Paths \ Mapped : disk'[p] = NoFile
      /\ \A p \in own' : p \in Mapped /\ disk'[p] # NoFile
  BY <1>1, <1>3 DEF Sound, Bounds
<1>5. CASE run' = Idle /\ journal' = <<>> /\ UNCHANGED <<rows, held, born>>
  <2>1. Planned' /\ Tidy' /\ run' \in Runs
    BY <1>5, IdlePlanned
  <2>2. Lined(cat', journal', born', held')
    BY <1>1, <1>2, <1>5, LinedEmpty
  <2>3. Range(journal') = {}
    BY <1>5 DEF Range
  <2>4. RecFine(rec', born', held') /\ SeenFine(rows', born', held') /\ held' \subseteq 1 .. made'
    BY <1>1, <1>2, <1>5 DEF Sound, Bounds
  <2>5. Bounds'
    <3>1. \A y \in Range(journal') : y.removed \subseteq 1 .. born' /\ DOMAIN y.put \subseteq 1 .. born'
      BY <2>3
    <3> QED BY <1>4, <2>2, <3>1, <2>4, BoundsAre
  <2>6. journal' \in Seq(Changes) /\ rows' \subseteq Seens /\ held' \subseteq Nat /\ born' \in Nat
    BY <1>5 DEF Sound, Shapes
  <2>7. Shapes'
    BY <1>1, <1>3, <2>1, <2>6 DEF Shapes
  <2> QED BY <2>1, <2>5, <2>7 DEF Sound
<1>6. CASE ~(run' = Idle /\ journal' = <<>> /\ UNCHANGED <<rows, held, born>>)
  <2> DEFINE x == CommitRecord(c)
             b2 == born + Cardinality(run.adds)
             h2 == held \cup {Put(c)[e].data : e \in DOMAIN Put(c)}
  <2>1. /\ Admits(c) /\ journal' = <<x>>
        /\ rows' = {[path |-> a.path, entry |-> Numbered[a], data |-> a.data] : a \in run.adds}
                     \cup run.updates
        /\ held' = h2 /\ born' = b2
        /\ run' \in RefreshRuns /\ run'.phase = "refresh" /\ run'.owed = NothingOwed
    BY <1>1, <1>6
  <2>2. /\ x \in Changes /\ x.removed = {} /\ x.put = Put(c)
        /\ Put(c) \in Catalogs /\ Cardinality(run.adds) \in Nat
        /\ DOMAIN Put(c) = {Numbered[a] : a \in run.adds} \cup {u.entry : u \in run.updates}
        /\ \A a \in run.adds : Put(c)[Numbered[a]] = a
        /\ \A u \in run.updates : /\ Put(c)[u.entry] = [path |-> c[u.entry].path, data |-> u.data]
                                  /\ u.entry \in DOMAIN c
        /\ \A a \in run.adds : Numbered[a] \in born + 1 .. born + Cardinality(run.adds)
    BY <1>1, <1>2, <2>1, CommitRecordIs
  <2>3. CatGood(Replayed(c, x), b2, h2)
    BY <1>1, <1>2, <2>1, CommitGood
  <2>4. \A u \in run.updates : u.entry \in 1 .. born
    BY <1>2, <2>2 DEF CatGood
  <2> HIDE DEF x
  <2>5. b2 \in Nat /\ born <= b2 /\ held \subseteq h2
    BY <1>3, <2>2
  <2>6. \A e \in DOMAIN Put(c) : e \in 1 .. b2
    <3>1. \A a \in run.adds : Numbered[a] \in 1 .. b2
      BY <1>3, <2>2
    <3>2. \A u \in run.updates : u.entry \in 1 .. b2
      BY <1>3, <2>2, <2>4
    <3> QED BY <2>2, <3>1, <3>2
  <2>7. \A a \in run.adds : Numbered[a] \in 1 .. b2 /\ a.data \in h2
    <3> SUFFICES ASSUME NEW a \in run.adds PROVE Numbered[a] \in 1 .. b2 /\ a.data \in h2
      OBVIOUS
    <3>1. Numbered[a] \in DOMAIN Put(c) /\ Put(c)[Numbered[a]] = a
      BY <2>2
    <3> QED BY <2>6, <3>1
  <2>8. \A u \in run.updates : u.entry \in 1 .. b2 /\ u.data \in h2
    <3> SUFFICES ASSUME NEW u \in run.updates PROVE u.entry \in 1 .. b2 /\ u.data \in h2
      OBVIOUS
    <3>0. u.entry \in DOMAIN Put(c) /\ Put(c)[u.entry] = [path |-> c[u.entry].path, data |-> u.data]
      BY <2>2
    <3>1. u.entry \in DOMAIN Put(c) /\ Put(c)[u.entry].data = u.data
      BY <3>0
    <3> QED BY <2>6, <3>1
  <2>9. h2 \subseteq 1 .. made
    <3>1. \A a \in run.adds \cup run.updates : a.data \in 1 .. made
      BY <1>1 DEF Sound, Planned
    <3>2. held \subseteq 1 .. made
      BY DEF Sound, Bounds
    <3>3. \A e \in DOMAIN Put(c) : Put(c)[e].data \in 1 .. made
      <4> SUFFICES ASSUME NEW e \in DOMAIN Put(c) PROVE Put(c)[e].data \in 1 .. made
        OBVIOUS
      <4>1. CASE \E a \in run.adds : e = Numbered[a]
        <5>1. PICK a \in run.adds : e = Numbered[a]
          BY <4>1
        <5>2. Put(c)[e] = a
          BY <2>2, <5>1
        <5> QED BY <3>1, <5>2
      <4>2. CASE \E u \in run.updates : e = u.entry
        <5>1. PICK u \in run.updates : e = u.entry
          BY <4>2
        <5>0. Put(c)[e] = [path |-> c[u.entry].path, data |-> u.data]
          BY <2>2, <5>1
        <5>2. Put(c)[e].data = u.data
          BY <5>0
        <5> QED BY <3>1, <5>2
      <4> QED BY <2>2, <4>1, <4>2
    <3> QED BY <3>2, <3>3
  <2> HIDE DEF b2, h2
  <2>10. Lined(c, <<x>>, b2, h2)
    <3>1. <<>> \in Seq(Changes) /\ ApplyAll(c, r, <<>>).cat = c /\ Append(<<>>, x) = <<x>>
      BY ReplayNone
    <3>2. Lined(c, <<>>, born, held)
      BY <1>2, LinedEmpty
    <3>3. Lined(c, Append(<<>>, x), b2, h2)
      BY <1>3, <2>2, <2>3, <2>5, <3>1, <3>2, LinedAppend
    <3> QED BY <3>1, <3>3
  <2>11. RecFine(r, b2, h2)
    <3>1. \A e \in 1 .. born : e \in 1 .. b2
      BY <1>3, <2>5
    <3> QED BY <1>2, <2>5, <3>1 DEF RecFine
  <2>12. SeenFine(rows', b2, h2)
    <3> SUFFICES ASSUME NEW o \in rows' PROVE o.entry \in 1 .. b2 /\ o.data \in h2
      BY DEF SeenFine
    <3>1. CASE o \in run.updates
      BY <2>8, <3>1
    <3>2. CASE \E a \in run.adds : o = [path |-> a.path, entry |-> Numbered[a], data |-> a.data]
      BY <2>7, <3>2
    <3> QED BY <2>1, <3>1, <3>2
  <2>13. \A y \in Range(journal') : y.removed \subseteq 1 .. b2 /\ DOMAIN y.put \subseteq 1 .. b2
    <3>1. Range(journal') = {x}
      BY <2>1 DEF Range
    <3> QED BY <2>2, <2>6, <3>1
  <2>14. Bounds'
    <3>1. Lined(cat', journal', born', held') /\ RecFine(rec', born', held') /\ SeenFine(rows', born', held')
      BY <1>1, <2>1, <2>10, <2>11, <2>12
    <3>2. \A y \in Range(journal') : y.removed \subseteq 1 .. born' /\ DOMAIN y.put \subseteq 1 .. born'
      BY <2>1, <2>13
    <3>3. held' \subseteq 1 .. made'
      BY <1>1, <2>1, <2>9
    <3> QED BY <1>4, <3>1, <3>2, <3>3, BoundsAre
  <2>15. Tidy'
    BY <2>1 DEF Tidy, Relocs
  <2>16. Planned'
    <3>1. SeenFine(run'.owed.seen, born', held')
      BY <2>1, NothingSeen
    <3>2. journal' # <<>>
      BY <2>1
    <3> QED BY <2>1, <3>1, <3>2 DEF Planned
  <2>17. rows' \subseteq Seens
    <3>1. run.updates \subseteq Seens /\ run.adds \subseteq [path : Mapped, data : Nat]
      BY <1>1 DEF CommitRuns
    <3>2. \A a \in run.adds : Numbered[a] \in Nat
      BY <1>3, <2>2
    <3> QED BY <2>1, <3>1, <3>2 DEF Seens
  <2>18. journal' \in Seq(Changes) /\ held' \subseteq Nat /\ born' \in Nat /\ run' \in Runs
    <3>1. h2 \subseteq Nat
      BY <1>1, <1>3, <2>9
    <3> QED BY <2>1, <2>2, <2>5, <3>1, KindIsRun
  <2>19. Shapes'
    BY <1>1, <1>3, <2>17, <2>18 DEF Shapes
  <2> QED BY <2>14, <2>15, <2>16, <2>19 DEF Sound
<1> QED BY <1>5, <1>6

\* What a refresh reads: the record it replays, and the records it leaves.
LEMMA RefreshIs ==
  ASSUME Sound, Refresh
  PROVE  \E c \in Catalogs, r \in Records :
         /\ journal # <<>> /\ Head(journal) \in Changes /\ Tail(journal) \in Seq(Changes)
         /\ c = Replayed(cat, Head(journal)) /\ r = Marked(c, Reconcile(c, rec), rows)
         /\ cat' = c /\ rec' = r /\ rows' = {} /\ journal' = Tail(journal)
         /\ own' = (own \ Surrendered(r)) \cup {o.path : o \in {o \in rows : disk[o.path] = o.data}}
         /\ UNCHANGED <<disk, calm, held, born, made, torn, left>>
         /\ run.phase = "refresh" /\ run \in RefreshRuns
         /\ \/ run' = Idle
            \/ /\ run' \in EndRuns /\ run'.phase = "end" /\ run'.owed.seen = {} /\ run'.owed.forget = {}
               /\ \A p \in DOMAIN run'.owed.rekey : \E m \in run.renames : m.from = p /\ run'.owed.rekey[p] = m.to
<1>1. run.phase = "refresh" /\ run \in RefreshRuns
  BY RunIs DEF Refresh, Free, Sound
<1>2. journal # <<>> /\ journal \in Seq(Changes) /\ cat \in Catalogs /\ rec \in Records /\ rows \in SUBSET Seens
  BY <1>1 DEF Sound, Planned, Shapes
<1>3. Head(journal) \in Changes /\ Tail(journal) \in Seq(Changes)
  BY <1>2
<1> DEFINE c0 == Replayed(cat, Head(journal))
           r0 == Marked(c0, Reconcile(c0, rec), rows)
           moves == [p \in {m.from : m \in run.renames} |-> (CHOOSE m \in run.renames : m.from = p).to]
<1>4. Apply([cat |-> cat, rec |-> rec], Head(journal)) = [cat |-> c0, rec |-> Reconcile(c0, rec)]
  BY DEF Apply
<1>5. /\ cat' = c0 /\ rec' = r0 /\ rows' = {} /\ journal' = Tail(journal)
      /\ own' = (own \ Surrendered(r0)) \cup {o.path : o \in {o \in rows : disk[o.path] = o.data}}
      /\ UNCHANGED <<disk, calm, held, born, made, torn, left>>
      /\ run' = IF run.renames = {} THEN Idle
                ELSE [phase |-> "end", owed |-> [NothingOwed EXCEPT !.rekey = moves]]
  BY <1>4 DEF Refresh
<1>6. c0 \in Catalogs
  BY <1>2, <1>3, ReplayedTyped
<1> HIDE DEF c0
<1>7. r0 \in Records
  <2>1. Reconcile(c0, rec) \in Records
    BY <1>2, ReconcileTyped
  <2> QED BY <1>2, <2>1, MarkedTyped
<1>8. /\ moves \in Moves
      /\ \A p \in DOMAIN moves : \E m \in run.renames : m.from = p /\ moves[p] = m.to
  <2>1. run.renames \subseteq Names
    BY <1>1 DEF RefreshRuns
  <2>2. \A p \in DOMAIN moves : \E m \in run.renames : m.from = p /\ moves[p] = m.to
    <3> SUFFICES ASSUME NEW m \in run.renames PROVE \E n \in run.renames : n.from = m.from /\ moves[m.from] = n.to
      OBVIOUS
    <3>1. PICK n \in run.renames : n = CHOOSE x \in run.renames : x.from = m.from
      OBVIOUS
    <3> QED BY <3>1
  <2>3. DOMAIN moves \in SUBSET Mapped /\ \A p \in DOMAIN moves : moves[p] \in Mapped
    <3>1. DOMAIN moves = {m.from : m \in run.renames}
      OBVIOUS
    <3> HIDE DEF moves
    <3> QED BY <2>1, <2>2, <3>1 DEF Names
  <2>4. moves = [p \in DOMAIN moves |-> moves[p]]
    OBVIOUS
  <2> HIDE DEF moves
  <2>5. moves \in [DOMAIN moves -> Mapped]
    BY <2>3, <2>4
  <2> QED BY <2>2, <2>3, <2>5 DEF Moves
<1> HIDE DEF r0, moves
<1>9. \/ run' = Idle
      \/ /\ run' \in EndRuns /\ run'.phase = "end" /\ run'.owed.seen = {} /\ run'.owed.forget = {}
         /\ run'.owed.rekey = moves
  BY <1>5, <1>8 DEF EndRuns, Owes, NothingOwed
<1> QED BY <1>1, <1>2, <1>3, <1>5, <1>6, <1>7, <1>8, <1>9 DEF c0, r0

LEMMA RefreshSound ==
  ASSUME Sound, Refresh
  PROVE  Sound'
<1>1. PICK c \in Catalogs, r \in Records :
         /\ journal # <<>> /\ Head(journal) \in Changes /\ Tail(journal) \in Seq(Changes)
         /\ c = Replayed(cat, Head(journal)) /\ r = Marked(c, Reconcile(c, rec), rows)
         /\ cat' = c /\ rec' = r /\ rows' = {} /\ journal' = Tail(journal)
         /\ own' = (own \ Surrendered(r)) \cup {o.path : o \in {o \in rows : disk[o.path] = o.data}}
         /\ UNCHANGED <<disk, calm, held, born, made, torn, left>>
         /\ \/ run' = Idle
            \/ run' \in EndRuns /\ run'.phase = "end" /\ run'.owed.seen = {}
  BY RefreshIs
<1>2. /\ rec \in Records /\ RecFine(rec, born, held) /\ SeenFine(rows, born, held) /\ rows \in SUBSET Seens
      /\ journal \in Seq(Changes) /\ cat \in Catalogs /\ born \in Nat /\ held \subseteq 1 .. made
      /\ Lined(cat, journal, born, held)
      /\ disk \in [Paths -> 0 .. made] /\ made \in Nat
  BY DEF Sound, Shapes, Bounds
<1>3. Lined(c, Tail(journal), born, held)
  BY <1>1, <1>2, LinedTail
<1>4. RecFine(r, born, held)
  <2>1. Reconcile(c, rec) \in Records /\ RecFine(Reconcile(c, rec), born, held)
    BY <1>2, ReconcileTyped, ReconcileFine
  <2> QED BY <1>1, <1>2, <2>1, MarkedFine
<1>5. \A y \in Range(journal') : y.removed \subseteq 1 .. born' /\ DOMAIN y.put \subseteq 1 .. born'
  <2>1. Range(Tail(journal)) \subseteq Range(journal)
    BY <1>1, <1>2, RangeOf
  <2> QED BY <1>1, <2>1 DEF Sound, Bounds
<1>6. \A p \in own' : p \in Mapped /\ disk'[p] # NoFile
  <2> SUFFICES ASSUME NEW p \in own' PROVE p \in Mapped /\ disk[p] # NoFile
    BY <1>1
  <2>1. CASE p \in own
    BY <2>1 DEF Sound, Bounds
  <2>2. CASE \E o \in rows : disk[o.path] = o.data /\ p = o.path
    <3>1. PICK o \in rows : disk[o.path] = o.data /\ p = o.path
      BY <2>2
    <3>2. o \in Seens /\ o.data \in 1 .. made
      BY <1>2, <3>1 DEF SeenFine
    <3>3. o.path \in Mapped /\ o.data # NoFile
      BY <1>2, <3>2 DEF Seens, NoFile
    <3> QED BY <3>1, <3>3
  <2> QED BY <1>1, <2>1, <2>2
<1>7. \A p \in Paths \ Mapped : disk'[p] = NoFile
  BY <1>1 DEF Sound, Bounds
<1>8. SeenFine(rows', born', held')
  BY <1>1, NothingSeen
<1>9. Bounds'
  <2>1. Lined(cat', journal', born', held') /\ RecFine(rec', born', held')
    BY <1>1, <1>3, <1>4
  <2>2. disk' \in [Paths -> 0 .. made'] /\ held' \subseteq 1 .. made'
    BY <1>1, <1>2
  <2> QED BY <1>5, <1>6, <1>7, <1>8, <2>1, <2>2, BoundsAre
<1>10. Planned' /\ Tidy' /\ run' \in Runs
  <2>1. CASE run' = Idle
    BY <2>1, IdlePlanned
  <2>2. CASE run' \in EndRuns /\ run'.phase = "end" /\ run'.owed.seen = {}
    BY <2>2, NothingSeen, KindIsRun DEF Planned, Tidy, Relocs
  <2> QED BY <1>1, <2>1, <2>2
<1>11. own' \subseteq Mapped /\ rows' \subseteq Seens
  BY <1>1, <1>6
<1>12. Shapes'
  BY <1>1, <1>10, <1>11 DEF Sound, Shapes
<1> QED BY <1>9, <1>10, <1>12 DEF Sound

LEMMA StartSound ==
  ASSUME Sound, Start("sync") \/ Start("fetch")
  PROVE  Sound'
<1>1. Shapes'
  BY StartShapes DEF Sound
<1> DEFINE c0 == ApplyAll(cat, rec, journal).cat
           r0 == ApplyAll(cat, rec, journal).rec
           done == {o \in rows : Completes(c0, o)}
<1>2. /\ cat' = c0 /\ rec' = Marked(c0, r0, done) /\ own' \subseteq own
      /\ journal' = <<>> /\ rows' = {}
      /\ UNCHANGED <<disk, calm, held, born, made, left>>
      /\ run'.phase = "look" /\ run'.owed = NothingOwed
  BY DEF Start
<1>3. /\ rec \in Records /\ RecFine(rec, born, held) /\ SeenFine(rows, born, held) /\ rows \in SUBSET Seens
      /\ journal \in Seq(Changes) /\ cat \in Catalogs
      /\ Lined(cat, journal, born, held)
  BY DEF Sound, Shapes, Bounds
<1>4. c0 \in Catalogs /\ r0 \in Records /\ CatGood(c0, born, held) /\ RecFine(r0, born, held)
  BY <1>3, ReplayTyped, LinedEnd, ReplayFine
<1>5. done \in SUBSET Seens /\ SeenFine(done, born, held)
  BY <1>3 DEF SeenFine
<1> HIDE DEF c0, r0, done
<1>6. Lined(c0, <<>>, born, held)
  BY <1>4, LinedEmpty
<1>7. RecFine(Marked(c0, r0, done), born, held)
  BY <1>4, <1>5, MarkedFine
<1>8. Bounds'
  <2>1. Range(journal') = {}
    BY <1>2 DEF Range
  <2>2. \A y \in Range(journal') : y.removed \subseteq 1 .. born' /\ DOMAIN y.put \subseteq 1 .. born'
    BY <2>1
  <2>3. Lined(cat', journal', born', held') /\ RecFine(rec', born', held')
    BY <1>2, <1>6, <1>7
  <2>4. /\ disk' \in [Paths -> 0 .. made'] /\ held' \subseteq 1 .. made'
        /\ \A p \in Paths \ Mapped : disk'[p] = NoFile
        /\ \A p \in own' : p \in Mapped /\ disk'[p] # NoFile
    BY <1>2 DEF Sound, Bounds
  <2>5. SeenFine(rows', born', held')
    BY <1>2, NothingSeen
  <2> QED BY <2>2, <2>3, <2>4, <2>5, BoundsAre
<1>9. Planned' /\ Tidy'
  <2>1. SeenFine(run'.owed.seen, born', held')
    BY <1>2, NothingSeen
  <2> QED BY <1>2, <2>1 DEF Planned, Tidy, Relocs
<1> QED BY <1>1, <1>8, <1>9 DEF Sound

-----------------------------------------------------------------------------
\* Other devices, the person, and kills.

\* Growing bounds keep what a run holds.
LEMMA PlannedGrows ==
  ASSUME Sound, UNCHANGED <<cat, run>>, born' \in Nat, made' \in Nat, born <= born', made <= made', held \subseteq held',
         journal' # <<>> \/ journal' = journal
  PROVE  Planned' /\ Tidy'
<1>0. /\ \A e \in 1 .. born : e \in 1 .. born'
      /\ \A d \in 1 .. made : d \in 1 .. made'
  BY DEF Sound, Shapes
<1>1. \A s : SeenFine(s, born, held) => SeenFine(s, born', held')
  BY <1>0 DEF SeenFine
<1>2. Tidy'
  BY DEF Tidy, Sound
<1>3. AddsApart' = AddsApart /\ UpdatesApart' = UpdatesApart /\ TosApart' = TosApart
  BY DEF AddsApart, UpdatesApart, TosApart
<1>4. Planned'
  <2>1. run.phase # "idle" => SeenFine(run.owed.seen, born', held')
    BY <1>1 DEF Sound, Planned
  <2>2. run.phase = "depart" => SeenFine(run.refreshed, born', held')
    BY <1>1 DEF Sound, Planned
  <2>3. run.phase = "commit" => \A a \in run.adds \cup run.updates : a.data \in 1 .. made'
    BY <1>0 DEF Sound, Planned
  <2>4. /\ run.phase \in {"look", "commit", "refresh"} => run.owed = NothingOwed
        /\ run.phase = "depart" => UpdatesApart /\ TosApart /\ \A m \in run.renames : m.to \notin run.adds
        /\ run.phase = "commit" =>
             /\ AddsApart /\ UpdatesApart /\ TosApart
             /\ \A m \in run.renames, a \in run.adds : m.to # a.path
        /\ run.phase = "refresh" => journal # <<>>
        /\ run.phase = "place" => \A e \in run.wanted : e \in DOMAIN cat /\ cat[e].path \in Mapped
    BY DEF Sound, Planned
  <2> QED BY <1>3, <2>1, <2>2, <2>3, <2>4 DEF Planned
<1> QED BY <1>2, <1>4

LEMMA CommittedSound ==
  ASSUME Sound, Shapes', NEW x \in Changes, Committed(x), born <= born', made <= made',
         \A e \in DOMAIN x.put : x.put[e].data \in 1 .. made',
         x.removed \subseteq 1 .. born', DOMAIN x.put \subseteq 1 .. born',
         CatGood(Replayed(Library, x), born', held')
  PROVE  Sound'
<1>1. /\ journal' = Append(journal, x) /\ held' = held \cup {x.put[e].data : e \in DOMAIN x.put}
      /\ UNCHANGED <<cat, rec, disk, run, own, calm, rows, torn>>
  BY DEF Committed, fileVars
<1>2. /\ rec \in Records /\ RecFine(rec, born, held) /\ SeenFine(rows, born, held)
      /\ journal \in Seq(Changes) /\ cat \in Catalogs /\ born \in Nat /\ made \in Nat
      /\ Lined(cat, journal, born, held) /\ born' \in Nat /\ made' \in Nat
  BY DEF Sound, Shapes, Bounds
<1>3. Lined(cat, Append(journal, x), born', held')
  <2>1. CatGood(Replayed(ApplyAll(cat, rec, journal).cat, x), born', held')
    BY DEF Library
  <2>2. held \subseteq held'
    BY <1>1
  <2> QED BY <1>2, <2>1, <2>2, LinedAppend
<1>4. /\ \A e \in 1 .. born : e \in 1 .. born'
      /\ \A d \in 0 .. made : d \in 0 .. made'
      /\ \A d \in 1 .. made : d \in 1 .. made'
  BY <1>2
<1>5. \A y \in Range(journal') : y.removed \subseteq 1 .. born' /\ DOMAIN y.put \subseteq 1 .. born'
  <2>1. Range(journal') = Range(journal) \cup {x}
    BY <1>1, <1>2, RangeOf
  <2>2. \A y \in Range(journal) : y.removed \subseteq 1 .. born /\ DOMAIN y.put \subseteq 1 .. born
    BY DEF Sound, Bounds
  <2> QED BY <1>4, <2>1, <2>2
<1>6. Bounds'
  <2>1. RecFine(rec', born', held') /\ SeenFine(rows', born', held')
    BY <1>1, <1>2, <1>4 DEF RecFine, SeenFine
  <2>2. /\ disk' \in [Paths -> 0 .. made'] /\ \A p \in Paths \ Mapped : disk'[p] = NoFile
        /\ \A p \in own' : p \in Mapped /\ disk'[p] # NoFile
    BY <1>1, <1>4 DEF Sound, Bounds
  <2>3. held' \subseteq 1 .. made'
    BY <1>1, <1>4 DEF Sound, Bounds
  <2>4. Lined(cat', journal', born', held')
    BY <1>1, <1>3
  <2> QED BY <1>5, <2>1, <2>2, <2>3, <2>4, BoundsAre
<1>7. Planned' /\ Tidy'
  <2>1. journal' # <<>>
    BY <1>1, <1>2
  <2> QED BY <1>1, <1>2, <2>1, PlannedGrows
<1> QED BY <1>6, <1>7 DEF Sound

LEMMA OthersSound ==
  ASSUME Sound, Others
  PROVE  Sound'
<1>0. Shapes'
  BY OthersShapes DEF Sound
<1> DEFINE L == Library
<1>1. L \in Catalogs /\ CatGood(L, born, held)
  BY LinedEnd, LibraryTyped DEF Sound, Bounds, Shapes, Library
<1>2. /\ born \in Nat /\ made \in Nat /\ held \subseteq 1 .. made
      /\ \A e \in DOMAIN L : e \in 1 .. born /\ L[e].data \in held /\ L[e].path \in PathsOf(L)
      /\ \A e, f \in DOMAIN L : L[e].path = L[f].path => e = f
      /\ DOMAIN L \subseteq Nat /\ \A e \in DOMAIN L : L[e].path \in Paths
  BY <1>1, CatalogIs DEF CatGood, Sound, Shapes, Bounds, PathsOf
<1> HIDE DEF L
<1>3. CASE OtherRename
  <2>1. PICK e \in DOMAIN L, p \in Paths \ PathsOf(L) :
             Committed(Record({}, Only(e, p), <<>>)) /\ UNCHANGED <<born, made>>
    BY <1>3 DEF OtherRename, L
  <2> DEFINE x == Record({}, Only(e, p), <<>>)
  <2>2. Only(e, p) \in Renamings /\ DOMAIN Only(e, p) = {e} /\ Only(e, p)[e] = p
    BY <1>2, RenamedTyped
  <2>3. x \in Changes /\ x.removed = {} /\ x.renamed = Only(e, p) /\ DOMAIN x.put = {}
    BY <2>2, NothingTyped, RecordTyped
  <2> HIDE DEF x
  <2>4. /\ DOMAIN Replayed(L, x) = DOMAIN L
        /\ \A f \in DOMAIN L : /\ Replayed(L, x)[f].data = L[f].data
                               /\ Replayed(L, x)[f].path = IF f = e THEN p ELSE L[f].path
    BY <1>1, <2>2, <2>3, ReplayedTyped
  <2>5. held' = held
    BY <2>1, <2>3 DEF Committed, x
  <2>6. CatGood(Replayed(L, x), born', held')
    BY <1>2, <2>1, <2>4, <2>5 DEF CatGood
  <2> QED BY <1>0, <1>2, <2>1, <2>3, <2>6, CommittedSound DEF x, L
<1>4. CASE OtherSwap
  <2>1. PICK e \in DOMAIN L, f \in DOMAIN L :
             /\ Committed(Record({}, [g \in {e, f} |-> L[IF g = e THEN f ELSE e].path], <<>>))
             /\ UNCHANGED <<born, made>>
    BY <1>4 DEF OtherSwap, L
  <2> DEFINE swap == [g \in {e, f} |-> L[IF g = e THEN f ELSE e].path]
             x == Record({}, swap, <<>>)
  <2>2. swap \in Renamings
    <3>1. swap \in [{e, f} -> Paths]
      BY <1>2
    <3>2. {e, f} \in SUBSET Nat
      BY <1>2
    <3> HIDE DEF swap
    <3> QED BY <3>1, <3>2 DEF Renamings
  <2>3. DOMAIN swap = {e, f} /\ \A g \in {e, f} : swap[g] = L[IF g = e THEN f ELSE e].path
    OBVIOUS
  <2>8. Committed(x)
    BY <2>1
  <2> HIDE DEF swap
  <2>4. x \in Changes /\ x.removed = {} /\ x.renamed = swap /\ DOMAIN x.put = {}
    BY <2>2, NothingTyped, RecordTyped
  <2> HIDE DEF x
  <2>5. /\ DOMAIN Replayed(L, x) = DOMAIN L
        /\ \A g \in DOMAIN L :
             /\ Replayed(L, x)[g].data = L[g].data
             /\ Replayed(L, x)[g].path = IF g = e THEN L[f].path ELSE IF g = f THEN L[e].path ELSE L[g].path
    BY <1>1, <2>3, <2>4, ReplayedTyped
  <2>6. held' = held
    BY <2>1, <2>4 DEF Committed, x, swap
  <2>7. CatGood(Replayed(L, x), born', held')
    BY <1>2, <2>1, <2>5, <2>6 DEF CatGood
  <2>9. /\ \A g \in DOMAIN x.put : x.put[g].data \in 1 .. made'
        /\ DOMAIN x.put \subseteq 1 .. born' /\ born <= born' /\ made <= made' /\ x.removed \subseteq 1 .. born'
    BY <1>2, <2>1, <2>4
  <2> QED BY <1>0, <2>4, <2>7, <2>8, <2>9, CommittedSound DEF L
<1>5. CASE OtherRemove
  <2>1. PICK e \in DOMAIN L : Committed(Record({e}, <<>>, <<>>)) /\ UNCHANGED <<born, made>>
    BY <1>5 DEF OtherRemove, L
  <2> DEFINE x == Record({e}, <<>>, <<>>)
  <2>6. Committed(x)
    BY <2>1
  <2>2. x \in Changes /\ x.removed = {e} /\ DOMAIN x.renamed = {} /\ DOMAIN x.put = {}
    BY <1>2, NothingTyped, RecordTyped
  <2> HIDE DEF x
  <2>3. /\ DOMAIN Replayed(L, x) = DOMAIN L \ {e}
        /\ \A f \in DOMAIN L \ {e} : Replayed(L, x)[f].data = L[f].data /\ Replayed(L, x)[f].path = L[f].path
    BY <1>1, <2>2, ReplayedTyped
  <2>4. held' = held
    BY <2>1, <2>2 DEF Committed, x
  <2>5. CatGood(Replayed(L, x), born', held')
    BY <1>2, <2>1, <2>3, <2>4 DEF CatGood
  <2>7. /\ \A f \in DOMAIN x.put : x.put[f].data \in 1 .. made'
        /\ DOMAIN x.put \subseteq 1 .. born' /\ born <= born' /\ made <= made' /\ x.removed \subseteq 1 .. born'
    BY <1>2, <2>1, <2>2
  <2> QED BY <1>0, <2>2, <2>5, <2>6, <2>7, CommittedSound DEF L
<1>6. CASE OtherUpdate
  <2>1. PICK e \in DOMAIN L :
             /\ Committed(Record({}, <<>>, Only(e, [path |-> L[e].path, data |-> made + 1])))
             /\ made' = made + 1 /\ UNCHANGED born
    BY <1>6 DEF OtherUpdate, L
  <2> DEFINE y == [path |-> L[e].path, data |-> made + 1]
             x == Record({}, <<>>, Only(e, y))
  <2>2. y \in Entries /\ y.path = L[e].path /\ y.data = made + 1
    BY <1>2 DEF Entries
  <2> HIDE DEF y
  <2>3. Only(e, y) \in Catalogs /\ DOMAIN Only(e, y) = {e} /\ Only(e, y)[e] = y
    BY <1>2, <2>2, PutTyped
  <2>4. x \in Changes /\ x.removed = {} /\ x.put = Only(e, y) /\ DOMAIN x.renamed = {}
    BY <2>3, NothingTyped, RecordTyped
  <2>5. Committed(x)
    BY <2>1 DEF y
  <2> HIDE DEF x
  <2>6. /\ DOMAIN Replayed(L, x) = DOMAIN L \cup {e} /\ Replayed(L, x)[e] = y
        /\ \A f \in DOMAIN L \ {e} : Replayed(L, x)[f].data = L[f].data /\ Replayed(L, x)[f].path = L[f].path
    BY <1>1, <2>3, <2>4, ReplayedTyped
  <2>7. held' = held \cup {made + 1}
    BY <2>2, <2>3, <2>4, <2>5 DEF Committed
  <2>8. CatGood(Replayed(L, x), born', held')
    BY <1>2, <2>1, <2>2, <2>6, <2>7 DEF CatGood
  <2>9. /\ \A f \in DOMAIN x.put : x.put[f].data \in 1 .. made' /\ x.removed \subseteq 1 .. born'
        /\ DOMAIN x.put \subseteq 1 .. born' /\ born <= born' /\ made <= made' /\ x.removed \subseteq 1 .. born'
    BY <1>2, <2>1, <2>2, <2>3, <2>4
  <2> QED BY <1>0, <2>4, <2>5, <2>8, <2>9, CommittedSound DEF L
<1>7. CASE OtherAdd
  <2>1. PICK p \in Paths \ PathsOf(L) :
             /\ Committed(Record({}, <<>>, Only(born + 1, [path |-> p, data |-> made + 1])))
             /\ made' = made + 1 /\ born' = born + 1
    BY <1>7 DEF OtherAdd, L
  <2> DEFINE y == [path |-> p, data |-> made + 1]
             e == born + 1
             x == Record({}, <<>>, Only(e, y))
  <2>2. y \in Entries /\ y.path = p /\ y.data = made + 1 /\ e \in Nat /\ e = born + 1 /\ e \notin DOMAIN L
    <3>1. e \notin 1 .. born
      BY <1>2
    <3> QED BY <1>2, <3>1 DEF Entries
  <2> HIDE DEF y
  <2>3. Committed(Record({}, <<>>, Only(e, y)))
    BY <2>1 DEF y
  <2> HIDE DEF e
  <2>4. Only(e, y) \in Catalogs /\ DOMAIN Only(e, y) = {e} /\ Only(e, y)[e] = y
    BY <2>2, PutTyped
  <2>5. x \in Changes /\ x.removed = {} /\ x.put = Only(e, y) /\ DOMAIN x.renamed = {}
    BY <2>4, NothingTyped, RecordTyped
  <2>6. Committed(x)
    BY <2>3
  <2> HIDE DEF x
  <2>7. /\ DOMAIN Replayed(L, x) = DOMAIN L \cup {e} /\ Replayed(L, x)[e] = y
        /\ \A f \in DOMAIN L : Replayed(L, x)[f].data = L[f].data /\ Replayed(L, x)[f].path = L[f].path
    BY <1>1, <2>2, <2>4, <2>5, ReplayedTyped
  <2>8. held' = held \cup {made + 1}
    BY <2>2, <2>4, <2>5, <2>6 DEF Committed
  <2>9. \A f \in DOMAIN L : L[f].path # p
    BY <1>2
  <2>10. CatGood(Replayed(L, x), born', held')
    <3>1. \A f \in DOMAIN L : f \in 1 .. born'
      BY <1>2, <2>1
    <3>2. e \in 1 .. born'
      BY <1>2, <2>1, <2>2
    <3> QED BY <1>2, <2>2, <2>7, <2>8, <2>9, <3>1, <3>2 DEF CatGood
  <2>11. /\ \A f \in DOMAIN x.put : x.put[f].data \in 1 .. made'
         /\ DOMAIN x.put \subseteq 1 .. born' /\ born <= born' /\ made <= made' /\ x.removed \subseteq 1 .. born'
    BY <1>2, <2>1, <2>2, <2>4, <2>5
  <2> QED BY <1>0, <2>5, <2>6, <2>10, <2>11, CommittedSound DEF L
<1> QED BY <1>3, <1>4, <1>5, <1>6, <1>7 DEF Others

LEMMA PersonSound ==
  ASSUME Sound, Person
  PROVE  Sound'
<1>0. Shapes'
  BY PersonShapes DEF Sound
<1>1. /\ made \in Nat /\ born \in Nat /\ NoFile = 0 /\ Mapped \subseteq Paths
      /\ disk \in [Paths -> 0 .. made] /\ held \subseteq 1 .. made
      /\ \A p \in Paths \ Mapped : disk[p] = NoFile
      /\ \A p \in own : p \in Mapped /\ disk[p] # NoFile
  BY PathFacts DEF Sound, Bounds, Shapes, NoFile
<1>2. ASSUME NEW files, NEW theirs, Touch(files, theirs), made' \in Nat, made <= made',
             files \in [Paths -> 0 .. made'], \A p \in Paths \ Mapped : files[p] = NoFile,
             \A p \in own \ theirs : files[p] # NoFile
      PROVE  Sound'
  <2>1. disk' = files /\ own' = own \ theirs /\ UNCHANGED <<cat, rec, run, journal, rows, held, born, torn>>
    BY <1>2 DEF Touch
  <2>2. Planned' /\ Tidy'
    BY <1>1, <1>2, <2>1, PlannedGrows
  <2>3. \A d \in 1 .. made : d \in 1 .. made'
    BY <1>1, <1>2
  <2>4. Lined(cat', journal', born', held') /\ RecFine(rec', born', held') /\ SeenFine(rows', born', held')
    BY <2>1 DEF Sound, Bounds
  <2>5. /\ disk' \in [Paths -> 0 .. made'] /\ held' \subseteq 1 .. made'
        /\ \A p \in Paths \ Mapped : disk'[p] = NoFile
        /\ \A p \in own' : p \in Mapped /\ disk'[p] # NoFile
    BY <1>1, <1>2, <2>1, <2>3
  <2>6. \A y \in Range(journal') : y.removed \subseteq 1 .. born' /\ DOMAIN y.put \subseteq 1 .. born'
    BY <2>1 DEF Sound, Bounds
  <2> QED BY <1>0, <2>2, <2>4, <2>5, <2>6, BoundsAre DEF Sound
<1>3. ASSUME NEW p \in Mapped, Write(p) PROVE Sound'
  <2>1. made' = made + 1 /\ Touch([disk EXCEPT ![p] = made + 1], {p})
    BY <1>3 DEF Write
  <2> DEFINE files == [disk EXCEPT ![p] = made + 1]
  <2>2. \A q \in Paths : files[q] = IF q = p THEN made + 1 ELSE disk[q]
    BY <1>1
  <2>3. files \in [Paths -> 0 .. made']
    <3>1. \A d \in 0 .. made : d \in 0 .. made'
      BY <1>1, <2>1
    <3>2. made + 1 \in 0 .. made'
      BY <1>1, <2>1
    <3> QED BY <1>1, <3>1, <3>2
  <2>4. Touch(files, {p}) /\ made' \in Nat /\ made <= made'
    BY <1>1, <2>1
  <2> HIDE DEF files
  <2>5. \A q \in Paths \ Mapped : files[q] = NoFile
    BY <1>1, <2>2
  <2>6. \A q \in own \ {p} : files[q] # NoFile
    BY <1>1, <2>2
  <2> QED BY <1>2, <2>3, <2>4, <2>5, <2>6
<1>4. ASSUME NEW p \in Mapped, TakeAway(p) PROVE Sound'
  <2>1. made' = made /\ Touch([disk EXCEPT ![p] = NoFile], {p})
    BY <1>4 DEF TakeAway
  <2> DEFINE files == [disk EXCEPT ![p] = NoFile]
  <2>2. \A q \in Paths : files[q] = IF q = p THEN NoFile ELSE disk[q]
    BY <1>1
  <2>3. files \in [Paths -> 0 .. made']
    <3>1. NoFile \in 0 .. made
      BY <1>1
    <3> QED BY <1>1, <2>1, <3>1
  <2>4. Touch(files, {p}) /\ made' \in Nat /\ made <= made'
    BY <1>1, <2>1
  <2> HIDE DEF files
  <2>5. \A q \in Paths \ Mapped : files[q] = NoFile
    BY <1>1, <2>2
  <2>6. \A q \in own \ {p} : files[q] # NoFile
    BY <1>1, <2>2
  <2> QED BY <1>2, <2>3, <2>4, <2>5, <2>6
<1>5. ASSUME NEW p \in Mapped, NEW q \in Mapped, Move(p, q) PROVE Sound'
  <2>1. made' = made /\ Touch([disk EXCEPT ![q] = disk[p], ![p] = NoFile], {p}) /\ disk[p] # NoFile /\ disk[q] = NoFile
    BY <1>5 DEF Move
  <2> DEFINE files == [disk EXCEPT ![q] = disk[p], ![p] = NoFile]
  <2>2. \A r \in Paths : files[r] = IF r = p THEN NoFile ELSE IF r = q THEN disk[p] ELSE disk[r]
    BY <1>1
  <2>3. files \in [Paths -> 0 .. made']
    <3>1. NoFile \in 0 .. made /\ disk[p] \in 0 .. made
      BY <1>1
    <3> QED BY <1>1, <2>1, <3>1
  <2>4. Touch(files, {p}) /\ made' \in Nat /\ made <= made'
    BY <1>1, <2>1
  <2> HIDE DEF files
  <2>5. \A r \in Paths \ Mapped : files[r] = NoFile
    BY <1>1, <2>2
  <2>6. \A r \in own \ {p} : files[r] # NoFile
    BY <1>1, <2>1, <2>2
  <2> QED BY <1>2, <2>3, <2>4, <2>5, <2>6
<1>6. ASSUME NEW p \in Mapped, NEW q \in Mapped, Copy(p, q) PROVE Sound'
  <2>1. made' = made /\ Touch([disk EXCEPT ![q] = disk[p]], {}) /\ disk[p] # NoFile /\ disk[q] = NoFile
    BY <1>6 DEF Copy
  <2> DEFINE files == [disk EXCEPT ![q] = disk[p]]
  <2>2. \A r \in Paths : files[r] = IF r = q THEN disk[p] ELSE disk[r]
    BY <1>1
  <2>3. files \in [Paths -> 0 .. made']
    <3>1. disk[p] \in 0 .. made
      BY <1>1
    <3> QED BY <1>1, <2>1, <3>1
  <2>4. Touch(files, {}) /\ made' \in Nat /\ made <= made'
    BY <1>1, <2>1
  <2> HIDE DEF files
  <2>5. \A r \in Paths \ Mapped : files[r] = NoFile
    BY <1>1, <2>2
  <2>6. \A r \in own \ {} : files[r] # NoFile
    BY <1>1, <2>1, <2>2
  <2> QED BY <1>2, <2>3, <2>4, <2>5, <2>6
<1> QED BY <1>3, <1>4, <1>5, <1>6 DEF Person

LEMMA KillSound ==
  ASSUME Sound, Kill
  PROVE  Sound'
<1>0. Shapes'
  BY KillShapes DEF Sound
<1>1. run' = Idle /\ UNCHANGED <<cat, rec, disk, own, calm, journal, held, born, made, rows>>
  BY DEF Kill, libraryVars
<1>2. Planned' /\ Tidy'
  BY <1>1, IdlePlanned
<1>3. Bounds'
  BY <1>1 DEF Sound, Bounds
<1> QED BY <1>0, <1>2, <1>3 DEF Sound

LEMMA InitSound == Init => Sound
<1> SUFFICES ASSUME Init PROVE Sound
  OBVIOUS
<1>0. PICK first, placed :
         /\ first \subseteq Mapped /\ placed \subseteq first
         /\ cat = [p \in first |-> [path |-> p, data |-> p]]
         /\ rec = [p \in Paths |-> IF p \in placed THEN [entry |-> p, data |-> p] ELSE NoRecord]
         /\ disk = [p \in Paths |-> IF p \in placed THEN p ELSE NoFile]
         /\ own = placed /\ held = first
         /\ born = Cardinality(Paths) /\ made = Cardinality(Paths)
         /\ run = Idle /\ journal = <<>> /\ rows = {}
         /\ calm = TRUE /\ torn = {}
         /\ left = [person |-> PersonActs, others |-> OtherActs, kills |-> Kills]
  <2> DEFINE last == CHOOSE p \in Mapped : \A q \in Mapped : q <= p
             first == Mapped \ {last}
             placed == first \ {CHOOSE p \in first : \A q \in first : q <= p}
  <2>1. first \subseteq Mapped /\ placed \subseteq first
    OBVIOUS
  <2> QED BY <2>1 DEF Init
<1> DEFINE N == Cardinality(Paths)
<1>1. Mapped \subseteq Paths /\ Paths = 1 .. N /\ N \in Nat /\ NoFile = 0 /\ Paths \subseteq Nat \ {0}
  BY PathFacts, PathAssumption DEF NoFile
<1> HIDE DEF N
<1>2. born = N /\ made = N
  BY <1>0 DEF N
<1>3. cat \in Catalogs
  <2>1. cat \in [first -> Entries]
    BY <1>0, <1>1 DEF Entries
  <2>2. first \in SUBSET Nat
    BY <1>0, <1>1
  <2> QED BY <2>1, <2>2 DEF Catalogs
<1>4. rec \in Records /\ \A p \in Paths : rec[p] = NoRecord \/ (p \in placed /\ rec[p].entry = p /\ rec[p].data = p)
  BY <1>0, <1>1 DEF Records, Recs, NoRecord
<1>5. disk \in [Paths -> 0 .. N] /\ \A p \in Paths : disk[p] = IF p \in placed THEN p ELSE NoFile
  <2>1. \A p \in Paths : p \in 0 .. N /\ NoFile \in 0 .. N
    BY <1>1
  <2> QED BY <1>0, <2>1
<1>6. CatGood(cat, born, held)
  <2>1. DOMAIN cat = first /\ \A p \in first : cat[p].path = p /\ cat[p].data = p
    BY <1>0
  <2>2. \A p \in first : p \in 1 .. N
    BY <1>0, <1>1
  <2> QED BY <1>0, <1>2, <2>1, <2>2 DEF CatGood
<1>7. Lined(cat, journal, born, held)
  BY <1>0, <1>3, <1>6, LinedEmpty
<1>8. RecFine(rec, born, held)
  <2>1. \A p \in placed : p \in 1 .. N /\ p \in Mapped /\ p \in first
    BY <1>0, <1>1
  <2> QED BY <1>0, <1>2, <1>4, <2>1 DEF RecFine
<1>9. Bounds
  <2>1. SeenFine(rows, born, held)
    BY <1>0, NothingSeen
  <2>2. held \subseteq 1 .. made
    BY <1>0, <1>1, <1>2
  <2>3. Range(journal) = {}
    BY <1>0 DEF Range
  <2>4. /\ \A p \in Paths \ Mapped : disk[p] = NoFile
        /\ \A p \in own : p \in Mapped /\ disk[p] # NoFile
    BY <1>0, <1>1, <1>5
  <2> QED BY <1>2, <1>5, <1>7, <1>8, <2>1, <2>2, <2>3, <2>4 DEF Bounds
<1>10. run.phase = "idle" /\ run \in Runs
  BY <1>0, KindIsRun DEF Idle
<1>11. Planned /\ Tidy
  BY <1>10 DEF Planned, Tidy, Relocs
<1>12. Shapes
  <2>1. disk \in [Paths -> Nat]
    <3>1. 0 .. N \subseteq Nat
      BY <1>1
    <3> QED BY <1>5, <3>1
  <2>2. left \in [person : Nat, others : Nat, kills : Nat]
    BY <1>0, BoundAssumption
  <2>3. own \subseteq Mapped /\ calm \in BOOLEAN /\ journal \in Seq(Changes) /\ rows \subseteq Seens
        /\ held \subseteq Nat /\ born \in Nat /\ made \in Nat /\ torn \subseteq Tears
    BY <1>0, <1>1, <1>2
  <2> QED BY <1>3, <1>4, <1>10, <2>1, <2>2, <2>3 DEF Shapes
<1> QED BY <1>9, <1>11, <1>12 DEF Sound

LEMMA StutterSound == ASSUME Sound, UNCHANGED vars PROVE Sound'
<1>1. UNCHANGED <<cat, rec, disk, run, own, calm, journal, held, born, made, rows, torn, left>>
  BY DEF vars, fileVars, libraryVars
<1>2. Shapes' /\ Tidy' /\ Bounds'
  BY <1>1 DEF Sound, Shapes, Tidy, Bounds
<1>3. Planned'
  BY <1>1 DEF Sound, Planned, AddsApart, UpdatesApart, TosApart
<1> QED BY <1>2, <1>3 DEF Sound

LEMMA RelocateSound == ASSUME Sound, Relocate PROVE Sound'
<1>1. torn' \subseteq Tears
  BY DEF Sound, Shapes, Relocate, Tears
<1> QED
  BY <1>1, FinishNextSound, FinishDoneSound, DecideNextSound, DecideDoneSound, MoveOneSound, BeginCycleSound,
     ExchangeNextSound, MovesDoneSound, RecordItSound, FollowNextSound, FollowDoneSound
     DEF Relocate, RelocationStep

\* Sound is inductive.
LEMMA NextSound == ASSUME Sound, [Next]_vars PROVE Sound'
  BY OthersSound, PersonSound, KillSound, StartSound, LookSound, RelocateSound, ScanSound, ForgetSound,
     DiscardDepartedSound, PackSound, CommitSound, RefreshSound, SelectSound, PublishSound, PublishDoneSound,
     StutterSound
     DEF Next, SyncStep, FetchStep

LEMMA SoundTypes == ASSUME Sound PROVE TypeOK
<1>1. CatGood(cat, born, held) /\ RecFine(rec, born, held)
  BY LinedFirst DEF Sound, Bounds, Shapes
<1>2. \A e \in DOMAIN cat : cat[e].path \in Paths
  BY CatalogIs DEF Sound, Shapes
<1>3. \A p \in Paths : rec[p] = NoRecord \/ (rec[p].entry \in 1 .. born /\ rec[p].data \in held)
  BY <1>1 DEF RecFine
<1>4. \A p \in Paths \ Mapped : rec[p] = NoRecord
  BY <1>1 DEF RecFine
<1>5. own \subseteq {p \in Mapped : disk[p] # NoFile}
  BY DEF Sound, Bounds
<1>6. /\ disk \in [Paths -> 0 .. made] /\ held \subseteq 1 .. made
      /\ \A p \in Paths \ Mapped : disk[p] = NoFile
      /\ \A r \in Range(journal) : r.removed \subseteq 1 .. born /\ DOMAIN r.put \subseteq 1 .. born
  BY DEF Sound, Bounds
<1> QED BY <1>1, <1>2, <1>3, <1>4, <1>5, <1>6 DEF TypeOK, CatGood

\* The catalogs, records and files of a device keep their shapes over every run, kill and
\* foreign commit.
THEOREM SpecTyped == Spec => []TypeOK
<1>1. Spec => []Sound
  BY InitSound, NextSound, PTL DEF Spec
<1> QED BY <1>1, SoundTypes, PTL

-----------------------------------------------------------------------------
\* The person's files stay.

LEMMA LooksAre ==
  /\ DOMAIN Looks = {q \in Mapped : Waits(cat, rec, q)}
  /\ \A p \in DOMAIN Looks :
       /\ Looks[p].to = WaitsFor(cat, rec, p) /\ Looks[p].entry = rec[p].entry
       /\ Looks[p].data = rec[p].data /\ Looks[p].source = disk[p]
       /\ Looks[p].target = IF Looks[p].to \in Mapped THEN disk[Looks[p].to] ELSE NoFile
  BY DEF Looks

\* What a run saw and nobody touched since is as it saw it, and the contents it goes by
\* are the Library's.
Watched ==
  /\ run.phase \in {"finish", "decide"} => \A p \in DOMAIN run.looks : run.looks[p].data \in held
  /\ calm /\ run.phase = "finish" => \A p \in DOMAIN run.looks : run.looks[p].source = disk[p]
  /\ calm /\ run.phase = "decide" => \A p \in run.todo : run.looks[p].source = disk[p]
  /\ calm /\ run.phase = "depart" => \A p \in run.departed : disk[p] \in held
  /\ calm /\ run.phase = "place" => \A e \in run.wanted : disk[cat[e].path] = NoFile

LEMMA NothingWatched ==
  ASSUME run'.phase \notin {"finish", "decide", "depart", "place"}
  PROVE  Watched'
  BY DEF Watched

LEMMA LooksWatched ==
  ASSUME Sound
  PROVE  \A p \in DOMAIN Looks : Looks[p].data \in held /\ Looks[p].source = disk[p]
<1>1. \A p \in DOMAIN Looks : p \in Paths /\ rec[p] # NoRecord /\ Looks[p].data = rec[p].data /\ Looks[p].source = disk[p]
  BY LooksAre, PathFacts DEF Waits
<1>2. RecFine(rec, born, held)
  BY DEF Sound, Bounds
<1> QED BY <1>1, <1>2 DEF RecFine

LEMMA ReplayTypes == ASSUME Sound PROVE Shapes /\ Tidy
  BY DEF Sound

LEMMA RelocateWatched ==
  ASSUME Sound, Watched, Relocate
  PROVE  Watched'
<1>0. RelocationStep /\ held' = held /\ Shapes /\ Tidy
  BY DEF Relocate, libraryVars, Sound
<1>1. CASE FinishNext
  <2>1. /\ run.phase = "finish" /\ UNCHANGED <<cat, disk, calm>>
        /\ run'.phase = "finish" /\ run'.looks = run.looks
    BY <1>0, <1>1, FinishNextIs
  <2> QED BY <1>0, <2>1 DEF Watched
<1>2. CASE FinishDone
  <2>1. /\ run.phase = "finish" /\ UNCHANGED <<cat, rec, disk, own>>
        /\ calm' = (calm \/ run.touched # {})
        /\ run'.phase = "decide" /\ run'.todo = DOMAIN run'.looks
        /\ run'.looks = IF run.touched = {} THEN run.looks ELSE Looks
    BY <1>0, <1>2, FinishDoneIs
  <2>2. CASE run.touched = {}
    BY <1>0, <2>1, <2>2 DEF Watched
  <2>3. CASE run.touched # {}
    BY <1>0, <2>1, <2>3, LooksWatched DEF Watched
  <2> QED BY <2>2, <2>3
<1>3. CASE DecideNext
  <2>1. PICK p \in run.todo :
             /\ run.phase = "decide" /\ DecideKeeps(p)
             /\ disk' = disk \/ disk' = [disk EXCEPT ![p] = NoFile]
    BY <1>0, <1>3, DecideNextIs
  <2>2. /\ UNCHANGED <<cat, calm>> /\ run'.phase = "decide"
        /\ run'.looks = run.looks /\ run'.todo = run.todo \ {p}
    BY <2>1 DEF DecideKeeps
  <2>3. \A q \in run'.todo : disk'[q] = disk[q]
    <3>1. \A q \in run.todo : q \in Paths
      BY <1>0, <2>1, RelocFields, PathFacts DEF Relocs
    <3> QED BY <2>1, <2>2, <3>1 DEF Sound, Shapes
  <2> QED BY <1>0, <2>1, <2>2, <2>3 DEF Watched
<1>4. CASE RecordIt
  <2>1. /\ run.phase # "idle" /\ UNCHANGED <<cat, disk, calm>>
        /\ run.phase = "end" => run' = Idle
        /\ run.phase # "end" => run'.phase = run.phase
        /\ run.phase \in Relocs => run'.looks = run.looks /\ run'.todo = run.todo
        /\ run.phase = "depart" => run'.departed = run.departed
        /\ run.phase = "place" => run'.wanted = run.wanted
    BY <1>0, <1>4, RecordItIs
  <2>2. CASE run.phase = "end"
    BY <2>1, <2>2, NothingWatched DEF Idle
  <2>3. CASE run.phase # "end"
    BY <1>0, <2>1, <2>3 DEF Watched, Relocs
  <2> QED BY <2>2, <2>3
<1>5. CASE DecideDone \/ (\E p \in Paths : MoveOne(p)) \/ BeginCycle \/ ExchangeNext \/ MovesDone \/ FollowNext \/ FollowDone
  <2>1. run'.phase \in {"move", "gone", "relocated"}
    <3>1. CASE DecideDone
      BY <1>0, <3>1, DecideDoneIs
    <3>2. CASE \E p \in Paths : MoveOne(p)
      BY <1>0, <3>2, MoveOneIs DEF MoveKeeps
    <3>3. CASE BeginCycle
      BY <1>0, <3>3, BeginCycleIs DEF MoveKeeps
    <3>4. CASE ExchangeNext
      BY <1>0, <3>4, ExchangeNextIs DEF MoveKeeps
    <3>5. CASE MovesDone
      BY <1>0, <3>5, MovesDoneIs
    <3>6. CASE FollowNext
      BY <1>0, <3>6, FollowNextIs
    <3>7. CASE FollowDone
      BY <1>0, <3>7, FollowDoneIs
    <3> QED BY <1>5, <3>1, <3>2, <3>3, <3>4, <3>5, <3>6, <3>7
  <2> QED BY <2>1, NothingWatched
<1> QED BY <1>0, <1>1, <1>2, <1>3, <1>4, <1>5 DEF RelocationStep

LEMMA LookWatched ==
  ASSUME Sound, Look
  PROVE  Watched'
<1>1. /\ run'.phase = "finish" /\ run'.looks = Looks /\ UNCHANGED <<disk, held>>
  BY DEF Look, Relocating, libraryVars
<1> QED BY <1>1, LooksWatched DEF Watched

LEMMA SyncWatched ==
  ASSUME Sound, Watched, SyncStep
  PROVE  Watched'
<1>0. Shapes /\ Bounds
  BY DEF Sound
<1>1. CASE Scan
  <2>1. run'.phase = "depart" /\ run'.departed = Departed /\ UNCHANGED <<disk, held>>
    BY <1>0, <1>1, ScanIs DEF libraryVars
  <2>2. \A p \in Departed : disk[p] \in held
    <3>1. RecFine(rec, born, held)
      BY <1>0 DEF Bounds
    <3>2. \A p \in Departed : p \in Paths
      BY ScanSets, PathFacts
    <3> QED BY <3>1, <3>2 DEF Departed, RecFine
  <2> QED BY <2>1, <2>2 DEF Watched
<1>2. CASE Forget
  <2>1. run.phase = "depart" /\ run'.phase = "depart" /\ run'.departed = run.departed /\ UNCHANGED <<disk, held, calm>>
    BY <1>0, <1>2, ForgetIs DEF libraryVars
  <2> QED BY <2>1 DEF Watched
<1>3. CASE \E p \in Paths : DiscardDeparted(p)
  <2>1. PICK p \in Paths : DiscardDeparted(p)
    BY <1>3
  <2>2. /\ run.phase = "depart" /\ run'.phase = "depart" /\ run'.departed = run.departed \ {p}
        /\ UNCHANGED <<held, calm>> /\ (disk' = disk \/ disk' = [disk EXCEPT ![p] = NoFile])
        /\ run.departed \subseteq Paths
    <3>1. run \in DepartRuns /\ run.phase = "depart"
      BY <1>0, <2>1, RunIs, DiscardDepartedIs
    <3>2. run.departed \subseteq Paths
      BY <3>1, PathFacts DEF DepartRuns
    <3> QED BY <1>0, <2>1, <3>2, DiscardDepartedIs DEF libraryVars
  <2>3. \A q \in run'.departed : disk'[q] = disk[q]
    BY <1>0, <2>2 DEF Shapes
  <2> QED BY <2>2, <2>3 DEF Watched
<1>4. CASE Pack
  <2>1. run'.phase \in {"idle", "commit"}
    BY <1>0, <1>4, PackIs DEF Idle
  <2> QED BY <2>1, NothingWatched
<1>5. CASE Commit
  <2>1. run'.phase \in {"idle", "refresh"}
    BY <1>0, <1>5, CommitIs DEF Idle
  <2> QED BY <2>1, NothingWatched
<1>6. CASE Refresh
  <2>1. run'.phase \in {"idle", "end"}
    BY <1>6, RefreshIs DEF Idle
  <2> QED BY <2>1, NothingWatched
<1> QED BY <1>1, <1>2, <1>3, <1>4, <1>5, <1>6 DEF SyncStep

LEMMA FetchWatched ==
  ASSUME Sound, Watched, FetchStep
  PROVE  Watched'
<1>0. Shapes /\ CatGood(cat, born, held)
  BY LinedFirst DEF Sound, Bounds, Shapes
<1>1. CASE Select
  <2>1. run'.phase = "place" /\ run'.wanted = Wanted /\ UNCHANGED <<cat, disk>>
    BY <1>0, <1>1, SelectIs
  <2> QED BY <2>1 DEF Watched, Wanted
<1>2. CASE \E e \in DOMAIN cat : Publish(e)
  <2>1. PICK e \in DOMAIN cat : Publish(e)
    BY <1>2
  <2>2. run.phase = "place" /\ e \in run.wanted
    BY <2>1 DEF Publish, Free
  <2>3. \A f \in run.wanted : f \in DOMAIN cat /\ cat[f].path \in Mapped
    BY <2>2 DEF Sound, Planned
  <2>4. /\ UNCHANGED <<cat, calm>> /\ disk' = [disk EXCEPT ![cat[e].path] = cat[e].data]
        /\ run'.phase = "place" /\ run'.wanted = run.wanted \ {e}
    BY <1>0, <2>1, <2>2, <2>3, PublishIs
  <2>5. \A f \in run'.wanted : disk'[cat[f].path] = disk[cat[f].path]
    <3>1. \A f \in run'.wanted : cat[f].path # cat[e].path /\ cat[f].path \in Paths
      BY <1>0, <2>3, <2>4, PathFacts DEF CatGood
    <3> QED BY <1>0, <2>4, <3>1 DEF Shapes
  <2> QED BY <2>2, <2>4, <2>5 DEF Watched
<1>3. CASE PublishDone
  <2>1. run'.phase = "idle"
    BY <1>3 DEF PublishDone, Idle
  <2> QED BY <2>1, NothingWatched
<1> QED BY <1>1, <1>2, <1>3 DEF FetchStep

LEMMA OutsideWatched ==
  ASSUME Sound, Watched, Others \/ Person \/ Kill \/ Start("sync") \/ Start("fetch")
  PROVE  Watched'
<1>1. CASE Others
  <2>1. UNCHANGED <<cat, disk, run, calm>> /\ held \subseteq held'
    BY <1>1 DEF Others, OtherRename, OtherSwap, OtherRemove, OtherUpdate, OtherAdd, Committed, fileVars
  <2> QED BY <2>1 DEF Watched
<1>2. CASE Person
  <2>1. UNCHANGED <<cat, run, held>> /\ calm' = (run = Idle /\ calm)
    BY <1>2 DEF Person, Write, TakeAway, Move, Copy, Touch
  <2>2. CASE run = Idle
    <3>1. run'.phase = "idle"
      BY <2>1, <2>2 DEF Idle
    <3> QED BY <3>1, NothingWatched
  <2>3. CASE run # Idle
    <3>1. calm' = FALSE
      BY <2>1, <2>3
    <3> QED BY <2>1, <3>1 DEF Watched
  <2> QED BY <2>2, <2>3
<1>3. CASE Kill
  <2>1. run'.phase = "idle"
    BY <1>3 DEF Kill, Idle
  <2> QED BY <2>1, NothingWatched
<1>4. CASE Start("sync") \/ Start("fetch")
  <2>1. run'.phase = "look"
    BY <1>4 DEF Start
  <2> QED BY <2>1, NothingWatched
<1> QED BY <1>1, <1>2, <1>3, <1>4

LEMMA NextWatched == ASSUME Sound, Watched, [Next]_vars PROVE Watched'
<1>1. CASE UNCHANGED vars
  <2>1. UNCHANGED <<cat, disk, run, calm, held>>
    BY <1>1 DEF vars, fileVars, libraryVars
  <2> QED BY <2>1 DEF Watched
<1> QED BY <1>1, OutsideWatched, LookWatched, RelocateWatched, SyncWatched, FetchWatched DEF Next

\* What a step takes from the disk.
Kept == \A p \in Paths : disk[p] \in held \cup {NoFile} \/ disk[p] \in Range(disk')

LEMMA KeptOfDisk ==
  ASSUME Shapes, disk' = disk
  PROVE  Kept
  BY DEF Kept, Shapes, Range

LEMMA KeptBut ==
  ASSUME Shapes, NEW p \in Paths, NEW x, disk' = [disk EXCEPT ![p] = x], disk[p] \in held \cup {NoFile}
  PROVE  Kept
<1>1. \A q \in Paths : q # p => disk'[q] = disk[q]
  BY DEF Shapes
<1>2. DOMAIN disk' = Paths
  BY DEF Shapes
<1> QED BY <1>1, <1>2 DEF Kept, Range

LEMMA StepKeeps ==
  ASSUME Sound, Watched, Next, left'.person = left.person, calm \/ run.phase \notin {"decide", "depart", "place"}
  PROVE  Kept
<1>0. Shapes /\ Tidy /\ CatGood(cat, born, held)
  BY LinedFirst DEF Sound, Bounds, Shapes
<1>1. CASE Others \/ Kill \/ Start("sync") \/ Start("fetch") \/ Look \/ Scan \/ Forget \/ Pack \/ Commit \/ Refresh \/ Select \/ PublishDone
  <2>1. disk' = disk
    BY <1>1 DEF Others, OtherRename, OtherSwap, OtherRemove, OtherUpdate, OtherAdd, Committed, fileVars, Kill, Start, Look,
                Scan, Forget, Pack, Commit, Refresh, Select, PublishDone
  <2> QED BY <1>0, <2>1, KeptOfDisk
<1>2. CASE Person
  <2>1. left.person > 0 /\ left' = [left EXCEPT !.person = @ - 1]
    BY <1>2 DEF Person, Write, TakeAway, Move, Copy, Touch
  <2>2. left'.person = left.person - 1 /\ left.person \in Nat
    BY <1>0, <2>1 DEF Shapes
  <2> QED BY <2>2
<1>3. CASE FinishNext \/ FinishDone \/ DecideDone \/ BeginCycle \/ MovesDone \/ RecordIt \/ FollowNext \/ FollowDone
  <2>1. disk' = disk
    BY <1>3 DEF FinishNext, FinishDone, DecideDone, BeginCycle, MovesDone, RecordIt, FollowNext, FollowDone
  <2> QED BY <1>0, <2>1, KeptOfDisk
<1>4. CASE DecideNext
  <2>1. PICK p \in run.todo :
             /\ p \in Mapped /\ p \in DOMAIN run.looks /\ run.phase = "decide"
             /\ \/ disk' = disk
                \/ Decision(p) = "discard" /\ disk' = [disk EXCEPT ![p] = NoFile]
    BY <1>0, <1>4, DecideNextIs
  <2>2. CASE disk' = disk
    BY <1>0, <2>2, KeptOfDisk
  <2>3. CASE Decision(p) = "discard" /\ disk' = [disk EXCEPT ![p] = NoFile]
    <3>1. run.looks[p].source = run.looks[p].data
      BY <2>3 DEF Decision
    <3>2. run.looks[p].source = disk[p] /\ run.looks[p].data \in held
      BY <2>1 DEF Watched
    <3>3. p \in Paths
      BY <2>1, PathFacts
    <3> QED BY <1>0, <2>3, <3>1, <3>2, <3>3, KeptBut
  <2> QED BY <2>1, <2>2, <2>3
<1>5. CASE \E p \in Paths : MoveOne(p)
  <2>1. PICK p \in Paths : MoveOne(p)
    BY <1>5
  <2>2. PICK q \in Mapped : q = run.pending[p]
    BY <1>0, <2>1, MoveOneIs
  <2>3. \/ disk' = disk
        \/ disk[p] # NoFile /\ disk[q] = NoFile /\ disk' = [disk EXCEPT ![q] = disk[p], ![p] = NoFile]
    BY <1>0, <2>1, <2>2, MoveOneIs
  <2>4. CASE disk' = disk
    BY <1>0, <2>4, KeptOfDisk
  <2>5. CASE disk[p] # NoFile /\ disk[q] = NoFile /\ disk' = [disk EXCEPT ![q] = disk[p], ![p] = NoFile]
    <3>1. q \in Paths /\ q # p
      BY <2>5, PathFacts
    <3>2. DOMAIN disk' = Paths /\ disk'[q] = disk[p] /\ \A r \in Paths : r # p /\ r # q => disk'[r] = disk[r]
      BY <1>0, <2>5, <3>1 DEF Shapes
    <3> QED BY <2>5, <3>1, <3>2 DEF Kept, Range
  <2> QED BY <2>3, <2>4, <2>5
<1>6. CASE ExchangeNext
  <2>1. \/ disk' = disk
        \/ \E p, q \in Mapped : disk' = [disk EXCEPT ![p] = disk[q], ![q] = disk[p]]
    BY <1>0, <1>6, ExchangeNextIs
  <2>2. CASE disk' = disk
    BY <1>0, <2>2, KeptOfDisk
  <2>3. CASE \E p, q \in Mapped : disk' = [disk EXCEPT ![p] = disk[q], ![q] = disk[p]]
    <3>1. PICK p \in Mapped, q \in Mapped : disk' = [disk EXCEPT ![p] = disk[q], ![q] = disk[p]]
      BY <2>3
    <3>2. p \in Paths /\ q \in Paths
      BY PathFacts
    <3>3. /\ DOMAIN disk' = Paths /\ disk'[q] = disk[p] /\ disk'[p] = disk[q]
          /\ \A r \in Paths : r # p /\ r # q => disk'[r] = disk[r]
      BY <1>0, <3>1, <3>2 DEF Shapes
    <3> QED BY <3>2, <3>3 DEF Kept, Range
  <2> QED BY <2>1, <2>2, <2>3
<1>7. CASE \E p \in Paths : DiscardDeparted(p)
  <2>1. PICK p \in Paths : DiscardDeparted(p)
    BY <1>7
  <2>2. run.phase = "depart" /\ p \in run.departed /\ (disk' = disk \/ disk' = [disk EXCEPT ![p] = NoFile])
    BY <1>0, <2>1, DiscardDepartedIs
  <2>3. disk[p] \in held
    BY <2>2 DEF Watched
  <2> QED BY <1>0, <2>2, <2>3, KeptOfDisk, KeptBut
<1>8. CASE \E e \in DOMAIN cat : Publish(e)
  <2>1. PICK e \in DOMAIN cat : Publish(e)
    BY <1>8
  <2>2. run.phase = "place" /\ e \in run.wanted /\ disk' = [disk EXCEPT ![cat[e].path] = cat[e].data]
    BY <2>1 DEF Publish, Free
  <2>3. disk[cat[e].path] = NoFile
    BY <2>2 DEF Watched
  <2>4. PICK p \in Paths : p = cat[e].path
    BY <1>0, CatalogIs DEF Shapes
  <2> QED BY <1>0, <2>2, <2>3, <2>4, KeptBut
<1> QED BY <1>1, <1>2, <1>3, <1>4, <1>5, <1>6, <1>7, <1>8 DEF Next, SyncStep, FetchStep, Relocate, RelocationStep

LEMMA InitWatched == Init => Watched
<1>1. Init => run.phase = "idle"
  BY DEF Init, Idle
<1> QED BY <1>1 DEF Watched

\* No step of a run takes from the disk a content that no record of the Library ever held.
THEOREM SpecKeepsPersonsWork == Spec => PersonsWorkStays
<1>1. Init => Sound /\ Watched
  BY InitSound, InitWatched
<1>2. ASSUME Sound, Watched, [Next]_vars PROVE Sound' /\ Watched'
  BY <1>2, NextSound, NextWatched
<1>3. ASSUME Sound, Watched, [Next]_vars
      PROVE  [(left'.person = left.person /\ (calm \/ run.phase \notin {"decide", "depart", "place"}))
                => \A p \in Paths : disk[p] \in held \cup {NoFile} \/ disk[p] \in Range(disk')]_vars
  BY <1>3, StepKeeps DEF Kept
<1> QED BY <1>1, <1>2, <1>3, PTL DEF Spec, PersonsWorkStays

-----------------------------------------------------------------------------
\* A file waits only for what the code refuses.

\* What the last step of the argument needs of the files that may be refused: an edited file
\* and one whose place is taken are, and so is one behind such a file.
LEMMA BlockedIs ==
  ASSUME NEW p \in Mapped, Waits(cat, rec, p)
  PROVE  /\ disk[p] # rec[p].data => p \in Blocked
         /\ Taken(p) => p \in Blocked
         /\ WaitsFor(cat, rec, p) \in Blocked /\ disk[WaitsFor(cat, rec, p)] # NoFile => p \in Blocked
<1> DEFINE waiting == {q \in Mapped : Waits(cat, rec, q)}
           refused == {q \in waiting : disk[q] # rec[q].data \/ Taken(q)}
           Behind(S) == {q \in waiting : WaitsFor(cat, rec, q) \in S /\ disk[WaitsFor(cat, rec, q)] # NoFile}
<1>1. Blocked = {q \in waiting : \A S \in SUBSET waiting : refused \cup Behind(S) \subseteq S => q \in S}
  BY DEF Blocked
<1>2. p \in waiting
  OBVIOUS
<1>3. p \in refused => p \in Blocked
  <2> HIDE DEF refused, Behind, waiting
  <2> QED BY <1>1, <1>2
<1>4. ASSUME WaitsFor(cat, rec, p) \in Blocked, disk[WaitsFor(cat, rec, p)] # NoFile
      PROVE  p \in Blocked
  <2>1. ASSUME NEW S \in SUBSET waiting, refused \cup Behind(S) \subseteq S
        PROVE  p \in S
    <3>1. WaitsFor(cat, rec, p) \in S
      <4> HIDE DEF refused, Behind, waiting
      <4> QED BY <1>1, <1>4, <2>1
    <3>2. p \in Behind(S)
      BY <1>2, <1>4, <3>1
    <3> HIDE DEF Behind
    <3> QED BY <2>1, <3>2
  <2> HIDE DEF refused, Behind, waiting
  <2> QED BY <1>1, <1>2, <2>1
<1>5. disk[p] # rec[p].data \/ Taken(p) => p \in refused
  BY <1>2
<1> QED BY <1>3, <1>4, <1>5

Stuck(p) == p \in Blocked /\ disk[p] # NoFile

\* While a relocation nobody disturbed has changed nothing, what it saw is what is there,
\* and each waiting file is still to be decided, was gone, is about to move, or may be refused.
Refusing ==
  (run.phase \in Relocs /\ calm /\ run.changed = FALSE) =>
    /\ run.looks = Looks /\ run.touched = {} /\ run.owed = NothingOwed
    /\ run.phase # "finish" => \A p \in DOMAIN run.looks :
         p \in run.todo \/ p \in run.gone \/ p \in DOMAIN run.pending \/ p \in Range(run.cycle) \/ Stuck(p)
    /\ \A p : p \in DOMAIN run.pending \/ p \in Range(run.cycle) =>
         /\ p \in DOMAIN run.looks /\ disk[p] # NoFile /\ run.looks[p].to \in Mapped
         /\ run.looks[p].target = NoFile \/ Waits(cat, rec, run.looks[p].to)
    /\ \A p \in run.gone : disk[p] = NoFile
    /\ run.cycle # <<>> => Len(run.cycle) >= 2

LEMMA IdlyRefusing ==
  ASSUME run'.phase \notin Relocs \/ ~calm' \/ run'.changed # FALSE
  PROVE  Refusing'
  BY DEF Refusing

LEMMA StillStuck ==
  ASSUME UNCHANGED <<cat, rec, disk>>
  PROVE  Looks' = Looks /\ Blocked' = Blocked /\ \A p : Stuck(p)' <=> Stuck(p)
<1>1. Looks' = Looks
  BY DEF Looks, Waits, WaitsFor
<1>2. Blocked' = Blocked
  BY DEF Blocked, Taken, Waits, WaitsFor
<1> QED BY <1>1, <1>2 DEF Stuck

\* A step that leaves the Index and the disk as they are keeps it, where what is to be
\* decided, is gone, or is about to move changes as said.
LEMMA StillRefusing ==
  ASSUME Refusing, run.phase \in Relocs, UNCHANGED <<cat, rec, disk, calm>>, run'.changed = run.changed,
         calm => run'.looks = run.looks, run'.touched = run.touched, run'.owed = NothingOwed,
         (calm /\ run.changed = FALSE /\ run.phase # "finish") =>
           \A p \in DOMAIN run.looks :
             (p \in run.todo \/ p \in run.gone \/ p \in DOMAIN run.pending \/ p \in Range(run.cycle)) =>
             (p \in run'.todo \/ p \in run'.gone \/ p \in DOMAIN run'.pending \/ p \in Range(run'.cycle) \/ Stuck(p)),
         (calm /\ run.changed = FALSE /\ run.phase = "finish" /\ run'.phase # "finish") => DOMAIN run.looks \subseteq run'.todo,
         (calm /\ run.changed = FALSE) =>
           \A p : (p \in DOMAIN run'.pending \/ p \in Range(run'.cycle)) =>
             \/ p \in DOMAIN run.pending \/ p \in Range(run.cycle)
             \/ /\ p \in DOMAIN run.looks /\ disk[p] # NoFile /\ run.looks[p].to \in Mapped
                /\ run.looks[p].target = NoFile \/ Waits(cat, rec, run.looks[p].to),
         (calm /\ run.changed = FALSE) => \A p \in run'.gone : p \in run.gone \/ disk[p] = NoFile,
         (calm /\ run.changed = FALSE) => (run'.cycle # <<>> => Len(run'.cycle) >= 2),
         run'.phase = "finish" => run.phase = "finish"
  PROVE  Refusing'
<1> SUFFICES ASSUME run'.phase \in Relocs, calm', run'.changed = FALSE
             PROVE  /\ run'.looks = Looks' /\ run'.touched = {} /\ run'.owed = NothingOwed
                    /\ run'.phase # "finish" => \A p \in DOMAIN run'.looks :
                         p \in run'.todo \/ p \in run'.gone \/ p \in DOMAIN run'.pending \/ p \in Range(run'.cycle) \/ Stuck(p)'
                    /\ \A p : p \in DOMAIN run'.pending \/ p \in Range(run'.cycle) =>
                         /\ p \in DOMAIN run'.looks /\ disk'[p] # NoFile /\ run'.looks[p].to \in Mapped
                         /\ run'.looks[p].target = NoFile \/ Waits(cat', rec', run'.looks[p].to)
                    /\ \A p \in run'.gone : disk'[p] = NoFile
                    /\ run'.cycle # <<>> => Len(run'.cycle) >= 2
  BY DEF Refusing
<1>1. calm /\ run.changed = FALSE
  OBVIOUS
<1>2. /\ run.looks = Looks /\ run.touched = {}
      /\ run.phase # "finish" => \A p \in DOMAIN run.looks :
           p \in run.todo \/ p \in run.gone \/ p \in DOMAIN run.pending \/ p \in Range(run.cycle) \/ Stuck(p)
      /\ \A p : p \in DOMAIN run.pending \/ p \in Range(run.cycle) =>
           /\ p \in DOMAIN run.looks /\ disk[p] # NoFile /\ run.looks[p].to \in Mapped
           /\ run.looks[p].target = NoFile \/ Waits(cat, rec, run.looks[p].to)
      /\ \A p \in run.gone : disk[p] = NoFile
  BY <1>1 DEF Refusing
<1>3. Looks' = Looks /\ \A p : Stuck(p)' <=> Stuck(p)
  BY StillStuck
<1>4. run'.looks = Looks' /\ run'.touched = {}
  BY <1>1, <1>2, <1>3
<1>5. run'.phase # "finish" => \A p \in DOMAIN run'.looks :
        p \in run'.todo \/ p \in run'.gone \/ p \in DOMAIN run'.pending \/ p \in Range(run'.cycle) \/ Stuck(p)'
  BY <1>1, <1>2, <1>3
<1>6. \A p : p \in DOMAIN run'.pending \/ p \in Range(run'.cycle) =>
           /\ p \in DOMAIN run'.looks /\ disk'[p] # NoFile /\ run'.looks[p].to \in Mapped
           /\ run'.looks[p].target = NoFile \/ Waits(cat', rec', run'.looks[p].to)
  BY <1>1, <1>2
<1>7. (\A p \in run'.gone : disk'[p] = NoFile) /\ (run'.cycle # <<>> => Len(run'.cycle) >= 2)
  BY <1>1, <1>2
<1> QED BY <1>4, <1>5, <1>6, <1>7

LEMMA DecideRefusing ==
  ASSUME Sound, Refusing, DecideNext
  PROVE  Refusing'
<1>0. Shapes /\ Tidy
  BY DEF Sound
<1>1. PICK p \in run.todo :
           /\ p \in Mapped /\ p \in DOMAIN run.looks
           /\ run.phase = "decide" /\ run.owed = NothingOwed
           /\ DecideKeeps(p)
           /\ \/ /\ Decision(p) \in {"discard", "refuse"} /\ (Decision(p) = "discard" => disk[p] = NoFile)
                 /\ UNCHANGED <<rec, disk, own>> /\ run'.owed = NothingOwed
                 /\ run'.pending = run.pending /\ run'.gone = run.gone /\ run'.changed = run.changed
              \/ run'.changed = TRUE
              \/ /\ Decision(p) = "gone"
                 /\ UNCHANGED <<rec, disk, own>> /\ run'.owed = NothingOwed
                 /\ run'.pending = run.pending /\ run'.gone = run.gone \cup {p}
                 /\ run'.changed = run.changed
              \/ /\ Decision(p) = "move"
                 /\ UNCHANGED <<rec, disk, own>> /\ run'.owed = NothingOwed
                 /\ DOMAIN run'.pending = DOMAIN run.pending \cup {p}
                 /\ run'.gone = run.gone /\ run'.changed = run.changed
  BY <1>0, DecideNextIs
<1>2. CASE run'.changed = TRUE
  BY <1>2, IdlyRefusing
<1>3. SUFFICES ASSUME calm, run.changed = FALSE
      PROVE  Refusing'
  <2>1. calm' = calm /\ run'.changed \in {run.changed, TRUE}
    BY <1>1 DEF DecideKeeps
  <2>2. run.changed \in BOOLEAN
    BY <1>0, <1>1, RelocFields DEF Relocs
  <2> QED BY <1>3, <2>1, <2>2, IdlyRefusing
<1>4. run.phase \in Relocs /\ run.cycle = <<>> /\ run.looks = Looks
  BY <1>0, <1>1, <1>3 DEF Tidy, Relocs, Refusing
<1>5. LET one == run.looks[p] IN
        /\ Waits(cat, rec, p) /\ one.to = WaitsFor(cat, rec, p) /\ one.entry = rec[p].entry
        /\ one.data = rec[p].data /\ one.source = disk[p]
        /\ one.target = IF one.to \in Mapped THEN disk[one.to] ELSE NoFile
  BY <1>1, <1>4, LooksAre
<1>6. /\ run'.cycle = run.cycle /\ run'.looks = run.looks /\ run'.touched = run.touched
      /\ run'.todo = run.todo \ {p} /\ run'.phase = "decide" /\ UNCHANGED <<cat, calm>>
  BY <1>1 DEF DecideKeeps
<1>7. Range(<<>>) = {}
  BY DEF Range
<1>8. CASE Decision(p) \in {"discard", "refuse"} /\ (Decision(p) = "discard" => disk[p] = NoFile)
           /\ UNCHANGED <<rec, disk, own>> /\ run'.owed = NothingOwed
           /\ run'.pending = run.pending /\ run'.gone = run.gone /\ run'.changed = run.changed
  <2>1. Decision(p) = "refuse"
    BY <1>5, <1>8 DEF Decision
  <2>2. LET one == run.looks[p] IN
              /\ one.source # NoFile
              /\ \/ one.source # one.data
                 \/ one.target # NoFile /\ ~Redundant(p) /\ ~Waits(cat, rec, one.to) /\ one.to \in Mapped
    BY <2>1, DecisionIs
  <2>3. disk[p] # NoFile /\ (disk[p] # rec[p].data \/ Taken(p))
    BY <1>5, <2>2 DEF Taken, Redundant
  <2>4. Stuck(p)
    BY <1>1, <1>5, <2>3, BlockedIs DEF Stuck
  <2> QED BY <1>1, <1>3, <1>4, <1>6, <1>7, <1>8, <2>4, StillRefusing
<1>9. CASE Decision(p) = "gone"
           /\ UNCHANGED <<rec, disk, own>> /\ run'.owed = NothingOwed
           /\ run'.pending = run.pending /\ run'.gone = run.gone \cup {p}
           /\ run'.changed = run.changed
  <2>1. disk[p] = NoFile
    BY <1>5, <1>9, DecisionIs
  <2> QED BY <1>1, <1>3, <1>4, <1>6, <1>7, <1>9, <2>1, StillRefusing
<1>10. CASE Decision(p) = "move"
            /\ UNCHANGED <<rec, disk, own>> /\ run'.owed = NothingOwed
            /\ DOMAIN run'.pending = DOMAIN run.pending \cup {p}
            /\ run'.gone = run.gone /\ run'.changed = run.changed
  <2>1. LET one == run.looks[p] IN
          /\ one.source # NoFile /\ one.to \in Mapped
          /\ one.target = NoFile \/ Waits(cat, rec, one.to)
    BY <1>10 DEF Decision
  <2>2. disk[p] # NoFile
    BY <1>5, <2>1
  <2> QED BY <1>1, <1>3, <1>4, <1>6, <1>7, <1>10, <2>1, <2>2, StillRefusing
<1> QED BY <1>1, <1>2, <1>8, <1>9, <1>10

LEMMA MoveRefusing ==
  ASSUME Sound, Refusing, NEW p \in Paths, MoveOne(p)
  PROVE  Refusing'
<1>0. Shapes /\ Tidy
  BY DEF Sound
<1>1. PICK to \in Mapped : to = run.pending[p]
  BY <1>0, MoveOneIs
<1>2. /\ MoveKeeps /\ run.cycle = <<>> /\ run'.cycle = <<>>
      /\ p \in DOMAIN run.pending /\ p \in Mapped /\ to \notin DOMAIN run.pending
      /\ DOMAIN run'.pending = DOMAIN run.pending \ {p}
      /\ \/ run'.changed = TRUE
         \/ /\ disk[p] = NoFile \/ disk[to] # NoFile
            /\ UNCHANGED <<disk, own>> /\ run'.owed = NothingOwed /\ run'.changed = run.changed
  BY <1>0, <1>1, MoveOneIs
<1>3. CASE run'.changed = TRUE
  BY <1>3, IdlyRefusing
<1>4. CASE ~calm \/ run.changed # FALSE
  <2>1. calm' = calm
    BY <1>2 DEF MoveKeeps
  <2> QED BY <1>2, <1>3, <1>4, <2>1, IdlyRefusing
<1>5. CASE calm /\ run.changed = FALSE /\ (disk[p] = NoFile \/ disk[to] # NoFile)
           /\ UNCHANGED <<disk, own>> /\ run'.owed = NothingOwed /\ run'.changed = run.changed
  <2>1. run.phase = "move" /\ run.phase \in Relocs /\ run.todo = {} /\ to = run.looks[p].to
    BY <1>0, <1>1, <1>2 DEF Tidy, MoveKeeps, Relocs
  <2>2. /\ run.looks = Looks /\ p \in DOMAIN run.looks /\ disk[p] # NoFile
        /\ run.looks[p].target = NoFile \/ Waits(cat, rec, to)
        /\ \A q \in run.gone : disk[q] = NoFile
        /\ \A q \in DOMAIN run.looks :
             q \in run.gone \/ q \in DOMAIN run.pending \/ q \in Range(run.cycle) \/ Stuck(q)
    BY <1>2, <1>5, <2>1 DEF Refusing
  <2>3. disk[to] # NoFile /\ Waits(cat, rec, p) /\ to = WaitsFor(cat, rec, p) /\ run.looks[p].target = disk[to]
    BY <1>5, <2>1, <2>2, LooksAre
  <2>4. Waits(cat, rec, to) /\ to \in DOMAIN run.looks
    BY <2>2, <2>3, LooksAre
  <2>5. Range(run.cycle) = {}
    BY <1>2 DEF Range
  <2>6. Stuck(to)
    BY <1>2, <2>2, <2>3, <2>4, <2>5
  <2>7. Stuck(p)
    BY <1>2, <2>2, <2>3, <2>6, BlockedIs DEF Stuck
  <2>8. /\ run'.looks = run.looks /\ run'.todo = run.todo /\ run'.touched = run.touched
        /\ run'.gone = run.gone /\ run'.phase = "move" /\ UNCHANGED <<cat, rec, calm>>
    BY <1>2 DEF MoveKeeps
  <2> QED BY <1>2, <1>5, <2>1, <2>7, <2>8, StillRefusing
<1> QED BY <1>2, <1>3, <1>4, <1>5

LEMMA CycleRefusing ==
  ASSUME Sound, Refusing, BeginCycle
  PROVE  Refusing'
<1>0. Shapes /\ Tidy
  BY DEF Sound
<1>1. /\ MoveKeeps /\ run.cycle = <<>>
      /\ UNCHANGED <<disk, own>> /\ run'.owed = NothingOwed /\ run'.changed = run.changed
      /\ Circle(run.pending, run'.cycle)
      /\ DOMAIN run'.pending = DOMAIN run.pending \ Range(run'.cycle)
  BY <1>0, BeginCycleIs
<1>2. /\ run.phase = "move" /\ run.phase \in Relocs
      /\ run'.looks = run.looks /\ run'.todo = run.todo /\ run'.touched = run.touched
      /\ run'.gone = run.gone /\ run'.phase = "move" /\ UNCHANGED <<cat, rec, calm>>
  BY <1>1 DEF MoveKeeps, Relocs
<1> DEFINE c == run'.cycle
<1>3. c \in Seq(DOMAIN run.pending) /\ Len(c) >= 1
  BY <1>1 DEF Circle
<1>4. \A q \in Range(c) : q \in DOMAIN run.pending
  BY <1>3 DEF Range
<1>5. ASSUME calm, run.changed = FALSE
      PROVE  Len(c) >= 2
  <2>1. CASE Len(c) = 1
    <3>1. c[1] \in DOMAIN run.pending /\ run.pending[c[1]] = c[1]
      <4>1. 1 \in 1 .. Len(c)
        BY <2>1
      <4>2. run.pending[c[1]] = c[IF 1 = Len(c) THEN 1 ELSE 1 + 1]
        BY <1>1, <4>1 DEF Circle
      <4>3. c[1] \in DOMAIN run.pending
        BY <1>3, <4>1
      <4> QED BY <2>1, <4>2, <4>3
    <3>2. c[1] \in DOMAIN run.looks /\ run.looks[c[1]].to = c[1]
      BY <1>0, <1>2, <3>1 DEF Tidy
    <3>3. run.looks = Looks
      BY <1>2, <1>5 DEF Refusing
    <3> QED BY <3>2, <3>3, LooksAre DEF Waits, WaitsFor
  <2> HIDE DEF c
  <2>2. PICK n \in Nat : n = Len(c)
    BY <1>3
  <2>3. n >= 1 /\ (n = 1 => n >= 2)
    BY <1>3, <2>1, <2>2
  <2>4. n >= 2
    BY <2>3
  <2> QED BY <2>2, <2>4
<1> HIDE DEF c
<1>6. Range(run.cycle) = {}
  BY <1>1 DEF Range
<1>7. DOMAIN run'.pending = DOMAIN run.pending \ Range(c) /\ run'.cycle = c
  BY <1>1 DEF c
<1>8. \A p : (p \in DOMAIN run'.pending \/ p \in Range(run'.cycle)) <=> p \in DOMAIN run.pending
  BY <1>4, <1>7
<1> QED BY <1>1, <1>2, <1>5, <1>6, <1>7, <1>8, StillRefusing

LEMMA ExchangeRefusing ==
  ASSUME Sound, Refusing, ExchangeNext
  PROVE  Refusing'
<1>0. Shapes /\ Tidy
  BY DEF Sound
<1>1. /\ MoveKeeps /\ run.cycle # <<>>
      /\ \/ /\ Len(run.cycle) = 1 \/ disk[run.cycle[1]] = NoFile \/ disk[run.cycle[2]] = NoFile
            /\ run'.changed = run.changed
         \/ run'.changed = TRUE
  BY <1>0, ExchangeNextIs
<1>2. CASE run'.changed = TRUE
  BY <1>2, IdlyRefusing
<1>3. CASE ~calm \/ run.changed # FALSE
  BY <1>1, <1>2, <1>3, IdlyRefusing DEF MoveKeeps
<1>4. ASSUME calm, run.changed = FALSE, Len(run.cycle) = 1 \/ disk[run.cycle[1]] = NoFile \/ disk[run.cycle[2]] = NoFile
      PROVE  FALSE
  <2>1. run.phase \in Relocs
    BY <1>1 DEF MoveKeeps, Relocs
  <2>2. Len(run.cycle) >= 2 /\ \A p \in Range(run.cycle) : disk[p] # NoFile
    BY <1>1, <1>4, <2>1 DEF Refusing
  <2>3. run.cycle \in Seq(Mapped)
    BY <1>0, <2>1, RelocFields
  <2>4. 1 \in DOMAIN run.cycle /\ 2 \in DOMAIN run.cycle /\ Len(run.cycle) # 1
    BY <2>2, <2>3
  <2>5. run.cycle[1] \in Range(run.cycle) /\ run.cycle[2] \in Range(run.cycle)
    BY <2>4 DEF Range
  <2> QED BY <1>4, <2>2, <2>4, <2>5
<1> QED BY <1>1, <1>2, <1>3, <1>4

\* A run that finished what another left has changed something.
Touching == run.phase \in Relocs /\ run.touched # {} => run.changed = TRUE

LEMMA OutOfRelocation ==
  ASSUME Sound, Scan \/ Forget \/ (\E p \in Paths : DiscardDeparted(p)) \/ Pack \/ Commit \/ Refresh \/ FetchStep
                  \/ Kill \/ Start("sync") \/ Start("fetch")
  PROVE  run'.phase \notin Relocs
<1> USE DEF Relocs
<1>0. Shapes /\ Idle.phase \notin Relocs
  BY DEF Sound, Idle
<1>1. CASE Scan
  BY <1>0, <1>1, ScanIs
<1>2. CASE Forget
  BY <1>0, <1>2, ForgetIs
<1>3. CASE \E p \in Paths : DiscardDeparted(p)
  BY <1>0, <1>3, DiscardDepartedIs
<1>4. CASE Pack
  BY <1>0, <1>4, PackIs
<1>5. CASE Commit
  <2>1. run'.phase \in {"idle", "refresh"}
    BY <1>0, <1>5, CommitIs DEF Idle
  <2> QED BY <2>1
<1>6. CASE Refresh
  <2>1. run'.phase \in {"idle", "end"}
    BY <1>6, RefreshIs DEF Idle
  <2> QED BY <2>1
<1>7. CASE FetchStep
  <2>1. CASE Select
    BY <2>1 DEF Select
  <2>2. CASE \E e \in DOMAIN cat : Publish(e)
    <3>1. PICK e \in DOMAIN cat : Publish(e)
      BY <2>2
    <3>2. run.phase = "place" /\ e \in run.wanted
      BY <3>1 DEF Publish, Free
    <3>3. cat[e].path \in Mapped
      BY <3>2 DEF Sound, Planned
    <3> QED BY <1>0, <3>1, <3>3, PublishIs
  <2>3. CASE PublishDone
    BY <1>0, <2>3 DEF PublishDone
  <2> QED BY <1>7, <2>1, <2>2, <2>3 DEF FetchStep
<1>8. CASE Kill \/ Start("sync") \/ Start("fetch")
  BY <1>0, <1>8 DEF Kill, Start
<1> QED BY <1>1, <1>2, <1>3, <1>4, <1>5, <1>6, <1>7, <1>8

LEMMA LookIs ==
  ASSUME Look
  PROVE  /\ run'.phase = "finish" /\ run'.looks = Looks /\ run'.touched = {} /\ run'.owed = NothingOwed
         /\ run'.pending = <<>> /\ run'.cycle = <<>> /\ run'.gone = {}
         /\ UNCHANGED <<cat, rec, disk>>
  BY DEF Look, Relocating

LEMMA NextTouching ==
  ASSUME Sound, Touching, [Next]_vars
  PROVE  Touching'
<1>0. Shapes /\ Tidy
  BY DEF Sound
<1>1. CASE UNCHANGED run
  BY <1>1 DEF Touching
<1>2. CASE run'.phase \notin Relocs
  BY <1>2 DEF Touching
<1>3. CASE Look
  BY <1>3, LookIs DEF Touching
<1>4. ASSUME RelocationStep, run'.phase \in Relocs
      PROVE  run'.changed = TRUE \/ (run.phase \in Relocs /\ run'.touched = run.touched /\ run'.changed = run.changed)
  <2> USE DEF Relocs
  <2>1. CASE FinishNext
    BY <1>0, <2>1, FinishNextIs
  <2>2. CASE FinishDone
    BY <1>0, <2>2, FinishDoneIs
  <2>3. CASE DecideNext
    BY <1>0, <2>3, DecideNextIs DEF DecideKeeps
  <2>4. CASE DecideDone
    BY <1>0, <2>4, DecideDoneIs
  <2>5. CASE \E p \in Paths : MoveOne(p)
    BY <1>0, <2>5, MoveOneIs DEF MoveKeeps
  <2>6. CASE BeginCycle
    BY <1>0, <2>6, BeginCycleIs DEF MoveKeeps
  <2>7. CASE ExchangeNext
    BY <1>0, <2>7, ExchangeNextIs DEF MoveKeeps
  <2>8. CASE MovesDone
    BY <1>0, <2>8, MovesDoneIs
  <2>9. CASE RecordIt
    <3>1. Idle.phase \notin Relocs
      BY DEF Idle
    <3>2. run.phase # "end"
      BY <1>0, <1>4, <2>9, <3>1, RecordItIs
    <3> QED BY <1>0, <1>4, <2>9, <3>2, RecordItIs
  <2>10. CASE FollowNext
    BY <1>0, <2>10, FollowNextIs
  <2>11. CASE FollowDone
    BY <1>0, <2>11, FollowDoneIs
  <2> QED BY <1>4, <2>1, <2>2, <2>3, <2>4, <2>5, <2>6, <2>7, <2>8, <2>9, <2>10, <2>11 DEF RelocationStep
<1>5. CASE RelocationStep
  BY <1>2, <1>4, <1>5 DEF Touching
<1>6. CASE Others \/ Person \/ UNCHANGED vars
  <2>1. UNCHANGED run
    BY <1>6 DEF Others, OtherRename, OtherSwap, OtherRemove, OtherUpdate, OtherAdd, Committed,
                Person, Write, TakeAway, Move, Copy, Touch, vars, fileVars
  <2> QED BY <1>1, <2>1
<1> QED BY <1>2, <1>3, <1>5, <1>6, OutOfRelocation DEF Next, SyncStep, Relocate

LEMMA RelocateRefusing ==
  ASSUME Sound, Touching, Refusing, RelocationStep
  PROVE  Refusing'
<1>0. Shapes /\ Tidy
  BY DEF Sound
<1>1. CASE FinishNext
  <2>1. /\ run.phase = "finish" /\ run.phase \in Relocs
        /\ UNCHANGED <<cat, disk, calm>> /\ run'.phase = "finish" /\ run'.owed = NothingOwed
        /\ run'.looks = run.looks /\ run'.pending = run.pending
        /\ run'.cycle = run.cycle /\ run'.gone = run.gone
        /\ \/ run'.changed = TRUE
           \/ rec' = rec /\ run'.touched = run.touched /\ run'.changed = run.changed
    BY <1>0, <1>1, FinishNextIs DEF Relocs
  <2>2. CASE run'.changed = TRUE
    BY <2>2, IdlyRefusing
  <2>3. CASE rec' = rec /\ run'.touched = run.touched /\ run'.changed = run.changed
    <3>1. (calm /\ run.changed = FALSE) => (run'.cycle # <<>> => Len(run'.cycle) >= 2)
      BY <2>1 DEF Refusing
    <3> QED BY <2>1, <2>3, <3>1, StillRefusing
  <2> QED BY <2>1, <2>2, <2>3
<1>2. CASE FinishDone
  <2>1. /\ run.phase = "finish" /\ run.phase \in Relocs
        /\ UNCHANGED <<cat, rec, disk>> /\ calm' = (calm \/ run.touched # {})
        /\ run'.phase = "decide" /\ run'.owed = NothingOwed
        /\ run'.looks = (IF run.touched = {} THEN run.looks ELSE Looks) /\ run'.todo = DOMAIN run'.looks
        /\ run'.touched = run.touched /\ run'.pending = run.pending /\ run'.cycle = run.cycle
        /\ run'.gone = run.gone /\ run'.changed = run.changed
    BY <1>0, <1>2, FinishDoneIs DEF Relocs
  <2>2. (calm /\ run.changed = FALSE) => (run'.cycle # <<>> => Len(run'.cycle) >= 2)
    BY <2>1 DEF Refusing
  <2>3. CASE run.touched = {}
    <3>1. calm' = calm /\ run'.looks = run.looks
      BY <1>0, <2>1, <2>3 DEF Shapes
    <3> QED BY <2>1, <2>2, <3>1, StillRefusing
  <2>4. CASE run.touched # {} /\ run.changed # FALSE
    BY <2>1, <2>4, IdlyRefusing
  <2>5. CASE run.touched # {} /\ run.changed = FALSE
    BY <2>1, <2>5 DEF Touching
  <2> QED BY <2>3, <2>4, <2>5
<1>3. CASE DecideDone
  <2>1. /\ run.phase = "decide" /\ run.phase \in Relocs /\ UNCHANGED <<cat, rec, disk, calm>>
        /\ run'.phase = "move" /\ run'.owed = NothingOwed
        /\ run'.looks = run.looks /\ run'.todo = run.todo /\ run'.touched = run.touched
        /\ run'.pending = run.pending /\ run'.cycle = run.cycle /\ run'.gone = run.gone
        /\ run'.changed = run.changed
    BY <1>0, <1>3, DecideDoneIs DEF Relocs
  <2>2. (calm /\ run.changed = FALSE) => (run'.cycle # <<>> => Len(run'.cycle) >= 2)
    BY <2>1 DEF Refusing
  <2> QED BY <2>1, <2>2, StillRefusing
<1>4. CASE MovesDone
  <2>1. /\ run.phase = "move" /\ run.phase \in Relocs /\ UNCHANGED <<cat, rec, disk, calm>>
        /\ run'.phase = "gone" /\ run'.owed = NothingOwed
        /\ run'.looks = run.looks /\ run'.todo = run.todo /\ run'.touched = run.touched
        /\ run'.pending = run.pending /\ run'.cycle = run.cycle /\ run'.gone = run.gone
        /\ run'.changed = run.changed
    BY <1>0, <1>4, MovesDoneIs DEF Relocs
  <2>2. (calm /\ run.changed = FALSE) => (run'.cycle # <<>> => Len(run'.cycle) >= 2)
    BY <2>1 DEF Refusing
  <2> QED BY <2>1, <2>2, StillRefusing
<1>5. CASE FollowDone
  <2>1. /\ run.phase = "gone" /\ run.phase \in Relocs /\ UNCHANGED <<cat, rec, disk, calm>>
        /\ run'.phase = "relocated" /\ run'.owed = NothingOwed
        /\ run'.looks = run.looks /\ run'.todo = run.todo /\ run'.touched = run.touched
        /\ run'.pending = run.pending /\ run'.cycle = run.cycle /\ run'.gone = run.gone
        /\ run'.changed = run.changed
    BY <1>0, <1>5, FollowDoneIs DEF Relocs
  <2>2. (calm /\ run.changed = FALSE) => (run'.cycle # <<>> => Len(run'.cycle) >= 2)
    BY <2>1 DEF Refusing
  <2> QED BY <2>1, <2>2, StillRefusing
<1>6. CASE FollowNext
  <2>1. run'.changed = TRUE
    BY <1>0, <1>6, FollowNextIs
  <2> QED BY <2>1, IdlyRefusing
<1>7. CASE RecordIt
  <2>1. /\ run.owed # NothingOwed /\ calm' = calm
        /\ (run.phase = "end" => run' = Idle) /\ (run.phase # "end" => run'.phase = run.phase)
        /\ run.phase \in Relocs => run'.changed = run.changed
    BY <1>0, <1>7, RecordItIs
  <2>2. ~(run.phase \in Relocs /\ calm /\ run.changed = FALSE)
    BY <2>1 DEF Refusing
  <2>3. Idle.phase \notin Relocs
    BY DEF Idle, Relocs
  <2> QED BY <2>1, <2>2, <2>3, IdlyRefusing
<1> QED BY <1>1, <1>2, <1>3, <1>4, <1>5, <1>6, <1>7, DecideRefusing, MoveRefusing, CycleRefusing, ExchangeRefusing
        DEF RelocationStep

LEMMA NextRefusing ==
  ASSUME Sound, Touching, Refusing, [Next]_vars
  PROVE  Refusing'
<1>0. Shapes /\ Tidy
  BY DEF Sound
<1>1. CASE run'.phase \notin Relocs
  BY <1>1, IdlyRefusing
<1>2. CASE Look
  <2>1. Looks' = Looks
    BY <1>2, LookIs, StillStuck
  <2>2. Range(<<>>) = {} /\ DOMAIN <<>> = {}
    BY DEF Range
  <2> QED BY <1>2, <2>1, <2>2, LookIs DEF Refusing
<1>3. CASE Person
  <2>1. run' = run /\ calm' = (run = Idle /\ calm)
    BY <1>3 DEF Person, Write, TakeAway, Move, Copy, Touch
  <2>2. Idle.phase \notin Relocs
    BY DEF Idle, Relocs
  <2>3. run'.phase \notin Relocs \/ ~calm'
    BY <2>1, <2>2
  <2> QED BY <2>3, IdlyRefusing
<1>4. CASE Others \/ UNCHANGED vars
  <2>1. UNCHANGED <<cat, rec, disk, run, calm>>
    BY <1>4 DEF Others, OtherRename, OtherSwap, OtherRemove, OtherUpdate, OtherAdd, Committed, vars, fileVars
  <2>2. Looks' = Looks /\ \A p : Stuck(p)' <=> Stuck(p)
    BY <2>1, StillStuck
  <2> QED BY <2>1, <2>2 DEF Refusing
<1> QED BY <1>1, <1>2, <1>3, <1>4, RelocateRefusing, OutOfRelocation DEF Next, SyncStep, Relocate

\* At the end of such a relocation the waiting files are the ones it saw, and none of them is to be
\* decided, gone or about to move any more.
LEMMA RefusedWait ==
  ASSUME Sound, Refusing
  PROVE  WaitsOnlyWhenRefused
<1> SUFFICES ASSUME run.phase = "relocated", calm, ~run.changed, NEW p \in Mapped, Waits(cat, rec, p)
             PROVE  p \in Blocked /\ disk[p] # NoFile
  BY DEF WaitsOnlyWhenRefused
<1>1. Shapes /\ Tidy /\ run.phase \in Relocs
  BY DEF Sound, Relocs
<1>2. run.changed = FALSE
  BY <1>1, RelocFields
<1>3. /\ run.looks = Looks
      /\ \A q \in DOMAIN run.looks :
           q \in run.todo \/ q \in run.gone \/ q \in DOMAIN run.pending \/ q \in Range(run.cycle) \/ Stuck(q)
  BY <1>1, <1>2 DEF Refusing
<1>4. run.todo = {} /\ run.gone = {} /\ DOMAIN run.pending = {} /\ Range(run.cycle) = {}
  BY <1>1 DEF Tidy, Range
<1>5. p \in DOMAIN run.looks
  BY <1>3, LooksAre
<1> QED BY <1>3, <1>4, <1>5 DEF Stuck

\* A relocation nobody disturbed and that had nothing to do leaves waiting only the files the code
\* refuses to move: edited ones, those whose place is taken, and those behind them.
THEOREM SpecWaitsOnlyWhenRefused == Spec => []WaitsOnlyWhenRefused
<1>1. Init => Sound /\ Touching /\ Refusing
  <2>1. Init => run.phase \notin Relocs
    BY DEF Init, Idle, Relocs
  <2> QED BY <2>1, InitSound DEF Touching, Refusing
<1>2. ASSUME Sound, Touching, Refusing, [Next]_vars PROVE Sound' /\ Touching' /\ Refusing'
  BY <1>2, NextSound, NextTouching, NextRefusing
<1> QED BY <1>1, <1>2, RefusedWait, PTL DEF Spec

-----------------------------------------------------------------------------
\* What a sync carries in is the person's: as long as nothing was left that no later
\* look tells, every file of the device's waits, is as its record has it, or stands
\* where the record is not of the Entry.

Fit(records, files, p) == records[p] # NoRecord /\ files[p] = records[p].data
Strange(catalog, records, p) == \E h \in DOMAIN catalog : catalog[h].path = p /\ records[p].entry # h

Settled(catalog, records, files, p) ==
  Waits(catalog, records, p) \/ Fit(records, files, p) \/ Strange(catalog, records, p)

\* No record of an Entry that is gone stands where another Entry does.
Tended(catalog, records) ==
  \A p \in Paths : records[p].entry \notin DOMAIN catalog /\ p \in PathsOf(catalog) => records[p] = NoRecord

\* The records once the write that is due is made.
Owing == run.phase # "idle" /\ run.owed # NothingOwed
DueOf(catalog, records, owed) ==
  Marked(catalog, Forgotten(Rekeyed(catalog, records, owed.rekey), owed.forget), owed.seen)
Noted == IF Owing THEN DueOf(cat, rec, run.owed) ELSE rec

\* The files of the device's, as the records are and as they will be.
OwnSettled ==
  /\ ~(Owing /\ Overlaid) => \A p \in own : Settled(cat, rec, disk, p)
  /\ Owing => \A p \in own : Settled(cat, Noted, disk, p)

\* A record that waits for another path, of a file the device has not seen changed.
Toward(catalog, records, p, q) ==
  /\ records[p] # NoRecord /\ records[p].entry \in DOMAIN catalog
  /\ catalog[records[p].entry].path = q /\ q # p

Whole(records, files, mine, p) == p \in mine => files[p] = records[p].data

\* A look tells what stands at a path of the device's, and which record is there.
Seen(p) == p \in own => run.looks[p].source = disk[p]
Tied(records, p) ==
  LET one == run.looks[p]
  IN Toward(cat, records, p, one.to) /\ records[p].entry = one.entry /\ records[p].data = one.data

Looking ==
  /\ run.phase = "finish" =>
       \A p \in DOMAIN run.looks : Seen(p) /\ (p \notin run.touched => Tied(rec, p))
  /\ run.phase = "decide" => \A p \in run.todo : Seen(p) /\ Tied(Noted, p)

\* What is to move is where its record says, and so is each member of a cycle until
\* the last exchange.
After(c, i) == c[IF i = Len(c) THEN 1 ELSE i + 1]

Linked(c, records) ==
  \A i \in 1 .. Len(c) : Toward(cat, records, c[i], After(c, i)) /\ Whole(records, disk, own, c[i])

Moving ==
  /\ run.phase \in {"decide", "move"} =>
       /\ \A p \in DOMAIN run.pending :
            Toward(cat, Noted, p, run.pending[p]) /\ Whole(Noted, disk, own, p)
       /\ run.gone \cap DOMAIN run.pending = {}
       /\ run.gone \cap run.todo = {} /\ DOMAIN run.pending \cap run.todo = {}
  /\ run.phase \in {"decide", "move", "gone"} => run.gone \cap own \subseteq PathsOf(cat)
  /\ run.phase = "move" =>
       /\ Range(run.cycle) \cap (DOMAIN run.pending \cup run.gone) = {}
       /\ \A i, j \in 1 .. Len(run.cycle) : run.cycle[i] = run.cycle[j] => i = j
       /\ Len(run.cycle) >= 2 => Linked(run.cycle, Noted)

\* Nothing a sync forgets, refreshes, carries in or renames is the device's.
Ends == {m.from : m \in run.renames} \cup {m.to : m \in run.renames}
PathsIn(S) == {o.path : o \in S}
FromsStand == \A m \in run.renames : m.entry \in DOMAIN cat /\ cat[m.entry].path = m.from
OnePath(S) == \A u, v \in S : u.path = v.path => u = v

Departing ==
  run.phase = "depart" =>
    /\ (run.forgotten \cup Carrying \cup Ends \cup PathsIn(run.refreshed)) \cap own = {}
    /\ Ends \cap Carrying = {} /\ FromsStand
    /\ PathsIn(run.updates) \cap run.adds = {} /\ OnePath(run.updates)

Committing ==
  run.phase = "commit" =>
    /\ (PathsIn(run.adds) \cup PathsIn(run.updates) \cup Ends) \cap own = {}
    /\ Ends \cap (PathsIn(run.adds) \cup PathsIn(run.updates)) = {} /\ FromsStand
    /\ PathsIn(run.updates) \cap PathsIn(run.adds) = {} /\ OnePath(run.updates)

\* The record a commit has landed is about its own rows and renames.
Landed(r) ==
  /\ r.removed = {} /\ {o.entry : o \in rows} \subseteq DOMAIN r.put
  /\ \A e \in DOMAIN r.renamed : \E m \in run.renames : m.entry = e /\ r.renamed[e] = m.to
  /\ \A e \in DOMAIN r.put :
       IF e \in DOMAIN cat THEN r.put[e].path = cat[e].path ELSE r.put[e].path \in PathsIn(rows)

Refreshing ==
  /\ rows # {} => run.phase \in {"idle", "refresh"}
  /\ PathsIn(rows) \cap own = {} /\ OnePath(rows)
  /\ run.phase = "refresh" =>
       /\ Ends \cap (own \cup PathsIn(rows)) = {}
       /\ (\A p \in own : Fit(rec, disk, p)) \/ FromsStand
       /\ Landed(Head(journal))
  /\ run.phase = "end" =>
       /\ run.owed.seen = {} /\ run.owed.forget = {}
       /\ (DOMAIN run.owed.rekey \cup {run.owed.rekey[p] : p \in DOMAIN run.owed.rekey}) \cap own = {}

Fetching == run.phase = "place" => \A e \in run.wanted : Noted[cat[e].path].entry # e

Honest ==
  /\ Tended(cat, rec) /\ OwnSettled /\ Looking /\ Moving
  /\ Departing /\ Committing /\ Refreshing /\ Fetching

-----------------------------------------------------------------------------
\* What each write to the Index leaves of the records.

LEMMA NoRecordIs == NoRecord \in Recs /\ NoRecord.entry = 0 /\ NoRecord.data = 0 /\ NoFile = 0
  BY DEF NoRecord, Recs, NoFile

LEMMA ReconcileTends ==
  ASSUME NEW c, NEW r \in Records
  PROVE  Tended(c, Reconcile(c, r))
  BY ReconcileTyped DEF Tended

LEMMA ReconcileRests ==
  ASSUME NEW c, NEW r \in Records, Tended(c, r)
  PROVE  \A p \in Paths : Reconcile(c, r)[p] = r[p]
  BY ReconcileTyped DEF Tended

LEMMA ForgottenTends ==
  ASSUME NEW c, NEW r \in Records, NEW gone, Tended(c, r)
  PROVE  Tended(c, Forgotten(r, gone))
  BY ForgottenTyped DEF Tended

LEMMA MarkedRests ==
  ASSUME NEW c, NEW r \in Records, Tended(c, r), NEW seen \in SUBSET Seens
  PROVE  /\ Tended(c, Marked(c, r, seen)) /\ Marked(c, r, seen) \in Records
         /\ \A p \in Paths \ PathsIn(seen) : Marked(c, r, seen)[p] = r[p]
<1>1. PICK m \in Records : Marked(c, r, seen) = Reconcile(c, m) /\ MarkedAs(m, r, seen)
  BY MarkedTyped
<1>2. \A p \in Paths \ PathsIn(seen) : m[p] = r[p]
  BY <1>1 DEF MarkedAs, PathsIn
<1>3. \A p \in Paths \ PathsIn(seen) : Reconcile(c, m)[p] = r[p]
  BY <1>2, ReconcileTyped DEF Tended
<1> QED BY <1>1, <1>3, ReconcileTends, ReconcileTyped

\* What was observed is recorded, where observations do not contradict each other.
LEMMA MarkedNotes ==
  ASSUME NEW c, NEW r \in Records, NEW seen \in SUBSET Seens, OnePath(seen), NEW o \in seen, o.entry \in DOMAIN c
  PROVE  Marked(c, r, seen)[o.path] = [entry |-> o.entry, data |-> o.data]
<1>1. PICK m \in Records : Marked(c, r, seen) = Reconcile(c, m) /\ MarkedAs(m, r, seen)
  BY MarkedTyped
<1>2. o.path \in Paths
  BY PathFacts DEF Seens
<1>3. m[o.path] = [entry |-> o.entry, data |-> o.data]
  <2>1. PICK u \in seen : u.path = o.path /\ m[o.path] = [entry |-> u.entry, data |-> u.data]
    BY <1>1, <1>2 DEF MarkedAs
  <2>2. u = o
    BY <2>1 DEF OnePath
  <2> QED BY <2>1, <2>2
<1> QED BY <1>1, <1>2, <1>3, ReconcileTyped

LEMMA RekeyedRests ==
  ASSUME NEW c, NEW r \in Records, Tended(c, r), NEW moves \in Moves
  PROVE  /\ Tended(c, Rekeyed(c, r, moves)) /\ Rekeyed(c, r, moves) \in Records
         /\ \A q \in Paths : q \notin DOMAIN moves /\ (\A p \in DOMAIN moves : moves[p] # q)
              => Rekeyed(c, r, moves)[q] = r[q]
<1>1. PICK m \in Records : Rekeyed(c, r, moves) = Reconcile(c, m) /\ RekeyedAs(m, r, moves)
  BY RekeyedTyped
<1>2. \A q \in Paths : q \notin DOMAIN moves /\ (\A p \in DOMAIN moves : moves[p] # q) => m[q] = r[q]
  BY <1>1 DEF RekeyedAs
<1>3. \A q \in Paths : q \notin DOMAIN moves /\ (\A p \in DOMAIN moves : moves[p] # q)
              => Reconcile(c, m)[q] = r[q]
  BY <1>2, ReconcileTyped DEF Tended
<1> QED BY <1>1, <1>3, ReconcileTends, ReconcileTyped

\* A record that a move takes to a path no other record is taken to.
LEMMA RekeyedFollows ==
  ASSUME NEW c, NEW r \in Records, NEW moves \in Moves, NEW p \in DOMAIN moves, r[p] # NoRecord,
         \A q \in DOMAIN moves : moves[q] = moves[p] => q = p, r[p].entry \in DOMAIN c
  PROVE  Rekeyed(c, r, moves)[moves[p]] = r[p]
<1>1. PICK m \in Records : Rekeyed(c, r, moves) = Reconcile(c, m) /\ RekeyedAs(m, r, moves)
  BY RekeyedTyped
<1>2. moves[p] \in Paths
  BY MovesAre, PathFacts
<1>3. m[moves[p]] = r[p]
  BY <1>1, <1>2 DEF RekeyedAs
<1> QED BY <1>1, <1>2, <1>3, ReconcileTyped

\* A path a move leaves, and none takes a record to, has none.
LEMMA RekeyedLeaves ==
  ASSUME NEW c, NEW r \in Records, NEW moves \in Moves, NEW p \in DOMAIN moves,
         \A q \in DOMAIN moves : moves[q] = p => r[q] = NoRecord
  PROVE  Rekeyed(c, r, moves)[p] = NoRecord
<1>1. PICK m \in Records : Rekeyed(c, r, moves) = Reconcile(c, m) /\ RekeyedAs(m, r, moves)
  BY RekeyedTyped
<1>2. p \in Paths
  BY MovesAre, PathFacts
<1>3. m[p] = NoRecord
  BY <1>1, <1>2 DEF RekeyedAs
<1> QED BY <1>1, <1>2, <1>3, ReconcileTyped, NoRecordIs

\* The write to the Index that is due.
Rekeys(moves) == DOMAIN moves \cup {moves[p] : p \in DOMAIN moves}

LEMMA DueParts ==
  ASSUME NEW c, NEW r \in Records, Tended(c, r), NEW owed \in Owes
  PROVE  /\ owed.rekey \in Moves /\ owed.seen \in SUBSET Seens
         /\ Rekeyed(c, r, owed.rekey) \in Records /\ Tended(c, Rekeyed(c, r, owed.rekey))
         /\ Forgotten(Rekeyed(c, r, owed.rekey), owed.forget) \in Records
         /\ Tended(c, Forgotten(Rekeyed(c, r, owed.rekey), owed.forget))
         /\ DueOf(c, r, owed) \in Records /\ Tended(c, DueOf(c, r, owed))
<1>1. owed.rekey \in Moves /\ owed.seen \in SUBSET Seens
  BY DEF Owes
<1>2. Rekeyed(c, r, owed.rekey) \in Records /\ Tended(c, Rekeyed(c, r, owed.rekey))
  BY <1>1, RekeyedRests
<1>3. /\ Forgotten(Rekeyed(c, r, owed.rekey), owed.forget) \in Records
      /\ Tended(c, Forgotten(Rekeyed(c, r, owed.rekey), owed.forget))
  BY <1>2, ForgottenTyped, ForgottenTends
<1>4. DueOf(c, r, owed) \in Records /\ Tended(c, DueOf(c, r, owed))
  BY <1>1, <1>3, MarkedRests DEF DueOf
<1> QED BY <1>1, <1>2, <1>3, <1>4

\* A path the write does not name keeps its record.
LEMMA DueRests ==
  ASSUME NEW c, NEW r \in Records, Tended(c, r), NEW owed \in Owes, NEW q \in Paths,
         q \notin Rekeys(owed.rekey), q \notin owed.forget, q \notin PathsIn(owed.seen)
  PROVE  DueOf(c, r, owed)[q] = r[q]
<1>1. Rekeyed(c, r, owed.rekey)[q] = r[q]
  <2>1. q \notin DOMAIN owed.rekey /\ \A p \in DOMAIN owed.rekey : owed.rekey[p] # q
    BY DEF Rekeys
  <2> QED BY <2>1, DueParts, RekeyedRests
<1>2. Forgotten(Rekeyed(c, r, owed.rekey), owed.forget)[q] = r[q]
  BY <1>1, DueParts, ForgottenTyped
<1>3. DueOf(c, r, owed)[q] = Forgotten(Rekeyed(c, r, owed.rekey), owed.forget)[q]
  BY DueParts, MarkedRests DEF DueOf
<1> QED BY <1>2, <1>3

\* A write that re-keys only.
LEMMA DueRekeys ==
  ASSUME NEW c, NEW r \in Records, Tended(c, r), NEW owed \in Owes, owed.forget = {}, owed.seen = {}
  PROVE  \A q \in Paths : DueOf(c, r, owed)[q] = Rekeyed(c, r, owed.rekey)[q]
<1> DEFINE m == Rekeyed(c, r, owed.rekey)
           g == Forgotten(m, owed.forget)
<1>1. m \in Records /\ g \in Records /\ Tended(c, g) /\ owed.seen \in SUBSET Seens
  BY DueParts
<1>2. DueOf(c, r, owed) = Marked(c, g, owed.seen)
  BY DEF DueOf
<1> HIDE DEF m
<1>3. \A q \in Paths : g[q] = m[q]
  BY <1>1, ForgottenTyped
<1> HIDE DEF g
<1>4. Paths \ PathsIn(owed.seen) = Paths
  BY DEF PathsIn
<1>5. \A q \in Paths : Marked(c, g, owed.seen)[q] = g[q]
  BY <1>1, <1>4, MarkedRests
<1> QED BY <1>2, <1>3, <1>5 DEF m

LEMMA OwedIs ==
  ASSUME NEW x
  PROVE  /\ [NothingOwed EXCEPT !.forget = x] = [forget |-> x, rekey |-> <<>>, seen |-> {}]
         /\ [NothingOwed EXCEPT !.rekey = x] = [forget |-> {}, rekey |-> x, seen |-> {}]
         /\ [NothingOwed EXCEPT !.seen = x] = [forget |-> {}, rekey |-> <<>>, seen |-> x]
<1>1. ASSUME NEW n, NEW m, NEW z, n = [forget |-> z, rekey |-> m, seen |-> z]
      PROVE  /\ [n EXCEPT !.forget = x] = [forget |-> x, rekey |-> m, seen |-> z]
             /\ [n EXCEPT !.rekey = x] = [forget |-> z, rekey |-> x, seen |-> z]
             /\ [n EXCEPT !.seen = x] = [forget |-> z, rekey |-> m, seen |-> x]
  BY <1>1
<1>2. PICK n, m, z : n = NothingOwed /\ m = <<>> /\ z = {}
  OBVIOUS
<1>3. n = [forget |-> z, rekey |-> m, seen |-> z]
  BY <1>2 DEF NothingOwed
<1>4. /\ [n EXCEPT !.forget = x] = [forget |-> x, rekey |-> m, seen |-> z]
      /\ [n EXCEPT !.rekey = x] = [forget |-> z, rekey |-> x, seen |-> z]
      /\ [n EXCEPT !.seen = x] = [forget |-> z, rekey |-> m, seen |-> x]
  BY <1>1, <1>3
<1> QED BY <1>2, <1>4

LEMMA DueForgets ==
  ASSUME NEW c, NEW r \in Records, Tended(c, r), NEW p \in Mapped
  PROVE  LET owed == [NothingOwed EXCEPT !.forget = {p}] IN
         /\ owed \in Owes /\ owed.rekey = <<>> /\ owed # NothingOwed
         /\ \A q \in Paths \ {p} : DueOf(c, r, owed)[q] = r[q]
<1> DEFINE owed == [NothingOwed EXCEPT !.forget = {p}]
<1>1. owed \in Owes /\ owed.rekey = <<>> /\ owed.forget = {p} /\ owed.seen = {} /\ owed # NothingOwed
  <2>1. owed = [forget |-> {p}, rekey |-> <<>>, seen |-> {}]
    BY OwedIs
  <2>2. <<>> \in Moves /\ NothingOwed.forget = {}
    BY NothingTyped DEF NothingOwed
  <2> HIDE DEF owed
  <2> QED BY <2>1, <2>2 DEF Owes
<1> HIDE DEF owed
<1>2. Rekeys(owed.rekey) = {} /\ PathsIn(owed.seen) = {}
  BY <1>1 DEF Rekeys, PathsIn
<1>3. ASSUME NEW q \in Paths, q # p PROVE DueOf(c, r, owed)[q] = r[q]
  <2>1. q \notin Rekeys(owed.rekey) /\ q \notin owed.forget /\ q \notin PathsIn(owed.seen)
    BY <1>1, <1>2, <1>3
  <2>2. \A w \in Owes : q \notin Rekeys(w.rekey) /\ q \notin w.forget /\ q \notin PathsIn(w.seen)
                          => DueOf(c, r, w)[q] = r[q]
    BY DueRests
  <2> QED BY <1>1, <2>1, <2>2
<1> QED BY <1>1, <1>3 DEF owed

LEMMA DueSees ==
  ASSUME NEW c, NEW r \in Records, Tended(c, r), NEW o \in Seens, o.entry \in DOMAIN c
  PROVE  LET owed == [NothingOwed EXCEPT !.seen = {o}] IN
         /\ owed \in Owes /\ owed.rekey = <<>> /\ owed # NothingOwed
         /\ \A q \in Paths \ {o.path} : DueOf(c, r, owed)[q] = r[q]
         /\ DueOf(c, r, owed)[o.path] = [entry |-> o.entry, data |-> o.data]
<1> DEFINE owed == [NothingOwed EXCEPT !.seen = {o}]
<1>1. owed \in Owes /\ owed.rekey = <<>> /\ owed.forget = {} /\ owed.seen = {o} /\ owed # NothingOwed
  <2>1. owed = [forget |-> {}, rekey |-> <<>>, seen |-> {o}]
    BY OwedIs
  <2>2. <<>> \in Moves /\ NothingOwed.seen = {}
    BY NothingTyped DEF NothingOwed
  <2> HIDE DEF owed
  <2> QED BY <2>1, <2>2 DEF Owes
<1> HIDE DEF owed
<1>2. Rekeys(owed.rekey) = {} /\ PathsIn(owed.seen) = {o.path} /\ OnePath(owed.seen)
  BY <1>1 DEF Rekeys, PathsIn, OnePath
<1>3. ASSUME NEW q \in Paths, q # o.path PROVE DueOf(c, r, owed)[q] = r[q]
  <2>1. q \notin Rekeys(owed.rekey) /\ q \notin owed.forget /\ q \notin PathsIn(owed.seen)
    BY <1>1, <1>2, <1>3
  <2>2. \A w \in Owes : q \notin Rekeys(w.rekey) /\ q \notin w.forget /\ q \notin PathsIn(w.seen)
                          => DueOf(c, r, w)[q] = r[q]
    BY DueRests
  <2> QED BY <1>1, <2>1, <2>2
<1>4. DueOf(c, r, owed)[o.path] = [entry |-> o.entry, data |-> o.data]
  <2> DEFINE g == Forgotten(Rekeyed(c, r, owed.rekey), owed.forget)
  <2>1. g \in Records /\ owed.seen \in SUBSET Seens /\ o \in owed.seen
    BY <1>1, DueParts
  <2>2. DueOf(c, r, owed) = Marked(c, g, owed.seen)
    BY DEF DueOf
  <2> HIDE DEF g
  <2>3. Marked(c, g, owed.seen)[o.path] = [entry |-> o.entry, data |-> o.data]
    BY <1>2, <2>1, MarkedNotes
  <2> QED BY <2>2, <2>3
<1> QED BY <1>1, <1>3, <1>4 DEF owed

\* One record that follows its file, and two that change places.
LEMMA OneFollows ==
  ASSUME NEW c, NEW r \in Records, Tended(c, r), NEW p \in Mapped, NEW to \in Mapped, p # to,
         r[p] # NoRecord, r[p].entry \in DOMAIN c
  PROVE  LET m == Rekeyed(c, r, Only(p, to)) IN
         /\ m[to] = r[p] /\ m[p] = NoRecord
         /\ \A q \in Paths \ {p, to} : m[q] = r[q]
<1>1. /\ Only(p, to) \in Moves /\ DOMAIN Only(p, to) = {p} /\ Only(p, to)[p] = to
  BY OnlyTyped
<1>2. Rekeyed(c, r, Only(p, to))[Only(p, to)[p]] = r[p]
  BY <1>1, RekeyedFollows
<1>3. Rekeyed(c, r, Only(p, to))[p] = NoRecord
  BY <1>1, RekeyedLeaves
<1>4. \A q \in Paths \ {p, to} : Rekeyed(c, r, Only(p, to))[q] = r[q]
  BY <1>1, RekeyedRests
<1> QED BY <1>1, <1>2, <1>3, <1>4

LEMMA TwoChangePlaces ==
  ASSUME NEW c, NEW r \in Records, Tended(c, r), NEW p \in Mapped, NEW q \in Mapped, p # q,
         r[p] # NoRecord, r[p].entry \in DOMAIN c, r[q] # NoRecord, r[q].entry \in DOMAIN c
  PROVE  LET m == Rekeyed(c, r, Exchange(p, q)) IN
         /\ m[q] = r[p] /\ m[p] = r[q]
         /\ \A s \in Paths \ {p, q} : m[s] = r[s]
<1> DEFINE x == Exchange(p, q)
<1>1. x \in Moves /\ DOMAIN x = {p, q} /\ x[p] = q /\ x[q] = p
  BY OnlyTyped
<1> HIDE DEF x
<1>2. Rekeyed(c, r, x)[x[p]] = r[p]
  BY <1>1, RekeyedFollows
<1>3. Rekeyed(c, r, x)[x[q]] = r[q]
  BY <1>1, RekeyedFollows
<1>4. \A s \in Paths \ {p, q} : Rekeyed(c, r, x)[s] = r[s]
  BY <1>1, RekeyedRests
<1> QED BY <1>1, <1>2, <1>3, <1>4 DEF x

\* A write that re-keys along Only or Exchange.
LEMMA RekeyOwed ==
  ASSUME NEW moves \in Moves, DOMAIN moves # {}
  PROVE  LET owed == [NothingOwed EXCEPT !.rekey = moves] IN
         owed \in Owes /\ owed.rekey = moves /\ owed.forget = {} /\ owed.seen = {} /\ owed # NothingOwed
<1> DEFINE owed == [NothingOwed EXCEPT !.rekey = moves]
<1>1. owed = [forget |-> {}, rekey |-> moves, seen |-> {}] /\ NothingOwed.rekey = <<>>
  BY OwedIs DEF NothingOwed
<1>2. moves # <<>>
  BY EmptyMoves
<1> HIDE DEF owed
<1> QED BY <1>1, <1>2 DEF Owes, owed

-----------------------------------------------------------------------------
\* What a file's being settled depends on.

LEMMA SettledSame ==
  ASSUME NEW c, NEW r, NEW s, NEW f, NEW g, NEW p, r[p] = s[p], f[p] = g[p], Settled(c, r, f, p)
  PROVE  Settled(c, s, g, p)
  BY DEF Settled, Waits, Fit, Strange

LEMMA FitSettles ==
  ASSUME NEW c, NEW r, NEW f, NEW p, Fit(r, f, p) PROVE Settled(c, r, f, p)
  BY DEF Settled

\* A path where an Entry stands, and the record is of none.
LEMMA BareSettles ==
  ASSUME Sound, NEW p \in PathsOf(cat), NEW r, r[p] = NoRecord, NEW f
  PROVE  Settled(cat, r, f, p)
<1>1. HolderOf(cat, p) \in DOMAIN cat /\ cat[HolderOf(cat, p)].path = p
  BY HolderIs
<1>2. CatGood(cat, born, held)
  BY LinedFirst DEF Sound, Bounds, Shapes
<1>3. HolderOf(cat, p) \in 1 .. born
  BY <1>1, <1>2 DEF CatGood
<1>4. HolderOf(cat, p) # NoRecord.entry
  BY <1>3, NoRecordIs
<1> QED BY <1>1, <1>4 DEF Settled, Strange

\* A file of the device's stands.
LEMMA OwnStands ==
  ASSUME Sound
  PROVE  \A p \in own : p \in Mapped /\ p \in Paths /\ disk[p] # NoFile
  BY PathFacts DEF Sound, Bounds

LEMMA NoneOwed ==
  ASSUME run.phase = "idle" \/ run.owed = NothingOwed
  PROVE  ~Owing /\ Noted = rec
  BY DEF Owing, Noted

-----------------------------------------------------------------------------
\* The steps of a relocation.

LEMMA EntriesAre ==
  ASSUME Sound
  PROVE  /\ cat \in Catalogs /\ rec \in Records /\ CatGood(cat, born, held)
         /\ \A e \in DOMAIN cat : e \in 1 .. born /\ e # NoRecord.entry /\ cat[e].path \in Paths
<1>1. cat \in Catalogs /\ rec \in Records /\ born \in Nat
  BY DEF Sound, Shapes
<1>2. CatGood(cat, born, held)
  BY LinedFirst DEF Sound, Bounds, Shapes
<1>3. \A e \in DOMAIN cat : e \in 1 .. born /\ cat[e].path \in Paths
  BY <1>1, <1>2, CatalogIs DEF CatGood
<1> QED BY <1>1, <1>2, <1>3, NoRecordIs

LEMMA RelocLeaves ==
  ASSUME Honest, run.phase \in Relocs \cup {"look"}, run'.phase \in Relocs, rows' = rows
  PROVE  Departing' /\ Committing' /\ Refreshing' /\ Fetching'
<1>1. rows' = {}
  BY DEF Honest, Refreshing, Relocs
<1>2. PathsIn(rows') = {} /\ OnePath(rows')
  BY <1>1 DEF PathsIn, OnePath
<1> QED BY <1>1, <1>2 DEF Departing, Committing, Refreshing, Fetching, Relocs

\* Nothing is due before a step and after it, and nothing changed but the run.
LEMMA FreelySettled ==
  ASSUME Honest, run.phase = "idle" \/ run.owed = NothingOwed, run'.phase = "idle" \/ run'.owed = NothingOwed,
         UNCHANGED <<cat, rec, disk>>, own' \subseteq own
  PROVE  OwnSettled' /\ Tended(cat, rec)' /\ Noted' = rec
<1>1. ~Owing /\ Noted = rec
  BY NoneOwed
<1>2. ~Owing' /\ Noted' = rec'
  BY DEF Owing, Noted
<1> QED BY <1>1, <1>2 DEF Honest, OwnSettled

LEMMA LookTells ==
  ASSUME Sound, NEW p \in DOMAIN Looks
  PROVE  /\ Looks[p].source = disk[p] /\ p \in Mapped
         /\ Toward(cat, rec, p, Looks[p].to)
         /\ rec[p].entry = Looks[p].entry /\ rec[p].data = Looks[p].data
<1>1. p \in Mapped /\ Waits(cat, rec, p)
  BY LooksAre
<1> QED BY <1>1, LooksAre DEF Waits, WaitsFor, Toward

LEMMA LookHonest ==
  ASSUME Sound, Honest, Look
  PROVE  Honest'
<1>1. /\ run.phase = "look" /\ run.owed = NothingOwed
      /\ run' = Relocating(run.kind, Looks)
      /\ UNCHANGED <<cat, rec, disk, own, libraryVars, rows, torn, left>>
  BY DEF Look, Free
<1>2. run'.phase = "finish" /\ run'.looks = Looks /\ run'.touched = {} /\ run'.owed = NothingOwed
  BY <1>1 DEF Relocating
<1>3. OwnSettled' /\ Tended(cat, rec)' /\ Noted' = rec
  BY <1>1, <1>2, FreelySettled
<1>4. Looking'
  BY <1>1, <1>2, LookTells DEF Looking, Seen, Tied
<1>5. Moving'
  BY <1>2 DEF Moving
<1>6. Departing' /\ Committing' /\ Refreshing' /\ Fetching'
  BY <1>1, <1>2, RelocLeaves DEF Relocs
<1> QED BY <1>3, <1>4, <1>5, <1>6 DEF Honest

\* A record's file, moved before the run was killed, is settled by the record's following it.
LEMMA FinishRekeys ==
  ASSUME Sound, Honest, run.phase = "finish", run.owed = NothingOwed,
         NEW p \in DOMAIN run.looks, p \in Mapped, run.looks[p].to \in Mapped,
         Untouched(p), MovedAlready(p) \/ ExchangedAlready(p),
         NEW r, r = Rekeyed(cat, rec, IF MovedAlready(p) THEN Only(p, run.looks[p].to)
                                      ELSE Exchange(p, run.looks[p].to))
  PROVE  /\ \A q \in own : Settled(cat, r, disk, q)
         /\ \A q \in Paths \ {p, run.looks[p].to} : r[q] = rec[q]
<1> DEFINE to == run.looks[p].to
<1>0. /\ Tended(cat, rec) /\ cat \in Catalogs /\ rec \in Records /\ Mapped \subseteq Paths
      /\ \A q \in own : Settled(cat, rec, disk, q)
  BY NoneOwed, EntriesAre, PathFacts DEF Honest, OwnSettled
<1>1. Seen(p) /\ Tied(rec, p)
  BY DEF Honest, Looking, Untouched
<1>2. rec[p] # NoRecord /\ rec[p].entry \in DOMAIN cat /\ cat[rec[p].entry].path = to /\ to # p
  BY <1>1 DEF Tied, Toward
<1>3. disk[to] = rec[p].data
  BY <1>1 DEF Untouched, Holds, Tied
<1> HIDE DEF to
<1>4. CASE MovedAlready(p)
  <2>1. r = Rekeyed(cat, rec, Only(p, to))
    BY <1>4 DEF to
  <2>2. r[to] = rec[p] /\ r[p] = NoRecord /\ \A q \in Paths \ {p, to} : r[q] = rec[q]
    BY <1>0, <1>2, <2>1, OneFollows DEF to
  <2>3. p \notin own
    BY <1>1, <1>4, OwnStands DEF MovedAlready, Seen
  <2>4. Fit(r, disk, to)
    BY <1>2, <1>3, <2>2 DEF Fit
  <2>5. ASSUME NEW q \in own PROVE Settled(cat, r, disk, q)
    <3>1. CASE q = to
      BY <2>4, <3>1, FitSettles
    <3>2. CASE q # to
      <4>1. q # p /\ q \in Paths /\ r[q] = rec[q]
        BY <2>2, <2>3, <3>2, OwnStands
      <4> QED BY <1>0, <4>1, SettledSame
    <3> QED BY <3>1, <3>2
  <2> QED BY <2>2, <2>5 DEF to
<1>5. CASE ~MovedAlready(p)
  <2>0. ExchangedAlready(p)
    BY <1>5
  <2>1. r = Rekeyed(cat, rec, Exchange(p, to))
    BY <1>5 DEF to
  <2>2. rec[to] # NoRecord /\ rec[to].entry \in DOMAIN cat /\ disk[p] = rec[to].data
    BY <2>0 DEF to, ExchangedAlready, Waits, Holds
  <2>3. r[to] = rec[p] /\ r[p] = rec[to] /\ \A q \in Paths \ {p, to} : r[q] = rec[q]
    BY <1>0, <1>2, <2>1, <2>2, TwoChangePlaces DEF to
  <2>4. Fit(r, disk, to) /\ Fit(r, disk, p)
    BY <1>2, <1>3, <2>2, <2>3 DEF Fit
  <2>5. ASSUME NEW q \in own PROVE Settled(cat, r, disk, q)
    <3>1. CASE q = to \/ q = p
      BY <2>4, <3>1, FitSettles
    <3>2. CASE q # to /\ q # p
      <4>1. q \in Paths /\ r[q] = rec[q]
        BY <2>3, <3>2, OwnStands
      <4> QED BY <1>0, <4>1, SettledSame
    <3> QED BY <3>1, <3>2
  <2> QED BY <2>3, <2>5 DEF to
<1> QED BY <1>4, <1>5

LEMMA FinishNextHonest ==
  ASSUME Sound, Honest, FinishNext, rows' = rows
  PROVE  Honest'
<1>0. Shapes /\ Tidy
  BY DEF Sound
<1>1. PICK p \in run.todo :
           /\ p \in Mapped /\ p \in DOMAIN run.looks
           /\ run.phase = "finish" /\ run.owed = NothingOwed
           /\ UNCHANGED <<cat, disk, calm>>
           /\ run' \in RelocRuns
           /\ run'.phase = "finish" /\ run'.owed = NothingOwed
           /\ run'.looks = run.looks
           /\ \/ /\ UNCHANGED <<rec, own>>
                 /\ run'.touched = run.touched
              \/ /\ Untouched(p) /\ (MovedAlready(p) \/ ExchangedAlready(p))
                 /\ run.looks[p].to \in Mapped
                 /\ run'.touched = run.touched \cup {p, run.looks[p].to}
                 /\ LET moves == IF MovedAlready(p) THEN Only(p, run.looks[p].to)
                                 ELSE Exchange(p, run.looks[p].to)
                    IN moves \in Moves /\ Keep(Rekeyed(cat, rec, moves))
  BY <1>0, FinishNextIs
<1>2. Departing' /\ Committing' /\ Refreshing' /\ Fetching' /\ Moving'
  BY <1>1, RelocLeaves DEF Relocs, Moving
<1>3. CASE UNCHANGED <<rec, own>> /\ run'.touched = run.touched
  <2>1. OwnSettled' /\ Tended(cat, rec)'
    BY <1>1, <1>3, FreelySettled
  <2>2. Looking'
    BY <1>1, <1>3 DEF Honest, Looking, Seen, Tied
  <2> QED BY <1>2, <2>1, <2>2 DEF Honest
<1>4. CASE /\ Untouched(p) /\ (MovedAlready(p) \/ ExchangedAlready(p))
           /\ run.looks[p].to \in Mapped
           /\ run'.touched = run.touched \cup {p, run.looks[p].to}
           /\ LET moves == IF MovedAlready(p) THEN Only(p, run.looks[p].to)
                           ELSE Exchange(p, run.looks[p].to)
              IN moves \in Moves /\ Keep(Rekeyed(cat, rec, moves))
  <2>1. /\ rec' = Rekeyed(cat, rec, IF MovedAlready(p) THEN Only(p, run.looks[p].to)
                                    ELSE Exchange(p, run.looks[p].to))
        /\ own' = own /\ run.looks[p].to \in Mapped
        /\ (IF MovedAlready(p) THEN Only(p, run.looks[p].to) ELSE Exchange(p, run.looks[p].to)) \in Moves
    BY <1>4 DEF Keep
  <2>2. /\ \A q \in own : Settled(cat, rec', disk, q)
        /\ \A q \in Paths \ {p, run.looks[p].to} : rec'[q] = rec[q]
    BY <1>1, <1>4, <2>1, FinishRekeys
  <2>3. Tended(cat, rec')
    BY <2>1, EntriesAre, RekeyedRests DEF Honest
  <2>4. OwnSettled' /\ Tended(cat, rec)'
    <3>1. ~Owing'
      BY <1>1 DEF Owing
    <3> QED BY <1>1, <2>1, <2>2, <2>3, <3>1 DEF OwnSettled
  <2>5. Looking'
    <3> SUFFICES ASSUME NEW q \in DOMAIN run.looks PROVE Seen(q)' /\ (q \notin run'.touched => Tied(rec, q)')
      BY <1>1 DEF Looking
    <3>1. Seen(q) /\ (q \notin run.touched => Tied(rec, q))
      BY <1>1 DEF Honest, Looking
    <3>2. Seen(q)'
      BY <1>1, <2>1, <3>1 DEF Seen
    <3>3. q \notin run'.touched => Tied(rec, q)'
      <4> HAVE q \notin run'.touched
      <4>1. Tied(rec, q) /\ q \notin {p, run.looks[p].to}
        BY <1>4, <3>1
      <4>2. q \in Paths
        BY <1>0, <1>1, RelocFields, PathFacts DEF Relocs
      <4>3. rec'[q] = rec[q]
        BY <2>2, <4>1, <4>2
      <4> QED BY <1>1, <4>1, <4>3 DEF Tied, Toward
    <3> QED BY <3>2, <3>3
  <2> QED BY <1>2, <2>4, <2>5 DEF Honest
<1> QED BY <1>1, <1>3, <1>4

LEMMA FinishDoneHonest ==
  ASSUME Sound, Honest, FinishDone, rows' = rows
  PROVE  Honest'
<1>0. Shapes /\ Tidy
  BY DEF Sound
<1> DEFINE looks == IF run.touched = {} THEN run.looks ELSE Looks
<1>1. /\ run.phase = "finish" /\ run.owed = NothingOwed
      /\ UNCHANGED <<cat, rec, disk, own>>
      /\ run'.phase = "decide" /\ run'.owed = NothingOwed
      /\ run'.looks = looks /\ run'.todo = DOMAIN looks
      /\ run'.pending = run.pending /\ run'.gone = run.gone
  BY <1>0, FinishDoneIs
<1>2. OwnSettled' /\ Tended(cat, rec)' /\ Noted' = rec
  BY <1>1, FreelySettled
<1>3. Departing' /\ Committing' /\ Refreshing' /\ Fetching'
  BY <1>1, RelocLeaves DEF Relocs
<1>4. Looking'
  <2> SUFFICES ASSUME NEW p \in DOMAIN looks PROVE Seen(p)' /\ Tied(Noted, p)'
    BY <1>1 DEF Looking
  <2>1. CASE run.touched = {}
    <3>1. Seen(p) /\ Tied(rec, p) /\ run'.looks = run.looks
      BY <1>1, <2>1 DEF Honest, Looking
    <3> QED BY <1>1, <1>2, <3>1 DEF Seen, Tied
  <2>2. CASE run.touched # {}
    <3>1. p \in DOMAIN Looks /\ run'.looks = Looks
      BY <1>1, <2>2
    <3> QED BY <1>1, <1>2, <3>1, LookTells DEF Seen, Tied
  <2> QED BY <2>1, <2>2
<1>5. Moving'
  <2>1. DOMAIN run'.pending = {} /\ run'.gone = {}
    BY <1>0, <1>1 DEF Tidy, Relocs
  <2> QED BY <1>1, <2>1 DEF Moving
<1> QED BY <1>2, <1>3, <1>4, <1>5 DEF Honest

\* A file is taken from the disk, and its record is to be forgotten.
LEMMA TakenSettled ==
  ASSUME Sound, Honest, run.owed = NothingOwed, NEW p \in Mapped, UNCHANGED <<cat, rec>>,
         disk' = [disk EXCEPT ![p] = NoFile], own' = own \ {p},
         run'.owed = [NothingOwed EXCEPT !.forget = {p}], run'.phase # "idle"
  PROVE  /\ OwnSettled' /\ Tended(cat, rec)'
         /\ \A q \in Paths \ {p} : disk'[q] = disk[q] /\ Noted'[q] = rec[q]
<1>1. /\ Tended(cat, rec) /\ rec \in Records /\ \A q \in own : Settled(cat, rec, disk, q)
  BY NoneOwed, EntriesAre DEF Honest, OwnSettled
<1>2. /\ run'.owed # NothingOwed /\ run'.owed.rekey = <<>>
      /\ \A q \in Paths \ {p} : DueOf(cat, rec, run'.owed)[q] = rec[q]
  BY <1>1, DueForgets
<1>3. Owing' /\ Noted' = DueOf(cat, rec, run'.owed)
  BY <1>2 DEF Owing, Noted
<1>4. \A q \in Paths \ {p} : disk'[q] = disk[q] /\ Noted'[q] = rec[q]
  BY <1>2, <1>3 DEF Sound, Shapes
<1>5. \A q \in own' : q \in own /\ q \in Paths \ {p}
  BY OwnStands
<1>6. \A q \in own' : Settled(cat, rec, disk', q)
  BY <1>1, <1>4, <1>5, SettledSame
<1>7. \A q \in own' : Settled(cat, Noted', disk', q)
  BY <1>1, <1>4, <1>5, SettledSame
<1> QED BY <1>1, <1>4, <1>6, <1>7 DEF OwnSettled

LEMMA DecideNextHonest ==
  ASSUME Sound, Honest, DecideNext, rows' = rows
  PROVE  Honest'
<1>0. Shapes /\ Tidy
  BY DEF Sound
<1>1. PICK p \in run.todo :
           /\ p \in Mapped /\ p \in DOMAIN run.looks
           /\ run.phase = "decide" /\ run.owed = NothingOwed
           /\ DecideKeeps(p)
           /\ \/ /\ Decision(p) \in {"discard", "refuse"} /\ (Decision(p) = "discard" => disk[p] = NoFile)
                 /\ UNCHANGED <<rec, disk, own>> /\ run'.owed = NothingOwed
                 /\ run'.pending = run.pending /\ run'.gone = run.gone /\ run'.changed = run.changed
              \/ /\ Decision(p) = "discard" /\ disk[p] # NoFile
                 /\ disk' = [disk EXCEPT ![p] = NoFile] /\ own' = own \ {p} /\ rec' = rec
                 /\ run'.owed = [NothingOwed EXCEPT !.forget = {p}]
                 /\ run'.pending = run.pending /\ run'.gone = run.gone /\ run'.changed = TRUE
              \/ /\ Decision(p) = "forget"
                 /\ rec' = Forgotten(rec, {p}) /\ UNCHANGED <<disk, own>> /\ run'.owed = NothingOwed
                 /\ run'.pending = run.pending /\ run'.gone = run.gone /\ run'.changed = TRUE
              \/ /\ Decision(p) = "gone"
                 /\ UNCHANGED <<rec, disk, own>> /\ run'.owed = NothingOwed
                 /\ run'.pending = run.pending /\ run'.gone = run.gone \cup {p}
                 /\ run'.changed = run.changed
              \/ /\ Decision(p) = "move"
                 /\ UNCHANGED <<rec, disk, own>> /\ run'.owed = NothingOwed
                 /\ DOMAIN run'.pending = DOMAIN run.pending \cup {p}
                 /\ \A q \in DOMAIN run'.pending : run'.pending[q] = run.looks[q].to
                 /\ run'.gone = run.gone /\ run'.changed = run.changed
  BY <1>0, DecideNextIs
<1>2. /\ cat' = cat /\ run'.phase = "decide" /\ run'.looks = run.looks /\ run'.todo = run.todo \ {p}
      /\ run.phase \in Relocs
  BY <1>1 DEF DecideKeeps, Relocs
<1>3. Departing' /\ Committing' /\ Refreshing' /\ Fetching'
  BY <1>1, <1>2, RelocLeaves DEF Relocs
<1>4. /\ Noted = rec /\ Tended(cat, rec) /\ rec \in Records /\ Mapped \subseteq Paths
      /\ \A q \in own : Settled(cat, rec, disk, q)
      /\ \A q \in run.todo : Seen(q) /\ Tied(rec, q)
      /\ \A q \in DOMAIN run.pending : Toward(cat, rec, q, run.pending[q]) /\ Whole(rec, disk, own, q)
      /\ run.gone \cap DOMAIN run.pending = {}
      /\ run.gone \cap run.todo = {} /\ DOMAIN run.pending \cap run.todo = {}
      /\ run.gone \cap own \subseteq PathsOf(cat)
      /\ ~Owing
  BY <1>1, NoneOwed, EntriesAre, PathFacts DEF Honest, OwnSettled, Looking, Moving
<1>5. run.todo \subseteq Mapped /\ DOMAIN run.pending \subseteq Mapped
  BY <1>0, <1>2, RelocFields, MovesAre
<1>6. ASSUME UNCHANGED <<rec, disk, own>>, run'.owed = NothingOwed
      PROVE  OwnSettled' /\ Tended(cat, rec)' /\ Noted' = rec /\ Looking'
  <2>1. OwnSettled' /\ Tended(cat, rec)' /\ Noted' = rec
    BY <1>1, <1>2, <1>6, FreelySettled
  <2>2. \A q \in run'.todo : Seen(q)' /\ Tied(Noted, q)'
    BY <1>2, <1>4, <1>6, <2>1 DEF Seen, Tied
  <2> QED BY <1>2, <2>1, <2>2 DEF Looking
\* nothing
<1>7. CASE /\ UNCHANGED <<rec, disk, own>> /\ run'.owed = NothingOwed
           /\ run'.pending = run.pending /\ run'.gone = run.gone
  <2>1. Moving'
    BY <1>2, <1>4, <1>6, <1>7 DEF Moving
  <2> QED BY <1>3, <1>6, <1>7, <2>1 DEF Honest
\* discarded
<1>8. CASE /\ disk' = [disk EXCEPT ![p] = NoFile] /\ own' = own \ {p} /\ rec' = rec
           /\ run'.owed = [NothingOwed EXCEPT !.forget = {p}]
           /\ run'.pending = run.pending /\ run'.gone = run.gone
  <2>1. /\ OwnSettled' /\ Tended(cat, rec)'
        /\ \A q \in Paths \ {p} : disk'[q] = disk[q] /\ Noted'[q] = rec[q]
    BY <1>1, <1>2, <1>8, TakenSettled
  <2>2. \A q \in run'.todo : Seen(q)' /\ Tied(Noted, q)'
    <3> SUFFICES ASSUME NEW q \in run'.todo PROVE Seen(q)' /\ Tied(Noted, q)'
      OBVIOUS
    <3>1. q \in run.todo /\ q \in Paths \ {p}
      BY <1>2, <1>4, <1>5
    <3>2. Seen(q) /\ Tied(rec, q) /\ disk'[q] = disk[q] /\ Noted'[q] = rec[q]
      BY <1>4, <2>1, <3>1
    <3> QED BY <1>2, <1>8, <3>2 DEF Seen, Tied, Toward
  <2>3. \A q \in DOMAIN run.pending : Toward(cat, Noted', q, run.pending[q]) /\ Whole(Noted', disk', own', q)
    <3> SUFFICES ASSUME NEW q \in DOMAIN run.pending
                 PROVE  Toward(cat, Noted', q, run.pending[q]) /\ Whole(Noted', disk', own', q)
      OBVIOUS
    <3>1. q \in Paths \ {p}
      BY <1>4, <1>5
    <3>2. Toward(cat, rec, q, run.pending[q]) /\ Whole(rec, disk, own, q) /\ disk'[q] = disk[q] /\ Noted'[q] = rec[q]
      BY <1>4, <2>1, <3>1
    <3> QED BY <1>8, <3>2 DEF Toward, Whole
  <2>4. Looking' /\ Moving'
    BY <1>2, <1>4, <1>8, <2>2, <2>3 DEF Looking, Moving
  <2> QED BY <1>3, <2>1, <2>4 DEF Honest
\* forgotten
<1>9. CASE /\ Decision(p) = "forget"
           /\ rec' = Forgotten(rec, {p}) /\ UNCHANGED <<disk, own>> /\ run'.owed = NothingOwed
           /\ run'.pending = run.pending /\ run'.gone = run.gone
  <2>1. p \notin own
    <3>1. run.looks[p].source = NoFile
      BY <1>9, DecisionIs
    <3> QED BY <1>4, <3>1, OwnStands DEF Seen
  <2>2. \A q \in Paths \ {p} : rec'[q] = rec[q]
    BY <1>4, <1>9, ForgottenTyped
  <2>3. Tended(cat, rec')
    BY <1>4, <1>9, ForgottenTends
  <2>4. ~Owing' /\ Noted' = rec'
    BY <1>9 DEF Owing, Noted
  <2>5. \A q \in own : Settled(cat, rec', disk, q)
    <3> SUFFICES ASSUME NEW q \in own PROVE Settled(cat, rec', disk, q)
      OBVIOUS
    <3>1. rec[q] = rec'[q]
      BY <2>1, <2>2, OwnStands
    <3> QED BY <1>4, <3>1, SettledSame
  <2>6. OwnSettled'
    BY <1>2, <1>9, <2>4, <2>5 DEF OwnSettled
  <2>7. \A q \in run'.todo : Seen(q)' /\ Tied(Noted, q)'
    <3> SUFFICES ASSUME NEW q \in run'.todo PROVE Seen(q)' /\ Tied(Noted, q)'
      OBVIOUS
    <3>1. q \in run.todo /\ q \in Paths \ {p}
      BY <1>2, <1>4, <1>5
    <3>2. Seen(q) /\ Tied(rec, q) /\ Noted'[q] = rec[q]
      BY <1>4, <2>2, <2>4, <3>1
    <3> QED BY <1>2, <1>9, <3>2 DEF Seen, Tied, Toward
  <2>8. \A q \in DOMAIN run.pending : Toward(cat, Noted', q, run.pending[q]) /\ Whole(Noted', disk, own, q)
    <3> SUFFICES ASSUME NEW q \in DOMAIN run.pending
                 PROVE  Toward(cat, Noted', q, run.pending[q]) /\ Whole(Noted', disk, own, q)
      OBVIOUS
    <3>1. q \in Paths \ {p}
      BY <1>4, <1>5
    <3>2. Toward(cat, rec, q, run.pending[q]) /\ Whole(rec, disk, own, q) /\ Noted'[q] = rec[q]
      BY <1>4, <2>2, <2>4, <3>1
    <3> QED BY <3>2 DEF Toward, Whole
  <2>9. Looking' /\ Moving'
    BY <1>2, <1>4, <1>9, <2>7, <2>8 DEF Looking, Moving
  <2> QED BY <1>2, <1>3, <2>3, <2>6, <2>9 DEF Honest
\* gone
<1>10. CASE /\ Decision(p) = "gone"
            /\ UNCHANGED <<rec, disk, own>> /\ run'.owed = NothingOwed
            /\ run'.pending = run.pending /\ run'.gone = run.gone \cup {p}
  <2>1. p \notin own
    <3>1. run.looks[p].source = NoFile
      BY <1>10, DecisionIs
    <3> QED BY <1>4, <3>1, OwnStands DEF Seen
  <2>2. Moving'
    BY <1>2, <1>4, <1>6, <1>10, <2>1 DEF Moving
  <2> QED BY <1>3, <1>6, <1>10, <2>2 DEF Honest
\* about to move
<1>11. CASE /\ Decision(p) = "move"
            /\ UNCHANGED <<rec, disk, own>> /\ run'.owed = NothingOwed
            /\ DOMAIN run'.pending = DOMAIN run.pending \cup {p}
            /\ \A q \in DOMAIN run'.pending : run'.pending[q] = run.looks[q].to
            /\ run'.gone = run.gone
  <2>1. Seen(p) /\ Tied(rec, p) /\ run.looks[p].source = run.looks[p].data
    BY <1>4, <1>11, DecisionIs
  <2>2. Toward(cat, rec, p, run'.pending[p]) /\ Whole(rec, disk, own, p)
    BY <1>11, <2>1 DEF Seen, Tied, Whole
  <2>3. \A q \in DOMAIN run.pending : run'.pending[q] = run.pending[q]
    BY <1>0, <1>2, <1>11 DEF Tidy
  <2>4. \A q \in DOMAIN run'.pending : Toward(cat, rec, q, run'.pending[q]) /\ Whole(rec, disk, own, q)
    BY <1>4, <1>11, <2>2, <2>3
  <2>5. /\ run'.gone \cap DOMAIN run'.pending = {}
        /\ run'.gone \cap run'.todo = {} /\ DOMAIN run'.pending \cap run'.todo = {}
    BY <1>1, <1>2, <1>4, <1>11
  <2>6. Moving'
    BY <1>2, <1>4, <1>6, <1>11, <2>4, <2>5 DEF Moving
  <2> QED BY <1>3, <1>6, <1>11, <2>6 DEF Honest
<1> QED BY <1>1, <1>7, <1>8, <1>9, <1>10, <1>11

LEMMA DecideDoneHonest ==
  ASSUME Sound, Honest, DecideDone, rows' = rows
  PROVE  Honest'
<1>0. Shapes /\ Tidy
  BY DEF Sound
<1>1. /\ run.phase = "decide" /\ run.owed = NothingOwed
      /\ UNCHANGED <<cat, rec, disk, own>>
      /\ run'.phase = "move" /\ run'.owed = NothingOwed
      /\ run'.looks = run.looks /\ run'.todo = run.todo
      /\ run'.pending = run.pending /\ run'.cycle = run.cycle /\ run'.gone = run.gone
  BY <1>0, DecideDoneIs
<1>2. OwnSettled' /\ Tended(cat, rec)' /\ Noted' = rec /\ Noted = rec
  BY <1>1, FreelySettled, NoneOwed
<1>3. Departing' /\ Committing' /\ Refreshing' /\ Fetching'
  BY <1>1, RelocLeaves DEF Relocs
<1>4. run'.cycle = <<>> /\ Range(<<>>) = {} /\ Len(<<>>) = 0
  BY <1>0, <1>1 DEF Tidy, Relocs, Range
<1>5. Looking'
  BY <1>1 DEF Looking
<1>6. Moving'
  BY <1>1, <1>2, <1>4 DEF Honest, Moving
<1> QED BY <1>2, <1>3, <1>5, <1>6 DEF Honest

LEMMA MoveOneHonest ==
  ASSUME Sound, Honest, NEW p \in Paths, MoveOne(p), rows' = rows
  PROVE  Honest'
<1> DEFINE to == run.pending[p]
<1>0. Shapes /\ Tidy
  BY DEF Sound
<1>1. /\ MoveKeeps /\ run.cycle = <<>> /\ run'.cycle = <<>>
      /\ p \in DOMAIN run.pending /\ p \in Mapped /\ to \in Mapped /\ to \notin DOMAIN run.pending
      /\ DOMAIN run'.pending = DOMAIN run.pending \ {p}
      /\ \A q \in DOMAIN run.pending \ {p} : run'.pending[q] = run.pending[q]
      /\ \/ /\ disk[p] # NoFile /\ disk[to] = NoFile
            /\ disk' = [disk EXCEPT ![to] = disk[p], ![p] = NoFile]
            /\ own' = Carried(p, to)
            /\ run'.owed = [NothingOwed EXCEPT !.rekey = Only(p, to)] /\ run'.changed = TRUE
         \/ /\ disk[p] = NoFile \/ disk[to] # NoFile
            /\ UNCHANGED <<disk, own>> /\ run'.owed = NothingOwed /\ run'.changed = run.changed
  BY <1>0, MoveOneIs
<1>2. /\ run.phase = "move" /\ run.owed = NothingOwed /\ run.phase \in Relocs
      /\ UNCHANGED <<cat, rec>> /\ run'.phase = "move" /\ run'.gone = run.gone /\ run'.todo = run.todo
  BY <1>1 DEF MoveKeeps, Relocs
<1>3. Departing' /\ Committing' /\ Refreshing' /\ Fetching' /\ Looking'
  BY <1>1, <1>2, RelocLeaves DEF Looking, Relocs
<1>4. /\ Noted = rec /\ Tended(cat, rec) /\ rec \in Records /\ Mapped \subseteq Paths
      /\ \A q \in own : Settled(cat, rec, disk, q)
      /\ \A q \in DOMAIN run.pending : Toward(cat, rec, q, run.pending[q]) /\ Whole(rec, disk, own, q)
      /\ run.gone \cap DOMAIN run.pending = {}
      /\ run.gone \cap run.todo = {} /\ DOMAIN run.pending \cap run.todo = {}
      /\ run.gone \cap own \subseteq PathsOf(cat)
      /\ ~Owing
  BY <1>2, NoneOwed, EntriesAre, PathFacts DEF Honest, OwnSettled, Moving
<1>5. Range(<<>>) = {} /\ Len(<<>>) = 0
  BY DEF Range
<1> HIDE DEF to
<1>6. DOMAIN run.pending \subseteq Mapped
  BY <1>0, <1>2, RelocFields, MovesAre
<1>7. CASE UNCHANGED <<disk, own>> /\ run'.owed = NothingOwed
  <2>1. OwnSettled' /\ Tended(cat, rec)' /\ Noted' = rec
    BY <1>2, <1>7, FreelySettled
  <2>2. Moving'
    BY <1>1, <1>2, <1>4, <1>5, <1>7, <2>1 DEF Moving
  <2> QED BY <1>3, <2>1, <2>2 DEF Honest
<1>8. CASE /\ disk[p] # NoFile /\ disk[to] = NoFile
           /\ disk' = [disk EXCEPT ![to] = disk[p], ![p] = NoFile]
           /\ own' = Carried(p, to)
           /\ run'.owed = [NothingOwed EXCEPT !.rekey = Only(p, to)]
  <2>1. /\ rec[p] # NoRecord /\ rec[p].entry \in DOMAIN cat /\ cat[rec[p].entry].path = to /\ to # p
        /\ p \in own => disk[p] = rec[p].data
    BY <1>1, <1>4 DEF to, Toward, Whole
  <2>2. to \notin own
    BY <1>8, OwnStands
  <2>3. \A q \in own' : (q = to /\ p \in own) \/ (q \in own /\ q # p /\ q # to)
    BY <1>8, <2>2 DEF Carried
  <2>4. disk'[to] = disk[p] /\ \A q \in Paths \ {p, to} : disk'[q] = disk[q]
    BY <1>0, <1>1, <1>4, <1>8, <2>1 DEF Shapes
  <2>5. /\ Only(p, to) \in Moves /\ DOMAIN Only(p, to) # {} /\ Only(p, to)[p] = to /\ DOMAIN Only(p, to) = {p}
    <3>0. p \in Mapped
      BY <1>1
    <3>1. \A q \in Mapped : /\ Only(p, q) \in Moves /\ DOMAIN Only(p, q) = {p} /\ Only(p, q)[p] = q
      BY <3>0, OnlyTyped
    <3>2. to \in Mapped
      BY <1>1
    <3>3. /\ Only(p, to) \in Moves /\ DOMAIN Only(p, to) = {p} /\ Only(p, to)[p] = to
      BY <3>1, <3>2
    <3> QED BY <3>3
  <2>6. /\ run'.owed \in Owes /\ run'.owed.rekey = Only(p, to) /\ run'.owed.forget = {} /\ run'.owed.seen = {}
        /\ run'.owed # NothingOwed
    BY <1>8, <2>5, RekeyOwed
  <2>7. Owing' /\ Noted' = DueOf(cat, rec, run'.owed)
    BY <1>2, <2>6 DEF Owing, Noted
  <2>8. \A q \in Paths : Noted'[q] = Rekeyed(cat, rec, Only(p, to))[q]
    BY <1>4, <2>6, <2>7, DueRekeys
  <2>9. Noted'[to] = rec[p] /\ \A q \in Paths \ {p, to} : Noted'[q] = rec[q]
    <3>1. /\ Rekeyed(cat, rec, Only(p, to))[to] = rec[p]
          /\ \A q \in Paths \ {p, to} : Rekeyed(cat, rec, Only(p, to))[q] = rec[q]
      BY <1>1, <1>4, <2>1, OneFollows DEF to
    <3> QED BY <1>1, <1>4, <2>8, <3>1 DEF to
  <2>10. \A q \in own' : Settled(cat, Noted', disk', q)
    <3> SUFFICES ASSUME NEW q \in own' PROVE Settled(cat, Noted', disk', q)
      OBVIOUS
    <3>1. CASE q = to /\ p \in own
      <4>1. Fit(Noted', disk', to)
        BY <2>1, <2>4, <2>9, <3>1 DEF Fit
      <4> QED BY <3>1, <4>1, FitSettles
    <3>2. CASE q \in own /\ q # p /\ q # to
      <4>1. Settled(cat, rec, disk, q) /\ rec[q] = Noted'[q] /\ disk[q] = disk'[q]
        BY <1>4, <2>4, <2>9, <3>2, OwnStands
      <4> QED BY <4>1, SettledSame
    <3> QED BY <2>3, <3>1, <3>2
  <2>11. ASSUME ~Overlaid', NEW q \in own' PROVE Settled(cat, rec, disk', q)
    <3>1. CASE q = to /\ p \in own
      <4>1. rec[to] = NoRecord \/ rec[to].entry # rec[p].entry
        <5>1. ~(rec[to] # NoRecord /\ rec[to].entry = rec[p].entry)
          BY <1>2, <2>5, <2>6, <2>11 DEF Overlaid
        <5> QED BY <5>1
      <4>2. rec[to].entry # rec[p].entry
        BY <2>1, <4>1, EntriesAre
      <4> QED BY <2>1, <3>1, <4>2 DEF Settled, Strange
    <3>2. CASE q \in own /\ q # p /\ q # to
      <4>1. Settled(cat, rec, disk, q) /\ disk[q] = disk'[q]
        BY <1>4, <2>4, <3>2, OwnStands
      <4> QED BY <4>1, SettledSame
    <3> QED BY <2>3, <3>1, <3>2
  <2>12. OwnSettled' /\ Tended(cat, rec)'
    BY <1>2, <1>4, <2>7, <2>10, <2>11 DEF OwnSettled
  <2>13. \A q \in DOMAIN run'.pending : Toward(cat, Noted', q, run'.pending[q]) /\ Whole(Noted', disk', own', q)
    <3> SUFFICES ASSUME NEW q \in DOMAIN run.pending \ {p}
                 PROVE  Toward(cat, Noted', q, run.pending[q]) /\ Whole(Noted', disk', own', q)
      BY <1>1
    <3>1. q # to /\ q # p /\ q \in Paths
      BY <1>1, <1>4, <1>6 DEF to
    <3>2. Toward(cat, rec, q, run.pending[q]) /\ Whole(rec, disk, own, q) /\ Noted'[q] = rec[q] /\ disk'[q] = disk[q]
      BY <1>4, <2>4, <2>9, <3>1
    <3>3. q \in own' => q \in own
      BY <2>3, <3>1
    <3> QED BY <3>2, <3>3 DEF Toward, Whole
  <2>14. run'.gone \cap own' \subseteq PathsOf(cat)
    <3>1. to \in PathsOf(cat)
      BY <2>1 DEF PathsOf
    <3> QED BY <1>2, <1>4, <2>3, <3>1
  <2>15. Moving'
    BY <1>1, <1>2, <1>4, <1>5, <2>13, <2>14 DEF Moving
  <2> QED BY <1>3, <2>12, <2>15 DEF Honest
<1> QED BY <1>1, <1>7, <1>8 DEF to

LEMMA BeginCycleHonest ==
  ASSUME Sound, Honest, BeginCycle, rows' = rows
  PROVE  Honest'
<1>0. Shapes /\ Tidy
  BY DEF Sound
<1> DEFINE c == run'.cycle
<1>1. /\ MoveKeeps /\ run.cycle = <<>>
      /\ UNCHANGED <<disk, own>> /\ run'.owed = NothingOwed
      /\ Circle(run.pending, c)
      /\ DOMAIN run'.pending = DOMAIN run.pending \ Range(c)
      /\ \A q \in DOMAIN run'.pending : run'.pending[q] = run.pending[q]
  BY <1>0, BeginCycleIs
<1>2. /\ run.phase = "move" /\ run.owed = NothingOwed /\ run.phase \in Relocs
      /\ UNCHANGED <<cat, rec>> /\ run'.phase = "move" /\ run'.gone = run.gone /\ run'.todo = run.todo
  BY <1>1 DEF MoveKeeps, Relocs
<1>3. Departing' /\ Committing' /\ Refreshing' /\ Fetching' /\ Looking'
  BY <1>1, <1>2, RelocLeaves DEF Looking, Relocs
<1>4. OwnSettled' /\ Tended(cat, rec)' /\ Noted' = rec /\ Noted = rec
  BY <1>1, <1>2, FreelySettled, NoneOwed
<1>5. /\ \A q \in DOMAIN run.pending : Toward(cat, rec, q, run.pending[q]) /\ Whole(rec, disk, own, q)
      /\ run.gone \cap DOMAIN run.pending = {}
      /\ run.gone \cap run.todo = {} /\ DOMAIN run.pending \cap run.todo = {}
      /\ run.gone \cap own \subseteq PathsOf(cat)
  BY <1>2, <1>4 DEF Honest, Moving
<1>6. c \in Seq(DOMAIN run.pending) /\ Len(c) >= 1
  BY <1>1 DEF Circle
<1>7. \A q \in Range(c) : q \in DOMAIN run.pending
  BY <1>6 DEF Range
<1>8. Linked(c, rec)
  <2> SUFFICES ASSUME NEW i \in 1 .. Len(c) PROVE Toward(cat, rec, c[i], After(c, i)) /\ Whole(rec, disk, own, c[i])
    BY DEF Linked
  <2>1. c[i] \in DOMAIN run.pending /\ run.pending[c[i]] = After(c, i)
    BY <1>1, <1>6 DEF Circle, After
  <2> QED BY <1>5, <2>1
<1>9. Linked(run.cycle, Noted)'
  BY <1>1, <1>2, <1>4, <1>8 DEF Linked, After
<1>10. \A i, j \in 1 .. Len(c) : c[i] = c[j] => i = j
  BY <1>1 DEF Circle
<1> HIDE DEF c
<1>11. Range(c) \cap (DOMAIN run'.pending \cup run'.gone) = {}
  BY <1>1, <1>2, <1>5, <1>7
<1>12. \A q \in DOMAIN run'.pending : Toward(cat, rec, q, run'.pending[q]) /\ Whole(rec, disk, own, q)
  BY <1>1, <1>5
<1>13. Moving'
  BY <1>1, <1>2, <1>4, <1>5, <1>9, <1>10, <1>11, <1>12 DEF Moving, c
<1> QED BY <1>3, <1>4, <1>13 DEF Honest

LEMMA MovesDoneHonest ==
  ASSUME Sound, Honest, MovesDone, rows' = rows
  PROVE  Honest'
<1>0. Shapes /\ Tidy
  BY DEF Sound
<1>1. /\ run.phase = "move" /\ run.owed = NothingOwed
      /\ UNCHANGED <<cat, rec, disk, own>>
      /\ run'.phase = "gone" /\ run'.owed = NothingOwed /\ run'.gone = run.gone
  BY <1>0, MovesDoneIs
<1>2. OwnSettled' /\ Tended(cat, rec)'
  BY <1>1, FreelySettled
<1>3. Departing' /\ Committing' /\ Refreshing' /\ Fetching' /\ Looking'
  BY <1>1, RelocLeaves DEF Looking, Relocs
<1>4. Moving'
  BY <1>1 DEF Honest, Moving
<1> QED BY <1>2, <1>3, <1>4 DEF Honest

LEMMA FollowDoneHonest ==
  ASSUME Sound, Honest, FollowDone, rows' = rows
  PROVE  Honest'
<1>0. Shapes /\ Tidy
  BY DEF Sound
<1>1. /\ run.phase = "gone" /\ run.owed = NothingOwed
      /\ UNCHANGED <<cat, rec, disk, own>>
      /\ run'.phase = "relocated" /\ run'.owed = NothingOwed
  BY <1>0, FollowDoneIs
<1>2. OwnSettled' /\ Tended(cat, rec)'
  BY <1>1, FreelySettled
<1>3. Departing' /\ Committing' /\ Refreshing' /\ Fetching' /\ Looking' /\ Moving'
  BY <1>1, RelocLeaves DEF Looking, Moving, Relocs
<1> QED BY <1>2, <1>3 DEF Honest

\* A cycle after its first two members have changed places: the first is now where the
\* second was to go.
LEMMA LinkedOn ==
  ASSUME Sound, NEW c \in Seq(Mapped), NEW d \in Seq(Mapped), NEW n \in Nat, n = Len(c), n >= 3,
         Len(d) = n - 1, d[1] = c[1], \A i \in 2 .. n - 1 : d[i] = c[i + 1]
  PROVE  /\ After(d, 1) = After(c, 2)
         /\ \A i \in 2 .. n - 1 : After(d, i) = After(c, i + 1)
<1>1. After(d, 1) = d[2] /\ After(c, 2) = c[3] /\ d[2] = c[3]
  <2>1. 1 # Len(d) /\ 2 # Len(c) /\ 2 \in 2 .. n - 1
    OBVIOUS
  <2> QED BY <2>1 DEF After
<1>2. ASSUME NEW i \in 2 .. n - 1 PROVE After(d, i) = After(c, i + 1)
  <2>1. CASE i = n - 1
    <3>1. i = Len(d) /\ i + 1 = Len(c)
      BY <2>1
    <3> QED BY <3>1 DEF After
  <2>2. CASE i # n - 1
    <3>1. i # Len(d) /\ i + 1 # Len(c) /\ i + 1 \in 2 .. n - 1
      BY <2>2
    <3>2. d[i + 1] = c[i + 1 + 1]
      BY <3>1
    <3> QED BY <3>1, <3>2 DEF After
  <2> QED BY <2>1, <2>2
<1> QED BY <1>1, <1>2

LEMMA ShorterCycle ==
  ASSUME NEW c \in Seq(Mapped), NEW n \in Nat, n = Len(c), n >= 2, NEW d, d = <<c[1]>> \o SubSeq(c, 3, n)
  PROVE  /\ d \in Seq(Mapped) /\ Len(d) = n - 1 /\ d[1] = c[1]
         /\ \A i \in 2 .. n - 1 : d[i] = c[i + 1]
<1>1. c[1] \in Mapped
  OBVIOUS
<1>2. SubSeq(c, 3, n) \in Seq(Mapped) /\ Len(SubSeq(c, 3, n)) = n - 2
      /\ \A i \in 1 .. n - 2 : SubSeq(c, 3, n)[i] = c[i + 2]
  OBVIOUS
<1>3. <<c[1]>> \in Seq(Mapped) /\ Len(<<c[1]>>) = 1
  BY <1>1
<1> DEFINE s == SubSeq(c, 3, n)
<1> HIDE DEF s
<1>4. d = <<c[1]>> \o s /\ s \in Seq(Mapped) /\ Len(s) = n - 2 /\ \A i \in 1 .. n - 2 : s[i] = c[i + 2]
  BY <1>2 DEF s
<1>5. d \in Seq(Mapped) /\ Len(d) = n - 1 /\ d[1] = c[1]
  BY <1>3, <1>4
<1>6. \A i \in 2 .. n - 1 : d[i] = c[i + 1]
  <2> SUFFICES ASSUME NEW i \in 2 .. n - 1 PROVE d[i] = c[i + 1]
    OBVIOUS
  <2>1. d[i] = s[i - 1]
    BY <1>3, <1>4
  <2>2. i - 1 \in 1 .. n - 2 /\ (i - 1) + 2 = i + 1
    OBVIOUS
  <2> QED BY <1>4, <2>1, <2>2
<1> QED BY <1>5, <1>6

\* The first two members of a cycle change places, and so do their records.
LEMMA ExchangeSettles ==
  ASSUME Sound, Honest, run.phase = "move", run.owed = NothingOwed, UNCHANGED <<cat, rec>>,
         NEW p \in Mapped, NEW q \in Mapped, p # q,
         Toward(cat, rec, p, q), Whole(rec, disk, own, p),
         NEW x, Toward(cat, rec, q, x), Whole(rec, disk, own, q),
         disk' = [disk EXCEPT ![p] = disk[q], ![q] = disk[p]], own' = Carried(p, q),
         run'.owed = [NothingOwed EXCEPT !.rekey = Exchange(p, q)], run'.phase = "move"
  PROVE  /\ OwnSettled' /\ Tended(cat, rec)'
         /\ Noted'[p] = rec[q] /\ Noted'[q] = rec[p]
         /\ \A s \in Paths \ {p, q} : Noted'[s] = rec[s] /\ disk'[s] = disk[s] /\ (s \in own' <=> s \in own)
         /\ Whole(Noted', disk', own', p) /\ Whole(Noted', disk', own', q)
<1>1. /\ Tended(cat, rec) /\ rec \in Records /\ \A s \in own : Settled(cat, rec, disk, s)
      /\ disk \in [Paths -> Nat] /\ p \in Paths /\ q \in Paths
  BY NoneOwed, EntriesAre, PathFacts DEF Honest, OwnSettled, Sound, Shapes
<1>2. /\ rec[p] # NoRecord /\ rec[p].entry \in DOMAIN cat /\ rec[q] # NoRecord /\ rec[q].entry \in DOMAIN cat
      /\ Waits(cat, rec, p) /\ Waits(cat, rec, q)
  BY DEF Toward, Waits
<1> DEFINE m == Exchange(p, q)
<1>3. m \in Moves /\ DOMAIN m # {}
  <2>1. Exchange(p, q) \in Moves /\ DOMAIN Exchange(p, q) = {p, q}
    BY OnlyTyped
  <2> QED BY <2>1
<1>4. /\ run'.owed \in Owes /\ run'.owed.rekey = m /\ run'.owed.forget = {} /\ run'.owed.seen = {}
      /\ run'.owed # NothingOwed
  <2> HIDE DEF m
  <2>1. run'.owed = [NothingOwed EXCEPT !.rekey = m]
    BY DEF m
  <2> QED BY <1>3, <2>1, RekeyOwed
<1>5. Owing' /\ Noted' = DueOf(cat, rec, run'.owed)
  BY <1>4 DEF Owing, Noted
<1>6. \A s \in Paths : Noted'[s] = Rekeyed(cat, rec, m)[s]
  <2> HIDE DEF m
  <2>1. \A w \in Owes : w.forget = {} /\ w.seen = {}
          => \A s \in Paths : DueOf(cat, rec, w)[s] = Rekeyed(cat, rec, w.rekey)[s]
    BY <1>1, DueRekeys
  <2> QED BY <1>4, <1>5, <2>1
<1>7. Noted'[p] = rec[q] /\ Noted'[q] = rec[p] /\ \A s \in Paths \ {p, q} : Noted'[s] = rec[s]
  BY <1>1, <1>2, <1>6, TwoChangePlaces
<1>8. disk'[p] = disk[q] /\ disk'[q] = disk[p] /\ \A s \in Paths \ {p, q} : disk'[s] = disk[s]
  BY <1>1
<1>9. /\ p \in own' <=> q \in own
      /\ q \in own' <=> p \in own
      /\ \A s : s # p /\ s # q => (s \in own' <=> s \in own)
  BY DEF Carried
<1>10. Whole(Noted', disk', own', p) /\ Whole(Noted', disk', own', q)
  BY <1>7, <1>8, <1>9 DEF Whole
<1>11. ASSUME NEW s \in own' PROVE Settled(cat, Noted', disk', s) /\ Settled(cat, rec, disk', s)
  <2>1. CASE s = p
    <3>1. Fit(Noted', disk', p)
      BY <1>2, <1>7, <1>10, <1>11, <2>1 DEF Fit, Whole
    <3> QED BY <1>2, <2>1, <3>1 DEF Settled
  <2>2. CASE s = q
    <3>1. Fit(Noted', disk', q)
      BY <1>2, <1>7, <1>10, <1>11, <2>2 DEF Fit, Whole
    <3> QED BY <1>2, <2>2, <3>1 DEF Settled
  <2>3. CASE s # p /\ s # q
    <3>1. s \in own /\ s \in Paths
      BY <1>9, <1>11, <2>3, OwnStands
    <3>2. Settled(cat, rec, disk, s) /\ rec[s] = Noted'[s] /\ disk[s] = disk'[s]
      BY <1>1, <1>7, <1>8, <2>3, <3>1
    <3>3. Settled(cat, Noted', disk', s)
      BY <3>2 DEF Settled, Waits, Fit, Strange
    <3>4. Settled(cat, rec, disk', s)
      BY <3>2 DEF Settled, Waits, Fit, Strange
    <3> QED BY <3>3, <3>4
  <2> QED BY <2>1, <2>2, <2>3
<1>12. OwnSettled' /\ Tended(cat, rec)'
  BY <1>1, <1>5, <1>11 DEF OwnSettled
<1> QED BY <1>7, <1>8, <1>9, <1>10, <1>12

LEMMA ExchangeNextHonest ==
  ASSUME Sound, Honest, ExchangeNext, rows' = rows
  PROVE  Honest'
<1>0. Shapes /\ Tidy
  BY DEF Sound
<1>1. /\ MoveKeeps /\ run.cycle # <<>> /\ run'.pending = run.pending
      /\ Len(run.cycle) \in Nat /\ Len(run.cycle) >= 1
      /\ \/ /\ run'.cycle = <<>> /\ UNCHANGED <<disk, own>>
            /\ run'.owed = NothingOwed
         \/ /\ Len(run.cycle) >= 2 /\ run.cycle[1] \in Mapped /\ run.cycle[2] \in Mapped
            /\ disk' = [disk EXCEPT ![run.cycle[1]] = disk[run.cycle[2]], ![run.cycle[2]] = disk[run.cycle[1]]]
            /\ own' = Carried(run.cycle[1], run.cycle[2])
            /\ run'.owed = [NothingOwed EXCEPT !.rekey = Exchange(run.cycle[1], run.cycle[2])]
            /\ run'.cycle = <<run.cycle[1]>> \o SubSeq(run.cycle, 3, Len(run.cycle))
  BY <1>0, ExchangeNextIs
<1>2. /\ run.phase = "move" /\ run.owed = NothingOwed /\ run.phase \in Relocs
      /\ UNCHANGED <<cat, rec>> /\ run'.phase = "move" /\ run'.gone = run.gone /\ run'.todo = run.todo
  BY <1>1 DEF MoveKeeps, Relocs
<1>3. Departing' /\ Committing' /\ Refreshing' /\ Fetching' /\ Looking'
  BY <1>1, <1>2, RelocLeaves DEF Looking, Relocs
<1>4. /\ Noted = rec
      /\ \A q \in DOMAIN run.pending : Toward(cat, rec, q, run.pending[q]) /\ Whole(rec, disk, own, q)
      /\ run.gone \cap DOMAIN run.pending = {}
      /\ run.gone \cap run.todo = {} /\ DOMAIN run.pending \cap run.todo = {}
      /\ run.gone \cap own \subseteq PathsOf(cat)
      /\ Range(run.cycle) \cap (DOMAIN run.pending \cup run.gone) = {}
      /\ \A i, j \in 1 .. Len(run.cycle) : run.cycle[i] = run.cycle[j] => i = j
      /\ Len(run.cycle) >= 2 => Linked(run.cycle, rec)
  BY <1>2, NoneOwed DEF Honest, Moving
<1>5. run.cycle \in Seq(Mapped) /\ DOMAIN run.pending \subseteq Mapped /\ Mapped \subseteq Paths
  BY <1>0, <1>2, RelocFields, MovesAre, PathFacts
<1>6. CASE run'.cycle = <<>> /\ UNCHANGED <<disk, own>> /\ run'.owed = NothingOwed
  <2>1. OwnSettled' /\ Tended(cat, rec)' /\ Noted' = rec
    BY <1>2, <1>6, FreelySettled
  <2>2. Range(<<>>) = {} /\ Len(<<>>) = 0
    BY DEF Range
  <2>3. Moving'
    BY <1>1, <1>2, <1>4, <1>6, <2>1, <2>2 DEF Moving
  <2> QED BY <1>3, <2>1, <2>3 DEF Honest
<1>7. CASE /\ Len(run.cycle) >= 2 /\ run.cycle[1] \in Mapped /\ run.cycle[2] \in Mapped
           /\ disk' = [disk EXCEPT ![run.cycle[1]] = disk[run.cycle[2]], ![run.cycle[2]] = disk[run.cycle[1]]]
           /\ own' = Carried(run.cycle[1], run.cycle[2])
           /\ run'.owed = [NothingOwed EXCEPT !.rekey = Exchange(run.cycle[1], run.cycle[2])]
           /\ run'.cycle = <<run.cycle[1]>> \o SubSeq(run.cycle, 3, Len(run.cycle))
  <2>1. PICK c \in Seq(Mapped) : c = run.cycle
    BY <1>5
  <2>2. PICK n \in Nat : n = Len(c) /\ n >= 2
    BY <1>1, <1>7, <2>1
  <2>3. PICK p \in Mapped, q \in Mapped : p = c[1] /\ q = c[2]
    BY <1>7, <2>1
  <2>4. 1 \in 1 .. n /\ 2 \in 1 .. n /\ p # q
    <3>1. 1 \in 1 .. n /\ 2 \in 1 .. n
      BY <2>2
    <3> QED BY <1>4, <2>1, <2>2, <2>3, <3>1
  <2>5. \A i \in 1 .. n : Toward(cat, rec, c[i], After(c, i)) /\ Whole(rec, disk, own, c[i])
    BY <1>4, <2>1, <2>2 DEF Linked
  <2>6. Toward(cat, rec, p, q) /\ Whole(rec, disk, own, p)
    <3>1. After(c, 1) = q
      <4>1. 1 # Len(c)
        BY <2>2
      <4> QED BY <2>3, <4>1 DEF After
    <3> QED BY <2>3, <2>4, <2>5, <3>1
  <2>7. PICK x : x = After(c, 2)
    OBVIOUS
  <2>8. Toward(cat, rec, q, x) /\ Whole(rec, disk, own, q)
    BY <2>3, <2>4, <2>5, <2>7
  <2>9. /\ disk' = [disk EXCEPT ![p] = disk[q], ![q] = disk[p]] /\ own' = Carried(p, q)
        /\ run'.owed = [NothingOwed EXCEPT !.rekey = Exchange(p, q)]
        /\ run'.cycle = <<c[1]>> \o SubSeq(c, 3, n)
    BY <1>7, <2>1, <2>2, <2>3
  <2>10. /\ OwnSettled' /\ Tended(cat, rec)'
         /\ Noted'[p] = rec[q] /\ Noted'[q] = rec[p]
         /\ \A s \in Paths \ {p, q} : Noted'[s] = rec[s] /\ disk'[s] = disk[s] /\ (s \in own' <=> s \in own)
         /\ Whole(Noted', disk', own', p) /\ Whole(Noted', disk', own', q)
    BY <1>2, <2>4, <2>6, <2>8, <2>9, ExchangeSettles
  <2>0. PICK d : d = run'.cycle
    OBVIOUS
  <2>11. /\ d = run'.cycle /\ d \in Seq(Mapped) /\ Len(d) = n - 1 /\ d[1] = c[1]
         /\ \A i \in 2 .. n - 1 : d[i] = c[i + 1]
    <3>1. d = <<c[1]>> \o SubSeq(c, 3, n)
      BY <2>0, <2>9
    <3> QED BY <2>0, <2>2, <3>1, ShorterCycle
  <2>12. \A i \in 1 .. n : c[i] \in Range(c)
    BY <2>1, <2>2 DEF Range
  <2>13. p \notin DOMAIN run.pending \cup run.gone /\ q \notin DOMAIN run.pending \cup run.gone
    BY <1>4, <2>1, <2>3, <2>4, <2>12
  <2>14. \A s \in Range(d) : s \in Range(c)
    <3> SUFFICES ASSUME NEW i \in 1 .. n - 1 PROVE d[i] \in Range(c)
      BY <2>2, <2>11 DEF Range
    <3>1. CASE i = 1
      BY <2>4, <2>11, <2>12, <3>1
    <3>2. CASE i # 1
      <4>1. i \in 2 .. n - 1 /\ i + 1 \in 1 .. n
        BY <2>2, <3>2
      <4> QED BY <2>11, <2>12, <4>1
    <3> QED BY <3>1, <3>2
  <2>15. \A s \in DOMAIN run.pending : Toward(cat, Noted', s, run.pending[s]) /\ Whole(Noted', disk', own', s)
    <3> SUFFICES ASSUME NEW s \in DOMAIN run.pending
                 PROVE  Toward(cat, Noted', s, run.pending[s]) /\ Whole(Noted', disk', own', s)
      OBVIOUS
    <3>1. s \in Paths \ {p, q}
      BY <1>5, <2>13
    <3>2. /\ Noted'[s] = rec[s] /\ disk'[s] = disk[s] /\ (s \in own' <=> s \in own)
          /\ Toward(cat, rec, s, run.pending[s]) /\ Whole(rec, disk, own, s)
      BY <1>4, <2>10, <3>1
    <3> QED BY <3>2 DEF Toward, Whole
  <2>16. run.gone \cap own' \subseteq PathsOf(cat)
    <3> SUFFICES ASSUME NEW s \in run.gone, s \in own' PROVE s \in PathsOf(cat)
      OBVIOUS
    <3>1. s \in Paths \ {p, q}
      BY <1>0, <1>2, <1>5, <2>13, RelocFields
    <3> QED BY <1>4, <2>10, <3>1
  <2>17. \A i, j \in 1 .. n - 1 : d[i] = d[j] => i = j
    <3> SUFFICES ASSUME NEW i \in 1 .. n - 1, NEW j \in 1 .. n - 1, d[i] = d[j] PROVE i = j
      OBVIOUS
    <3>1. \A k \in 1 .. n - 1 : d[k] = c[IF k = 1 THEN 1 ELSE k + 1]
      <4> SUFFICES ASSUME NEW k \in 1 .. n - 1 PROVE d[k] = c[IF k = 1 THEN 1 ELSE k + 1]
        OBVIOUS
      <4>1. k = 1 \/ k \in 2 .. n - 1
        BY <2>2
      <4> QED BY <2>11, <4>1
    <3> DEFINE a == IF i = 1 THEN 1 ELSE i + 1
               b == IF j = 1 THEN 1 ELSE j + 1
    <3>2. a \in 1 .. n /\ b \in 1 .. n /\ c[a] = c[b]
      BY <2>2, <3>1
    <3>3. a = b
      <4> HIDE DEF a, b
      <4> QED BY <1>4, <2>1, <2>2, <3>2
    <3> QED BY <2>2, <3>3
  <2>18. ASSUME n - 1 >= 2
         PROVE  \A i \in 1 .. n - 1 : Toward(cat, Noted', d[i], After(d, i)) /\ Whole(Noted', disk', own', d[i])
    <3>0. /\ After(d, 1) = After(c, 2) /\ After(c, 2) = c[3]
          /\ \A i \in 2 .. n - 1 : After(d, i) = After(c, i + 1)
      <4>1. n >= 3
        BY <2>2, <2>18
      <4>2. 2 # Len(c)
        BY <2>2, <4>1
      <4> QED BY <2>2, <2>11, <4>1, <4>2, LinkedOn DEF After
    <3> SUFFICES ASSUME NEW i \in 1 .. n - 1
                 PROVE  Toward(cat, Noted', d[i], After(d, i)) /\ Whole(Noted', disk', own', d[i])
      OBVIOUS
    <3>1. CASE i = 1
      <4>1. d[i] = p /\ After(d, i) = x
        BY <2>3, <2>7, <2>11, <3>0, <3>1
      <4>2. x # p
        <5>1. 3 \in 1 .. n /\ x = c[3]
          BY <2>2, <2>7, <2>18, <3>0
        <5> QED BY <1>4, <2>1, <2>2, <2>3, <2>4, <5>1
      <4>3. Toward(cat, Noted', p, x)
        BY <2>8, <2>10, <4>2 DEF Toward
      <4> QED BY <2>10, <4>1, <4>3
    <3>2. CASE i # 1
      <4>1. i \in 2 .. n - 1 /\ i + 1 \in 1 .. n /\ i + 1 # 1 /\ i + 1 # 2
        BY <2>2, <3>2
      <4>2. d[i] = c[i + 1] /\ After(d, i) = After(c, i + 1)
        BY <2>11, <3>0, <4>1
      <4>3. c[i + 1] # p /\ c[i + 1] # q /\ c[i + 1] \in Paths
        <5>1. c[i + 1] \in Mapped
          BY <2>1, <2>2, <4>1
        <5> QED BY <1>4, <1>5, <2>1, <2>2, <2>3, <2>4, <4>1, <5>1
      <4>4. /\ Toward(cat, rec, c[i + 1], After(c, i + 1)) /\ Whole(rec, disk, own, c[i + 1])
        BY <2>5, <4>1
      <4>5. PICK s \in Paths \ {p, q} : s = c[i + 1]
        BY <4>3
      <4>6. Noted'[s] = rec[s] /\ disk'[s] = disk[s] /\ (s \in own' <=> s \in own)
        BY <2>10
      <4>7. Toward(cat, Noted', s, After(c, i + 1)) /\ Whole(Noted', disk', own', s)
        BY <4>4, <4>5, <4>6 DEF Toward, Whole
      <4> QED BY <4>2, <4>5, <4>7
    <3> QED BY <3>1, <3>2
  <2>19. (Len(run.cycle) >= 2 => Linked(run.cycle, Noted))'
    BY <1>2, <2>11, <2>18 DEF Linked, After
  <2>20. Moving'
    BY <1>1, <1>2, <1>4, <2>1, <2>11, <2>14, <2>15, <2>16, <2>17, <2>19 DEF Moving
  <2> QED BY <1>3, <2>10, <2>20 DEF Honest
<1> QED BY <1>1, <1>6, <1>7

LEMMA FollowNextHonest ==
  ASSUME Sound, Honest, FollowNext, ~FollowedOver, rows' = rows
  PROVE  Honest'
<1>0. Shapes /\ Tidy
  BY DEF Sound
<1>1. PICK p \in run.gone :
        LET to == run.looks[p].to IN
           /\ p = Least(run.gone) /\ p \in Mapped /\ to \in Mapped
           /\ run.phase = "gone" /\ run.owed = NothingOwed
           /\ UNCHANGED <<cat, disk>>
           /\ run'.phase = "gone" /\ run'.owed = NothingOwed /\ run'.gone = run.gone \ {p}
           /\ \/ /\ run.looks[p].target = NoFile /\ rec[to] = NoRecord
                 /\ Only(p, to) \in Moves /\ Keep(Rekeyed(cat, rec, Only(p, to)))
              \/ Keep(Forgotten(rec, {p}))
  BY <1>0, FollowNextIs
<1> DEFINE to == run.looks[p].to
<1>2. Departing' /\ Committing' /\ Refreshing' /\ Fetching' /\ Looking'
  BY <1>1, RelocLeaves DEF Looking, Relocs
<1>3. /\ ~Owing /\ Tended(cat, rec) /\ rec \in Records /\ Mapped \subseteq Paths
      /\ \A q \in own : Settled(cat, rec, disk, q)
      /\ run.gone \cap own \subseteq PathsOf(cat)
  BY <1>1, NoneOwed, EntriesAre, PathFacts DEF Honest, OwnSettled, Moving
<1>4. own' = own /\ disk' = disk /\ cat' = cat /\ ~Owing'
  BY <1>1 DEF Keep, Owing
<1>5. Moving'
  BY <1>1, <1>3, <1>4 DEF Moving
<1>6. CASE /\ run.looks[p].target = NoFile /\ rec[to] = NoRecord
           /\ Only(p, to) \in Moves /\ rec' = Rekeyed(cat, rec, Only(p, to))
  <2>1. to \notin own
    BY <1>1, <1>6 DEF FollowedOver
  <2>2. DOMAIN Only(p, to) = {p} /\ Only(p, to)[p] = to
    BY <1>1, OnlyTyped
  <2> HIDE DEF to
  <2>3. rec'[p] = NoRecord
    <3>1. \A q \in DOMAIN Only(p, to) : Only(p, to)[q] = p => rec[q] = NoRecord
      BY <1>6, <2>2
    <3>2. Rekeyed(cat, rec, Only(p, to))[p] = NoRecord
      BY <1>3, <1>6, <2>2, <3>1, RekeyedLeaves
    <3> QED BY <1>6, <3>2
  <2>4. Tended(cat, rec') /\ \A q \in Paths \ {p, to} : rec'[q] = rec[q]
    BY <1>3, <1>6, <2>2, RekeyedRests
  <2>5. ASSUME NEW q \in own PROVE Settled(cat, rec', disk, q)
    <3>1. CASE q = p
      <4>1. p \in PathsOf(cat)
        BY <1>3, <3>1
      <4> QED BY <2>3, <3>1, <4>1, BareSettles
    <3>2. CASE q # p
      <4>1. q \in Paths \ {p, to}
        BY <2>1, <2>5, <3>2, OwnStands
      <4> QED BY <1>3, <2>4, <4>1, SettledSame
    <3> QED BY <3>1, <3>2
  <2> QED BY <1>2, <1>4, <1>5, <2>4, <2>5 DEF Honest, OwnSettled
<1>7. CASE rec' = Forgotten(rec, {p})
  <2>1. Tended(cat, rec') /\ rec'[p] = NoRecord /\ \A q \in Paths \ {p} : rec'[q] = rec[q]
    BY <1>1, <1>3, <1>7, ForgottenTyped, ForgottenTends
  <2>2. ASSUME NEW q \in own PROVE Settled(cat, rec', disk, q)
    <3>1. CASE q = p
      <4>1. p \in PathsOf(cat)
        BY <1>3, <3>1
      <4> QED BY <2>1, <3>1, <4>1, BareSettles
    <3>2. CASE q # p
      <4>1. q \in Paths \ {p}
        BY <3>2, OwnStands
      <4> QED BY <1>3, <2>1, <4>1, SettledSame
    <3> QED BY <3>1, <3>2
  <2> QED BY <1>2, <1>4, <1>5, <2>1, <2>2 DEF Honest, OwnSettled
<1> QED BY <1>1, <1>6, <1>7 DEF Keep, to

LEMMA RecordItHonest ==
  ASSUME Sound, Honest, RecordIt, rows' = rows
  PROVE  Honest'
<1>0. Shapes /\ Tidy /\ Planned
  BY DEF Sound
<1>1. /\ run.phase # "idle" /\ run.owed # NothingOwed /\ run.owed \in Owes
      /\ rec' = Due /\ own' = own /\ UNCHANGED <<cat, disk>>
      /\ run.phase = "end" => run' = Idle
      /\ run.phase # "end" => run'.owed = NothingOwed /\ run'.phase = run.phase
  BY <1>0, RecordItIs
<1>2. Owing /\ Noted = DueOf(cat, rec, run.owed) /\ rec' = Noted
  BY <1>1 DEF Owing, Noted, Due, DueOf
<1>3. ~Owing' /\ Noted' = rec'
  BY <1>1 DEF Owing, Noted, Idle
<1>4. OwnSettled'
  BY <1>1, <1>2, <1>3 DEF Honest, OwnSettled
<1>5. Tended(cat, rec)'
  BY <1>1, <1>2, EntriesAre, DueParts DEF Honest
<1>6. run.phase \notin {"idle", "look", "finish", "gone", "relocated", "commit", "refresh"}
  BY <1>0, <1>1 DEF Tidy, Planned, Relocs
<1>7. run'.phase \notin {"look", "finish", "gone", "relocated", "commit", "refresh", "end"}
  BY <1>1, <1>6 DEF Idle
<1>8. rows' = {} /\ PathsIn(rows') = {} /\ OnePath(rows')
  <2>1. rows' = {}
    BY <1>6 DEF Honest, Refreshing
  <2> QED BY <2>1 DEF PathsIn, OnePath
<1>9. Committing' /\ Refreshing'
  BY <1>7, <1>8 DEF Committing, Refreshing
<1>10. run'.phase = run.phase \/ run'.phase = "idle"
  BY <1>1 DEF Idle
<1>11. Departing'
  <2> SUFFICES ASSUME run'.phase = "depart" PROVE Departing'
    BY DEF Departing
  <2>1. run.phase = "depart"
    BY <1>10
  <2>2. /\ run'.forgotten = run.forgotten /\ run'.refreshed = run.refreshed /\ run'.adds = run.adds
        /\ run'.updates = run.updates /\ run'.renames = run.renames
    BY <1>0, <2>1, RecordItIs
  <2> QED BY <1>1, <2>1, <2>2 DEF Honest, Departing, Carrying, Ends, FromsStand
<1>12. Looking' /\ Moving'
  <2> SUFFICES ASSUME run'.phase \in {"decide", "move"} PROVE Looking' /\ Moving'
    BY <1>7 DEF Looking, Moving
  <2>1. run.phase \in Relocs /\ run'.phase = run.phase
    BY <1>10 DEF Relocs
  <2>2. /\ run'.looks = run.looks /\ run'.todo = run.todo /\ run'.touched = run.touched
        /\ run'.pending = run.pending /\ run'.cycle = run.cycle /\ run'.gone = run.gone
    BY <1>0, <2>1, RecordItIs
  <2>3. Looking'
    BY <1>1, <1>2, <1>3, <1>7, <2>1, <2>2 DEF Honest, Looking, Seen, Tied
  <2>4. Noted' = Noted /\ own' = own /\ disk' = disk /\ cat' = cat
    BY <1>1, <1>2, <1>3
  <2>5. Moving'
    BY <1>7, <2>1, <2>2, <2>4 DEF Honest, Moving, Linked, After
  <2> QED BY <2>3, <2>5
<1>13. Fetching'
  <2> SUFFICES ASSUME run'.phase = "place" PROVE Fetching'
    BY DEF Fetching
  <2>1. run.phase = "place" /\ run'.wanted = run.wanted
    BY <1>0, <1>10, RecordItIs
  <2> QED BY <1>1, <1>2, <1>3, <2>1 DEF Honest, Fetching
<1> QED BY <1>4, <1>5, <1>9, <1>11, <1>12, <1>13 DEF Honest

LEMMA RelocateHonest ==
  ASSUME Sound, Honest, Relocate, torn' = {}
  PROVE  Honest'
<1>1. rows' = rows /\ RelocationStep /\ ~FollowedOver
  BY DEF Relocate
<1> QED
  BY <1>1, FinishNextHonest, FinishDoneHonest, DecideNextHonest, DecideDoneHonest, MoveOneHonest,
     BeginCycleHonest, ExchangeNextHonest, MovesDoneHonest, RecordItHonest, FollowNextHonest,
     FollowDoneHonest DEF RelocationStep

-----------------------------------------------------------------------------
\* What a replay leaves of the records.

\* An Entry stands at a path, or is put or renamed there by a record of the log.
Origin(c, log, g, p) ==
  \/ g \in DOMAIN c /\ c[g].path = p
  \/ \E x \in Range(log) : g \in DOMAIN x.put /\ x.put[g].path = p
  \/ \E x \in Range(log) : g \in DOMAIN x.renamed /\ x.renamed[g] = p

LEMMA ReplayedFrom ==
  ASSUME NEW c \in Catalogs, NEW r \in Changes, NEW e \in DOMAIN Replayed(c, r), e \notin DOMAIN r.put
  PROVE  /\ e \in DOMAIN c
         /\ Replayed(c, r)[e].path = IF e \in DOMAIN r.renamed THEN r.renamed[e] ELSE c[e].path
<1>1. /\ DOMAIN Replayed(c, r) = (DOMAIN c \ r.removed) \cup DOMAIN r.put
      /\ \A g \in DOMAIN c \ r.removed :
            g \notin DOMAIN r.put =>
              /\ Replayed(c, r)[g].data = c[g].data
              /\ Replayed(c, r)[g].path = IF g \in DOMAIN r.renamed THEN r.renamed[g] ELSE c[g].path
  BY ReplayedTyped
<1>2. PICK d : d = Replayed(c, r)
  OBVIOUS
<1>3. e \in DOMAIN c \ r.removed
  BY <1>1, <1>2
<1> QED BY <1>1, <1>3

LEMMA ReplayedPuts ==
  ASSUME NEW c \in Catalogs, NEW r \in Changes
  PROVE  /\ DOMAIN Replayed(c, r) = (DOMAIN c \ r.removed) \cup DOMAIN r.put
         /\ \A e \in DOMAIN r.put : e \in DOMAIN Replayed(c, r) /\ Replayed(c, r)[e] = r.put[e]
<1>1. /\ DOMAIN Replayed(c, r) = (DOMAIN c \ r.removed) \cup DOMAIN r.put
      /\ \A e \in DOMAIN r.put : Replayed(c, r)[e] = r.put[e]
  BY ReplayedTyped
<1> QED BY <1>1

LEMMA ReplayOrigins ==
  ASSUME NEW c \in Catalogs, NEW r \in Records, NEW log \in Seq(Changes), NEW f, Passes(f, c, r, log)
  PROVE  \A n \in 0 .. Len(log) : \A g \in DOMAIN f[n].cat : Origin(c, log, g, f[n].cat[g].path)
<1> DEFINE N == Len(log)
           S == {n \in 0 .. N : \A g \in DOMAIN f[n].cat : Origin(c, log, g, f[n].cat[g].path)}
<1>0. N \in Nat /\ \A n \in 1 .. N : log[n] \in Changes /\ log[n] \in Range(log)
  BY DEF Range
<1>1. f[0].cat = c
  BY DEF Passes
<1>2. \A n \in 1 .. N : f[n].cat = Replayed(f[n - 1].cat, log[n])
  BY DEF Passes
<1>3. \A n \in 0 .. N : f[n].cat \in Catalogs
  BY DEF Passes
<1> HIDE DEF N
<1>4. 0 \in S
  <2>1. \A g \in DOMAIN f[0].cat : Origin(c, log, g, f[0].cat[g].path)
    BY <1>1 DEF Origin
  <2> QED BY <1>0, <2>1
<1>5. ASSUME NEW n \in 1 .. N, n - 1 \in S PROVE n \in S
  <2>1. n \in 0 .. N /\ n - 1 \in 0 .. N
    BY <1>0
  <2>2. \A g \in DOMAIN f[n - 1].cat : Origin(c, log, g, f[n - 1].cat[g].path)
    BY <1>5
  <2>3. PICK b \in Catalogs, x \in Changes :
          /\ b = f[n - 1].cat /\ x = log[n] /\ x \in Range(log) /\ f[n].cat = Replayed(b, x)
    BY <1>0, <1>2, <1>3, <2>1
  <2>4. ASSUME NEW g \in DOMAIN Replayed(b, x) PROVE Origin(c, log, g, Replayed(b, x)[g].path)
    <3>1. CASE g \in DOMAIN x.put
      BY <2>3, <3>1, ReplayedTyped DEF Origin
    <3>2. CASE g \notin DOMAIN x.put
      <4>1. g \in DOMAIN b
        BY <2>4, <3>2, ReplayedFrom
      <4>2. Replayed(b, x)[g].path = IF g \in DOMAIN x.renamed THEN x.renamed[g] ELSE b[g].path
        BY <2>4, <3>2, ReplayedFrom
      <4>3. Origin(c, log, g, b[g].path)
        BY <2>2, <2>3, <4>1
      <4> QED BY <2>3, <4>2, <4>3 DEF Origin
    <3> QED BY <3>1, <3>2
  <2> QED BY <2>1, <2>3, <2>4
<1> HIDE DEF S
<1>6. \A n \in 0 .. N : n \in S
  BY <1>0, <1>4, <1>5, Stepwise
<1> QED BY <1>6 DEF S, N

LEMMA ReplayKeeps ==
  ASSUME NEW c \in Catalogs, NEW r \in Records, Tended(c, r), NEW log \in Seq(Changes)
  PROVE  LET a == ApplyAll(c, r, log) IN
         /\ Tended(a.cat, a.rec)
         /\ \A p \in Paths : \/ a.rec[p] = r[p]
                             \/ a.rec[p] = NoRecord /\ \E g : g # r[p].entry /\ Origin(c, log, g, p)
<1>1. PICK f : Passes(f, c, r, log)
  BY ReplayPasses
<1> DEFINE N == Len(log)
           StillIts(n, p) == \/ f[n].rec[p] = r[p]
                             \/ f[n].rec[p] = NoRecord /\ \E g : g # r[p].entry /\ Origin(c, log, g, p)
           S == {n \in 0 .. N : \A p \in Paths : StillIts(n, p)}
<1>0. N \in Nat
  OBVIOUS
<1>2. f[0].cat = c /\ f[0].rec = r /\ ApplyAll(c, r, log) = f[N]
  BY <1>1 DEF Passes
<1>3. \A n \in 1 .. N : f[n].rec = Reconcile(f[n].cat, f[n - 1].rec)
  BY <1>1 DEF Passes
<1>4. \A n \in 0 .. N : f[n].rec \in Records
  BY <1>1 DEF Passes
<1>5. \A n \in 0 .. N : \A g \in DOMAIN f[n].cat : Origin(c, log, g, f[n].cat[g].path)
  BY <1>1, ReplayOrigins
<1> HIDE DEF N
<1>6. 0 \in S
  <2>1. \A p \in Paths : StillIts(0, p)
    BY <1>2
  <2> HIDE DEF StillIts
  <2> QED BY <1>0, <2>1
<1>7. ASSUME NEW n \in 1 .. N, n - 1 \in S PROVE n \in S
  <2>1. n \in 0 .. N /\ n - 1 \in 0 .. N
    BY <1>0
  <2>2. PICK d \in {f[n].cat}, b \in Records : b = f[n - 1].rec /\ f[n].rec = Reconcile(d, b)
    BY <1>3, <1>4, <2>1
  <2>3. ASSUME NEW p \in Paths PROVE StillIts(n, p)
    <3>1. b[p] = r[p] \/ (b[p] = NoRecord /\ \E g : g # r[p].entry /\ Origin(c, log, g, p))
      BY <1>7, <2>2
    <3>2. Reconcile(d, b)[p] = IF b[p].entry \notin DOMAIN d /\ p \in PathsOf(d) THEN NoRecord ELSE b[p]
      BY ReconcileTyped
    <3>3. CASE b[p] = r[p] /\ b[p].entry \notin DOMAIN d /\ p \in PathsOf(d)
      <4>1. PICK g \in DOMAIN d : d[g].path = p
        BY <3>3 DEF PathsOf
      <4>2. g # r[p].entry /\ Origin(c, log, g, p)
        BY <1>5, <2>1, <2>2, <3>3, <4>1
      <4> QED BY <2>2, <3>2, <3>3, <4>2
    <3>4. CASE b[p] = r[p] /\ ~(b[p].entry \notin DOMAIN d /\ p \in PathsOf(d))
      <4>1. f[n].rec[p] = r[p]
        BY <2>2, <3>2, <3>4
      <4> QED BY <4>1
    <3>5. CASE b[p] = NoRecord /\ \E g : g # r[p].entry /\ Origin(c, log, g, p)
      BY <2>2, <3>2, <3>5
    <3> QED BY <3>1, <3>3, <3>4, <3>5
  <2> HIDE DEF StillIts
  <2> QED BY <2>1, <2>3
<1>8. Tended(f[N].cat, f[N].rec)
  <2>1. CASE N = 0
    BY <1>2, <2>1
  <2>2. CASE N # 0
    <3>1. N \in 1 .. N /\ N - 1 \in 0 .. N
      BY <1>0, <2>2
    <3>2. PICK d \in {f[N].cat}, b \in Records : f[N].rec = Reconcile(d, b)
      BY <1>3, <1>4, <3>1
    <3> QED BY <3>2, ReconcileTends
  <2> QED BY <2>1, <2>2
<1>9. N \in 0 .. N
  BY <1>0
<1> HIDE DEF S
<1>10. N \in S
  BY <1>0, <1>6, <1>7, <1>9, Stepwise
<1>11. \A p \in Paths : StillIts(N, p)
  BY <1>10 DEF S
<1> QED BY <1>2, <1>8, <1>11

\* A catch-up at the beginning of a run, or of a commit.
LEMMA CaughtUp ==
  ASSUME Sound, Honest, TornBy(journal) = {}, run.phase = "idle" \/ run.owed = NothingOwed,
         NEW c, NEW r, c = ApplyAll(cat, rec, journal).cat, r = ApplyAll(cat, rec, journal).rec
  PROVE  /\ c \in Catalogs /\ r \in Records /\ Tended(c, r) /\ CatGood(c, born, held)
         /\ journal = <<>> => c = cat /\ r = rec
         /\ \A p \in own \ Surrendered(r) : Settled(c, r, disk, p)
         /\ journal # <<>> => \A p \in own \ Surrendered(r) : Fit(r, disk, p)
<1>1. /\ cat \in Catalogs /\ rec \in Records /\ journal \in Seq(Changes) /\ Tended(cat, rec)
      /\ \A p \in own : Settled(cat, rec, disk, p)
  BY EntriesAre, NoneOwed DEF Honest, OwnSettled, Sound, Shapes
<1>2. c \in Catalogs /\ r \in Records /\ CatGood(c, born, held)
  BY <1>1, ReplayTyped, LinedEnd DEF Sound, Bounds
<1>3. /\ Tended(c, r)
      /\ \A p \in Paths : \/ r[p] = rec[p]
                          \/ r[p] = NoRecord /\ \E g : g # rec[p].entry /\ Origin(cat, journal, g, p)
  BY <1>1, ReplayKeeps
<1>4. ASSUME journal = <<>> PROVE c = cat /\ r = rec
  BY <1>1, <1>4, ReplayNone
<1>5. ASSUME journal # <<>>, NEW p \in own \ Surrendered(r) PROVE Fit(r, disk, p)
  <2>1. disk[p] = rec[p].data /\ disk[p] # NoFile /\ p \in Paths
    BY <1>5, OwnStands DEF TornBy
  <2>2. rec[p] # NoRecord
    BY <2>1, NoRecordIs
  <2>3. CASE r[p] = rec[p]
    BY <2>1, <2>2, <2>3 DEF Fit
  <2>4. CASE r[p] = NoRecord /\ \E g : g # rec[p].entry /\ Origin(cat, journal, g, p)
    <3>1. Comes(p, rec[p].entry)
      BY <2>4 DEF Origin, Comes
    <3> QED BY <1>5, <2>1, <2>2, <2>4, <3>1 DEF Surrendered
  <2> QED BY <1>3, <2>1, <2>3, <2>4
<1>6. \A p \in own \ Surrendered(r) : Settled(c, r, disk, p)
  <2>1. CASE journal = <<>>
    BY <1>1, <1>4, <2>1
  <2>2. CASE journal # <<>>
    BY <1>5, <2>2, FitSettles
  <2> QED BY <2>1, <2>2
<1> QED BY <1>2, <1>3, <1>4, <1>5, <1>6

LEMMA StartHonest ==
  ASSUME Sound, Honest, Start("sync") \/ Start("fetch"), torn' = {}
  PROVE  Honest'
<1> DEFINE c0 == ApplyAll(cat, rec, journal).cat
           r0 == ApplyAll(cat, rec, journal).rec
           done == {o \in rows : Completes(c0, o)}
<1>1. /\ run.phase = "idle" /\ TornBy(journal) = {}
      /\ cat' = c0 /\ rec' = Marked(c0, r0, done) /\ own' = own \ Surrendered(r0)
      /\ rows' = {} /\ disk' = disk
      /\ run'.phase = "look" /\ run'.owed = NothingOwed
  BY DEF Start, Idle
<1>2. PICK c, r : c = c0 /\ r = r0
  OBVIOUS
<1>3. /\ r \in Records /\ Tended(c, r)
      /\ \A p \in own \ Surrendered(r) : Settled(c, r, disk, p)
  BY <1>1, <1>2, CaughtUp
<1>4. done \in SUBSET rows
  OBVIOUS
<1> HIDE DEF c0, r0, done
<1>5. done \in SUBSET Seens /\ PathsIn(done) \cap own = {}
  BY <1>4 DEF Honest, Refreshing, PathsIn, Sound, Shapes
<1>6. Tended(c, rec') /\ \A p \in Paths \ PathsIn(done) : rec'[p] = r[p]
  BY <1>1, <1>2, <1>3, <1>5, MarkedRests
<1>7. ASSUME NEW p \in own' PROVE Settled(c, rec', disk, p)
  <2>1. p \in own \ Surrendered(r) /\ p \in Paths \ PathsIn(done)
    BY <1>1, <1>2, <1>5, <1>7, OwnStands
  <2> QED BY <1>3, <1>6, <2>1, SettledSame
<1>8. ~Owing'
  BY <1>1 DEF Owing
<1>9. OwnSettled' /\ Tended(cat, rec)'
  BY <1>1, <1>2, <1>6, <1>7, <1>8 DEF OwnSettled
<1>10. PathsIn(rows') = {} /\ OnePath(rows')
  BY <1>1 DEF PathsIn, OnePath
<1>11. Looking' /\ Moving' /\ Departing' /\ Committing' /\ Refreshing' /\ Fetching'
  BY <1>1, <1>10 DEF Looking, Moving, Departing, Committing, Refreshing, Fetching
<1> QED BY <1>9, <1>11 DEF Honest

-----------------------------------------------------------------------------
\* The steps of a sync.

\* What a scan takes for the person's is none of the device's.
LEMMA NotOwn ==
  ASSUME Sound, Honest, run.phase = "idle" \/ run.owed = NothingOwed
  PROVE  NewFiles \cap own = {} /\ Changed \cap own = {} /\ Gone \cap own = {}
<1>1. \A p \in own : Settled(cat, rec, disk, p) /\ disk[p] # NoFile
  BY NoneOwed, OwnStands DEF Honest, OwnSettled
<1>2. ASSUME NEW p \in NewFiles, p \in own PROVE FALSE
  <2>1. rec[p] = NoRecord /\ p \notin PathsOf(cat)
    BY <1>2 DEF NewFiles, EntryAt
  <2>2. ~Waits(cat, rec, p) /\ ~Fit(rec, disk, p)
    BY <2>1 DEF Waits, Fit
  <2>3. ~Strange(cat, rec, p)
    BY <2>1 DEF Strange, PathsOf
  <2> QED BY <1>1, <1>2, <2>2, <2>3 DEF Settled
<1>3. ASSUME NEW p \in Changed, p \in own PROVE FALSE
  <2>1. /\ p \in PathsOf(cat) /\ rec[p].entry = HolderOf(cat, p) /\ disk[p] # rec[p].data
        /\ ~Waits(cat, rec, p)
    BY <1>3 DEF Changed, EntryAt, Standing, Considered
  <2>2. \A e \in DOMAIN cat : cat[e].path = p => e = rec[p].entry
    BY <2>1, HolderIs
  <2> QED BY <1>1, <1>3, <2>1, <2>2 DEF Settled, Fit, Strange
<1>4. ASSUME NEW p \in Gone, p \in own PROVE FALSE
  BY <1>1, <1>4 DEF Gone
<1> QED BY <1>2, <1>3, <1>4

LEMMA ScanHonest ==
  ASSUME Sound, Honest, Scan
  PROVE  Honest'
<1>1. /\ run.phase = "relocated" /\ run.owed = NothingOwed
      /\ UNCHANGED <<cat, rec, disk, own, rows>>
      /\ run'.phase = "depart" /\ run'.owed = NothingOwed
      /\ run'.forgotten = Gone \ DeletedLocally
      /\ run'.refreshed = {[path |-> p, entry |-> rec[p].entry, data |-> disk[p]] : p \in Refreshed}
      /\ run'.adds = NewFiles \ {pair[2] : pair \in Pairs}
      /\ run'.updates = {[path |-> p, entry |-> rec[p].entry] : p \in Changed \ Refreshed}
      /\ run'.renames = {[entry |-> rec[pair[1]].entry, from |-> pair[1], to |-> pair[2]] : pair \in Pairs}
  BY ScanIs DEF Sound
<1>2. NewFiles \cap own = {} /\ Changed \cap own = {} /\ Gone \cap own = {}
  BY <1>1, NotOwn
<1>3. /\ \A p \in NewFiles : p \notin PathsOf(cat) /\ disk[p] # NoFile
      /\ \A p \in Changed : p \in PathsOf(cat) /\ disk[p] # NoFile
      /\ \A p \in DeletedLocally : p \in PathsOf(cat) /\ disk[p] = NoFile /\ p \in Gone
  BY DEF NewFiles, Changed, DeletedLocally, Standing, Gone, EntryAt
<1>4. ASSUME NEW m \in run'.renames
      PROVE  /\ m.from \in DeletedLocally /\ m.to \in NewFiles /\ m.to \notin run'.adds
             /\ m.entry \in DOMAIN cat /\ cat[m.entry].path = m.from
  <2>1. PICK pair \in Pairs : m = [entry |-> rec[pair[1]].entry, from |-> pair[1], to |-> pair[2]]
    BY <1>1
  <2>2. pair[1] \in DeletedLocally /\ pair[2] \in NewFiles /\ pair[1] \in GoneWith(disk[pair[2]])
    BY PairsAre
  <2>3. pair[1] \in PathsOf(cat) /\ rec[pair[1]].entry = HolderOf(cat, pair[1])
    BY <1>3, <2>2 DEF GoneWith
  <2>4. rec[pair[1]].entry \in DOMAIN cat /\ cat[rec[pair[1]].entry].path = pair[1]
    BY <2>3, HolderIs
  <2> QED BY <1>1, <2>1, <2>2, <2>4
<1>5. run'.adds \subseteq NewFiles
  BY <1>1
<1>6. \A u \in run'.updates : u.path \in Changed /\ u.entry = rec[u.path].entry
  BY <1>1
<1>7. \A o \in run'.refreshed : o.path \in Changed
  BY <1>1, ScanSets
<1>8. Carrying' = run'.adds \cup {u.path : u \in run'.updates}
  BY DEF Carrying
<1>9. Ends' = {m.from : m \in run'.renames} \cup {m.to : m \in run'.renames}
  BY DEF Ends
<1>10. (run'.forgotten \cup Carrying' \cup Ends' \cup PathsIn(run'.refreshed)) \cap own' = {}
  <2>1. Carrying' \cap own = {}
    BY <1>2, <1>5, <1>6, <1>8
  <2>2. Ends' \cap own = {}
    BY <1>2, <1>3, <1>4, <1>9
  <2>3. PathsIn(run'.refreshed) \cap own = {}
    BY <1>2, <1>7 DEF PathsIn
  <2>4. run'.forgotten \cap own = {}
    BY <1>1, <1>2
  <2> QED BY <1>1, <2>1, <2>2, <2>3, <2>4
<1>11. Ends' \cap Carrying' = {} /\ FromsStand'
  <2>1. \A m \in run'.renames : m.from \notin Carrying' /\ m.to \notin Carrying'
    BY <1>3, <1>4, <1>5, <1>6, <1>8
  <2>2. Ends' \cap Carrying' = {}
    BY <1>9, <2>1
  <2>3. FromsStand'
    BY <1>1, <1>4 DEF FromsStand
  <2> QED BY <2>2, <2>3
<1>12. PathsIn(run'.updates) \cap run'.adds = {}
  BY <1>3, <1>5, <1>6 DEF PathsIn
<1>13. OnePath(run'.updates)
  BY <1>1 DEF OnePath
<1>14. Departing'
  BY <1>10, <1>11, <1>12, <1>13 DEF Departing
<1>15. OwnSettled' /\ Tended(cat, rec)'
  BY <1>1, FreelySettled
<1>16. rows' = {} /\ PathsIn(rows') = {} /\ OnePath(rows')
  <2>1. rows' = {}
    BY <1>1 DEF Honest, Refreshing
  <2> QED BY <2>1 DEF PathsIn, OnePath
<1>17. Looking' /\ Moving' /\ Committing' /\ Refreshing' /\ Fetching'
  BY <1>1, <1>16 DEF Looking, Moving, Committing, Refreshing, Fetching
<1> QED BY <1>14, <1>15, <1>17 DEF Honest

\* A step of the departing.
LEMMA DepartLeaves ==
  ASSUME Honest, run.phase = "depart", run'.phase = "depart", rows' = rows, cat' = cat, own' \subseteq own,
         run'.forgotten \subseteq run.forgotten, run'.refreshed = run.refreshed, run'.adds = run.adds,
         run'.updates = run.updates, run'.renames = run.renames
  PROVE  Departing' /\ Looking' /\ Moving' /\ Committing' /\ Refreshing' /\ Fetching'
<1>1. rows' = {} /\ PathsIn(rows') = {} /\ OnePath(rows')
  <2>1. rows' = {}
    BY DEF Honest, Refreshing
  <2> QED BY <2>1 DEF PathsIn, OnePath
<1>2. Carrying' = Carrying /\ Ends' = Ends /\ (FromsStand => FromsStand')
  BY DEF Carrying, Ends, FromsStand
<1>3. Departing'
  BY <1>2 DEF Honest, Departing
<1> QED BY <1>1, <1>3 DEF Looking, Moving, Committing, Refreshing, Fetching

LEMMA ForgetHonest ==
  ASSUME Sound, Honest, Forget
  PROVE  Honest'
<1>1. /\ run.phase = "depart" /\ run.owed = NothingOwed
      /\ rec' = Forgotten(rec, run.forgotten) /\ own' = own
      /\ UNCHANGED <<cat, disk, rows>>
      /\ run'.phase = "depart" /\ run'.owed = NothingOwed
      /\ run'.forgotten = {} /\ run'.refreshed = run.refreshed
      /\ run'.adds = run.adds /\ run'.updates = run.updates /\ run'.renames = run.renames
  BY ForgetIs DEF Sound
<1>2. /\ rec \in Records /\ Tended(cat, rec) /\ \A p \in own : Settled(cat, rec, disk, p)
      /\ run.forgotten \cap own = {}
  BY <1>1, NoneOwed, EntriesAre DEF Honest, OwnSettled, Departing
<1>3. Tended(cat, rec') /\ \A p \in Paths : p \notin run.forgotten => rec'[p] = rec[p]
  BY <1>1, <1>2, ForgottenTyped, ForgottenTends
<1>4. ASSUME NEW p \in own PROVE Settled(cat, rec', disk, p)
  <2>1. p \in Paths /\ p \notin run.forgotten
    BY <1>2, OwnStands
  <2> QED BY <1>2, <1>3, <2>1, SettledSame
<1>5. ~Owing'
  BY <1>1 DEF Owing
<1>6. OwnSettled' /\ Tended(cat, rec)'
  BY <1>1, <1>3, <1>4, <1>5 DEF OwnSettled
<1>7. Departing' /\ Looking' /\ Moving' /\ Committing' /\ Refreshing' /\ Fetching'
  BY <1>1, DepartLeaves
<1> QED BY <1>6, <1>7 DEF Honest

LEMMA DiscardDepartedHonest ==
  ASSUME Sound, Honest, NEW p \in Paths, DiscardDeparted(p)
  PROVE  Honest'
<1>1. /\ run.phase = "depart" /\ run.owed = NothingOwed /\ p \in Mapped
      /\ UNCHANGED <<cat, rec, rows>>
      /\ run'.phase = "depart" /\ run'.forgotten = run.forgotten /\ run'.refreshed = run.refreshed
      /\ run'.adds = run.adds /\ run'.updates = run.updates /\ run'.renames = run.renames
      /\ \/ UNCHANGED <<disk, own>> /\ run'.owed = NothingOwed
         \/ /\ disk' = [disk EXCEPT ![p] = NoFile] /\ own' = own \ {p}
            /\ run'.owed = [NothingOwed EXCEPT !.forget = {p}]
  BY DiscardDepartedIs DEF Sound
<1>2. Departing' /\ Looking' /\ Moving' /\ Committing' /\ Refreshing' /\ Fetching'
  BY <1>1, DepartLeaves
<1>3. OwnSettled' /\ Tended(cat, rec)'
  <2>1. CASE UNCHANGED <<disk, own>> /\ run'.owed = NothingOwed
    BY <1>1, <2>1, FreelySettled
  <2>2. CASE /\ disk' = [disk EXCEPT ![p] = NoFile] /\ own' = own \ {p}
             /\ run'.owed = [NothingOwed EXCEPT !.forget = {p}]
    BY <1>1, <2>2, TakenSettled
  <2> QED BY <1>1, <2>1, <2>2
<1> QED BY <1>2, <1>3 DEF Honest

\* A run ends.
LEMMA IdleLeaves ==
  ASSUME Honest, run'.phase = "idle", rows' = rows, own' \subseteq own
  PROVE  Departing' /\ Looking' /\ Moving' /\ Committing' /\ Refreshing' /\ Fetching' /\ ~Owing'
<1>1. PathsIn(rows') \cap own' = {} /\ OnePath(rows')
  BY DEF Honest, Refreshing
<1> QED BY <1>1 DEF Departing, Looking, Moving, Committing, Refreshing, Fetching, Owing

LEMMA PackHonest ==
  ASSUME Sound, Honest, Pack
  PROVE  Honest'
<1>1. /\ run.phase = "depart" /\ run.owed = NothingOwed /\ run \in DepartRuns
      /\ UNCHANGED <<cat, disk, rows>>
      /\ \/ run' = Idle /\ UNCHANGED <<rec, own>>
         \/ /\ rec' = Marked(cat, rec, run.refreshed) /\ own' = own
            /\ \/ run' = Idle
               \/ /\ run'.phase = "commit" /\ run'.owed = NothingOwed
                  /\ run'.adds = {[path |-> p, data |-> disk[p]] : p \in run.adds}
                  /\ run'.updates = {[path |-> u.path, entry |-> u.entry, data |-> disk[u.path]] :
                                           u \in run.updates}
                  /\ run'.renames = run.renames
  BY PackIs DEF Sound
<1>2. /\ rec \in Records /\ Tended(cat, rec) /\ \A p \in own : Settled(cat, rec, disk, p)
      /\ (Carrying \cup Ends \cup PathsIn(run.refreshed)) \cap own = {}
      /\ Ends \cap Carrying = {} /\ FromsStand
      /\ PathsIn(run.updates) \cap run.adds = {} /\ OnePath(run.updates)
  BY <1>1, NoneOwed, EntriesAre DEF Honest, OwnSettled, Departing
<1>3. CASE run' = Idle /\ UNCHANGED <<rec, own>>
  <2>1. run'.phase = "idle"
    BY <1>3 DEF Idle
  <2>2. OwnSettled' /\ Tended(cat, rec)'
    BY <1>1, <1>3, <2>1, FreelySettled
  <2> QED BY <1>1, <1>3, <2>1, <2>2, IdleLeaves DEF Honest
<1>4. CASE rec' = Marked(cat, rec, run.refreshed) /\ own' = own
  <2>1. run.refreshed \in SUBSET Seens
    BY <1>1 DEF DepartRuns
  <2>2. Tended(cat, rec') /\ \A p \in Paths \ PathsIn(run.refreshed) : rec'[p] = rec[p]
    BY <1>2, <1>4, <2>1, MarkedRests
  <2>3. ASSUME NEW p \in own PROVE Settled(cat, rec', disk, p)
    <3>1. p \in Paths \ PathsIn(run.refreshed)
      BY <1>2, OwnStands
    <3> QED BY <1>2, <2>2, <3>1, SettledSame
  <2>4. ~Owing' => OwnSettled' /\ Tended(cat, rec)'
    BY <1>1, <1>4, <2>2, <2>3 DEF OwnSettled
  <2>5. CASE run' = Idle
    <3>1. run'.phase = "idle"
      BY <2>5 DEF Idle
    <3> QED BY <1>1, <1>4, <2>4, <3>1, IdleLeaves DEF Honest
  <2>6. CASE /\ run'.phase = "commit" /\ run'.owed = NothingOwed
             /\ run'.adds = {[path |-> p, data |-> disk[p]] : p \in run.adds}
             /\ run'.updates = {[path |-> u.path, entry |-> u.entry, data |-> disk[u.path]] :
                                           u \in run.updates}
             /\ run'.renames = run.renames
    <3>1. PathsIn(run'.adds) = run.adds /\ PathsIn(run'.updates) = PathsIn(run.updates)
      <4>1. PICK A, U : A = run'.adds /\ U = run'.updates
        OBVIOUS
      <4>2. /\ \A o \in A : \E p \in run.adds : o = [path |-> p, data |-> disk[p]]
            /\ \A p \in run.adds : [path |-> p, data |-> disk[p]] \in A
        BY <2>6, <4>1
      <4>3. /\ \A o \in U : \E u \in run.updates : o = [path |-> u.path, entry |-> u.entry, data |-> disk[u.path]]
            /\ \A u \in run.updates : [path |-> u.path, entry |-> u.entry, data |-> disk[u.path]] \in U
        BY <2>6, <4>1
      <4>4. \A p \in run.adds : \E o \in A : o.path = p
        BY <4>2
      <4>5. \A u \in run.updates : \E o \in U : o.path = u.path
        BY <4>3
      <4>6. \A o \in A : o.path \in run.adds
        BY <4>2
      <4>7. \A o \in U : \E u \in run.updates : o.path = u.path
        BY <4>3
      <4>8. PathsIn(A) = run.adds
        BY <4>4, <4>6 DEF PathsIn
      <4>9. PathsIn(U) = PathsIn(run.updates)
        BY <4>5, <4>7 DEF PathsIn
      <4> QED BY <4>1, <4>8, <4>9
    <3>2. Carrying = run.adds \cup PathsIn(run.updates) /\ Ends' = Ends
      BY <2>6 DEF Carrying, PathsIn, Ends
    <3>3. OnePath(run'.updates)
      BY <1>2, <2>6 DEF OnePath
    <3>4. FromsStand'
      BY <1>1, <1>2, <2>6 DEF FromsStand
    <3>5. (PathsIn(run'.adds) \cup PathsIn(run'.updates) \cup Ends') \cap own' = {}
      BY <1>2, <1>4, <3>1, <3>2
    <3>6. Ends' \cap (PathsIn(run'.adds) \cup PathsIn(run'.updates)) = {}
      BY <1>2, <3>1, <3>2
    <3>7. PathsIn(run'.updates) \cap PathsIn(run'.adds) = {}
      BY <1>2, <3>1
    <3>8. Committing'
      BY <3>3, <3>4, <3>5, <3>6, <3>7 DEF Committing
    <3>9. rows' = {} /\ PathsIn(rows') = {} /\ OnePath(rows')
      <4>1. rows' = {}
        BY <1>1 DEF Honest, Refreshing
      <4> QED BY <4>1 DEF PathsIn, OnePath
    <3>10. Departing' /\ Looking' /\ Moving' /\ Refreshing' /\ Fetching' /\ ~Owing'
      BY <2>6, <3>9 DEF Departing, Looking, Moving, Refreshing, Fetching, Owing
    <3> QED BY <2>4, <3>8, <3>10 DEF Honest
  <2> QED BY <1>1, <1>3, <1>4, <2>5, <2>6
<1> QED BY <1>1, <1>3, <1>4

-----------------------------------------------------------------------------
\* The steps of a fetch.

\* A step of the placing.
LEMMA PlaceLeaves ==
  ASSUME Honest, run.phase \in {"relocated", "place"}, run'.phase = "place", rows' = rows
  PROVE  Departing' /\ Looking' /\ Moving' /\ Committing' /\ Refreshing'
<1>1. rows' = {} /\ PathsIn(rows') = {} /\ OnePath(rows')
  <2>1. rows' = {}
    BY DEF Honest, Refreshing
  <2> QED BY <2>1 DEF PathsIn, OnePath
<1> QED BY <1>1 DEF Departing, Looking, Moving, Committing, Refreshing

LEMMA SelectHonest ==
  ASSUME Sound, Honest, Select
  PROVE  Honest'
<1>1. /\ run.phase = "relocated" /\ run.owed = NothingOwed
      /\ UNCHANGED <<cat, rec, disk, own, rows>>
      /\ run'.phase = "place" /\ run'.owed = NothingOwed /\ run'.wanted = Wanted
  BY SelectIs DEF Sound
<1>2. OwnSettled' /\ Tended(cat, rec)' /\ Noted' = rec
  BY <1>1, FreelySettled
<1>3. \A e \in Wanted : rec[cat[e].path].entry # e
  BY DEF Wanted, IsCopy
<1>4. Fetching'
  BY <1>1, <1>2, <1>3 DEF Fetching
<1> QED BY <1>1, <1>2, <1>4, PlaceLeaves DEF Honest

LEMMA PublishHonest ==
  ASSUME Sound, Honest, NEW e \in DOMAIN cat, Publish(e)
  PROVE  Honest'
<1>0. e \in run.wanted /\ run.phase = "place" /\ run.owed = NothingOwed
  BY DEF Publish, Free
<1>1. cat[e].path \in Mapped /\ Shapes
  BY <1>0 DEF Sound, Planned
<1>2. PICK p \in Mapped : p = cat[e].path
  BY <1>1
<1>3. /\ UNCHANGED <<cat, rec, rows>>
      /\ disk' = [disk EXCEPT ![p] = cat[e].data] /\ own' = own \cup {p}
      /\ run'.phase = "place" /\ run'.wanted = run.wanted \ {e}
      /\ run'.owed = [NothingOwed EXCEPT !.seen = {[path |-> p, entry |-> e, data |-> cat[e].data]}]
  BY <1>1, <1>2, PublishIs
<1>4. /\ rec \in Records /\ Tended(cat, rec) /\ \A q \in own : Settled(cat, rec, disk, q)
      /\ \A g \in run.wanted : rec[cat[g].path].entry # g
  BY <1>0, NoneOwed, EntriesAre DEF Honest, OwnSettled, Fetching
<1>5. e \in Nat /\ cat[e].data \in Nat /\ p \in Paths /\ e # NoRecord.entry
  BY <1>1, EntriesAre, CatalogIs, PathFacts DEF Shapes
<1>6. PICK o \in Seens : o = [path |-> p, entry |-> e, data |-> cat[e].data]
  BY <1>5 DEF Seens
<1>7. o.path = p /\ o.entry = e /\ o.data = cat[e].data
  BY <1>6
<1>8. /\ run'.owed # NothingOwed
      /\ \A q \in Paths \ {p} : DueOf(cat, rec, run'.owed)[q] = rec[q]
      /\ DueOf(cat, rec, run'.owed)[p] = [entry |-> e, data |-> cat[e].data]
  <2>1. run'.owed = [NothingOwed EXCEPT !.seen = {o}]
    BY <1>3, <1>6
  <2>2. LET owed == [NothingOwed EXCEPT !.seen = {o}] IN
        /\ owed # NothingOwed
        /\ \A q \in Paths \ {o.path} : DueOf(cat, rec, owed)[q] = rec[q]
        /\ DueOf(cat, rec, owed)[o.path] = [entry |-> o.entry, data |-> o.data]
    BY <1>4, <1>7, DueSees
  <2> QED BY <1>7, <2>1, <2>2
<1>9. Owing' /\ Noted' = DueOf(cat, rec, run'.owed)
  BY <1>3, <1>8 DEF Owing, Noted
<1>10. disk'[p] = cat[e].data /\ \A q \in Paths \ {p} : disk'[q] = disk[q]
  BY <1>1, <1>3, <1>5 DEF Shapes
<1>11. ASSUME NEW q \in own' PROVE Settled(cat, rec, disk', q) /\ Settled(cat, Noted', disk', q)
  <2>1. CASE q = p
    <3>1. Strange(cat, rec, p)
      BY <1>0, <1>2, <1>4 DEF Strange
    <3>2. Fit(Noted', disk', p)
      BY <1>5, <1>8, <1>9, <1>10 DEF Fit
    <3> QED BY <2>1, <3>1, <3>2 DEF Settled
  <2>2. CASE q # p
    <3>1. q \in own /\ q \in Paths \ {p}
      BY <1>3, <1>11, <2>2, OwnStands
    <3>2. rec[q] = Noted'[q] /\ disk[q] = disk'[q] /\ Settled(cat, rec, disk, q)
      BY <1>4, <1>8, <1>9, <1>10, <3>1
    <3> QED BY <3>2, SettledSame
  <2> QED BY <2>1, <2>2
<1>12. OwnSettled' /\ Tended(cat, rec)'
  BY <1>3, <1>4, <1>9, <1>11 DEF OwnSettled
<1>13. Fetching'
  <2>1. ASSUME NEW g \in run.wanted, g # e PROVE Noted'[cat[g].path].entry # g
    <3>1. cat[g].path \in Paths
      BY <1>0, EntriesAre DEF Sound, Planned
    <3>2. CASE cat[g].path = p
      BY <1>8, <1>9, <2>1, <3>2
    <3>3. CASE cat[g].path # p
      BY <1>4, <1>8, <1>9, <3>1, <3>3
    <3> QED BY <3>2, <3>3
  <2> QED BY <1>3, <2>1 DEF Fetching
<1> QED BY <1>0, <1>3, <1>12, <1>13, PlaceLeaves DEF Honest

LEMMA PublishDoneHonest ==
  ASSUME Sound, Honest, PublishDone
  PROVE  Honest'
<1>1. /\ run.owed = NothingOwed /\ run'.phase = "idle" /\ UNCHANGED <<cat, rec, disk, own, rows>>
  BY DEF PublishDone, Free, Idle
<1>2. OwnSettled' /\ Tended(cat, rec)'
  BY <1>1, FreelySettled
<1> QED BY <1>1, <1>2, IdleLeaves DEF Honest

-----------------------------------------------------------------------------
\* Other devices, the person, and kills.

LEMMA AsideHonest ==
  ASSUME Sound, Honest, UNCHANGED <<cat, rec, run, rows>>, own' \subseteq own, \A p \in own' : disk'[p] = disk[p],
         run.phase = "refresh" => Head(journal') = Head(journal)
  PROVE  Honest'
<1>1. Owing' = Owing /\ Noted' = Noted /\ Overlaid' = Overlaid
  BY DEF Owing, Noted, Overlaid
<1>2. \A p \in own' : \A r : Settled(cat, r, disk, p) => Settled(cat, r, disk', p)
  BY DEF Settled, Waits, Fit, Strange
<1>3. OwnSettled' /\ Tended(cat, rec)'
  BY <1>1, <1>2 DEF Honest, OwnSettled
<1>4. \A p : Seen(p) => Seen(p)'
  BY DEF Seen
<1>5. \A p, r : Whole(r, disk, own, p) => Whole(r, disk', own', p)
  BY DEF Whole
<1>6. Looking'
  BY <1>1, <1>4 DEF Honest, Looking, Tied
<1>7. \A c, r : Linked(c, r) => Linked(c, r)'
  BY <1>5 DEF Linked
<1>8. Moving'
  BY <1>1, <1>5, <1>7 DEF Honest, Moving
<1>9. Carrying' = Carrying /\ Ends' = Ends /\ (FromsStand => FromsStand')
  BY DEF Carrying, Ends, FromsStand
<1>10. Departing' /\ Committing' /\ Fetching'
  BY <1>1, <1>9 DEF Honest, Departing, Committing, Fetching
<1>11. Refreshing'
  <2>1. run.phase = "refresh" => Landed(Head(journal))'
    BY DEF Honest, Refreshing, Landed
  <2>2. (\A p \in own : Fit(rec, disk, p)) => (\A p \in own' : Fit(rec, disk', p))
    BY DEF Fit
  <2> QED BY <1>9, <2>1, <2>2 DEF Honest, Refreshing
<1> QED BY <1>3, <1>6, <1>8, <1>10, <1>11 DEF Honest

LEMMA KillHonest ==
  ASSUME Sound, Honest, Kill, torn' = {}
  PROVE  Honest'
<1>1. run'.phase = "idle" /\ ~Overlaid /\ UNCHANGED <<cat, rec, disk, own, rows>>
  BY DEF Kill, Idle
<1>2. ~Owing' /\ \A p \in own : Settled(cat, rec, disk, p)
  BY <1>1 DEF Honest, OwnSettled, Owing
<1>3. OwnSettled' /\ Tended(cat, rec)'
  BY <1>1, <1>2 DEF Honest, OwnSettled
<1> QED BY <1>1, <1>3, IdleLeaves DEF Honest

LEMMA PersonHonest ==
  ASSUME Sound, Honest, Person
  PROVE  Honest'
<1>1. /\ disk \in [Paths -> Nat] /\ Mapped \subseteq Paths
      /\ \A s \in own : s \in Paths /\ disk[s] # NoFile
  BY OwnStands, PathFacts DEF Sound, Shapes
<1>2. PICK files, theirs : /\ Touch(files, theirs) /\ \A s \in own \ theirs : files[s] = disk[s]
  <2>1. PICK p \in Mapped : Write(p) \/ TakeAway(p) \/ \E q \in Mapped : Move(p, q) \/ Copy(p, q)
    BY DEF Person
  <2>2. CASE Write(p)
    <3> DEFINE files == [disk EXCEPT ![p] = made + 1]
    <3>1. Touch(files, {p})
      BY <2>2 DEF Write
    <3>2. \A s \in own \ {p} : files[s] = disk[s]
      BY <1>1
    <3> HIDE DEF files
    <3> QED BY <3>1, <3>2
  <2>3. CASE TakeAway(p)
    <3> DEFINE files == [disk EXCEPT ![p] = NoFile]
    <3>1. Touch(files, {p})
      BY <2>3 DEF TakeAway
    <3>2. \A s \in own \ {p} : files[s] = disk[s]
      BY <1>1
    <3> HIDE DEF files
    <3> QED BY <3>1, <3>2
  <2>4. CASE \E q \in Mapped : Move(p, q)
    <3>0. PICK q \in Mapped : Move(p, q)
      BY <2>4
    <3> DEFINE files == [disk EXCEPT ![q] = disk[p], ![p] = NoFile]
    <3>1. Touch(files, {p}) /\ disk[q] = NoFile
      BY <3>0 DEF Move
    <3>2. \A s \in own \ {p} : files[s] = disk[s]
      BY <1>1, <3>1
    <3> HIDE DEF files
    <3> QED BY <3>1, <3>2
  <2>5. CASE \E q \in Mapped : Copy(p, q)
    <3>0. PICK q \in Mapped : Copy(p, q)
      BY <2>5
    <3> DEFINE files == [disk EXCEPT ![q] = disk[p]]
    <3>1. Touch(files, {}) /\ disk[q] = NoFile
      BY <3>0 DEF Copy
    <3>2. \A s \in own \ {} : files[s] = disk[s]
      BY <1>1, <3>1
    <3> HIDE DEF files
    <3> QED BY <3>1, <3>2
  <2> QED BY <2>1, <2>2, <2>3, <2>4, <2>5
<1>3. UNCHANGED <<cat, rec, run, rows, journal>> /\ own' = own \ theirs /\ disk' = files
  BY <1>2 DEF Touch
<1> QED BY <1>2, <1>3, AsideHonest

LEMMA OthersHonest ==
  ASSUME Sound, Honest, Others
  PROVE  Honest'
<1>1. PICK x : Committed(x)
  BY DEF Others, OtherRename, OtherSwap, OtherRemove, OtherUpdate, OtherAdd
<1>2. journal' = Append(journal, x) /\ UNCHANGED <<cat, rec, run, disk, own, rows>>
  BY <1>1 DEF Committed, fileVars
<1>3. run.phase = "refresh" => journal # <<>> /\ journal \in Seq(Changes)
  BY DEF Sound, Planned, Shapes
<1>4. run.phase = "refresh" => Head(journal') = Head(journal)
  BY <1>2, <1>3
<1> QED BY <1>2, <1>4, AsideHonest

-----------------------------------------------------------------------------
\* A commit and its refresh.

\* The rows of a commit, and what its record is about.
LEMMA CommitRows ==
  ASSUME Sound, Honest, run.phase = "commit", run \in CommitRuns, NEW c \in Catalogs, CatGood(c, born, held), Admits(c),
         NEW lines, lines = {[path |-> a.path, entry |-> Numbered[a], data |-> a.data] : a \in run.adds} \cup run.updates
  PROVE  /\ PathsIn(lines) = PathsIn(run.adds) \cup PathsIn(run.updates) /\ OnePath(lines)
         /\ {o.entry : o \in lines} \subseteq DOMAIN Put(c)
         /\ \A e \in DOMAIN Put(c) :
              IF e \in DOMAIN c THEN Put(c)[e].path = c[e].path ELSE Put(c)[e].path \in PathsIn(lines)
<1>1. /\ DOMAIN Put(c) = {Numbered[a] : a \in run.adds} \cup {u.entry : u \in run.updates}
      /\ \A a \in run.adds : Put(c)[Numbered[a]] = a
      /\ \A u \in run.updates : /\ Put(c)[u.entry] = [path |-> c[u.entry].path, data |-> u.data]
                                /\ u.entry \in DOMAIN c
      /\ \A a \in run.adds : Numbered[a] \in born + 1 .. born + Cardinality(run.adds)
      /\ Cardinality(run.adds) \in Nat
  BY CommitRecordIs
<1>2. PathsIn(run.updates) \cap PathsIn(run.adds) = {} /\ OnePath(run.updates) /\ AddsApart
  BY DEF Honest, Committing, Sound, Planned
<1> DEFINE Line(a) == [path |-> a.path, entry |-> Numbered[a], data |-> a.data]
<1>3. /\ \A o \in lines : (\E a \in run.adds : o = Line(a)) \/ o \in run.updates
      /\ \A a \in run.adds : Line(a) \in lines
      /\ \A u \in run.updates : u \in lines
  OBVIOUS
<1>4. \A a \in run.adds : Line(a).path = a.path /\ Line(a).entry = Numbered[a]
  OBVIOUS
<1> HIDE DEF Line
<1>5. /\ \A o \in lines : o.path \in PathsIn(run.adds) \cup PathsIn(run.updates)
      /\ \A a \in run.adds : a.path \in PathsIn(lines)
      /\ \A u \in run.updates : u.path \in PathsIn(lines)
  BY <1>3, <1>4 DEF PathsIn
<1>6. PathsIn(lines) = PathsIn(run.adds) \cup PathsIn(run.updates)
  BY <1>5 DEF PathsIn
<1>7. OnePath(lines)
  <2> SUFFICES ASSUME NEW u \in lines, NEW v \in lines, u.path = v.path PROVE u = v
    BY DEF OnePath
  <2>1. \A a \in run.adds, w \in run.updates : a.path # w.path
    BY <1>2 DEF PathsIn
  <2>2. \A a, b \in run.adds : a.path = b.path => a = b
    BY <1>2 DEF AddsApart
  <2>3. CASE u \in run.updates /\ v \in run.updates
    BY <1>2, <2>3 DEF OnePath
  <2>4. CASE (\E a \in run.adds : u = Line(a)) /\ (\E a \in run.adds : v = Line(a))
    BY <1>4, <2>2, <2>4
  <2> QED BY <1>3, <1>4, <2>1, <2>3, <2>4
<1>8. \A o \in lines : o.entry \in DOMAIN Put(c)
  BY <1>1, <1>3, <1>4
<1>9. ASSUME NEW e \in DOMAIN Put(c)
      PROVE  IF e \in DOMAIN c THEN Put(c)[e].path = c[e].path ELSE Put(c)[e].path \in PathsIn(lines)
  <2>1. CASE \E a \in run.adds : e = Numbered[a]
    <3>1. PICK a \in run.adds : e = Numbered[a]
      BY <2>1
    <3>2. e \notin 1 .. born
      <4>1. e \in born + 1 .. born + Cardinality(run.adds) /\ born \in Nat
        BY <1>1, <3>1 DEF Sound, Shapes
      <4> QED BY <1>1, <4>1
    <3>3. e \notin DOMAIN c
      BY <3>2 DEF CatGood
    <3> QED BY <1>1, <1>5, <3>1, <3>3
  <2>2. CASE \E u \in run.updates : e = u.entry
    <3>1. PICK u \in run.updates : e = u.entry
      BY <2>2
    <3>2. e \in DOMAIN c /\ Put(c)[e] = [path |-> c[e].path, data |-> u.data]
      BY <1>1, <3>1
    <3> QED BY <3>2
  <2> QED BY <1>1, <2>1, <2>2
<1> QED BY <1>6, <1>7, <1>8, <1>9

LEMMA CommitHonest ==
  ASSUME Sound, Honest, Commit, torn' = {}
  PROVE  Honest'
<1>1. PICK c \in Catalogs, r \in Records :
         /\ c = ApplyAll(cat, rec, journal).cat /\ r = ApplyAll(cat, rec, journal).rec
         /\ cat' = c /\ rec' = r /\ own' = own \ Surrendered(r)
         /\ run.phase = "commit" /\ run \in CommitRuns
         /\ disk' = disk /\ torn' = torn \cup TornBy(journal)
         /\ \/ run' = Idle /\ rows' = rows
            \/ /\ Admits(c) /\ journal' = <<CommitRecord(c)>>
               /\ rows' = {[path |-> a.path, entry |-> Numbered[a], data |-> a.data] : a \in run.adds}
                            \cup run.updates
               /\ run'.phase = "refresh" /\ run'.owed = NothingOwed
               /\ run'.renames = run.renames
  BY CommitIs DEF Sound
<1>2. run.owed = NothingOwed /\ TornBy(journal) = {}
  BY <1>1 DEF Sound, Planned
<1>3. /\ Tended(c, r) /\ CatGood(c, born, held)
      /\ journal = <<>> => c = cat /\ r = rec
      /\ \A p \in own \ Surrendered(r) : Settled(c, r, disk, p)
      /\ journal # <<>> => \A p \in own \ Surrendered(r) : Fit(r, disk, p)
  BY <1>1, <1>2, CaughtUp
<1>4. ~Owing' => OwnSettled' /\ Tended(cat, rec)'
  BY <1>1, <1>3 DEF OwnSettled
<1>5. CASE run' = Idle /\ rows' = rows
  <2>1. run'.phase = "idle"
    BY <1>5 DEF Idle
  <2> QED BY <1>1, <1>4, <1>5, <2>1, IdleLeaves DEF Honest
<1>6. CASE /\ Admits(c) /\ journal' = <<CommitRecord(c)>>
           /\ rows' = {[path |-> a.path, entry |-> Numbered[a], data |-> a.data] : a \in run.adds}
                            \cup run.updates
           /\ run'.phase = "refresh" /\ run'.owed = NothingOwed
           /\ run'.renames = run.renames
  <2>1. /\ PathsIn(rows') = PathsIn(run.adds) \cup PathsIn(run.updates) /\ OnePath(rows')
        /\ {o.entry : o \in rows'} \subseteq DOMAIN Put(c)
        /\ \A e \in DOMAIN Put(c) :
             IF e \in DOMAIN c THEN Put(c)[e].path = c[e].path ELSE Put(c)[e].path \in PathsIn(rows')
    <3>1. PICK lines : /\ lines = {[path |-> a.path, entry |-> Numbered[a], data |-> a.data] : a \in run.adds}
                                     \cup run.updates
                       /\ lines = rows'
      BY <1>6
    <3>2. /\ PathsIn(lines) = PathsIn(run.adds) \cup PathsIn(run.updates) /\ OnePath(lines)
          /\ {o.entry : o \in lines} \subseteq DOMAIN Put(c)
          /\ \A e \in DOMAIN Put(c) :
               IF e \in DOMAIN c THEN Put(c)[e].path = c[e].path ELSE Put(c)[e].path \in PathsIn(lines)
      <4>1. run.phase = "commit" /\ run \in CommitRuns /\ CatGood(c, born, held) /\ Admits(c)
        BY <1>1, <1>3, <1>6
      <4> QED BY <3>1, <4>1, CommitRows
    <3> QED BY <3>1, <3>2
  <2>2. /\ (PathsIn(run.adds) \cup PathsIn(run.updates) \cup Ends) \cap own = {}
        /\ Ends \cap (PathsIn(run.adds) \cup PathsIn(run.updates)) = {} /\ FromsStand
    BY <1>1 DEF Honest, Committing
  <2>3. Ends' = Ends
    BY <1>6 DEF Ends
  <2>4. PathsIn(rows') \cap own' = {} /\ Ends' \cap (own' \cup PathsIn(rows')) = {}
    BY <1>1, <2>1, <2>2, <2>3
  <2>5. (\A p \in own' : Fit(rec', disk', p)) \/ FromsStand'
    <3>1. CASE journal = <<>>
      BY <1>1, <1>3, <1>6, <2>2, <3>1 DEF FromsStand
    <3>2. CASE journal # <<>>
      BY <1>1, <1>3, <3>2
    <3> QED BY <3>1, <3>2
  <2>6. Landed(Head(journal))'
    <3>1. PICK x : x = CommitRecord(c)
      OBVIOUS
    <3>2. x.removed = {} /\ x.put = Put(c) /\ x.renamed = Renaming
      BY <1>1, <1>3, <1>6, <3>1, CommitRecordIs
    <3>3. Head(journal') = x
      BY <1>6, <3>1
    <3>4. \A e \in DOMAIN Renaming : \E m \in run.renames : m.entry = e /\ Renaming[e] = m.to
      BY <1>1, RenamingIs
    <3> QED BY <1>1, <1>6, <2>1, <3>2, <3>3, <3>4 DEF Landed
  <2>7. Refreshing'
    BY <1>6, <2>1, <2>4, <2>5, <2>6 DEF Refreshing
  <2>8. Departing' /\ Looking' /\ Moving' /\ Committing' /\ Fetching' /\ ~Owing'
    BY <1>6 DEF Departing, Looking, Moving, Committing, Fetching, Owing
  <2> QED BY <1>4, <2>7, <2>8 DEF Honest
<1> QED BY <1>1, <1>5, <1>6

\* Where the record of a commit leaves the Entries.
LEMMA LandedMoves ==
  ASSUME Sound, NEW x \in Changes, Landed(x), NEW e \in DOMAIN cat
  PROVE  /\ e \in DOMAIN Replayed(cat, x)
         /\ \/ Replayed(cat, x)[e].path = cat[e].path
            \/ \E m \in run.renames : m.entry = e /\ Replayed(cat, x)[e].path = m.to
<1>1. cat \in Catalogs /\ x.removed = {}
  BY DEF Landed, Sound, Shapes
<1>2. e \in DOMAIN Replayed(cat, x)
  BY <1>1, ReplayedPuts
<1>3. CASE e \in DOMAIN x.put
  <2>1. Replayed(cat, x)[e] = x.put[e]
    BY <1>1, <1>3, ReplayedPuts
  <2>2. x.put[e].path = cat[e].path
    BY <1>3 DEF Landed
  <2> QED BY <1>2, <2>1, <2>2
<1>4. CASE e \notin DOMAIN x.put
  <2>1. Replayed(cat, x)[e].path = IF e \in DOMAIN x.renamed THEN x.renamed[e] ELSE cat[e].path
    BY <1>1, <1>2, <1>4, ReplayedFrom
  <2> QED BY <1>2, <2>1 DEF Landed
<1> QED BY <1>3, <1>4

\* The device's files once a commit's record and rows are recorded.
LEMMA RefreshSettles ==
  ASSUME Sound, Honest, run.phase = "refresh", NEW x \in Changes, x = Head(journal), x \in Range(journal),
         NEW c \in Catalogs, c = Replayed(cat, x), NEW r, r = Marked(c, Reconcile(c, rec), rows)
  PROVE  /\ Tended(c, r) /\ r \in Records
         /\ \A p \in own \ Surrendered(r) : Settled(c, r, disk, p)
         /\ \A o \in rows : disk[o.path] = o.data => Fit(r, disk, o.path)
<1>1. run.owed = NothingOwed
  BY DEF Sound, Planned
<1>2. /\ cat \in Catalogs /\ rec \in Records /\ \A p \in own : Settled(cat, rec, disk, p)
      /\ PathsIn(rows) \cap own = {} /\ OnePath(rows) /\ Landed(x)
      /\ Ends \cap own = {} /\ ((\A p \in own : Fit(rec, disk, p)) \/ FromsStand)
  BY <1>1, EntriesAre, NoneOwed DEF Honest, OwnSettled, Refreshing
<1>10. \A e \in DOMAIN x.put : Replayed(cat, x)[e] = x.put[e]
  BY <1>2, ReplayedPuts
<1>3. rows \in SUBSET Seens /\ SeenFine(rows, born, held)
  BY DEF Sound, Shapes, Bounds
<1>4. PICK q \in Records : q = Reconcile(c, rec)
  BY <1>2, ReconcileTyped
<1>5. Tended(c, q)
  BY <1>2, <1>4, ReconcileTends
<1>6. r = Marked(c, q, rows)
  BY <1>4
<1>7. Tended(c, r) /\ r \in Records /\ \A p \in Paths \ PathsIn(rows) : r[p] = q[p]
  BY <1>3, <1>5, <1>6, MarkedRests
<1>8. ASSUME NEW o \in rows, disk[o.path] = o.data PROVE Fit(r, disk, o.path)
  <2>1. o.entry \in DOMAIN x.put
    BY <1>2 DEF Landed
  <2>2. o.entry \in DOMAIN c
    BY <1>2, <2>1, ReplayedPuts
  <2>3. r[o.path] = [entry |-> o.entry, data |-> o.data]
    BY <1>2, <1>3, <1>6, <2>2, MarkedNotes
  <2>4. o.entry # 0
    BY <1>3 DEF SeenFine
  <2>5. r[o.path] # NoRecord
    BY <2>3, <2>4, NoRecordIs
  <2> QED BY <1>8, <2>3, <2>5 DEF Fit
<1>9. ASSUME NEW p \in own \ Surrendered(r) PROVE Settled(c, r, disk, p)
  <2>1. p \in Paths /\ p \in own /\ p \notin PathsIn(rows) /\ disk[p] # NoFile
    BY <1>2, OwnStands
  <2>2. r[p] = q[p]
    BY <1>7, <2>1
  <2>3. q[p] = IF rec[p].entry \notin DOMAIN c /\ p \in PathsOf(c) THEN NoRecord ELSE rec[p]
    BY <1>2, <1>4, <2>1, ReconcileTyped
  <2>4. r[p] = rec[p]
    <3> SUFFICES ASSUME r[p] # rec[p] PROVE FALSE
      OBVIOUS
    <3>1. rec[p] # NoRecord /\ r[p] = NoRecord /\ rec[p].entry \notin DOMAIN c /\ p \in PathsOf(c)
      BY <2>2, <2>3
    <3>2. PICK g \in DOMAIN c : c[g].path = p
      BY <3>1 DEF PathsOf
    <3>3. g # rec[p].entry
      BY <3>1
    <3>4. Comes(p, rec[p].entry)
      <4>1. CASE g \in DOMAIN x.put
        <5>1. Replayed(cat, x)[g] = x.put[g]
          BY <1>10, <4>1
        <5> QED BY <3>2, <3>3, <4>1, <5>1 DEF Comes
      <4>2. CASE g \notin DOMAIN x.put
        <5>1. g \in DOMAIN cat /\ c[g].path = IF g \in DOMAIN x.renamed THEN x.renamed[g] ELSE cat[g].path
          BY <1>2, <4>2, ReplayedFrom
        <5> QED BY <3>2, <3>3, <5>1 DEF Comes
      <4> QED BY <4>1, <4>2
    <3> QED BY <1>9, <2>1, <3>1, <3>4 DEF Surrendered
  <2>5. CASE Fit(rec, disk, p)
    BY <2>4, <2>5 DEF Fit, Settled
  <2>6. CASE ~Fit(rec, disk, p)
    <3>1. FromsStand /\ Settled(cat, rec, disk, p)
      BY <1>2, <2>1, <2>6
    <3>2. \A m \in run.renames : m.from # p /\ m.to # p
      BY <1>2, <2>1 DEF Ends
    <3>3. CASE Strange(cat, rec, p)
      <4>1. PICK h \in DOMAIN cat : cat[h].path = p /\ rec[p].entry # h
        BY <3>3 DEF Strange
      <4>2. h \in DOMAIN c /\ (c[h].path = cat[h].path \/ \E m \in run.renames : m.entry = h /\ c[h].path = m.to)
        BY <1>2, LandedMoves
      <4>3. \A m \in run.renames : m.entry # h
        BY <3>1, <3>2, <4>1 DEF FromsStand
      <4> QED BY <2>4, <4>1, <4>2, <4>3 DEF Settled, Strange
    <3>4. CASE Waits(cat, rec, p)
      <4>1. rec[p] # NoRecord /\ rec[p].entry \in DOMAIN cat /\ cat[rec[p].entry].path # p
        BY <3>4 DEF Waits
      <4>2. PICK e \in DOMAIN cat : e = rec[p].entry
        BY <4>1
      <4>3. e \in DOMAIN c /\ (c[e].path = cat[e].path \/ \E m \in run.renames : m.entry = e /\ c[e].path = m.to)
        BY <1>2, LandedMoves
      <4> QED BY <2>4, <3>2, <4>1, <4>2, <4>3 DEF Settled, Waits
    <3> QED BY <2>6, <3>1, <3>3, <3>4 DEF Settled
  <2> QED BY <2>5, <2>6
<1> QED BY <1>7, <1>8, <1>9

LEMMA RefreshHonest ==
  ASSUME Sound, Honest, Refresh
  PROVE  Honest'
<1>1. PICK c \in Catalogs, r \in Records :
         /\ journal # <<>> /\ Head(journal) \in Changes
         /\ c = Replayed(cat, Head(journal)) /\ r = Marked(c, Reconcile(c, rec), rows)
         /\ cat' = c /\ rec' = r /\ rows' = {}
         /\ own' = (own \ Surrendered(r)) \cup {o.path : o \in {o \in rows : disk[o.path] = o.data}}
         /\ disk' = disk /\ run.phase = "refresh"
         /\ \/ run' = Idle
            \/ /\ run' \in EndRuns /\ run'.phase = "end" /\ run'.owed.seen = {} /\ run'.owed.forget = {}
               /\ \A p \in DOMAIN run'.owed.rekey : \E m \in run.renames : m.from = p /\ run'.owed.rekey[p] = m.to
  BY RefreshIs
<1>2. PICK x \in Changes : x = Head(journal) /\ x \in Range(journal)
  BY <1>1, RangeOf DEF Sound, Shapes
<1>3. /\ Tended(c, r)
      /\ \A p \in own \ Surrendered(r) : Settled(c, r, disk, p)
      /\ \A o \in rows : disk[o.path] = o.data => Fit(r, disk, o.path)
  BY <1>1, <1>2, RefreshSettles
<1>4. \A p \in own' : Settled(c, r, disk, p)
  BY <1>1, <1>3, FitSettles
<1>5. PathsIn(rows') = {} /\ OnePath(rows')
  BY <1>1 DEF PathsIn, OnePath
<1>6. CASE run' = Idle
  <2>1. run'.phase = "idle"
    BY <1>6 DEF Idle
  <2>2. Departing' /\ Looking' /\ Moving' /\ Committing' /\ Refreshing' /\ Fetching' /\ ~Owing'
    BY <1>1, <1>5, <2>1 DEF Departing, Looking, Moving, Committing, Refreshing, Fetching, Owing
  <2> QED BY <1>1, <1>3, <1>4, <2>2 DEF Honest, OwnSettled
<1>7. CASE /\ run' \in EndRuns /\ run'.phase = "end" /\ run'.owed.seen = {} /\ run'.owed.forget = {}
           /\ \A p \in DOMAIN run'.owed.rekey : \E m \in run.renames : m.from = p /\ run'.owed.rekey[p] = m.to
  <2>1. PICK w \in Owes : w = run'.owed
    BY <1>7 DEF EndRuns
  <2>2. Rekeys(w.rekey) \subseteq Ends
    BY <1>7, <2>1 DEF Rekeys, Ends
  <2>3. Ends \cap own' = {}
    <3>1. Ends \cap (own \cup PathsIn(rows)) = {}
      BY <1>1 DEF Honest, Refreshing
    <3>2. \A p \in own' : p \in own \/ p \in PathsIn(rows)
      BY <1>1 DEF PathsIn
    <3> QED BY <3>1, <3>2
  <2>4. w.seen = {} /\ w.forget = {} /\ PathsIn(w.seen) = {}
    BY <1>7, <2>1 DEF PathsIn
  <2>5. ASSUME NEW p \in own' PROVE Settled(c, DueOf(c, r, w), disk, p)
    <3>1. p \in Paths /\ p \notin Rekeys(w.rekey) /\ p \notin w.forget /\ p \notin PathsIn(w.seen)
      <4>1. p \in Paths
        BY <1>1, OwnStands, PathFacts DEF Sound, Shapes, Seens
      <4> QED BY <2>2, <2>3, <2>4, <2>5, <4>1
    <3>2. DueOf(c, r, w)[p] = r[p]
      BY <1>3, <3>1, DueRests
    <3> QED BY <1>4, <2>5, <3>2, SettledSame
  <2>6. Owing' => Noted' = DueOf(c, r, w)
    BY <1>1, <2>1 DEF Noted
  <2>7. OwnSettled' /\ Tended(cat, rec)'
    BY <1>1, <1>3, <1>4, <2>5, <2>6 DEF OwnSettled
  <2>8. (DOMAIN run'.owed.rekey \cup {run'.owed.rekey[p] : p \in DOMAIN run'.owed.rekey}) \cap own' = {}
    BY <2>1, <2>2, <2>3 DEF Rekeys
  <2>9. Departing' /\ Looking' /\ Moving' /\ Committing' /\ Refreshing' /\ Fetching'
    BY <1>1, <1>5, <1>7, <2>8 DEF Departing, Looking, Moving, Committing, Refreshing, Fetching
  <2> QED BY <2>7, <2>9 DEF Honest
<1> QED BY <1>1, <1>6, <1>7

LEMMA InitHonest == Init => Honest
<1> SUFFICES ASSUME Init PROVE Honest
  OBVIOUS
<1>1. PICK first, placed :
         /\ placed \subseteq first /\ placed \subseteq Paths
         /\ DOMAIN cat = first
         /\ rec = [p \in Paths |-> IF p \in placed THEN [entry |-> p, data |-> p] ELSE NoRecord]
         /\ disk = [p \in Paths |-> IF p \in placed THEN p ELSE NoFile]
         /\ own = placed /\ run = Idle /\ rows = {}
  <2> DEFINE last == CHOOSE p \in Mapped : \A q \in Mapped : q <= p
             first == Mapped \ {last}
             placed == first \ {CHOOSE p \in first : \A q \in first : q <= p}
  <2>1. placed \subseteq first /\ first \subseteq Mapped
    OBVIOUS
  <2>2. placed \subseteq Paths
    BY <2>1, PathFacts
  <2>3. /\ cat = [p \in first |-> [path |-> p, data |-> p]]
        /\ rec = [p \in Paths |-> IF p \in placed THEN [entry |-> p, data |-> p] ELSE NoRecord]
        /\ disk = [p \in Paths |-> IF p \in placed THEN p ELSE NoFile]
        /\ own = placed /\ run = Idle /\ rows = {}
    BY DEF Init
  <2> HIDE DEF first, placed
  <2> QED BY <2>1, <2>2, <2>3
<1>2. run.phase = "idle"
  BY <1>1 DEF Idle
<1>3. ASSUME NEW p \in placed PROVE rec[p].entry = p /\ Fit(rec, disk, p)
  <2>1. rec[p] = [entry |-> p, data |-> p] /\ disk[p] = p
    BY <1>1
  <2>2. p # 0
    BY <1>1, PathFacts
  <2> QED BY <2>1, <2>2, NoRecordIs DEF Fit
<1>4. \A p \in Paths : p \notin placed => rec[p] = NoRecord
  BY <1>1
<1>5. OwnSettled /\ Tended(cat, rec)
  <2>1. OwnSettled
    BY <1>1, <1>2, <1>3, FitSettles DEF OwnSettled, Owing
  <2>2. Tended(cat, rec)
    BY <1>1, <1>3, <1>4 DEF Tended
  <2> QED BY <2>1, <2>2
<1>6. PathsIn(rows) = {} /\ OnePath(rows)
  BY <1>1 DEF PathsIn, OnePath
<1>7. Looking /\ Moving /\ Departing /\ Committing /\ Refreshing /\ Fetching
  BY <1>1, <1>2, <1>6 DEF Looking, Moving, Departing, Committing, Refreshing, Fetching
<1> QED BY <1>5, <1>7 DEF Honest

\* What was left that no later look tells stays left.
LEMMA TornStays ==
  ASSUME [Next]_vars, torn' = {}
  PROVE  torn = {}
<1>1. CASE torn' = torn
  BY <1>1
<1>2. CASE \E S : torn' = torn \cup S
  BY <1>2
<1>3. Others => torn' = torn
  BY DEF Others, OtherRename, OtherSwap, OtherRemove, OtherUpdate, OtherAdd, Committed
<1>4. Person => torn' = torn
  BY DEF Person, Write, TakeAway, Move, Copy, Touch
<1>5. Kill \/ Start("sync") \/ Start("fetch") \/ Relocate \/ Commit => \E S : torn' = torn \cup S
  BY DEF Kill, Start, Relocate, Commit
<1>6. Look \/ FetchStep => torn' = torn
  BY DEF Look, FetchStep, Select, Publish, PublishDone
<1>7. Scan \/ Forget \/ (\E p \in Paths : DiscardDeparted(p)) \/ Pack \/ Refresh => torn' = torn
  BY DEF Scan, Forget, DiscardDeparted, Pack, Refresh
<1>8. UNCHANGED vars => torn' = torn
  BY DEF vars
<1> QED BY <1>1, <1>2, <1>3, <1>4, <1>5, <1>6, <1>7, <1>8 DEF Next, SyncStep

LEMMA NextHonest ==
  ASSUME Sound, Honest, [Next]_vars, torn' = {}
  PROVE  Honest'
<1>1. CASE UNCHANGED vars
  <2>1. UNCHANGED <<cat, rec, disk, run, own, journal, rows>>
    BY <1>1 DEF vars, fileVars, libraryVars
  <2> QED BY <2>1, AsideHonest
<1>2. CASE Scan \/ Forget \/ (\E p \in Paths : DiscardDeparted(p)) \/ Pack \/ Commit \/ Refresh
  BY <1>2, ScanHonest, ForgetHonest, DiscardDepartedHonest, PackHonest, CommitHonest, RefreshHonest
<1>3. CASE Select \/ (\E e \in DOMAIN cat : Publish(e)) \/ PublishDone
  BY <1>3, SelectHonest, PublishHonest, PublishDoneHonest
<1>4. CASE Look
  BY <1>4, LookHonest
<1>5. CASE Others \/ Person \/ Kill \/ Start("sync") \/ Start("fetch") \/ Relocate
  BY <1>5, OthersHonest, PersonHonest, KillHonest, StartHonest, RelocateHonest
<1> QED BY <1>1, <1>2, <1>3, <1>4, <1>5 DEF Next, SyncStep, FetchStep

LEMMA HonestCarries ==
  ASSUME Honest
  PROVE  Carries \cap own = {}
<1>1. CASE run.phase = "commit"
  BY <1>1 DEF Honest, Committing, PathsIn, Ends, Carries
<1>2. CASE run.phase # "commit"
  BY <1>2 DEF Carries
<1> QED BY <1>1, <1>2

\* What a sync carries in is the person's as long as nothing was left that no later look tells.
HonestUntorn == torn = {} => Honest

\* A sync commits what the person did and none of what the device did to follow the Library, unless
\* something was left that no later look tells.
THEOREM SpecCarriesOnlyPersonsActs == Spec => []CarriesOnlyPersonsActs
<1>1. Init => Sound /\ HonestUntorn
  BY InitSound, InitHonest DEF HonestUntorn
<1>2. Sound /\ HonestUntorn /\ [Next]_vars => Sound' /\ HonestUntorn'
  BY NextSound, TornStays, NextHonest DEF HonestUntorn
<1>3. HonestUntorn => CarriesOnlyPersonsActs
  <2> SUFFICES ASSUME HonestUntorn, torn = {} PROVE Carries \cap own = {}
    BY DEF CarriesOnlyPersonsActs
  <2>1. Honest
    BY DEF HonestUntorn
  <2> QED BY <2>1, HonestCarries
<1> QED BY <1>1, <1>2, <1>3, PTL DEF Spec
=============================================================================
