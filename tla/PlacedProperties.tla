---------------------------- MODULE PlacedProperties ----------------------------
(***************************************************************************)
(* What the keeping of a device's mapped folders is for: files follow      *)
(* their Entries, nothing of the person's is lost, and what a sync commits *)
(* is what the person did.                                                 *)
(***************************************************************************)
EXTENDS PlacedFiles

\* Every variable keeps its shape: no two Entries have one path, and records and
\* the device's own files are where a mapped root reaches.
TypeOK ==
  /\ \A e \in DOMAIN cat : e \in 1..born /\ cat[e].path \in Paths /\ cat[e].data \in held
  /\ \A e, f \in DOMAIN cat : cat[e].path = cat[f].path => e = f
  /\ \A p \in Paths : rec[p] = NoRecord \/ (rec[p].entry \in 1..born /\ rec[p].data \in held)
  /\ disk \in [Paths -> 0..made] /\ held \subseteq 1..made
  /\ \A p \in Paths \ Mapped : disk[p] = NoFile /\ rec[p] = NoRecord
  /\ own \subseteq {p \in Mapped : disk[p] # NoFile}
  /\ \A r \in Range(journal) : r.removed \subseteq 1..born /\ DOMAIN r.put \subseteq 1..born

-----------------------------------------------------------------------------
(* Relocation *)

\* The place of a waiting file is taken by one that is not about to leave it.
Taken(p) ==
  LET to == WaitsFor(cat, rec, p) IN
  /\ disk[to] # NoFile /\ ~Waits(cat, rec, to)
  /\ rec[to] # [entry |-> rec[p].entry, data |-> disk[to]]

\* The waiting files the code may refuse: an edited one, one whose place is
\* taken, and one behind such a file.
Blocked ==
  LET waiting == {p \in Mapped : Waits(cat, rec, p)}
      refused == {p \in waiting : disk[p] # rec[p].data \/ Taken(p)}
      Behind(S) == {p \in waiting : WaitsFor(cat, rec, p) \in S /\ disk[WaitsFor(cat, rec, p)] # NoFile}
  IN {p \in waiting : \A S \in SUBSET waiting : refused \cup Behind(S) \subseteq S => p \in S}

\* A file waits only for what the code refuses: when a relocation nobody
\* disturbed had nothing to do, whatever runs were killed before it, every file
\* that still waits is edited, has its place taken, or stands behind one that
\* is (relocate/mod.rs relocate_waiting, EP-10).
WaitsOnlyWhenRefused ==
  (run.phase = "relocated" /\ calm /\ ~run.changed)
    => \A p \in Mapped : Waits(cat, rec, p) => p \in Blocked /\ disk[p] # NoFile

-----------------------------------------------------------------------------
(* The person's files *)

\* No step of a run takes from the disk a content that no record of the Library
\* ever held: it stays at some path.  The steps that check a file and act on it
\* later are held to it as long as nobody touched the disk in between (EP-11,
\* EP-15).
PersonsWorkStays ==
  [][(left'.person = left.person /\ (calm \/ run.phase \notin {"decide", "depart", "place"}))
       => \A p \in Paths : disk[p] \in held \cup {NoFile} \/ disk[p] \in Range(disk')]_vars

\* The paths of the files a sync is about to commit something of.
Carries ==
  IF run.phase = "commit"
    THEN {a.path : a \in run.adds} \cup {u.path : u \in run.updates} \cup {m.to : m \in run.renames}
    ELSE {}

\* A sync carries in what the person did and none of what the device did to
\* follow the Library, as long as no records were replayed over a file a killed
\* run had left unrecorded, none was killed with a file at a path where a record
\* of its Entry stood already, and no record of a gone file was re-keyed to where
\* the run had moved another since it looked (sync/scan, relocate, EP-10).
CarriesOnlyPersonsActs == torn = {} => Carries \cap own = {}

\* A file a fetch leaves because it is the device's own copy of the Entry, as it
\* left it, holds the Entry (fetch/select.rs:153-154, "the file *is* the Entry, so
\* there is nothing to fetch").
SkippedIsTheEntry ==
  (run.phase = "place" /\ calm) => \A e \in Skipped : disk[cat[e].path] = cat[e].data
=============================================================================
