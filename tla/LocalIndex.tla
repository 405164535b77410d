------------------------------ MODULE LocalIndex ------------------------------
(***************************************************************************)
(* The half of a device's Index that says what it keeps on its disk: the   *)
(* current Entries of the catalog, one materialization record per path,    *)
(* and how a Journal record, a re-keying and an observation move them.     *)
(*                                                                         *)
(* Abstractions.  A content stands for a file's bytes, length and          *)
(* modification time together, so an edit always shows in the cheap        *)
(* comparison.  An Entry keeps its identity over the updates that replace  *)
(* its Container: carry_over renames the records in the same transaction.  *)
(* Whether a record waits to follow its Entry is computed and not stored:  *)
(* every call that changes either side reconciles before it commits.       *)
(* Nothing in the code marks a record's file absent, so every record is of *)
(* a file the device put at its path, or found there as it committed it.   *)
(***************************************************************************)
EXTENDS Integers, FiniteSets, Sequences, SequencesExt

CONSTANTS
  Paths,   \* the Entry Paths, numbered in their order
  Mapped   \* those some mapped root of the device reaches

ASSUME PathAssumption ==
  IsFiniteSet(Paths) /\ Paths = 1 .. Cardinality(Paths) /\ Mapped \subseteq Paths

NoFile == 0       \* a path where no file stands; contents are positive
NoRecord == [entry |-> 0, data |-> NoFile]

PathsOf(catalog) == {catalog[e].path : e \in DOMAIN catalog}
HolderOf(catalog, p) == CHOOSE e \in DOMAIN catalog : catalog[e].path = p

\* The Entry of a record has another path than the file (relocate_to).
Waits(catalog, records, p) ==
  /\ records[p] # NoRecord
  /\ records[p].entry \in DOMAIN catalog
  /\ catalog[records[p].entry].path # p

WaitsFor(catalog, records, p) == catalog[records[p].entry].path

\* is_copy_of: the record at an Entry's path is of that Entry.
IsCopy(records, catalog, e) ==
  records[catalog[e].path].entry = e

\* A bug: every record whose Entry is gone is forgotten.
ReconcileAway(catalog, records) ==
  [p \in Paths |-> IF records[p].entry \in DOMAIN catalog THEN records[p] ELSE NoRecord]

\* A record whose Entry is gone, where another Entry stands, is forgotten.
Reconcile(catalog, records) ==
  [p \in Paths |->
     IF records[p].entry \notin DOMAIN catalog /\ p \in PathsOf(catalog)
       THEN NoRecord ELSE records[p]]

\* The catalog after a Journal record: removals, then renames, then additions,
\* an update adding again at its Entry's path what it removed.
Replayed(catalog, record) ==
  [e \in (DOMAIN catalog \ record.removed) \cup DOMAIN record.put |->
     IF e \in DOMAIN record.put THEN record.put[e]
     ELSE IF e \in DOMAIN record.renamed
       THEN [catalog[e] EXCEPT !.path = record.renamed[e]]
     ELSE catalog[e]]

Apply(index, record) ==
  LET catalog == Replayed(index.cat, record)
  IN [cat |-> catalog, rec |-> Reconcile(catalog, index.rec)]

\* A catch-up applies one record after another.
ApplyAll(catalog, records, journal) ==
  LET after[n \in 0..Len(journal)] ==
        IF n = 0 THEN [cat |-> catalog, rec |-> records] ELSE Apply(after[n - 1], journal[n])
  IN after[Len(journal)]

\* One path with what it leads to, and two that lead to each other.
Only(p, x) == [q \in {p} |-> x]
Exchange(p, q) == [r \in {p, q} |-> IF r = p THEN q ELSE p]

\* relocate_local_entries: every row a move names is taken out before any is
\* put back.
Rekeyed(catalog, records, moves) ==
  LET taken == {p \in DOMAIN moves : records[p] # NoRecord}
  IN Reconcile(catalog,
       [q \in Paths |->
          IF \E p \in taken : moves[p] = q
            THEN records[CHOOSE p \in taken : moves[p] = q]
          ELSE IF q \in taken THEN NoRecord
          ELSE records[q]])

\* mark_present, for a set of observations at different paths.
Marked(catalog, records, seen) ==
  Reconcile(catalog,
    [p \in Paths |->
       IF \E o \in seen : o.path = p
         THEN LET o == CHOOSE o \in seen : o.path = p
              IN [entry |-> o.entry, data |-> o.data]
         ELSE records[p]])

Forgotten(records, gone) ==
  [p \in Paths |-> IF p \in gone THEN NoRecord ELSE records[p]]
=============================================================================
