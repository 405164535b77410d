-------------------------- MODULE CommitProperties --------------------------
(***************************************************************************)
(* What the commit protocol is for, stated over the steps of               *)
(* CommitProtocol: one chain of records, Keyrings and Indexes that follow  *)
(* it, and enough of it in Storage for a new device to read the Library.   *)
(***************************************************************************)
EXTENDS CommitProtocol

\* Where a process may be between two calls.
Calls ==
  {"idle", "list", "held", "walk", "restore", "fetch", "apply", "caught",
   "standing", "replicate", "aim", "send", "await", "readback", "refresh",
   "clean", "snapshot", "put", "gate", "prune", "done"}

\* Every variable keeps its shape; no run spends more attempts than the policy
\* allows, and nothing is live that was not created.
TypeOK ==
  /\ live \subseteq created /\ created \subseteq Records /\ sent \subseteq Records
  /\ snaps \subseteq [name : Nat, at : Catalogs]
  /\ idx \in [Devices -> Catalogs]
  /\ trash \subseteq Containers
  /\ pc \in [Procs -> Calls]
  /\ job \in [Procs -> {"none", "commit", "catchup", "prune"}]
  /\ lst \in [Procs -> [recs : SUBSET Records, snaps : SUBSET Nat]]
  /\ nxt \in [Procs -> Nat]
  /\ kept \in [Procs -> SUBSET Records]
  /\ hand \in [Procs -> Catalogs]
  /\ rec \in [Procs -> Records]
  /\ bat \in [Procs -> Batches \cup {NoBatch}]
  /\ rm \in [Procs -> SUBSET Containers]
  /\ base \in [Procs -> Gens]
  /\ tries \in [Procs -> 0 .. Attempts]
  /\ outcome \in [Batches -> {"none", "open", "committed", "refused", "failed"}]

-----------------------------------------------------------------------------
(* The chain *)

\* A head has one successor: whatever two writers on two devices start from,
\* of the records created in the slot it carries exactly one is stored
\* (journal.rs aim and commit, CP-2, CP-3).
OneSuccessor == \A q, r \in created : q.gen = r.gen => q = r

\* A batch enters the chain once: a writer that lost an answer, or retried on
\* the head a rival left, never commits its batch again (CP-3, CP-14).
BatchCommittedOnce ==
  \A q, r \in created : q.batch = r.batch => q = r

\* The Keyring a record selects maps exactly the Containers current after it:
\* those of the head it really succeeded, less its removals, with its own
\* addition (replicate.rs next_generation, CP-8, KL-7).
KeyringExact ==
  \A q, r \in created :
    (r.gen = q.gen + 1) =>
      /\ r.rm \subseteq q.maps
      /\ r.maps = (q.maps \ r.rm) \cup Adds(r.batch)

-----------------------------------------------------------------------------
(* Catalogs against the chain *)

\* A catalog that stands at a head shows that head's batch, and the very
\* Containers its Keyring maps.
Follows(cat) ==
  \E r \in created :
    /\ cat.gen = r.gen /\ cat.head = r.batch
    /\ cat.cur = r.maps /\ cat.maps = r.maps

\* Whatever catch-ups, adoptions and refreshes brought an Index where it
\* stands, it skipped no record (catch_up.rs replay, CK-9, CK-13).
IndexFollowsChain ==
  \A d \in Devices : idx[d] = NoCatalog \/ Follows(idx[d])

\* A Snapshot is the Index of the head its name gives, so any device that
\* adopts it stands at a head of the chain (after_commit.rs checkpoint, CK-10).
SnapshotsAtTheirHead ==
  \A s \in snaps : s.at.gen = s.name /\ Follows(s.at)

\* An Index never falls back to a head it was past (CK-9, RV-5).
IndexAdvances == [][\A d \in Devices : idx[d].gen <= idx'[d].gen]_vars

\* A device with no Index can always read the Library up to its head: the
\* newest Snapshot opens, and every record above it is in Storage, whatever
\* prune has taken and wherever it stopped (prune/run.rs, CK-2, CK-4).
Recoverable ==
  LET from == Newest({s.name : s \in snaps}) IN
  /\ \A s \in snaps : s.name = from => s.at.gen = from
  /\ \A r \in created : r.gen > from => r \in live
  /\ \E h \in live : \A r \in created : r.gen <= h.gen

\* An object moved to the trash belonged to a Container no head holds again:
\* nothing current after the newest record was trashed (after_commit.rs
\* trash_removals).
TrashedNotCurrent ==
  \A r \in created :
    (\A q \in created : q.gen <= r.gen) => trash \cap r.maps = {}

-----------------------------------------------------------------------------
(* What a run reports *)

\* A run that reports its batch committed has a record on the chain, and the
\* batch's Container is current after it (run.rs, journal.rs commit).
ReportedCommitStands ==
  \A b \in Batches : outcome[b] = "committed" =>
    \E r \in created : r.batch = b /\ Adds(b) \subseteq r.maps

\* A run that reports its batch refused has committed nothing: no record of it
\* is on the chain, or will be (candidate.rs check, CP-7).
RefusedNotCommitted ==
  \A b \in Batches : outcome[b] = "refused" =>
    \A r \in created \cup sent : r.batch = b => r \notin created /\ ~SlotFree(r)

\* Every run ends: no interleaving keeps one retrying or catching up for ever
\* (run.rs attempt_until_committed).
RunsEnd == \A p \in Procs : (pc[p] # "idle") ~> (pc[p] = "idle")

\* No attempt at a batch is lost but to a rival's: from the catch-up it begins
\* with, either the batch is committed or another record is created, whoever
\* else moves the Index it is built on (run.rs attempt_until_committed, CP-4).
TopGen == Newest({r.gen : r \in created})

LostOnlyToRivals ==
  \A b \in Batches, n \in 0 .. Cardinality(Batches) :
    (TopGen = n /\ \E p \in Procs : bat[p] = b /\ pc[p] = "list")
      ~> (outcome[b] = "committed" \/ TopGen > n)

-----------------------------------------------------------------------------
(* The Library as its users see it *)

LogOf ==
  [n \in 1 .. Newest({r.gen : r \in created}) |->
     LET r == CHOOSE q \in created : q.gen = n IN [batch |-> r.batch, rm |-> r.rm]]

ViewOf == [d \in Devices |-> [upto |-> idx[d].gen, cur |-> idx[d].cur]]

Log == INSTANCE LibraryLog WITH log <- LogOf, view <- ViewOf

\* Every step of every process is a step of the Library's log or none: the
\* Storage calls of concurrent runs add up to one log and to Indexes that
\* follow it.
ImplementsLog == Log!Spec
=============================================================================
