--------------------------- MODULE CommitProtocol ---------------------------
(***************************************************************************)
(* How processes on several devices change one coffret Library through a   *)
(* Storage nobody locks: catching up an Index, committing a batch into the *)
(* slot its head carries, checkpointing a head, and pruning the Journal.   *)
(*                                                                         *)
(* A Library is a chain of Journal records, head-0, head-1, ...; each      *)
(* carries the slot its successor is created in.  A run of a process is a  *)
(* sequence of Storage calls and Index operations, and every such call is  *)
(* one action here, so runs interleave exactly at the code's awaits.       *)
(*                                                                         *)
(* Abstractions.  A batch adds at most one Container, named as the batch.  *)
(* An Index and a key table are the sets of Containers they hold.  The     *)
(* Keyring generation of a record equals its Journal generation, since     *)
(* both start at 0 with head-0 and grow by one per record.  A listing is   *)
(* read at one instant.  Entry Paths, epochs and replicas are not here.    *)
(***************************************************************************)
EXTENDS Integers, FiniteSets

CONSTANTS
  Procs,        \* the processes that run flows over the Library
  Devices,      \* the devices, each with one Index its processes share
  DeviceOf,     \* the device whose Index a process opens
  Committers,   \* the processes that commit batches
  Pruners,      \* the processes that prune
  Readers,      \* the processes that catch up and nothing else
  Failing,      \* the processes that may be killed, or meet a lasting failure
  Batches,      \* the batches; a batch names the Container it adds
  Removing,     \* the batches that also remove one current Container
  Deletes,      \* the batches that add nothing
  Genesis,      \* the empty batch head-0 was written with
  NoBatch,      \* no batch
  Minting,      \* Storage mints identifiers; otherwise it keys objects by name
  Unreliable,   \* a create may be refused with the slot free, a read-back fail
  MaxHeld,      \* the records one catch-up holds from its walk
  Attempts,     \* CommitPolicy::attempts
  Threshold     \* CommitPolicy::checkpoint_threshold

ASSUME ProcAssumption ==
  /\ DeviceOf \in [Procs -> Devices]
  /\ Committers \cup Pruners \cup Readers \cup Failing \subseteq Procs
ASSUME BatchAssumption ==
  /\ Removing \subseteq Batches
  /\ Deletes \subseteq Removing
  /\ Genesis \notin Batches
  /\ NoBatch \notin Batches \cup {Genesis}
ASSUME PolicyAssumption ==
  /\ Minting \in BOOLEAN
  /\ Unreliable \in BOOLEAN
  /\ MaxHeld \in Nat
  /\ Attempts \in Nat \ {0}
  /\ Threshold \in Nat

VARIABLES
  live,      \* the Journal records Storage lists
  created,   \* every record Storage ever stored, pruned ones included
  sent,      \* the conditional creates a writer has sent; one may land late
  snaps,     \* the ordinary Index Snapshots, by the head their name gives
  idx,       \* the Index of each device
  trash,     \* the Containers whose objects were moved to the trash
  pc,        \* the call each process makes next
  job,       \* the flow it runs
  lst,       \* the listing its catch-up read
  nxt,       \* the next generation it replays, or prunes
  kept,      \* the records its walk keeps for the replay
  hand,      \* the Index value it read last: a Snapshot, or its own catalog
  rec,       \* the record it is about to apply, or to create
  bat,       \* the batch it commits
  rm,        \* what that batch removes
  base,      \* the head up to which it has read the records its batch missed
  tries,     \* the attempts it has spent
  outcome    \* what the run of each batch reported

storage == <<live, created, sent, snaps, trash>>
reading == <<lst, nxt, kept>>
batching == <<bat, rm, base, tries, outcome>>
vars == <<storage, idx, pc, job, reading, hand, rec, batching>>

-----------------------------------------------------------------------------
(* Values *)

Containers == Batches
Gens == Nat \cup {-1}

\* A Journal record: the head it succeeds is the record of `from' one
\* generation below, and the slot it consumes is the one that head carries.
Records == [gen : Nat, batch : Batches \cup {Genesis}, rm : SUBSET Containers,
            maps : SUBSET Containers, from : Batches \cup {Genesis, NoBatch}]

\* An Index, or the content of a Snapshot: the head it stands at, the batch
\* of that head (whose slot it therefore holds), the current Containers, and
\* the Containers the committed Keyring maps.
Catalogs == [gen : Gens, head : Batches \cup {Genesis, NoBatch},
             cur : SUBSET Containers, maps : SUBSET Containers]

Adds(b) == {b} \ (Deletes \cup {Genesis})

NoCatalog == [gen |-> -1, head |-> NoBatch, cur |-> {}, maps |-> {}]
FirstRecord == [gen |-> 0, batch |-> Genesis, rm |-> {}, maps |-> {},
                from |-> NoBatch]
FirstCatalog == [gen |-> 0, head |-> Genesis, cur |-> {}, maps |-> {}]
NoListing == [recs |-> {}, snaps |-> {}]

\* A bug: a record the catalog covers is taken again.
ApplyAgain(cat, r) ==
  [gen |-> r.gen, head |-> r.batch,
   cur |-> (cat.cur \ r.rm) \cup Adds(r.batch), maps |-> r.maps]

\* The catalog a record leaves, applied to one that stands below it; a record
\* the catalog already covers is refused and changes nothing.
ApplyTo(cat, r) ==
  IF r.gen <= cat.gen THEN cat
  ELSE [gen |-> r.gen, head |-> r.batch,
        cur |-> (cat.cur \ r.rm) \cup Adds(r.batch), maps |-> r.maps]

\* The greatest of a set of generations, -1 where there is none.
Newest(S) ==
  LET top == {g \in S : \A h \in S : h <= g}
  IN IF top = {} THEN -1 ELSE CHOOSE g \in top : TRUE

\* The head a listing shows.
ListedHead(p) == Newest({r.gen : r \in lst[p].recs})

-----------------------------------------------------------------------------
(* Storage: ObjectStore over the two kinds of provider *)

\* A bug: a create that is not conditional.
SlotAlwaysFree(r) == TRUE

\* Whether the slot r consumes is free.  A minted identifier stays consumed
\* whatever becomes of its object; a name is free again once nothing lives
\* under it.
SlotFree(r) ==
  IF Minting THEN \A q \in created : ~(q.gen = r.gen /\ q.from = r.from)
  ELSE \A q \in live : q.gen # r.gen

\* What the handle of a listed record reaches.  An identifier reaches its own
\* object, trashed or not; a name reaches whatever lives under it.
Reach(r) == IF Minting THEN {r} ELSE {q \in live : q.gen = r.gen}

\* Whether a read through that handle may find nothing.
Gone(r) == IF Minting THEN r \notin live ELSE Reach(r) = {}

Listed(p, g) == {r \in lst[p].recs : r.gen = g}
CanMiss(p, g) == \A r \in Listed(p, g) : Gone(r)
CanRead(p, g) == UNION {Reach(r) : r \in Listed(p, g)}

\* A create that was sent reaches Storage, now or long after its sender gave
\* up on it (a retried one may do so twice); one whose slot is taken changes
\* nothing.
Land(r) ==
  /\ r \in sent
  /\ Unreliable \/ r \notin created
  /\ SlotFree(r)
  /\ live' = live \cup {r}
  /\ created' = created \cup {r}
  /\ UNCHANGED <<sent, snaps, trash, idx, pc, job, reading, hand, rec, batching>>

-----------------------------------------------------------------------------
(* Starting and ending a run *)

Goto(p, l) == pc' = [pc EXCEPT ![p] = l]

\* The run is over: what it held in memory is gone.
Ended(p) ==
  /\ Goto(p, "idle")
  /\ job' = [job EXCEPT ![p] = "none"]
  /\ lst' = [lst EXCEPT ![p] = NoListing]
  /\ nxt' = [nxt EXCEPT ![p] = 0]
  /\ kept' = [kept EXCEPT ![p] = {}]
  /\ hand' = [hand EXCEPT ![p] = NoCatalog]
  /\ rec' = [rec EXCEPT ![p] = FirstRecord]
  /\ bat' = [bat EXCEPT ![p] = NoBatch]
  /\ rm' = [rm EXCEPT ![p] = {}]
  /\ base' = [base EXCEPT ![p] = -1]
  /\ tries' = [tries EXCEPT ![p] = 0]

\* The run ends reporting `how' of its batch, unless it reported already.
Finish(p, how) ==
  /\ Ended(p)
  /\ outcome' = [b \in Batches |->
                   IF b = bat[p] /\ outcome[b] = "open" THEN how ELSE outcome[b]]

\* A batch is prepared: what it replaces or deletes is current in the Index.
Prepare(p, b, gone) ==
  /\ pc[p] = "idle" /\ p \in Committers
  /\ outcome[b] = "none"
  /\ gone \subseteq idx[DeviceOf[p]].cur
  /\ Cardinality(gone) = IF b \in Removing THEN 1 ELSE 0
  /\ job' = [job EXCEPT ![p] = "commit"]
  /\ bat' = [bat EXCEPT ![p] = b]
  /\ rm' = [rm EXCEPT ![p] = gone]
  /\ base' = [base EXCEPT ![p] = idx[DeviceOf[p]].gen]
  /\ outcome' = [outcome EXCEPT ![b] = "open"]
  /\ Goto(p, "list")
  /\ UNCHANGED <<storage, idx, reading, hand, rec, tries>>

Start(p, flow) ==
  /\ pc[p] = "idle"
  /\ \/ flow = "prune" /\ p \in Pruners
     \/ flow = "catchup" /\ p \in Readers
  /\ job' = [job EXCEPT ![p] = flow]
  /\ Goto(p, "list")
  /\ UNCHANGED <<storage, idx, reading, hand, rec, batching>>

\* The process is killed, or a call it makes fails for good.
Abandon(p) ==
  /\ pc[p] # "idle" /\ p \in Failing
  /\ Finish(p, "failed")
  /\ UNCHANGED <<storage, idx>>

\* A bug: there is no limit.
SpentNever(p) == FALSE

\* ConflictLimitReached.
Spent(p) == tries[p] >= Attempts

\* A bug: the slot that was lost is tried again.
RetryBlind(p) == Goto(p, "aim") /\ UNCHANGED <<job, reading, hand, rec, batching>>

\* The attempt lost: the next one catches up afresh, within the limit.
Retry(p) ==
  \/ /\ ~Spent(p)
     /\ Goto(p, "list")
     /\ UNCHANGED <<job, reading, hand, rec, batching>>
  \/ Spent(p) /\ Finish(p, "failed")

-----------------------------------------------------------------------------
(* catch_up: bring the Index to the head the listing shows *)

List(p) ==
  /\ pc[p] = "list"
  /\ lst' = [lst EXCEPT ![p] = [recs |-> live, snaps |-> {s.name : s \in snaps}]]
  /\ Goto(p, "held")
  /\ UNCHANGED <<storage, idx, job, nxt, kept, hand, rec, batching>>

ReadHeld(p) ==
  /\ pc[p] = "held"
  /\ nxt' = [nxt EXCEPT ![p] = idx[DeviceOf[p]].gen + 1]
  /\ Goto(p, "walk")
  /\ UNCHANGED <<storage, idx, job, lst, kept, hand, rec, batching>>

\* A bug: the replay stops before the head.
AfterReplayShort(p, n) == IF n >= ListedHead(p) THEN "caught" ELSE "fetch"

AfterReplay(p, n) == IF n > ListedHead(p) THEN "caught" ELSE "fetch"

\* The listed Snapshot a catch-up starts from, where one is past its Index.
Candidate(p) == Newest({g \in lst[p].snaps : g >= nxt[p]})

\* The walk down the checkpoint candidates: the newest Snapshot past the
\* Index, the records met above it kept for the replay up to the budget.  A
\* Snapshot of another head than its name's is refused, not stepped over.
Walk(p) ==
  /\ pc[p] = "walk"
  /\ \E keep \in SUBSET UNION {CanRead(p, g) :
                   g \in {r.gen : r \in lst[p].recs} \ (0 .. Newest({nxt[p] - 1, Candidate(p)}))} :
       /\ Cardinality(keep) <= MaxHeld
       /\ kept' = [kept EXCEPT ![p] = keep]
  /\ IF Candidate(p) = -1
     THEN /\ Goto(p, AfterReplay(p, nxt[p]))
          /\ UNCHANGED hand
     ELSE \E s \in snaps :
            /\ s.name = Candidate(p)
            /\ s.at.gen = s.name
            /\ hand' = [hand EXCEPT ![p] = s.at]
            /\ Goto(p, "restore")
  /\ UNCHANGED <<storage, idx, job, lst, nxt, rec, batching>>

WalkRefused(p) ==
  /\ pc[p] = "walk"
  /\ \E s \in snaps : s.name = Candidate(p) /\ s.at.gen # s.name
  /\ Finish(p, "failed")
  /\ UNCHANGED <<storage, idx>>

\* Index::restore replaces the Library-wide half, wherever it stands now.
Restore(p) ==
  /\ pc[p] = "restore"
  /\ idx' = [idx EXCEPT ![DeviceOf[p]] = hand[p]]
  /\ nxt' = [nxt EXCEPT ![p] = hand[p].gen + 1]
  /\ hand' = [hand EXCEPT ![p] = NoCatalog]
  /\ Goto(p, AfterReplay(p, hand[p].gen + 1))
  /\ UNCHANGED <<storage, job, lst, kept, rec, batching>>

Fetch(p) ==
  /\ pc[p] = "fetch"
  /\ \E r \in {k \in kept[p] : k.gen = nxt[p]} \cup CanRead(p, nxt[p]) :
       rec' = [rec EXCEPT ![p] = r]
  /\ kept' = [kept EXCEPT ![p] = {k \in @ : k.gen # nxt[p]}]
  /\ Goto(p, "apply")
  /\ UNCHANGED <<storage, idx, job, lst, nxt, hand, batching>>

\* A record the listing named is gone: MissingHead ends the run.
FetchMissing(p) ==
  /\ pc[p] = "fetch"
  /\ {k \in kept[p] : k.gen = nxt[p]} = {}
  /\ CanMiss(p, nxt[p])
  /\ Finish(p, "failed")
  /\ UNCHANGED <<storage, idx>>

\* covered_by_checkpoint and Index::apply's own refusal in one: a record the
\* catalog covers by now is stepped over.
Apply(p) ==
  /\ pc[p] = "apply"
  /\ idx' = [idx EXCEPT ![DeviceOf[p]] = ApplyTo(@, rec[p])]
  /\ nxt' = [nxt EXCEPT ![p] = @ + 1]
  /\ rec' = [rec EXCEPT ![p] = FirstRecord]
  /\ Goto(p, AfterReplay(p, nxt[p] + 1))
  /\ UNCHANGED <<storage, job, lst, kept, hand, batching>>

\* A flow that only wanted the head read.
CaughtUp(p) ==
  /\ pc[p] = "caught" /\ job[p] = "catchup"
  /\ Finish(p, "failed")
  /\ UNCHANGED <<storage, idx>>

-----------------------------------------------------------------------------
(* commit_batch: one attempt, from the head a catch-up reached *)

\* The records the batch has not seen, read off the listing.
Intervening(p) == base[p] + 1 .. ListedHead(p)

\* A bug: what a rival removed is removed again.
AdmitsStale(cat, b, gone) == Adds(b) \cap cat.cur = {}

\* candidate::check: every removal is current, and nothing stands where the
\* batch puts its own Container.
Admits(cat, b, gone) == gone \subseteq cat.cur /\ Adds(b) \cap cat.cur = {}

Check(p) ==
  /\ pc[p] = "caught" /\ job[p] = "commit"
  /\ \A g \in Intervening(p) : CanRead(p, g) # {}
  /\ IF Admits(idx[DeviceOf[p]], bat[p], rm[p])
     THEN /\ tries' = [tries EXCEPT ![p] = @ + 1]
          /\ base' = [base EXCEPT ![p] = Newest({base[p], ListedHead(p)})]
          /\ Goto(p, "standing")
          /\ UNCHANGED <<job, reading, hand, rec, bat, rm, outcome>>
     ELSE Finish(p, "refused")
  /\ UNCHANGED <<storage, idx>>

CheckMissing(p) ==
  /\ pc[p] = "caught" /\ job[p] = "commit"
  /\ \E g \in Intervening(p) : CanMiss(p, g)
  /\ Finish(p, "failed")
  /\ UNCHANGED <<storage, idx>>

\* index.checkpoint(): where the Index stands, and the slot it holds.
ReadStanding(p) ==
  /\ pc[p] = "standing"
  /\ hand' = [hand EXCEPT ![p] = idx[DeviceOf[p]]]
  /\ Goto(p, "replicate")
  /\ UNCHANGED <<storage, idx, job, reading, rec, batching>>

\* A bug: the slot is taken from wherever the Index stands.
StandsAnywhere(p) == TRUE

\* carried_slot: the Index stands at the head this attempt caught up to.
Stands(p) == hand[p].gen = ListedHead(p)

\* A bug: the candidate carries the removals over.
CandidatesKeeping(cat, b, gone) == cat.cur \cup Adds(b)

\* The post-commit Container set, read off the Index, and the candidate
\* Keyring written for it.
Candidates(cat, b, gone) == (cat.cur \ gone) \cup Adds(b)

\* Every Container carried over has its envelope in the committed Keyring, and
\* none of them is the batch's own.
Carries(cat, held, b, gone) ==
  /\ cat.cur \ gone \subseteq held
  /\ Adds(b) \cap cat.cur = {}

Replicate(p) ==
  /\ pc[p] = "replicate"
  /\ Carries(idx[DeviceOf[p]], hand[p].maps, bat[p], rm[p])
  /\ rec' = [rec EXCEPT ![p] =
               [gen |-> ListedHead(p) + 1, batch |-> bat[p], rm |-> rm[p],
                maps |-> Candidates(idx[DeviceOf[p]], bat[p], rm[p]),
                from |-> hand[p].head]]
  /\ Goto(p, "aim")
  /\ UNCHANGED <<storage, idx, job, reading, hand, batching>>

\* A Container the committed Keyring says nothing about, one the batch would
\* list twice, or a Keyring the listing does not hold because the Index moved
\* past it, ends the run.
ReplicateRefused(p) ==
  /\ pc[p] = "replicate"
  /\ \/ ~Carries(idx[DeviceOf[p]], hand[p].maps, bat[p], rm[p])
     \/ ~Stands(p)
  /\ Finish(p, "failed")
  /\ UNCHANGED <<storage, idx>>

\* aim: the slot is the one the Index holds, provided it stands at that head
\* and the head is still there.
Aim(p) ==
  /\ pc[p] = "aim"
  /\ Stands(p)
  /\ CanRead(p, ListedHead(p)) # {}
  /\ Goto(p, "send")
  /\ UNCHANGED <<storage, idx, job, reading, hand, rec, batching>>

AimMoved(p) ==
  /\ pc[p] = "aim"
  /\ ~Stands(p)
  /\ Retry(p)
  /\ UNCHANGED <<storage, idx>>

AimMissing(p) ==
  /\ pc[p] = "aim"
  /\ Stands(p)
  /\ CanMiss(p, ListedHead(p))
  /\ Finish(p, "failed")
  /\ UNCHANGED <<storage, idx>>

Send(p) ==
  /\ pc[p] = "send"
  /\ sent' = sent \cup {rec[p]}
  /\ Goto(p, "await")
  /\ UNCHANGED <<live, created, snaps, trash, idx, job, reading, hand, rec, batching>>

\* The create answered that the record was stored.
Created(p) ==
  /\ pc[p] = "await"
  /\ rec[p] \in created
  /\ Goto(p, "refresh")
  /\ UNCHANGED <<storage, idx, job, reading, hand, rec, batching>>

\* The create was refused: the slot is taken (by this writer's own record,
\* where the answer was lost), or another create was in flight.
Refused(p) ==
  /\ pc[p] = "await"
  /\ Unreliable \/ ~SlotFree(rec[p])
  /\ Goto(p, "readback")
  /\ UNCHANGED <<storage, idx, job, reading, hand, rec, batching>>

\* Bugs the read-back could have: skipped, or taking any record for its own.
OwnNever(p) == {}
OwnAny(p) == {r \in live : r.gen = rec[p].gen}

\* own_record: the slot read back off a fresh listing.
OwnRecords(p) ==
  {r \in live : /\ r.gen = rec[p].gen
                /\ Minting => r.from = rec[p].from
                /\ r.batch = bat[p]
                /\ Adds(bat[p]) # {}}

ReadBackOwn(p) ==
  /\ pc[p] = "readback"
  /\ \E r \in OwnRecords(p) : rec' = [rec EXCEPT ![p] = r]
  /\ Goto(p, "refresh")
  /\ UNCHANGED <<storage, idx, job, reading, hand, batching>>

ReadBackOther(p) ==
  /\ pc[p] = "readback"
  /\ Unreliable \/ OwnRecords(p) = {}
  /\ Retry(p)
  /\ UNCHANGED <<storage, idx>>

\* Index::refresh, or complete_applied where another process was first.
Refresh(p) ==
  /\ pc[p] = "refresh"
  /\ idx' = [idx EXCEPT ![DeviceOf[p]] = ApplyTo(@, rec[p])]
  /\ outcome' = [outcome EXCEPT ![bat[p]] = "committed"]
  /\ Goto(p, "clean")
  /\ UNCHANGED <<storage, job, reading, hand, rec, bat, rm, base, tries>>

\* trash_removals: each object goes or is reported untrashed.
Due(p) == rec[p].gen - Newest(lst[p].snaps) > Threshold

TrashRemovals(p) ==
  /\ pc[p] = "clean"
  /\ \E gone \in SUBSET rec[p].rm : trash' = trash \cup gone
  /\ IF Due(p)
     THEN /\ Goto(p, "snapshot")
          /\ UNCHANGED <<job, reading, hand, rec, batching>>
     ELSE Finish(p, "committed")
  /\ UNCHANGED <<live, created, sent, snaps, idx>>

-----------------------------------------------------------------------------
(* The checkpoint of the head rec[p] is, for a commit and for prune *)

\* index.snapshot(): whatever head the Index stands at by now.
ReadCatalog(p) ==
  /\ pc[p] = "snapshot"
  /\ hand' = [hand EXCEPT ![p] = idx[DeviceOf[p]]]
  /\ Goto(p, "put")
  /\ UNCHANGED <<storage, idx, job, reading, rec, batching>>

AfterCheckpoint(p) == IF job[p] = "prune" THEN "gate" ELSE "done"

\* The conditional create in the head's snapshot slot.
PutSnapshot(p) ==
  /\ pc[p] = "put"
  /\ \A s \in snaps : s.name # rec[p].gen
  /\ snaps' = snaps \cup {[name |-> rec[p].gen, at |-> hand[p]]}
  /\ Goto(p, AfterCheckpoint(p))
  /\ UNCHANGED <<live, created, sent, trash, idx, job, reading, hand, rec, batching>>

\* A Snapshot of that head is there already; one of another head is refused.
SnapshotExists(p) ==
  /\ pc[p] = "put"
  /\ \E s \in snaps :
       /\ s.name = rec[p].gen
       /\ IF s.at.gen = s.name
          THEN /\ hand' = [hand EXCEPT ![p] = s.at]
               /\ Goto(p, AfterCheckpoint(p))
               /\ UNCHANGED <<job, reading, rec, batching>>
          ELSE Finish(p, "failed")
  /\ UNCHANGED <<storage, idx>>

CommitDone(p) ==
  /\ pc[p] = "done"
  /\ Finish(p, "committed")
  /\ UNCHANGED <<storage, idx>>

-----------------------------------------------------------------------------
(* prune_journal, after its catch-up *)

\* The head's own record, and the Snapshot of it where the listing has one.
ReadHead(p) ==
  /\ pc[p] = "caught" /\ job[p] = "prune"
  /\ \E r \in CanRead(p, ListedHead(p)) : rec' = [rec EXCEPT ![p] = r]
  /\ Goto(p, IF ListedHead(p) \in lst[p].snaps THEN "put" ELSE "snapshot")
  /\ UNCHANGED <<storage, idx, job, reading, hand, batching>>

ReadHeadMissing(p) ==
  /\ pc[p] = "caught" /\ job[p] = "prune"
  /\ CanMiss(p, ListedHead(p))
  /\ Finish(p, "failed")
  /\ UNCHANGED <<storage, idx>>

\* Whether the Snapshot in hand records the tuple the head committed.
RecordsTuple(cat, r) == cat.gen = r.gen /\ cat.maps = r.maps

Gate(p) ==
  /\ pc[p] = "gate"
  /\ IF RecordsTuple(hand[p], rec[p])
     THEN /\ Goto(p, "prune")
          /\ nxt' = [nxt EXCEPT ![p] = 0]
          /\ UNCHANGED <<job, lst, kept, hand, rec, batching>>
     ELSE Finish(p, "failed")
  /\ UNCHANGED <<storage, idx>>

\* A bug: the head is pruned with the rest.
EligibleHead(p) == {r \in lst[p].recs : nxt[p] <= r.gen /\ r.gen <= hand[p].gen}

\* The listed records the Snapshot covers, but never the head.
Eligible(p) ==
  {r \in lst[p].recs : nxt[p] <= r.gen /\ r.gen <= hand[p].gen /\ r.gen < ListedHead(p)}

\* The oldest eligible record goes to the trash, or is left in place.
Prune(p) ==
  /\ pc[p] = "prune"
  /\ \E r \in Eligible(p) :
       /\ \A q \in Eligible(p) : r.gen <= q.gen
       /\ \/ live' = live \ Reach(r)
          \/ UNCHANGED live
       /\ nxt' = [nxt EXCEPT ![p] = r.gen + 1]
  /\ UNCHANGED <<created, sent, snaps, trash, idx, pc, job, lst, kept, hand, rec, batching>>

PruneDone(p) ==
  /\ pc[p] = "prune"
  /\ Eligible(p) = {}
  /\ Finish(p, "failed")
  /\ UNCHANGED <<storage, idx>>

-----------------------------------------------------------------------------
Init ==
  /\ live = {FirstRecord} /\ created = {FirstRecord}
  /\ sent = {} /\ snaps = {} /\ trash = {}
  /\ idx \in [Devices -> {NoCatalog, FirstCatalog}]
  /\ pc = [p \in Procs |-> "idle"]
  /\ job = [p \in Procs |-> "none"]
  /\ lst = [p \in Procs |-> NoListing]
  /\ nxt = [p \in Procs |-> 0]
  /\ kept = [p \in Procs |-> {}]
  /\ hand = [p \in Procs |-> NoCatalog]
  /\ rec = [p \in Procs |-> FirstRecord]
  /\ bat = [p \in Procs |-> NoBatch]
  /\ rm = [p \in Procs |-> {}]
  /\ base = [p \in Procs |-> -1]
  /\ tries = [p \in Procs |-> 0]
  /\ outcome = [b \in Batches |-> "none"]

CatchUpStep(p) ==
  \/ List(p) \/ ReadHeld(p) \/ Walk(p) \/ WalkRefused(p) \/ Restore(p)
  \/ Fetch(p) \/ FetchMissing(p) \/ Apply(p) \/ CaughtUp(p)

CommitStep(p) ==
  \/ Check(p) \/ CheckMissing(p) \/ ReadStanding(p)
  \/ Replicate(p) \/ ReplicateRefused(p)
  \/ Aim(p) \/ AimMoved(p) \/ AimMissing(p)
  \/ Send(p) \/ Created(p) \/ Refused(p) \/ ReadBackOwn(p) \/ ReadBackOther(p)
  \/ Refresh(p) \/ TrashRemovals(p)

PruneStep(p) ==
  \/ ReadCatalog(p) \/ PutSnapshot(p) \/ SnapshotExists(p) \/ CommitDone(p)
  \/ ReadHead(p) \/ ReadHeadMissing(p) \/ Gate(p) \/ Prune(p) \/ PruneDone(p)

Step(p) == CatchUpStep(p) \/ CommitStep(p) \/ PruneStep(p)

Next ==
  \/ \E r \in sent : Land(r)
  \/ \E p \in Procs :
       \/ \E b \in Batches, gone \in SUBSET Containers : Prepare(p, b, gone)
       \/ \E flow \in {"catchup", "prune"} : Start(p, flow)
       \/ Abandon(p)
       \/ Step(p)

Spec == Init /\ [][Next]_vars

\* A process runs on to its next call, and Storage answers every create sent.
Fairness ==
  /\ \A p \in Procs : WF_vars(Step(p))
  /\ WF_vars(\E r \in sent : Land(r))

FairSpec == Spec /\ Fairness
=============================================================================
