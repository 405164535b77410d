# coffret: models, checks and proofs

coffret keeps a **Library** of encrypted files on a Storage (S3, Google Drive)
that several devices share and nobody locks. This directory holds TLA+ modules
of the parts where that is hard, the TLC configurations that check them on
small instances, and TLAPS proofs of what matters most for every instance. Paths
below are relative to the repository; `UC/` stands for
`src/backend/crates/domain/coffret-usecase/src/` and `SV/` for
`src/backend/crates/apps/coffret-server/src/`.

## 1. Inventory

### The Library on Storage

| State | Kept in | Written by |
|---|---|---|
| the Journal: `head-0, head-1, ...`, each carrying the slot of its successor, a batch's additions and removals, and the Keyring generation it selects | Storage | `commit_batch` (`UC/commit/run.rs`, `journal.rs`), by conditional create |
| Keyring replica sets, one set per candidate generation | Storage | `UC/commit/keyring/` |
| ordinary Index Snapshots `idx-g`, the checkpoint of head g | Storage | `UC/commit/after_commit.rs`, `UC/prune/run.rs`, by conditional create |
| Container objects | Storage | `UC/upload/run.rs`; trashed by `trash_removals` and by settlement |
| the Index: the head it stands at, the current Containers and Entries (Library-wide half); pending rows, attempted slots, local files (device half) | each device, shared by its processes | `in_memory_index`, `coffret-sqlite-index` |

### Components, what they do, and what makes them correct

| Component | State and operations | Hard behaviour | Correct when |
|---|---|---|---|
| **Commit** (`UC/commit`) | An attempt: catch up, check the batch, write a candidate Keyring, aim at the slot the head carries, create, read back a refusal, refresh the Index, trash removals, checkpoint; up to `attempts` of them | two writers at one head; an answer lost; a create landing late; an Index another process moves; a crash anywhere | each head has one successor; each record's Keyring is exact; a batch enters once; what a run reports is true |
| **Catch-up** (`UC/commit/catch_up.rs`) | listing, walk down the checkpoint candidates, adopt a Snapshot, replay the Journal | the listing is stale at once; two replayers of one Index; records pruned on the way | the Index shows a prefix of the chain, and never goes back |
| **Checkpoints** (`UC/commit/after_commit.rs`) | the Index put in the head's snapshot slot | the slot is taken; the Index has moved | a Snapshot is its head's Index |
| **Prune** (`UC/prune/run.rs`) | make sure of the head's Snapshot, then trash the records below it and the superseded Keyrings | concurrent commits, catch-ups and prunes; partial failure | a new device can always read the Library |
| **Keyring** (`UC/commit/keyring`) | candidate generations, replicas, examination and repair, disposal | degraded sets; several candidates of one generation; readers at older heads | a committed generation stays readable while it can be selected |
| **Sync and its settlement** (`UC/sync`, `UC/upload`, `UC/commit/pending_provenance.rs`) | pending rows: spooling, spooled, uploaded, attempted; settled by completion, disposal or retention | a crash between any two steps; a row judged from what a commit slot holds | no committed Container is disposed of; what is left behind is found again |
| **Batches** (`sync`, `freeze`, `delete`, `rename`, `repack`, `read_modify_replace`) | plan additions, removals and renames against a head | the head moves while they plan | a conflicting batch is refused, another rebased |
| **Rebase** (`UC/commit/rebase`) | carries a batch over the records it missed | renames against updates | the result is one the writer meant |
| **Memory of reads** (`UC/fetch/fetch_memory`) | the listing and the key table kept between the Entries a server fetches; reads under way that other fetches join; what write runs and catch-ups forget | a read begun before a repair and kept after it; a reader dropped while others wait | no loss is reported that was repaired before; nobody waits for ever |
| **Local files** (`UC/relocate`, `UC/sync/scan`, `UC/departure`, `UC/fetch`) | one record per file a device placed or committed: its Entry and what was last seen of it; relocation after renames, scan, discard of what departed, placing | a kill between a rename on disk and its record; chains and cycles of renames; records of other devices over files half moved | no content of the person's is lost; files follow their Entries; a sync commits what the person did and nothing the device did |
| **Index port** and its two implementations | checkpoint, snapshot, restore, apply, refresh, pending rows | shared by processes; each call is one transaction | see catch-up |
| **ObjectStore port**; `s3-store`, `google-drive-store`, in-memory references | conditional create, get, list, trash, purge | a refusal that proves nothing, names that trash frees, identifiers it does not | see commit |
| **coffret-server: adds, syncs, freezes, stops** (`SV/adds`, `SV/sync`, `SV/freeze`, `SV/stopping`, `SV/routes`) | a registry of the drops being carried in; what is armed and the run on record of each flow, one worker each; books waiting for a Pack, owed or thrown away; reservations; the turn at the pending rows | a stop, a drop and a worker at once, each holding its lock for a moment; panics | what a stop takes away is in no commit; every add and every request has somebody who will answer it |
| **coffret-server: the idle lock** (`SV/lock`) | the keys, who holds them, the quiet | the interval runs out as work begins | work that began with the keys ends with them |
| **coffret-server: fills, deletions, moves, refreshes** | queues like those of the freezes | the same | the same |
| coffret-format, coffret-model | encodings; values and their validation | pure data | round trips, refused inputs |
| CLI, device, explorer host, desktop, Node binding, front ends, logging, interop, fixtures, measure | I/O and presentation | | |

How they interact: every flow that changes the Library ends in `commit_batch`;
commit and prune begin with a catch-up; processes of one device meet in its
Index, devices meet only in Storage. There are no messages: all interaction is
reads and conditional creates at different times, which is why the models let
every Storage call and every Index call of one process interleave with
every other's. Within one server the tasks run on several threads and meet under
locks held for a moment; there each hold of a lock is one action.

## 2. Plan

1. **CommitProtocol** with **LibraryLog**: commit, catch-up, checkpoints and prune. *Done.*
2. **PendingSettlement** with **ContainerFate**: rows, spools and objects of a
   device through upload, attempt, crash and settlement. *Done.*
3. **KeyringLifecycle** with **FetchMemory**: replicas, examination and repair,
   prune's disposal (KL-18), reads, and the memory a server keeps of them. *Done.*
4. **ServerAdds**, **ServerSync**, **ServerFreeze**, composed by **ServerWork**:
   drops, the two flows that carry them in, stops, and the lock. *Done.*
5. **ServerRestart**: reservations of drops cut off by the end of a server, taken
   over by the next drop or the next unlock.
6. **ServerFill** and **ServerDelete**: the other two queues, over `ServerAdds`' turn.
7. **LocalIndex**, **Relocations** and **PlacedFiles**: the records of local files,
   relocation, the scan and the commit of a sync, rebase of its batch, and the
   placing of a folder fetch. *Done.*
8. Over them: Packs and the fetch of one Entry; roots that are away or on another
   filesystem; deletions and renames the person asks for.

The properties of modules 1, 2 and 4 that a step can break are proved, as far as §5
says, and so are the refinements of `LibraryLog` and `ContainerFate`; of module 3, all but
what its fetches report.

## 3. Modules

| Module | What it is |
|---|---|
| `CommitProtocol` | the processes of several devices over one Library: catch-up, commit, checkpoint, prune |
| `CommitProperties` | what that protocol is for: the type invariant, safety, action and liveness properties, and the refinement mapping |
| `LibraryLog` | the abstract Library: one log of batches, and on every device a view of a prefix of it |
| `MCCommit` | which process runs on which device, for TLC |
| `CommitProofs` | proofs: types, and one chain |
| `CatalogProofs` | extends it: Indexes and Keyrings against the chain, what runs report, Snapshots, and what prune leaves |
| `LogProofs` | extends `CatalogProofs`: each batch once, the trash, and the refinement of `LibraryLog` |
| `PendingSettlement` | one device making, uploading, committing and settling Containers |
| `SettlementProperties` | what its pending rows are for: safety, liveness and the refinement mapping |
| `ContainerFate` | the abstract life of a Container: pending, then committed with its batch, or reclaimed |
| `SettlementProofs` | the inductive invariants of the rows and spools, and the theorems proved from them |
| `FateProofs` | extends it: what becomes of a Container, and the refinement of `ContainerFate` |
| `MCSettlement` | which Containers make a batch, and the settings of the runs, for TLC |
| `KeyringLifecycle` | commits, prunes and reads over the replicas of the Keyring, which Storage damages and loses |
| `FetchMemory` | extends it with the fetches of one server, which share what they read |
| `KeyringProperties`, `MCKeyring` | what both promise; the casts for TLC |
| `KeyringProofs` | proofs about both: the shapes, what a selected generation loses, the gate, and what is reported lost |
| `ServerAdds` | what the flows of a server share: the registry, files and reservations, the turn, the keys, and the request of one add |
| `ServerSync`, `ServerFreeze` | the two flows that carry adds in, each with its worker |
| `ServerWork` | their composition (two INSTANCEs over one set of shared variables), with the stops, the requests and the lock |
| `ServerProperties`, `MCServer` | what one server promises; the casts for TLC |
| `ServerProofs` | proofs: the shapes of the flows, what is armed, commits no stop cuts short, the turn and what is undone under it, who carries an add |
| `LocalIndex` | operators: the Entries, the records of local files, and what a replay, a re-keying and an observation make of them |
| `Relocations` | extends it with the relocating of files after renames, which every sync and folder fetch begins with |
| `PlacedFiles` | one device's folders over whole syncs and folder fetches, with the person, other devices and kills |
| `PlacedProperties` | what the keeping of those folders is for |
| `MCPlaced` | for TLC; beside the runs, the behaviours about one file and its Entry's new path |
| `PlacedProofs` | proofs: the shapes of what a device keeps, what no step does to the person's files, and whose acts a sync carries in |

Where a run needs several arrangements - who does what, on which Storage - the
module has a variable `setup`, chosen once in `Init` from the constant `Setups`, so
that one run checks a property in all of them and every action in one of them.
The elements of `Setups` are the records the MC modules define, here called casts.

### State and actions of CommitProtocol

A process runs one flow at a time (`job`): a commit, a catch-up, or a prune.
`pc` names the call it makes next, and **every Storage call and every Index
operation is one action**, which is where the code awaits and so where other
processes come in. The local variables of a run are reset when it ends, since a
run leaves nothing in memory behind.

| In the model | In the code |
|---|---|
| `live`, `created` | the Journal records Storage lists, and every one it ever stored: a minted identifier stays consumed when its object is trashed, a name does not (`SlotFree`) |
| `sent`, `Land` | conditional creates on their way: one may reach Storage after its sender gave up, and again when it is retried |
| `snaps` | ordinary Snapshots: the generation their name gives, and the catalog they hold |
| `idx` | the Library-wide half of each device's Index, the slot it holds included (the batch of the head names it) |
| `trash` | the removed Containers' objects |
| `List` `ReadHeld` `Walk` `Restore` `Fetch` `Apply` | `catch_up.rs`, `checkpoint_walk.rs`, `Index::restore`, `Index::apply` |
| `Check` `ReadStanding` `Replicate` `Aim` `Send` `Created` `Refused` `ReadBack*` `Refresh` | one attempt in `run.rs`: `candidate::check`, `carried_slot`, `replicate`, `aim`, the create, `own_record`, `refresh` |
| `TrashRemovals` `ReadCatalog` `PutSnapshot` `SnapshotExists` | `after_commit.rs` |
| `ReadHead` `Gate` `Prune` | `prune/run.rs` |
| `Abandon` | the process is killed, or a call fails for good |

What is abstracted, and why nothing checked here turns on it:

- A batch adds at most one Container, named as the batch; a delete adds none.
  An Index and a key table are sets of Containers.
- The Keyring generation of a record is its Journal generation. Both start at 0
  with head-0 and each record selects the next generation.
- A listing is read at one instant. Its pages are not: what a torn listing could
  miss, a listing read earlier misses too.
- `Walk` is one action. Between the Snapshots it opens it changes nothing, and
  a Snapshot, once stored, is never replaced. What it keeps in memory is any set
  of at most `MaxHeld` of the records it may read on the way.
- Storage fails in three ways: a create's answer is lost, a create lands late, or
  (where `Unreliable`) a create is refused with the slot free and a read-back
  comes to nothing. Any other lasting failure ends the run, which is `Abandon`.
- A run that meets an unreadable Keyring ends likewise.

### State and actions of PendingSettlement

One device, its processes, and the Storage they share with other devices. The
Journal is taken as what `CommitProofs!ChainIsOne` proves it to be, one chain, so
a slot is a generation and `chain` is a sequence; that theorem's hypothesis is the
module's `SlotsStayAssumption`. `run[p]` is what a run holds in memory, and is
gone when the run ends or is killed; everything else is on disk or on Storage.

| In the model | In the code |
|---|---|
| `row` | `PendingRow`: `Spooling`, `Spooled(None)`, `Spooled(Some(handle))`, and `commit_attempted` |
| `slots` | `attempted_slots` of each batch, by generation |
| `spools`, `used` | spool files; Container IDs drawn (never reused) |
| `owner` | `own_pending_rows`, a guard dropped when its run ends |
| `chain`, `live` | the records, and those a listing still shows |
| `sent`, `Land` | creates on their way: one lands while its slot is free, at any time, its sender dead or not |
| `putting`, `stored` | Container puts on their way, and objects: one per put where identifiers are minted, one per name otherwise |
| `List` `CatchUp` `ReadRows` | the catch-up, `pending_rows`, `current`, `attempts` |
| `Complete` `Dispose` `Retain` `Trash` `TrashFails` `ClearRow` `Settled` | the loop of `settle` and of `complete_current`, with `judge`, `on_storage`, `dispose`, `complete` |
| `Scan` `Announce` `WriteSpool` `MarkSpooled` | the batch a sync plans, and `spool::spool` |
| `Put` `PutAgain` `PutAnswered` `RecordHandle` | `upload::upload`, a put retried included |
| `Aim` `MarkAttempt` `Send` `Created` `Refused` `ReadBack*` `Refresh` | the attempt, as far as rows and slots can tell |
| `DiscardSpool` `Committed` | the end of `sync_folders` |
| `Replay` | a catch-up of any process of the device |
| `Kill` | the run is killed, or ends on an error, at any call |

Abstractions: a listing is read at one instant; the reads of the attempted slots
are one action, since nothing they read can change what the others find but
prune, which the set `proof` allows for; the Keyring and the checkpoint of an
attempt are `CommitProtocol`'s; a sync, a freeze and a deletion produce their
Containers the same way and are one flow here; what a completion marks present,
and the Containers a batch removes, are left out. The Index of `idx` only grows:
it may not (§4), and a settlement that reads an older Index
judges by the slots, which prove the same.

### State and actions of KeyringLifecycle and FetchMemory

A process has a role for the length of a behaviour - a commit, a prune, a read of
the key table, a fetch of the server, or a catch-up of the server - and makes the
number of runs the cast gives it. A Keyring set is its generation and the process
that wrote it: a set's digest tells one key table from another, and a process
prepares one batch for a head.

| In the model | In the code |
|---|---|
| `stored`, `gone`, `bad` | replica objects ever put; trashed or lost; damaged (`read_replica` refuses the digest) |
| `lst` | the `ControlListing` of the run: the newest head, the heads, every copy of every replica |
| `com`, `verd` | the commitment a walk reads, and what it found at each position: `Found` in `examined.rs`, `UnusableReplica` in `read_keyring.rs` |
| `Open` `ReadPosition` `Examined` | `index.checkpoint()` and `examine`, every position in any order |
| `Rewrite` `ReadBack` `Repaired` | `rewrite`: put, read back through the object just made; the refusal `UnrepairedKeyring` |
| `WriteReplica` `Replicated` | `write_generation`: every put, then every read-back; the refusal `IncompleteKeyring` |
| `Aim` `Create` `Refresh` `Retry` | the rest of the attempt |
| `Checkpoint` `Gate` `TrashRecord` `Dispose` | `prune_journal`: the head's Snapshot, `shortfall`, the records oldest first, `dispose_of_superseded` |
| `ReadDone` | `read_committed`: positions in order, up to the first that answers |
| `kept`, `table`, `fresh` | `Kept`: the listing with the head it was read at, the key table with what its read found; `fresh` is `forgotten = read_under` |
| `waits`, `Moved`, `Freed`, `Drop` | `Flights`: who joined whose read, `land`, and a `Flight` dropped without landing |
| `Remember`, `Forget` | `catch_up_catalog` with a memory; `forget_key_table` after a write run of the server |

`struck` and `through` are histories the properties read: the positions no object
held a replica of at some time during a run, and all through it.

Abstractions: a listing is one instant, a catch-up's replay one step that does not
fail, a create lands or finds the slot taken (`CommitProtocol` has all three); the
Library stays in its first epoch; the fronts of Containers are left out.

### State and actions of the server modules

An add is a drop of one file, which stands for all of its files. The model keeps
what decides something: where the add's request stands, its line in the registry,
its file and reservation, what is armed and on record in each flow, and where each
worker is. What a commit does in the Library is `CommitProtocol`'s; here a batch
lands or the run stops.

| In the model | In the code |
|---|---|
| `reg`, `stopping`, `unkept` | `Adds` (`SV/adds/registry.rs`) |
| `up` and `BeginAdd` .. `Undone`, `HandOver` | `upload`, `receive`, `finish_drop`, `stop_receiving`, `release` |
| `resv` | a reservation: `live` while its drop receives (`LiveReservations`), then `received`; released by an undo or a commit |
| `turn` | `PendingRows`: a fair lock |
| `syncs`, `freezes` | `Progress` of each flow, one lock each; `record` is the run on record |
| `Ask`, `Hear`, `AskSync`, `Asked`, `AskedWhole` | `Stop::ask`, `Stop::hear`, `ask_stop`, `ask_stop_whole`; the stage is read under the lock the steps are written under |
| `TakeNextSync` .. `RearmSync` | `sync`: the look for stops, the turn, `absorb`, the keys, the walk, the commit, the undo, `publish`, `rearm` |
| `Arm`, `Kept`, `Joined`, `Displaced` | `Progress::arming`, `kept`, `Book::join`, `displace` |
| `TakeNextFreeze` .. `RearmFreeze` | `freeze`, likewise |
| `PanicSync`, `PanicFreeze` | `Leaving::drop`: what a worker that panics puts back |
| `StopAdd` `StopSync` `StopFreeze` `StopQueued`, then `StopStep` | `POST /api/stop`, each hold of a lock a step |
| `FindQuiet` `Lock` `Unlock` `Resume` | `lock_after_quiet`, `Custody`, `resume_reserved` |

`owed` and `named` are histories: the folders somebody asked to have packed and has
not read of in the log, and those whose book a stop named.

Abstractions: one stop is answered at a time; a request to pack reads what is owed
to the folder and arms it in one step (`routes/freeze.rs` looks at the mappings in
between, and arming looks again); the mark that a reservation is received does not
fail; the clock is left out, so quiet may be found whenever nobody holds the keys.
Drops cut off by the end of a server, deletions, moves and fills are left out, and so
is the list of books shown as stopping, which decides nothing.

### State and actions of the local-files modules

A content stands for a file's bytes, length and time. The runs of a device take turns,
and a kill ends one between any two of its steps. A rename on disk and the write to
the Index that follows it are two steps; so is each observation and its file.

| In the model | In the code |
|---|---|
| `cat` | the current Entries, path and content, of the Index |
| `rec` | `local_entries`: one record per path, its Entry and the last observation; whether it waits is computed (`Waits`), as `reconcile` keeps it |
| `disk` | what stands at each mapped path |
| `run` | the run in progress and what it holds in memory; `owed` is the Index write that follows a change of the disk |
| `journal`, `rows` | records the Index has not replayed; the pending rows of a commit whose refresh is outstanding |
| `Apply`, `Rekeyed`, `Marked`, `Forgotten` | `apply` with `carry_over` and `reconcile`, `relocate_local_entries`, `mark_present`, `forget_local_entry` |
| `Start` | the catch-up, and the completion of committed rows |
| `Look` `FinishNext` `DecideNext` `MoveOne` `BeginCycle` `ExchangeNext` `RecordIt` `FollowNext` | `relocate_waiting`: `look_all`, `finish_interrupted`, `decide`, `relocate_ready`, `cycle_in`, `exchange_cycle`, the re-keying, `follow_gone` |
| `Scan` `Forget` `DiscardDeparted` `Pack` | `scan` with `examine`, `deletions` and `pair_renames`; what `sync_folders` does with the survey |
| `Commit` (`Admits`, `Put`) | the rebase of the batch over the records it missed, and the checks at the head |
| `Refresh` | the record applied with what it carried in, then the re-keying of renamed files |
| `Select` `Publish` | `select`, and `publish` with its `mark_present` |

`own` is a history: the paths whose file the device put there, which a path leaves
when the person moves or replaces the file, or when the Library puts another Entry
where the file stands (EP-10 has the device forget it there). `torn` says how
runs left files that no later look tells: `replayed` when records were replayed while a
file of the device's stood where no record says, `overlaid` when a run was killed with one
moved where a record of its Entry stood, `followed` when the record of a gone file was
re-keyed to where the same run had just moved another.

Abstractions: mapped roots are there, on one filesystem, and no name is reserved,
which would leave a file and its record as an edit does; every Entry is a one-file
Container; a scan and a selection read the folders at one instant, while discards,
renames and placings meet the disk as it is then.

### Abstract specification

`LibraryLog` has two actions: `Commit` appends a batch that is not in the log and
removes only what is current; `Learn` shows a device a longer prefix.
`CommitProperties!ImplementsLog` reads the log off the records created and the
views off the Indexes. The step that implements `Commit` is `Land`; those that
implement `Learn` are `Restore`, `Apply` and `Refresh`; all the others stutter.

`ContainerFate` gives every Container a fate. A batch is committed whole and only
while all of it is pending, so a Container that was reclaimed is never committed and
one that is committed is never reclaimed. `SettlementProperties!FateOf` reads it
off the chain and the rows: `Announce` implements `Announce`, `Land` implements
`Commit`, the `ClearRow` after a disposal implements `Reclaim`.

## 4. Runs

`Minting` is Storage that gives every object an identifier of its own (Google
Drive); without it Storage keys objects by name (S3).

| Run | Instance | What it shows |
|---|---|---|
| `commit_minting` | 2 devices that commit 2 batches and prune, both may be killed; refusals with the slot free, failing read-backs | one chain, Snapshots of the heads they are named for, and whatever is half done, a new device can read the Library |
| `commit_crash` | 4 batches, two contend for what they remove, one device is killed | exact Keyrings; what runs report is true; the steps implement `LibraryLog` |
| `commit_live` | two committers on one Index that checkpoint every head, and a reader beside them; 2 batches, 2 attempts, fairness | replays and refreshes past each other keep an Index that follows the chain and only grows; a Snapshot saved too late is refused; every run ends, and no attempt is lost but to a rival commit |
| `settle_crash` | three settings: two processes of a device and one kill, with late puts and a rival that takes a slot, may remove a Container, and prunes; one process killed twice; names, lost answers, failing reads and trashes, two sends per put | nothing committed or undecided is disposed of, a record that is gone is no proof, slots stay with the last row, no spool is left unnamed, each Container has one fate, no object of a reclaimed Container stays, and no row whose outcome can be told stays |
| `keyring` | eight casts: two commits, one of them killed; a commit (or two in a row) against a prune, on Storages that lose, or refuse, or key by name, with a reader too; two commits over one Index; fetches of a server that commits, that catches up on others, and on a Storage that refuses, with a fetch dropped | a loss is reported where there was one, nothing is selected or removed before the committed set was whole, a standing generation loses a replica to Storage alone, every run ends |
| `server` | eleven casts of at most two drops, two requests to pack, a request to sync, two stops, one lock, one panic, failures | stops take away nothing that was committed and cut no commit short; what is armed is taken up; every add ends; every request to pack is answered |
| `local_files` | three mapped paths and one that is not; two records of other devices, one act of the person, one kill | paths stay one Entry's each; a file waits only for what the code may refuse; what the person wrote stays on disk; a sync commits no act of the device's own |

Five runs are expected to find a violation, each of a statement of the
repository:

| Run | Statement | What happens |
|---|---|---|
| `slot_name_freed` | CP-2, CP-3: a head has one successor | prune frees the name that is the slot, and a create still on its way takes it again |
| `container_added_again` | CP-14: a removed Container is never added again | a lost answer and a failed read-back: a rival removes the Container, and the retry adds it again |
| `keyring_drops_a_key` | CP-8, KL-7: a committed Keyring maps every current Container | two processes share an Index: one adopts an older Snapshot after the other caught up past it and read the checkpoint, and before that one builds its Keyring, which leaves out the keys of the Containers in between |
| `stop_takes_next_drop` | LA-36: the adds of a stopped run that nobody stopped are armed again | a stop reads the adds of a waiting book and later empties whatever book of that folder waits: a drop that joined it meanwhile is not packed, and ends as done |
| `stale_copy_skipped` | `fetch/select.rs`: a file as the device left it *is* the Entry | another device updates the Entry: the record moves to the new Container with the old observation, and the old file is skipped by every fetch and unchanged to every scan; an edit of it is then an update of the new Entry, with no conflict (CP-7) |

### Divergences

The constants of the passing runs keep the first four out, `local_files` does not
state the fifth, and they keep out the following, which
the models show as soon as the constants named let them happen:

- `SnapshotsAtTheirHead` and `Recoverable` are checked with one process per Index
  (`DeviceOf <- Apart`). With two, `checkpoint` (`after_commit.rs:210`) may read
  an Index that has moved past the record it is called for, and the Snapshot in that
  head's slot is a later head's; a reader refuses it rather than stepping over it.
- `IndexFollowsChain` and `IndexAdvances` are checked on an Index that meets no
  Snapshot it could adopt (`commit_live`: the two that share it write them all).
  Where another device checkpoints, one catch-up may restore an older Snapshot
  (`catch_up.rs:213`) while another replays: the Index falls back, the replay goes on
  at the record it was at, and `apply` refuses only what is not above the head, so
  the records between are skipped, against the "every one of them" of
  `catch_up.rs:364`. `keyring_drops_a_key` is what that does to a commit. With an
  Index of one's own (`commit_crash`, `Threshold` 2) neither happens:
  `ImplementsLog` has Indexes only advance.
- A batch over a shared Index may be given up short of its attempts: a rival that
  moves the Index before the candidate Keyring is built ends the run
  (`ReplicateRefused`). `LostOnlyToRivals` says the rival committed something.
- `OneSuccessor` with names as slots is checked without prune.
- `ReclaimedGone` is checked with names and without `latePuts`. A put of a killed
  run may land after the walk of the settlement that clears its row, and where
  identifiers are minted a retried put makes a second object; either stays.
- `RowsSettleMinted` is `RowsSettle` where identifiers are minted. Where names identify
  objects (`NamedAndKilled` of `MCSettlement`) `RowsSettle` fails: S3 answers NotFound
  to the trash of an object that is gone (`s3-store/src/s3/mod.rs:378`), `dispose.rs:45-52`
  takes every error for a refusal, and a row whose object a killed settlement had
  trashed is retained by all later ones, against OC-2 and OC-6 ("A Container that is not there
  counts as removed").
- `CarriesOnlyPersonsActs` is stated while `torn` is empty. A run killed between a rename
  on disk and its re-keying leaves the file where a second rename, caught up with before
  the next look, no longer has its Entry go: `finish_interrupted` does not find it there, and
  the scan carries it in as the person's. Nor is it stated once a
  run was killed with a file moved to a path where a record of its Entry stood, its own file
  taken away by the person: `finish_interrupted.rs:38-44` asks for no record there and passes the
  file over, `follow_gone` forgets the old record, and the sync commits the old content as
  the person's edit, taking back another device's update - where the spec has "the next
  run re-keys the record without renaming anything" (`docs/spec/entry-path/README.md:297`).
  Two records at one Entry's old and new paths come of a rename and an update met while
  a file of the person's held the new path, cleared before the fetch placed the Entry there.
  `OneFile` of `MCPlaced`, over three paths, all mapped, with three acts of the person, two
  foreign records and one kill, violates `MovedIsRekeyed` so.
  Nor, without any kill, once `follow_gone` re-keyed the record of a gone file to where the
  run had moved another since its look (`follow_gone.rs:15-20` asks for a record there,
  and takes what stands there from the look): it holds "A record never points at a path
  its file was not relocated to" (`relocate/mod.rs:57-58`) only at the time of the look. In
  `TwoCopies` of `MCPlaced` (four paths, all mapped, three acts of the person, five foreign
  records) an Entry has two records, at its old path, whose file the person took away, and
  at its new one; it is renamed again, the copy is moved, the older record is re-keyed
  onto it, and the sync commits the copy as the person's edit, taking back another device's
  update: `FollowedIsVacant` is violated.
- `PersonsWorkStays` holds the steps that act on an earlier look only while nobody
  touched the disk in between (`calm`): a file written at a selected path before
  `publish` renames onto it (`unix_flushed_file.rs:82`) is replaced, against the "never
  overwritten" of EP-11, and one edited between `unedited` and the discard goes to the trash.
- A fetch killed between `publish` and `mark_present` leaves a file with no record;
  if its Entry is then removed, the next sync adds it again as new.
- `LossReal` is stated for runs whose listing and commitment are of one head. A
  commit, and a read of the key table, list Storage in their catch-up and ask the
  Index for the commitment afterwards (`commit/run.rs:190`): where another process
  of the device has brought the Index past the listing, none of the new
  generation's replicas is in it, and a whole set reads as lost - `KeyringUnreadable`,
  or a false loss (KL-15). Cast `SharedIndex` of `MCKeyring`, with the premise
  dropped, shows it. On a Storage that mints identifiers it takes three runs and two
  faults besides: a reader lists when the one copy of a position is the one a first
  commit repaired it with; a second commit, which listed before that copy was there, puts
  one of its own; Storage damages the first, and the reader calls the position lost,
  though the second copy kept it valid all along (cast `ReadAcrossRepairs` with
  `MaxFaults` 2). Where names are keys both commits put the same object, and
  `LossIsReal` is proved there (§5).
- A listing is kept at the head the Index stands at when the catch-up ends
  (`catch_up/run.rs:60-68`), which may be one that the server's own commit moved
  it to: it is then kept as the listing of a head it does not list (cast
  `CaughtUpMidCommit`). And a listing stays kept while the head does, so that where
  identifiers are minted a replica put back by a run that then failed is not among
  the copies fetches try, and they go on reporting it lost (cast
  `RepairedAndFailed`). `FindingsTrue` is violated in both, and is checked without them.
- A worker that panics does not end the adds it drops in the registry
  (`SV/sync/progress.rs:119`, `SV/freeze/progress.rs:263`): they stay listed until the
  server ends, against LA-34. `AddsCarried` and `AddsEnd` are stated without panics.
- With two requests to pack one folder and two stops (`OneBook` with `asks` 2)
  `RequestsAnswered` fails: a book whose selection was joined away to the whole
  folder and whose request a stop took back packs the whole folder for the adds
  left in it; a request covered by that run is not armed again, and when
  the run is stopped through its adds nothing is logged for it.
- A stop of the freeze on record reads its adds by its number and then asks whichever
  run is on record (`SV/routes/stop.rs:88`); LA-35 says that a stop of a run that is
  not on record any more changes nothing. `StopsTakeTheirs` is violated in cast
  `NextBook` too, by this way.

`Deletes` is empty in every run: the read-back recognises a record as its own by
the Containers it adds, and a batch that adds none is documented (CP-3) to take
its own lost record for a rival's.

### Bounds

| Constant | Value | Why it is enough |
|---|---|---|
| processes | 2, or 3 | the races are between two writers, a writer and a pruner, two users of one Index, or these beside a third device |
| `Batches` | 2 to 4 | three heads above the first: one Snapshot, a record above it and a record below it at once; a fourth lets a removal lose to another and be tried again |
| `Attempts` | 2; 3 and 1 in the runs of two findings | one loss and a retry |
| `Threshold` | 0, 1, 2 | a checkpoint at every head, at every other, at the third |
| `MaxHeld` | 0, 1 | some records are kept from the walk and some read again |
| `Containers`, `BatchOf` | two and one, or one and one | a batch settled in part, beside another that uses the slot it lost |
| `Rivals` | 1 | a slot lost, then one taken |
| `kills` of a setting | 1, 2 | an interrupted run, and an interrupted settlement of what it left |
| `puts` of a setting | 1, 2 | a put, and its retry |
| `Count`, `MaxFaults` | 2, 1 | a replica lost or damaged and one that answers; one fault is enough for every verdict of a walk, and §4 says what a second adds where identifiers are minted; the theorems of §5 bound neither |
| runs of a cast | 1 or 2 a process | a commit, and one that meets what it left; two fetches, the second of which finds what the first kept |
| `MaxDrops` | 1 | a fetch dropped with others waiting on it |
| `Adds`, `Folders` | 2, 2 | two adds in one book or in two; a folder in the queue behind another's |
| `Paths`, `Mapped` | 4, 3 | two Entries, one of them fetched at first: once both are, they exchange, or make a chain over the free path; the fourth is where a file cannot follow. A cycle of three is not reached |
| `OtherActs`, `PersonActs`, `Kills` | 2, 1, 1 | a rename and another that meets it half done; an act of the person against both; what one killed run leaves |
| `asks`, `syncs`, `stops`, `locks`, `panics` | 0 to 2 | each press meets every state of the flows; two stops, the second after the first was answered |

Nothing else is bounded: each batch is prepared at most once, so the chain is
finite. A device may sync for ever once its batches are made. Deadlock is not checked because a system whose batches are spent rests.

### Fairness

`Fairness` is weak fairness of each process's `Step` (a running process makes its
next call) and of `Land` (Storage answers a create). It is not assumed that a flow
starts, that a batch is prepared, or that a rival loses. The code justifies it:
every call goes through `UC/retry`, which ends after a bounded number of
sends, so a call answers or fails. In `commit_live` nobody is killed, since a killed
process does not go on.

In `settle_crash` the device is killed at most twice, every run goes on to its next
call, creates and puts land, and some process starts a sync whenever it can again and
again (strong fairness, because others take the rows in between): `RowsSettleMinted` says
what repeated syncing achieves, so that the device syncs is its premise. It
promises nothing of a row whose attempted slot holds no record or a pruned one; OC-3
retains those.

In `keyring` some run that is under way makes its next call (weak fairness of the
disjunction): no run waits for another but a fetch for the read it joined, and that
read belongs to a run. In `server` each worker, the request of each add once its
bytes are in, each reservation an unlock found, and the stop being answered goes on
(weak fairness of each): they are tasks of one runtime, and nothing they await but
the turn, a fair lock, depends on another of them. That a drop's bytes go on coming,
that somebody presses anything, and that the Library is unlocked again, is not assumed.

## 5. Proofs

### The commit protocol

For any number of devices, processes and batches, with crashes, late creates and lost
answers as the constants allow. `CommitProofs`:

- **TypesHold**: `Spec => []TypeOK`. `TypeOK` bounds `tries` by `Attempts`, which is
  not inductive by itself: `TypeInv` adds `Spare` (whoever is about to start an
  attempt has one left) and `Working` (who is past `Prepare` has a batch).
- **ChainIsOne**: `SlotsStay => (Spec => []OneSuccessor)`, where `SlotsStay` says
  that Storage mints identifiers or nobody prunes. `slot_name_freed` is why it is
  needed. That each generation holds one record does not follow from the slot being
  consumed once: two records of one generation could consume the slots of two
  different heads. The invariant `ChainInv` closes this by induction along the chain:
  `Chained` (a record other than the first succeeds a stored one),
  `AllPlaced` (an Index or a Snapshot stands at a stored record, whose slot it
  holds), and `Local` (the same for what a process has read, replays, and aims at).
  `Land` is the step where it is used; every other action has only to hand on a slot
  it really read.

`CatalogProofs`, over it:

- **IndexesAdvance**: `OwnIndex => (Spec => IndexAdvances)`, where `OwnIndex` says that
  no two processes run on one device. What a process has in hand to restore is above its
  Index (`Ahead`), which only another process of the device could move.
- **IndexesFollow** and **KeyringsExact**: `SlotsStay => (Spec /\ IndexAdvances => ...)`.
  The premise is a property of the behaviour, so both hold however many processes share
  an Index, in every behaviour where none of them carries it back;
  `keyring_drops_a_key` is what happens in the others, and **OwnIndexesFollow** puts the two theorems
  together where there are none. `CatalogInv` says of every value a process
  holds which head it is of: `Reached`, that a replay goes on at most one record above
  the Index, and `Built`, that the candidate in hand is exact *or the slot it is for is
  taken by now*. The second half is what makes it inductive: a process compares its head
  with the Index at one call and reads its Containers at a later one, and any process of the
  device may move it in between, which `Passed` then shows to have cost the candidate its slot.
- **ReportsAreTrue**: `Spec => []ReportedCommitStands`, with no premise: a record is in
  a read-back or in the answer of a create only when it is there, and `created` never
  loses one.

and, with an Index for each process and slots that stay:

- **SnapshotsStand** and **LibraryRecoverable**. `Kept` is what prune preserves: the
  newest record is in Storage, and so is every record no Snapshot covers. For prune not to
  break it, the Snapshot it made sure of must stay and be of the head it says; for that
  `Level` bounds each Index from above at each call - no higher than the head listed, and
  exactly at the record when the checkpoint of that record is made. §4 says what two
  processes on one Index do to this.

`LogProofs`, where `AnswersHeard` (not `Unreliable`, nobody prunes) and no Index falls back:

- **CommittedOnce**, **TrashIsPast**, **RefusalsAreTrue** (the last where `Deletes = {}`:
  a batch that adds nothing is not recognised by the read-back, §4). `container_added_again`
  shows why a read-back must answer. The invariant counts the
  records of a batch that stand: those created, and those sent whose slot no other record has taken.
  `Tried` says at each call how many there may be: none before a create is sent, the one in hand
  until the read-back has decided, and none again before the next attempt, but for the
  record of a batch that adds nothing, which removes what the next check finds gone.
- **LogImplemented**: `AnswersHeard => (Spec /\ IndexAdvances => ImplementsLog)`, the refinement
  of `LibraryLog`, step by step: `LandCommits` (the create that lands removes only what is
  current in the log), `MoveLearns` (every other step stutters or shows a device
  more). `LogRead` relates the two levels: the log has an entry for each head, and what
  `CurrentAt` computes from it is what the Keyring of that head maps. The last is why `Shown`
  is carried along - a Container is mapped exactly when some record added it and none above
  removed it - so that no induction over the log is needed.

### The pending rows

`SettlementProofs` proves for any number of processes, batches, Containers, attempts
and kills, and for every setting (late puts, pruning, lost answers, rivals that remove):

- **TypesHold**: `Spec => []TypeOK`, that the Index always stands at a record of the
  chain included. `TypeInv` adds `Ready`: what each call finds in its process's hands
  (an attempt to spare, a Container, a batch, a listing of the chain's records, and
  before `Refresh` a slot that holds the batch's own record).
- **RowsGoWithSlots**: `Spec => []MarkedWithSlots`, and
- **NoSpoolForgotten**: `Spec => []SpoolsNamed`, both from `AccountInv`. Its conjunct
  `Hand` says that a process at work owns the rows, which makes every other process
  idle (`OneActs`): a step need only be followed through its own process. It also
  says that the batch being made was never attempted, so `RecordHandle` takes no mark
  away, and that the row a settlement takes away has no spool. `RowsAgree`, that
  the rows of a batch are marked together, is what `Clear` needs: the slots stay as
  long as a row does, and that row is then a marked one.

`FateProofs`, over it and in the same settings:

- **CommittedStands** (`CommittedKept`), **UncertainStands** (`UncertainKept`) and
  **FateImplemented**: `Spec => ImplementsFate`, from `FateInv`. It is about a race between two
  things a device cannot see at once: a create it gave up on may land at any time, and a
  settlement trashes objects by what it read before. Two facts settle it. A settlement disposes
  of an attempted batch only after it saw a record of another batch in *every* slot the batch
  attempted, and each such slot is then consumed, so nothing of the batch can land (`Safe`, and
  `Closed` for a slot the settlement has read); and whoever completes a row read a record
  that names it, so the row is in one (`OwnAt`). `Sends` says what each create on its way
  needs to find when it lands, `Records` and `Tells` what the chain and the rows say of each
  other, and `Makes`, `Tries` and `Judges` what a process in each part of its run holds: every
  one is about a value read at one call and used at a later one.
  `NextIsFate` takes each step of the rows and the chain to a step of `ContainerFate`.
- `UncertainStands` alone needs `OneTrouble`: reads fail, or other devices remove what this one
  committed, but not both. With both, a batch whose read-back failed can be committed, removed
  by a rival and sent again (`container_added_again`); a settlement then finds its first record
  and completes its rows while the second create may still land. TLC shows it in such a
  setting. What the other two say survives it, and the invariant says why: `Again(b)` is a
  batch that is already in a record, so that one more create of it can add no fate and no
  settlement trashes what it names. Without both, `Bygone` is what keeps this from happening:
  a batch attempted at the head had every record of its own removed above it, which cannot
  be a record the process failed to recognise.
- **ReclaimedStaysGone** (`ReclaimedGone`), from `GoneInv` beside it, where `OneObject` holds:
  no put outlives its run, or each Container has one object (names are keys, or a put is
  sent once). §4 names what happens otherwise. Every object on Storage or on its way there
  is of a batch in a record, or of a row that says where to look for it (`Ends`); so the row
  may only go when the listing that settled it showed everything there is (`Lists`), which
  holds because what is on its way belongs to the one batch at work (`Coming`), and a
  settlement has none.

### The replicas of the Keyring

`KeyringProofs`, for any number of processes, devices, replicas, attempts and faults and
every cast - fetches, catch-ups and drops of the server's memory included - from `KeyringInv`:

- **TypesHold** (`KeyringTypeOK`). That the chain keeps within `MaxHeads` is the part that is
  not a shape: `Counted` gives each head past the first a run of a writer's of its own, one
  that is past its create, and a chain is then no longer than the runs of the cast.
- **GateStands** (`GateHolds`). `through` is what was invalid at every moment since a run listed
  Storage; what a walk read or a repair read back is out of it (`Passes`), whatever
  Storage damages afterwards. A run that passes the gate did that for each position.
- **SelectedStands** (`SelectedSafe`). Two things may take a replica from a generation a standing
  record selects: a commit that selects it before it is whole, and a prune that disposes of
  it. For the first, `Selects` says that what a candidate proved stays valid, but for Storage,
  *as long as the head it is for is the newest*: until then nobody disposes of a generation above the head. For the second,
  `Disposes` follows a prune from its listing to its last trash: no record below
  the head it listed stands when it comes to the replicas, and none can appear there, since
  a commit only adds above.
- **LossIsReal** (`LossReal`), where `NamesAreKeys`, from `LossInv` beside it: each position of a
  set has one object (`OneEach`), so a listing that lacks it was taken while the position was
  invalid, and a read that fails finds it so now (`Sees`). §4 says what happens where puts mint
  objects of their own.

A step is followed through the process that takes it; of the others, `BystanderHolds`
needs only that their own variables stand (`Still`), that a head is added only at the end
and what was valid goes only to Storage or with a generation no record selects (`Grows`),
and that the histories go on recording (`Recorded`).

### One server

For any number of drops and folders, and every cast of presses, failures and panics:

- **TypesHold** (`ServerTypeOK`), **ArmedHasWorker** (`ArmedTakenUp`) and **CommitNotCut**
  (`CommittingNotCut`), from `ServerInv`. Its parts are one per lock of the code:
  `AddInv` for the registry, `SyncInv` and `FreezeInv` for a flow and its worker, `StopInv` for the
  stop being answered. The types alone need more than types: a flow holds only adds
  that were handed over (`Handed`), which is what an undo relies on, and no two books of
  one folder wait (`OneEach`), which `Arm` and `Displaced` keep. `SyncFlow` and `FreezeFlow`
  add that a worker is there exactly while its flow says so, and that it commits only with
  `committing` on record: the ask of a stop and the begin of the commit are decided
  under one lock.
- **UndoneStaysOut** (`UndoneNotCarried`). `TurnInv` describes the line for the
  pending rows, and so that one flow at a time walks, commits or undoes; `UndoneInv` adds that
  what a walk has read stays where it is and in nobody's receipt until it is committed
  (`Unmoved`). The reservation of a drop is what keeps a file half received out of the walk.
- **NoAddLost** (`AddsCarried`), while no worker panics (a panic is a divergence, §4).
  `CarryInv` follows each armed add through the hands of its flow: pending, the
  worker's, a book that waits, the rest of a run that was stopped and is armed again.

### The local files

`PlacedProofs`, for any number of paths, Entries, foreign commits, acts of the person and
kills:

- **SpecTyped** (`TypeOK`), from `Sound`. Its parts are the shapes of what the device keeps
  and of what a run holds at each of its phases (`Shapes`, `Tidy`), what bounds
  them (`Bounds`) and what a run plans (`Planned`). That no two Entries have one path needs the
  records not replayed yet: `Lined` says that the catalog is good after each prefix
  of them, and it is by induction over that journal - the least prefix where it
  fails - that a catch-up is shown to keep it. A commit puts its additions where `Admits`
  found no Entry at the head, each under a number of its own (`NumberedIs`), and its updates where
  their Entries stand by then.
- **SpecKeepsPersonsWork** (`PersonsWorkStays`), from `Watched` beside it: while nobody touched
  the disk, a look is what stands there, and what is to be discarded or moved is as its
  record has it, which is of a content some commit held. A cycle's exchanges and a chain's
  moves take nothing from the disk; the walk for a cycle (`CycleOf`) is shown to find one by
  the pigeonhole, on the least repeated step.
- **SpecWaitsOnlyWhenRefused** (`WaitsOnlyWhenRefused`), from `Refusing`: as long as nobody touched
  the disk and the run changed nothing, what it saw is what is there, and each waiting
  file is still to be decided, was gone, is about to move, or is `Stuck`. The step that decides
  is `MoveOne` passing a file over: the file in its way waits too and is not about to
  move, so it is stuck itself, and `Blocked` is closed under that. A cycle is never passed
  over: it has two members at least, and each has its file.
- **SpecCarriesOnlyPersonsActs** (`CarriesOnlyPersonsActs`), from `Honest` beside `Sound`, while
  `torn` is empty (§4 says what happens otherwise, and that it does happen). That nothing in
  `run.adds`, `run.updates` or `run.renames` is at a path of the device's is true at the
  end only because of what holds long before the walk:
  - `OwnSettled`: every file of the device's waits for another path, is as its record has it
    (`Fit`), or stands where the record is not of the Entry there (`Strange`). A run writes
    its records after it has worked on the disk, so this is said twice: of the records as
    they are, and of the records once the write that is owed is made (`Noted`). The first
    is not claimed while a file was moved to a path where a record of its Entry stands
    already (`Overlaid`): a run killed there is what `torn` records.
  - `Tended`: no record of an Entry that is gone stands where another Entry does. `Reconcile`
    is what keeps it at each replay, and without it a file moved onto such a path would be
    compared with the record of something else.
  - `Looking` and `Moving`: what a look says of a path of the device's is what stands there,
    and each file that is to move, or is a member of a cycle, waits for the path of the next.
    Each rename of a cycle is an exchange, so that this holds of the members left
    (`Linked`) after every one, not only at the ends.
  - `Departing`, `Committing` and `Refreshing`: what the scan found, the batch carries and the rows
    still await is at none of the device's paths, no two rows are at one, and the record
    the device's own commit appended is about its rows and renames only (`Landed`), so that
    its refresh changes the records of no other file.
  - `Fetching`: the record at the path of what is still to be placed is not of that Entry,
    neither as it is nor as the write owed leaves it.

  The replay itself is an induction over the journal, made as in `SpecTyped` on the least prefix
  where a fact fails (`ReplayOrigins`): each path of an Entry afterwards is its old one or
  one a record gave it, and a record of the device's is the old one, or gone for an Entry
  that came from such a place. The invariant was checked by TLC before it was proved, over
  the casts of `local_files`, and larger ones were simulated.

### What the theorems rest on

Assumptions: those named in `CommitProtocol` (devices, batches, policy), `PendingSettlement`
(batches, settings), `KeyringLifecycle` (casts: who fetches and who catches up for the
fetches is the server, which is not killed, and `MaxHeads`, a bound of the model, is above
what the cast's commits can reach), `ServerAdds` (casts), `LocalIndex` and `PlacedFiles` (paths
numbered from 1, finitely many, and natural bounds), which TLC evaluates in every run of theirs.
`SlotsStay`, `OwnIndex`, `AnswersHeard`, `Deletes = {}`, `OneTrouble`, `OneObject` and `NamesAreKeys` are
hypotheses of the theorems that need them, each with the run, the divergence of §4 or the
setting above that violates the property without it.

Only model-checked:

- liveness (`RunsEnd`, `LostOnlyToRivals`, `RowsSettleMinted`, `RunsComplete`, `AddsEnd`,
  `RequestsAnswered`): it needs ENABLED and fairness, which TLAPS does not reach;
- `StopReaches` of the server, which some casts violate (`stop_takes_next_drop`);
- `FindingsTrue` of `FetchMemory`, which some casts violate (§4).

## 6. Not modelled, and why

- The race for head-0 in a Library older than first heads: the spec accepts it.
- Of Entry Paths: files that would have to become folders, and renames and deletions the
  person asks for; of rebase, what concerns Packs. Epochs and membership do not change
  in this version of the code.
- What `repack` and `read_modify_replace` dispose of themselves before a commit.
- An activation standing in an attempted slot: no epoch changes here.
- Of the server: drops cut off by its end and taken over by the next (planned, module 5);
  fills and deletions (module 6); moves, refreshes and sessions; what the log says, beyond
  whether an entry answers a request.
- The fronts of Containers a server keeps, parcels, the fetch of one Entry, mapped roots
  that are away, and names an operating system keeps (module 8).
- Formats, encryption, file systems, CLI, desktop and web: pure data or I/O.
