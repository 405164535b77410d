-------------------------- MODULE KeyringLifecycle --------------------------
(***************************************************************************)
(* The replicas of the Keyring over the life of a Library: a commit        *)
(* examines and repairs the generation its head selects, writes and proves *)
(* the next, and selects it; prune disposes of the superseded ones; reads  *)
(* take the key table from any valid replica.  Every Storage call is one   *)
(* action, so runs interleave at the code's awaits.                        *)
(*                                                                         *)
(* Abstractions.  A key table, and so a set's digest, is the process that  *)
(* wrote it at that generation: a process prepares one batch for a head.   *)
(* Listing is one instant, and a removed object reads as not found.  The   *)
(* replay of a catch-up is one step that never fails, and a create lands   *)
(* or finds the slot taken: CommitProtocol has both in full.  The Library  *)
(* is in its first epoch.                                                  *)
(***************************************************************************)
EXTENDS Integers, FiniteSets, Sequences

CONSTANTS
  Procs,      \* the processes
  Devices,    \* the devices, each with one Index
  Genesis,    \* the writer of the first head
  Count,      \* the replicas of a generation, CommitPolicy::replica_count
  Attempts,   \* CommitPolicy::attempts
  Setups,     \* the casts and Storages of the instance; one is in force
  MaxHeads,   \* the heads the runs of a cast can reach
  MaxFaults   \* the copies Storage damages or loses (bound)

Roles == {"writer", "pruner", "reader", "fetcher", "refresher", "none"}

\* minting: a put makes an object of its own; otherwise one per name.
\* losing: Storage may lose an object, not only damage it.  flaky: a call may
\* fail for good.  served: the processes that are the one server process,
\* whose memory of reads the fetches share.
ASSUME SetupAssumption ==
  Setups \subseteq [minting : BOOLEAN, losing : BOOLEAN, flaky : BOOLEAN,
                    role : [Procs -> Roles], dev : [Procs -> Devices],
                    served : SUBSET Procs, killed : SUBSET Procs,
                    runs : [Procs -> Nat]]

\* The runs that may commit a head.
Commits(s) == UNION {{p} \X (1 .. s.runs[p]) : p \in {q \in Procs : s.role[q] = "writer"}}

\* Who fetches, and who catches up for the fetches, is the server, which is not
\* killed: its memory would go with it.
ASSUME CastAssumption ==
  \A s \in Setups :
    /\ {p \in Procs : s.role[p] \in {"fetcher", "refresher"}} \subseteq s.served
    /\ s.killed \cap s.served = {}
    /\ IsFiniteSet(Commits(s)) /\ Cardinality(Commits(s)) < MaxHeads

ASSUME BoundAssumption ==
  /\ Genesis \notin Procs
  /\ Count \in Nat \ {0} /\ Attempts \in Nat \ {0}
  /\ MaxHeads \in Nat \ {0} /\ MaxFaults \in Nat

VARIABLES
  setup,    \* the cast and the Storage, chosen once
  chain,    \* the writer of each head's Keyring set; generations from 1
  live,     \* the heads whose Journal record stands
  stored,   \* every replica object ever put
  gone,     \* those trashed or lost
  bad,      \* those that read back invalid
  snaps,    \* the generation the Snapshot of each head records, 0 for none
  faults,   \* the faults Storage had
  idx,      \* the head each device's Index stands at
  pc,       \* the call each process makes next
  lst,      \* the listing it read
  com,      \* the commitment it examines, reads or prunes under
  verd,     \* what it found or did at each position
  mine,     \* the replica objects it put and has not read back
  left,     \* a record its prune could not remove
  tries,    \* the attempts its commit has spent
  ran,      \* the runs it has begun
  hit,      \* history: the positions Storage itself damaged or lost
  struck,   \* history: the positions invalid at some time of each run
  through   \* history: the positions invalid all through it

storage == <<stored, gone, bad>>
chained == <<setup, chain, live, snaps, idx>>
run == <<pc, lst, com, verd, mine, left, tries, ran>>
watched == <<struck, through>>
vars == <<setup, chain, live, stored, gone, bad, snaps, faults, idx,
          pc, lst, com, verd, mine, left, tries, ran, hit, struck, through>>

-----------------------------------------------------------------------------
(* Values *)

Positions == 1 .. Count
Gens == 1 .. MaxHeads
Verdicts == {"unread", "valid", "lost", "unfetched", "put", "proved", "failed"}

Unread == [i \in Positions |-> "unread"]
NoListing == [head |-> 0, heads |-> {}, copies |-> {}]
Sel(g) == [gen |-> g, by |-> chain[g]]
Role(p) == setup.role[p]
Newest == Len(chain)
Greater(m, n) == IF m >= n THEN m ELSE n

\* Storage holds an object of the position that is the replica its name says.
Valid(s, i) == \E c \in stored \ (gone \cup bad) : c.set = s /\ c.pos = i

\* The positions of committed generations no object holds a replica of.
Invalid == {at \in (1 .. Newest) \X Positions : ~Valid(Sel(at[1]), at[2])}

-----------------------------------------------------------------------------
(* Storage *)

\* The object a put makes: a name holds one, and a minting Storage makes a
\* further one each time.
NewCopy(s, i) ==
  [set |-> s, pos |-> i,
   n |-> IF setup.minting
         THEN 1 + Cardinality({c \in stored : c.set = s /\ c.pos = i}) ELSE 1]

Put(c) ==
  /\ stored' = stored \cup {c}
  /\ gone' = gone \ {c}
  /\ bad' = bad \ {c}

\* Storage damages an object, or loses it.
Fault(c) ==
  /\ faults < MaxFaults
  /\ c \in stored \ (gone \cup bad)
  /\ \/ bad' = bad \cup {c} /\ UNCHANGED gone
     \/ setup.losing /\ gone' = gone \cup {c} /\ UNCHANGED bad
  /\ faults' = faults + 1
  /\ hit' = hit \cup {<<c.set, c.pos>>}
  /\ UNCHANGED <<chained, stored, run>>

-----------------------------------------------------------------------------
(* A run, up to the set it reads *)

Goto(p, l) == pc' = [pc EXCEPT ![p] = l]

\* The run is over, and the process forgets what it held.  A write run of
\* the server has its memory forget the key table first.
Ended(p) ==
  /\ Goto(p, IF Role(p) = "writer" /\ p \in setup.served THEN "forget" ELSE "idle")
  /\ lst' = [lst EXCEPT ![p] = NoListing]
  /\ com' = [com EXCEPT ![p] = Sel(1)]
  /\ verd' = [verd EXCEPT ![p] = Unread]
  /\ mine' = [mine EXCEPT ![p] = {}]
  /\ left' = [left EXCEPT ![p] = FALSE]
  /\ tries' = [tries EXCEPT ![p] = 0]

\* What Storage lists now.
Listing == [head |-> Newest, heads |-> live, copies |-> stored \ gone]

\* A run begins, while the cast has one left for the process (bound).
Begin(p) ==
  /\ pc[p] = "idle" /\ ran[p] < setup.runs[p]
  /\ ran' = [ran EXCEPT ![p] = @ + 1]

\* A run walks Storage first, a commit for each of its attempts.
List(p) ==
  /\ \/ Role(p) \in {"writer", "pruner", "reader", "refresher"} /\ Begin(p)
     \/ pc[p] = "again" /\ UNCHANGED ran
  /\ lst' = [lst EXCEPT ![p] = Listing]
  /\ tries' = [tries EXCEPT ![p] = @ + (IF Role(p) = "writer" THEN 1 ELSE 0)]
  /\ Goto(p, "catch up")
  /\ UNCHANGED <<chained, storage, faults, com, verd, mine, left, hit>>

\* The catch-up leaves the Index at the head the listing shows, or where
\* another process of the device has brought it.
CatchUp(p) ==
  /\ pc[p] = "catch up"
  /\ idx' = [idx EXCEPT ![setup.dev[p]] = Greater(@, lst[p].head)]
  /\ Goto(p, CASE Role(p) = "pruner" -> "checkpoint"
               [] Role(p) = "refresher" -> "remember"
               [] OTHER -> "open")
  /\ UNCHANGED <<setup, chain, live, snaps, storage, faults, lst, com, verd,
                 mine, left, tries, ran, hit>>

\* The commitment is the one the Index's checkpoint names by then; the
\* objects it is read through are the listing's.
Open(p) ==
  /\ pc[p] = "open"
  /\ com' = [com EXCEPT ![p] = Sel(idx[setup.dev[p]])]
  /\ verd' = [verd EXCEPT ![p] = Unread]
  /\ Goto(p, "read")
  /\ UNCHANGED <<chained, storage, faults, lst, mine, left, tries, ran, hit>>

\* The prune makes sure of the head's Snapshot, written from the Index as it
\* stands where none is listed under the name, and goes on only if it records
\* the generation the head selects.
Checkpoint(p) ==
  /\ pc[p] = "checkpoint"
  /\ LET h == lst[p].head
         recorded == IF snaps[h] = 0 THEN idx[setup.dev[p]] ELSE snaps[h]
     IN /\ snaps' = [snaps EXCEPT ![h] = recorded]
        /\ \/ /\ recorded = h
              /\ com' = [com EXCEPT ![p] = Sel(h)]
              /\ Goto(p, "read")
              /\ UNCHANGED <<lst, verd, mine, left, tries>>
           \/ recorded # h /\ Ended(p)
  /\ UNCHANGED <<setup, chain, live, idx, storage, faults, ran, hit>>

-----------------------------------------------------------------------------
(* Reading a position through every copy the listing names *)

\* A bug: only one copy of a position is tried.
FoundInOne(p, i) ==
  LET named == {c \in lst[p].copies : c.set = com[p] /\ c.pos = i}
      first == {c \in named : \A d \in named : c.n <= d.n}
  IN IF first \cap bad # {} \/ named = {} THEN {"lost"}
     ELSE IF first \cap gone # {} THEN {"unfetched"} ELSE {"valid"}

\* One copy that reads back valid answers; where none does, the position is
\* lost only if Storage handed every listed copy over.
Found(p, i) ==
  LET named == {c \in lst[p].copies : c.set = com[p] /\ c.pos = i}
      good == named \ (gone \cup bad)
  IN (IF good # {} THEN {"valid"}
      ELSE IF named \cap gone # {} THEN {"unfetched"} ELSE {"lost"})
     \cup (IF setup.flaky /\ named # {} THEN {"unfetched"} ELSE {})

\* A commit reads every position at once, and prune every one in order; a
\* read for its key table stops at the first that answers.
Stops(p) == Role(p) \in {"reader", "fetcher"}
Unfinished(p) ==
  /\ \E i \in Positions : verd[p][i] = "unread"
  /\ Stops(p) => \A i \in Positions : verd[p][i] # "valid"

ReadPosition(p, i) ==
  /\ pc[p] = "read"
  /\ Unfinished(p)
  /\ verd[p][i] = "unread"
  /\ Role(p) # "writer" => \A j \in 1 .. i - 1 : verd[p][j] # "unread"
  /\ \E v \in Found(p, i) : verd' = [verd EXCEPT ![p][i] = v]
  /\ UNCHANGED <<chained, storage, faults, pc, lst, com, mine, left, tries, ran, hit>>

\* The flow has its key table, or refuses; either way the run reports what it
\* stepped over and is over here.
ReadDone(p) ==
  /\ pc[p] = "read" /\ Role(p) = "reader"
  /\ ~Unfinished(p)
  /\ Ended(p)
  /\ UNCHANGED <<chained, storage, faults, ran, hit>>

-----------------------------------------------------------------------------
(* A commit *)

\* The verdicts of a finished walk.
Left(p, V) == \A i \in Positions : verd[p][i] \in V
Judge(p, i, v) == verd' = [verd EXCEPT ![p][i] = v]

\* No replica answered: the Keyring loss.  Otherwise the positions found lost
\* are rewritten.
Examined(p) ==
  /\ pc[p] = "read" /\ Role(p) = "writer"
  /\ ~Unfinished(p)
  /\ IF \E i \in Positions : verd[p][i] = "valid"
     THEN Goto(p, "repair") /\ UNCHANGED <<lst, com, verd, mine, left, tries>>
     ELSE Ended(p)
  /\ UNCHANGED <<chained, storage, faults, ran, hit>>

\* One put of a replica of a set, of the committed one or of the candidate.
Write(p, i, s) ==
  /\ \/ /\ Put(NewCopy(s, i))
        /\ mine' = [mine EXCEPT ![p] = {c \in @ : c.pos # i} \cup {NewCopy(s, i)}]
        /\ Judge(p, i, "put")
     \/ /\ setup.flaky
        /\ Judge(p, i, "failed")
        /\ UNCHANGED <<storage, mine>>
  /\ UNCHANGED <<chained, faults, pc, lst, com, left, tries, ran, hit>>

Rewrite(p, i) == pc[p] = "repair" /\ verd[p][i] = "lost" /\ Write(p, i, com[p])

Candidate(p) == [gen |-> com[p].gen + 1, by |-> p]
WriteReplica(p, i) ==
  pc[p] = "write" /\ verd[p][i] = "unread" /\ Write(p, i, Candidate(p))

\* Each put is read back through the object it made: the repair as its put
\* returns, the candidate once every replica is put.
ReadBack(p, i) ==
  /\ pc[p] \in {"repair", "prove"}
  /\ verd[p][i] = "put"
  /\ \/ {c \in mine[p] : c.pos = i} \cap (gone \cup bad) = {} /\ Judge(p, i, "proved")
     \/ /\ setup.flaky \/ {c \in mine[p] : c.pos = i} \cap (gone \cup bad) # {}
        /\ Judge(p, i, "failed")
  /\ UNCHANGED <<chained, storage, faults, pc, lst, com, mine, left, tries, ran, hit>>

\* Every position is valid or was put back, or the run refuses.
Repaired(p) ==
  /\ pc[p] = "repair"
  /\ Left(p, {"valid", "unfetched", "proved", "failed"})
  /\ IF Left(p, {"valid", "proved"})
     THEN /\ Goto(p, "write")
          /\ verd' = [verd EXCEPT ![p] = Unread]
          /\ mine' = [mine EXCEPT ![p] = {}]
          /\ UNCHANGED <<lst, com, left, tries>>
     ELSE Ended(p)
  /\ UNCHANGED <<chained, storage, faults, ran, hit>>

\* Every replica was put, and then every one of them read back, or the run
\* refuses; what was put stays, selected by nothing.
Replicated(p) ==
  /\ pc[p] \in {"write", "prove"}
  /\ LET done == IF pc[p] = "write" THEN "put" ELSE "proved"
     IN /\ Left(p, {done, "failed"})
        /\ IF Left(p, {done})
           THEN /\ Goto(p, IF pc[p] = "write" THEN "prove" ELSE "aim")
                /\ UNCHANGED <<lst, com, verd, mine, left, tries>>
           ELSE Ended(p)
  /\ UNCHANGED <<chained, storage, faults, ran, hit>>

\* Another attempt, or the conflict limit.
Retry(p) ==
  \/ /\ tries[p] < Attempts
     /\ Goto(p, "again")
     /\ verd' = [verd EXCEPT ![p] = Unread]
     /\ mine' = [mine EXCEPT ![p] = {}]
     /\ UNCHANGED <<lst, com, left, tries>>
  \/ tries[p] = Attempts /\ Ended(p)

\* The Index read before the examination must stand at the head the listing
\* shows, and that head's record must still be there.
Aim(p) ==
  /\ pc[p] = "aim"
  /\ IF com[p].gen # lst[p].head THEN Retry(p)
     ELSE \/ /\ com[p].gen \in live
             /\ Goto(p, "create")
             /\ UNCHANGED <<lst, com, verd, mine, left, tries>>
          \/ (com[p].gen \notin live \/ setup.flaky) /\ Ended(p)
  /\ UNCHANGED <<chained, storage, faults, ran, hit>>

\* One successor of a head: the slot is free while the head is the newest.
Create(p) ==
  /\ pc[p] = "create"
  /\ IF com[p].gen = Newest
     THEN /\ chain' = Append(chain, p)
          /\ live' = live \cup {Newest + 1}
          /\ Goto(p, "refresh")
          /\ UNCHANGED <<lst, com, verd, mine, left, tries>>
     ELSE Retry(p) /\ UNCHANGED <<chain, live>>
  /\ UNCHANGED <<setup, snaps, idx, storage, faults, ran, hit>>

Refresh(p) ==
  /\ pc[p] = "refresh"
  /\ idx' = [idx EXCEPT ![setup.dev[p]] = Greater(@, com[p].gen + 1)]
  /\ Ended(p)
  /\ UNCHANGED <<setup, chain, live, snaps, storage, faults, ran, hit>>

-----------------------------------------------------------------------------
(* A prune, past its Snapshot *)

\* A bug: a replica that could not be fetched is taken to be there.
CompleteUnfetched(p) == Left(p, {"valid", "unfetched"})
Complete(p) == Left(p, {"valid"})

\* Nothing is removed unless every position of the selected set reads back.
Gate(p) ==
  /\ pc[p] = "read" /\ Role(p) = "pruner"
  /\ ~Unfinished(p)
  /\ IF Complete(p)
     THEN Goto(p, "records") /\ UNCHANGED <<lst, com, verd, mine, left, tries>>
     ELSE Ended(p)
  /\ UNCHANGED <<chained, storage, faults, ran, hit>>

\* The listed records below the head, oldest first.
TrashRecord(p) ==
  /\ pc[p] = "records"
  /\ \E g \in lst[p].heads :
       /\ g < lst[p].head /\ \A h \in lst[p].heads : g <= h
       /\ lst' = [lst EXCEPT ![p].heads = @ \ {g}]
       /\ \/ live' = live \ {g} /\ UNCHANGED left
          \/ setup.flaky /\ left' = [left EXCEPT ![p] = TRUE] /\ UNCHANGED live
  /\ UNCHANGED <<setup, chain, snaps, idx, storage, faults, pc, com, verd, mine,
                 tries, ran, hit>>

\* The superseded generations go last, and only if every record went.
RecordsTrashed(p) ==
  /\ pc[p] = "records"
  /\ lst[p].heads \subseteq {lst[p].head}
  /\ IF left[p] THEN Ended(p)
     ELSE Goto(p, "replicas") /\ UNCHANGED <<lst, com, verd, mine, left, tries>>
  /\ UNCHANGED <<chained, storage, faults, ran, hit>>

\* A bug: the generation selected goes along with those below it.
SupersededAndSelected(p) == {c \in lst[p].copies : c.set.gen <= com[p].gen}

\* The listed copies of every generation below the one recorded and selected.
Superseded(p) == {c \in lst[p].copies : c.set.gen < com[p].gen}

Dispose(p) ==
  /\ pc[p] = "replicas"
  /\ \E c \in Superseded(p) :
       /\ lst' = [lst EXCEPT ![p].copies = @ \ {c}]
       /\ \/ gone' = gone \cup {c}
          \/ setup.flaky /\ UNCHANGED gone
  /\ UNCHANGED <<chained, stored, bad, faults, pc, com, verd, mine, left, tries, ran, hit>>

Disposed(p) ==
  /\ pc[p] = "replicas" /\ Superseded(p) = {}
  /\ Ended(p)
  /\ UNCHANGED <<chained, storage, faults, ran, hit>>

-----------------------------------------------------------------------------
Kill(p) ==
  /\ p \in setup.killed /\ pc[p] # "idle"
  /\ Ended(p)
  /\ UNCHANGED <<chained, storage, faults, ran, hit>>

\* The first head is committed and every Index is at it.
Init ==
  /\ setup \in Setups
  /\ chain = <<Genesis>> /\ live = {1}
  /\ stored = {[set |-> [gen |-> 1, by |-> Genesis], pos |-> i, n |-> 1] : i \in Positions}
  /\ gone = {} /\ bad = {} /\ hit = {} /\ faults = 0
  /\ snaps = [g \in Gens |-> 0]
  /\ idx = [d \in Devices |-> 1]
  /\ pc = [p \in Procs |-> "idle"]
  /\ lst = [p \in Procs |-> NoListing]
  /\ com = [p \in Procs |-> [gen |-> 1, by |-> Genesis]]
  /\ verd = [p \in Procs |-> Unread]
  /\ mine = [p \in Procs |-> {}]
  /\ left = [p \in Procs |-> FALSE]
  /\ tries = [p \in Procs |-> 0] /\ ran = [p \in Procs |-> 0]
  /\ struck = [p \in Procs |-> {}] /\ through = [p \in Procs |-> {}]

WriterStep(p) ==
  \/ Examined(p) \/ Repaired(p) \/ Replicated(p) \/ Aim(p) \/ Create(p) \/ Refresh(p)
  \/ \E i \in Positions : Rewrite(p, i) \/ WriteReplica(p, i) \/ ReadBack(p, i)
PrunerStep(p) ==
  \/ Checkpoint(p) \/ Gate(p) \/ TrashRecord(p) \/ RecordsTrashed(p)
  \/ Dispose(p) \/ Disposed(p)

RunStep(p) ==
  \/ List(p) \/ CatchUp(p) \/ Open(p) \/ ReadDone(p)
  \/ \E i \in Positions : ReadPosition(p, i)
  \/ WriterStep(p) \/ PrunerStep(p)

\* What each run has lived through: the positions that were invalid at some
\* time since it began, or before it as from(p) says, and those that have been
\* invalid ever since it last listed Storage.
Watch(from) ==
  /\ struck' = [p \in Procs |->
       IF pc'[p] = "idle" THEN {}
       ELSE (IF pc[p] = "idle" THEN from[p] ELSE struck[p]) \cup Invalid']
  /\ through' = [p \in Procs |->
       IF pc'[p] = "idle" THEN {}
       ELSE IF pc[p] # "catch up" /\ pc'[p] = "catch up" THEN Invalid'
       ELSE through[p] \cap Invalid']
=============================================================================
