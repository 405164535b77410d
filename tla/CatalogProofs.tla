--------------------------- MODULE CatalogProofs ---------------------------
(***************************************************************************)
(* Catalogs against the chain: that an Index never falls back where no two *)
(* processes share it, that where none falls back every Index follows the  *)
(* chain and every Keyring is exact, and that what a run reports committed *)
(* is.  The invariant says of the value each process holds what head it is *)
(* of: a process reads its Index several times between its listing and its *)
(* create, and another may move it each time.                              *)
(*                                                                         *)
(* Then checkpoints and prune: that a Snapshot is the Index of the head    *)
(* its name gives, and that what prune leaves in Storage is enough to read *)
(* the Library from nothing, where no two processes share an Index.        *)
(***************************************************************************)
EXTENDS CommitProofs

-----------------------------------------------------------------------------
(* Which processes and Indexes a step leaves alone *)

\* The Index of the device a process runs on.
Index(p) == idx[DeviceOf[p]]

\* What a process holds stays as it is.
Same(p) ==
  UNCHANGED <<pc[p], job[p], lst[p], nxt[p], kept[p], hand[p], rec[p], bat[p],
              rm[p], base[p], tries[p]>>

\* A step of a process, whatever begins, ends or goes on by it.
Moves(p) ==
  \/ \E b \in Batches, gone \in SUBSET Containers : Prepare(p, b, gone)
  \/ \E flow \in {"catchup", "prune"} : Start(p, flow)
  \/ Abandon(p)
  \/ Step(p)

LEMMA EndsAlone ==
  ASSUME TypeOK, NEW p \in Procs, NEW how, Finish(p, how)
  PROVE  /\ \A q \in Procs \ {p} : Same(q)
         /\ pc'[p] = "idle" /\ hand'[p] = NoCatalog /\ job'[p] = "none"
         /\ lst'[p] = NoListing /\ bat'[p] = NoBatch
BY DEF TypeOK, Finish, Ended, Goto, Same

LEMMA RetriesAlone ==
  ASSUME TypeOK, NEW p \in Procs, Retry(p)
  PROVE  /\ \A q \in Procs \ {p} : Same(q)
         /\ \/ /\ pc' = [pc EXCEPT ![p] = "list"]
               /\ UNCHANGED <<job, lst, nxt, kept, hand, rec, bat, rm, base, tries, outcome>>
            \/ Finish(p, "failed")
<1>1. CASE Spent(p)
  BY <1>1, EndsAlone DEF Retry
<1>2. CASE ~Spent(p)
  BY <1>2 DEF Retry, TypeOK, Same, Goto, reading, batching
<1> QED BY <1>1, <1>2

LEMMA CatchUpAlone ==
  ASSUME TypeOK, NEW p \in Procs, CatchUpStep(p)
  PROVE  \A q \in Procs \ {p} : Same(q)
<1> USE DEF TypeOK, Same, Goto, reading, batching
<1>1. CASE List(p)
  BY <1>1 DEF List
<1>2. CASE ReadHeld(p)
  BY <1>2 DEF ReadHeld
<1>3. CASE Walk(p)
  BY <1>3 DEF Walk
<1>4. CASE Restore(p)
  BY <1>4 DEF Restore
<1>5. CASE Fetch(p)
  BY <1>5 DEF Fetch
<1>6. CASE Apply(p)
  BY <1>6 DEF Apply
<1>7. CASE WalkRefused(p) \/ FetchMissing(p) \/ CaughtUp(p)
  BY <1>7, EndsAlone DEF WalkRefused, FetchMissing, CaughtUp
<1> QED BY <1>1, <1>2, <1>3, <1>4, <1>5, <1>6, <1>7 DEF CatchUpStep

LEMMA CommitAlone ==
  ASSUME TypeOK, NEW p \in Procs, CommitStep(p)
  PROVE  \A q \in Procs \ {p} : Same(q)
<1> USE DEF TypeOK, Same, Goto, reading, batching
<1>1. CASE Check(p)
  BY <1>1, EndsAlone DEF Check
<1>2. CASE ReadStanding(p) \/ Replicate(p)
  BY <1>2 DEF ReadStanding, Replicate
<1>3. CASE Aim(p) \/ Send(p) \/ Created(p) \/ Refused(p) \/ ReadBackOwn(p) \/ Refresh(p)
  BY <1>3 DEF Aim, Send, Created, Refused, ReadBackOwn, Refresh
<1>4. CASE AimMoved(p) \/ ReadBackOther(p)
  BY <1>4, RetriesAlone DEF AimMoved, ReadBackOther
<1>5. CASE CheckMissing(p) \/ ReplicateRefused(p) \/ AimMissing(p)
  BY <1>5, EndsAlone DEF CheckMissing, ReplicateRefused, AimMissing
<1>6. CASE TrashRemovals(p)
  BY <1>6, EndsAlone DEF TrashRemovals
<1> QED BY <1>1, <1>2, <1>3, <1>4, <1>5, <1>6 DEF CommitStep

LEMMA PruneAlone ==
  ASSUME TypeOK, NEW p \in Procs, PruneStep(p)
  PROVE  \A q \in Procs \ {p} : Same(q)
<1> USE DEF TypeOK, Same, Goto, reading, batching
<1>1. CASE ReadCatalog(p) \/ PutSnapshot(p) \/ ReadHead(p) \/ Prune(p)
  BY <1>1 DEF ReadCatalog, PutSnapshot, ReadHead, Prune
<1>2. CASE SnapshotExists(p) \/ Gate(p)
  BY <1>2, EndsAlone DEF SnapshotExists, Gate
<1>3. CASE CommitDone(p) \/ ReadHeadMissing(p) \/ PruneDone(p)
  BY <1>3, EndsAlone DEF CommitDone, ReadHeadMissing, PruneDone
<1> QED BY <1>1, <1>2, <1>3 DEF PruneStep

\* A process moves alone.
LEMMA MovesAlone ==
  ASSUME TypeOK, NEW p \in Procs, Moves(p)
  PROVE  \A q \in Procs \ {p} : Same(q)
<1>1. ASSUME NEW b \in Batches, NEW gone \in SUBSET Containers, Prepare(p, b, gone)
      PROVE  \A q \in Procs \ {p} : Same(q)
  BY <1>1 DEF Prepare, TypeOK, Same, Goto, reading, batching
<1>2. ASSUME NEW flow, Start(p, flow)
      PROVE  \A q \in Procs \ {p} : Same(q)
  BY <1>2 DEF Start, TypeOK, Same, Goto, reading, batching
<1>3. CASE Abandon(p)
  BY <1>3, EndsAlone DEF Abandon
<1> QED BY <1>1, <1>2, <1>3, CatchUpAlone, CommitAlone, PruneAlone DEF Moves, Step

\* Three calls write the Index of the device they run on, and no other.
LEMMA MovesIndex ==
  ASSUME TypeOK, NEW p \in Procs, Moves(p)
  PROVE  \/ UNCHANGED idx
         \/ Restore(p) /\ idx' = [idx EXCEPT ![DeviceOf[p]] = hand[p]]
         \/ /\ Apply(p) \/ Refresh(p)
            /\ idx' = [idx EXCEPT ![DeviceOf[p]] = ApplyTo(@, rec[p])]
<1>1. CASE CatchUpStep(p)
  BY <1>1 DEF CatchUpStep, List, ReadHeld, Walk, WalkRefused, Restore, Fetch, FetchMissing,
              Apply, CaughtUp
<1>2. CASE CommitStep(p)
  BY <1>2 DEF CommitStep, Check, CheckMissing, ReadStanding, Replicate, ReplicateRefused,
              Aim, AimMoved, AimMissing, Send, Created, Refused, ReadBackOwn,
              ReadBackOther, Refresh, TrashRemovals
<1>3. CASE PruneStep(p)
  BY <1>3 DEF PruneStep, ReadCatalog, PutSnapshot, SnapshotExists, CommitDone, ReadHead,
              ReadHeadMissing, Gate, Prune, PruneDone
<1>4. CASE ~Step(p)
  BY <1>4 DEF Moves, Prepare, Start, Abandon
<1> QED BY <1>1, <1>2, <1>3, <1>4 DEF Step

LEMMA NextMoves ==
  ASSUME [Next]_vars
  PROVE  UNCHANGED vars \/ (\E r \in sent : Land(r)) \/ (\E p \in Procs : Moves(p))
BY DEF Next, Moves

-----------------------------------------------------------------------------
(* An Index only advances *)

\* A catalog a record is applied to never falls back.
LEMMA ApplyAdvances ==
  ASSUME NEW cat \in Catalogs, NEW r \in Records
  PROVE  cat.gen <= ApplyTo(cat, r).gen /\ r.gen <= ApplyTo(cat, r).gen
BY DEF ApplyTo, Catalogs, Records, Gens

\* Each process has an Index of its own.
OwnIndex == \A p, q \in Procs : DeviceOf[p] = DeviceOf[q] => p = q

\* The Snapshot chosen is one above the Index it is restored into.
Ahead(p) ==
  /\ pc[p] \in {"walk", "restore"} => Index(p).gen < nxt[p]
  /\ pc[p] = "restore" => nxt[p] <= hand[p].gen

AheadInv == TypeInv /\ \A p \in Procs : Ahead(p)

\* Only a walk leads to a restore, and only a look at the Index to a walk.
LEMMA WalksFromHeld ==
  ASSUME TypeOK, NEW p \in Procs, Moves(p), ~ReadHeld(p), ~Walk(p)
  PROVE  pc'[p] \notin {"walk", "restore"}
<1> USE DEF TypeOK, Goto
<1>1. CASE CatchUpStep(p)
  <2>1. CASE List(p) \/ Restore(p) \/ Fetch(p) \/ Apply(p)
    BY <2>1 DEF List, Restore, Fetch, Apply, AfterReplay
  <2>2. CASE WalkRefused(p) \/ FetchMissing(p) \/ CaughtUp(p)
    BY <2>2, EndsAlone DEF WalkRefused, FetchMissing, CaughtUp
  <2> QED BY <1>1, <2>1, <2>2 DEF CatchUpStep
<1>2. CASE CommitStep(p)
  <2>1. CASE \/ ReadStanding(p) \/ Replicate(p) \/ Aim(p) \/ Send(p) \/ Created(p)
             \/ Refused(p) \/ ReadBackOwn(p) \/ Refresh(p)
    BY <2>1 DEF ReadStanding, Replicate, Aim, Send, Created, Refused, ReadBackOwn, Refresh
  <2>2. CASE AimMoved(p) \/ ReadBackOther(p)
    BY <2>2, RetriesAlone, EndsAlone DEF AimMoved, ReadBackOther
  <2>3. CASE CheckMissing(p) \/ ReplicateRefused(p) \/ AimMissing(p)
    BY <2>3, EndsAlone DEF CheckMissing, ReplicateRefused, AimMissing
  <2>4. CASE Check(p) \/ TrashRemovals(p)
    BY <2>4, EndsAlone DEF Check, TrashRemovals
  <2> QED BY <1>2, <2>1, <2>2, <2>3, <2>4 DEF CommitStep
<1>3. CASE PruneStep(p)
  <2>1. CASE ReadCatalog(p) \/ PutSnapshot(p) \/ ReadHead(p) \/ Prune(p)
    BY <2>1 DEF ReadCatalog, PutSnapshot, ReadHead, Prune, AfterCheckpoint
  <2>2. CASE SnapshotExists(p) \/ Gate(p)
    BY <2>2, EndsAlone DEF SnapshotExists, Gate, AfterCheckpoint
  <2>3. CASE CommitDone(p) \/ ReadHeadMissing(p) \/ PruneDone(p)
    BY <2>3, EndsAlone DEF CommitDone, ReadHeadMissing, PruneDone
  <2> QED BY <1>3, <2>1, <2>2, <2>3 DEF PruneStep
<1>4. CASE ~Step(p)
  BY <1>4, EndsAlone DEF Moves, Prepare, Start, Abandon
<1> QED BY <1>1, <1>2, <1>3, <1>4 DEF Step

\* What a walk leaves: the replay goes on, or a Snapshot past the Index is next.
LEMMA WalkChooses ==
  ASSUME TypeOK, NEW p \in Procs, Walk(p)
  PROVE  /\ UNCHANGED <<live, created, sent, snaps, idx, job, lst, nxt, rec, bat, rm>>
         /\ \/ /\ pc'[p] \in {"caught", "fetch"} /\ hand'[p] = hand[p]
               /\ pc'[p] = "caught" <=> nxt[p] > ListedHead(p)
            \/ \E s \in snaps :
                 /\ s.name \in lst[p].snaps /\ s.name >= nxt[p] /\ s.at.gen = s.name
                 /\ pc'[p] = "restore" /\ hand'[p] = s.at
<1>1. UNCHANGED <<live, created, sent, snaps, idx, job, lst, nxt, rec, bat, rm>>
  BY DEF Walk, storage, batching
<1>2. CASE Candidate(p) = -1
  <2>1. pc' = [pc EXCEPT ![p] = AfterReplay(p, nxt[p])] /\ hand' = hand
    BY <1>2 DEF Walk, Goto
  <2>2. pc'[p] = AfterReplay(p, nxt[p]) /\ hand'[p] = hand[p]
    BY <2>1 DEF TypeOK
  <2>3. pc'[p] \in {"caught", "fetch"} /\ (pc'[p] = "caught" <=> nxt[p] > ListedHead(p))
    BY <2>2 DEF AfterReplay
  <2> QED BY <1>1, <2>2, <2>3
<1>3. CASE Candidate(p) # -1
  <2>1. Candidate(p) \in {g \in lst[p].snaps : g >= nxt[p]}
    <3>1. {g \in lst[p].snaps : g >= nxt[p]} \subseteq Gens
      BY DEF TypeOK, Gens
    <3> QED BY <1>3, <3>1, NewestIsGen DEF Candidate
  <2>2. PICK s \in snaps : /\ s.name = Candidate(p) /\ s.at.gen = s.name
                           /\ hand' = [hand EXCEPT ![p] = s.at]
                           /\ pc' = [pc EXCEPT ![p] = "restore"]
    BY <1>3 DEF Walk, Goto
  <2>3. hand'[p] = s.at /\ pc'[p] = "restore"
    BY <2>2 DEF TypeOK
  <2> QED BY <1>1, <2>1, <2>2, <2>3
<1> QED BY <1>1, <1>2, <1>3

LEMMA NextAheadInv ==
  ASSUME OwnIndex, AheadInv, [Next]_vars
  PROVE  AheadInv' /\ \A d \in Devices : idx[d].gen <= idx'[d].gen
<1> USE ProcAssumption DEF ProcAssumption
<1>0. TypeOK /\ TypeInv'
  BY NextTypeInv DEF AheadInv, TypeInv
<1>1. \A d \in Devices : idx[d] \in Catalogs /\ idx[d].gen \in Gens
  BY <1>0 DEF TypeOK, Catalogs
<1>2. CASE UNCHANGED <<idx, pc, nxt, hand>>
  <2>1. \A d \in Devices : idx[d].gen <= idx'[d].gen
    BY <1>1, <1>2 DEF Gens
  <2> QED BY <1>0, <1>2, <2>1 DEF AheadInv, Ahead, Index
<1>3. ASSUME NEW p \in Procs, Moves(p)
      PROVE  AheadInv' /\ \A d \in Devices : idx[d].gen <= idx'[d].gen
  <2>1. \A q \in Procs \ {p} : Same(q)
    BY <1>0, <1>3, MovesAlone
  <2>2. \A d \in Devices \ {DeviceOf[p]} : idx'[d] = idx[d]
    BY <1>0, <1>3, MovesIndex DEF TypeOK
  <2>3. \A q \in Procs \ {p} : Ahead(q)'
    <3> SUFFICES ASSUME NEW q \in Procs \ {p} PROVE Ahead(q)'
      OBVIOUS
    <3>1. DeviceOf[q] \in Devices \ {DeviceOf[p]}
      BY DEF OwnIndex
    <3>2. idx'[DeviceOf[q]] = idx[DeviceOf[q]]
      BY <2>2, <3>1
    <3> QED BY <2>1, <3>2 DEF AheadInv, Ahead, Same, Index
  <2>4. Ahead(p)'
    <3>1. CASE ReadHeld(p)
      <4>1. /\ pc'[p] = "walk" /\ nxt'[p] = idx[DeviceOf[p]].gen + 1
            /\ idx' = idx
        BY <1>0, <3>1 DEF ReadHeld, TypeOK, Goto
      <4>2. idx[DeviceOf[p]].gen \in Gens
        BY <1>1
      <4> QED BY <4>1, <4>2 DEF Ahead, Index, Gens
    <3>2. CASE Walk(p)
      <4>1. Ahead(p) /\ pc[p] = "walk"
        BY <3>2 DEF AheadInv, Walk
      <4> QED BY <1>0, <3>2, <4>1, WalkChooses DEF Ahead, Index
    <3>3. CASE ~ReadHeld(p) /\ ~Walk(p)
      BY <1>0, <1>3, <3>3, WalksFromHeld DEF Ahead
    <3> QED BY <3>1, <3>2, <3>3
  <2>5. idx[DeviceOf[p]].gen <= idx'[DeviceOf[p]].gen
    <3>1. CASE UNCHANGED idx
      BY <1>1, <3>1 DEF Gens
    <3>2. CASE Restore(p) /\ idx' = [idx EXCEPT ![DeviceOf[p]] = hand[p]]
      <4>1. idx'[DeviceOf[p]] = hand[p]
        BY <1>0, <3>2 DEF TypeOK
      <4>2. Index(p).gen < nxt[p] /\ nxt[p] <= hand[p].gen
        BY <3>2 DEF AheadInv, Ahead, Restore
      <4>3. idx[DeviceOf[p]].gen \in Gens /\ nxt[p] \in Nat /\ hand[p].gen \in Gens
        BY <1>0, <1>1 DEF TypeOK, Catalogs
      <4> QED BY <4>1, <4>2, <4>3 DEF Index, Gens
    <3>3. CASE idx' = [idx EXCEPT ![DeviceOf[p]] = ApplyTo(@, rec[p])]
      <4>1. idx'[DeviceOf[p]] = ApplyTo(idx[DeviceOf[p]], rec[p])
        BY <1>0, <3>3 DEF TypeOK
      <4> QED BY <1>0, <1>1, <4>1, ApplyAdvances DEF TypeOK
    <3> QED BY <1>0, <1>3, <3>1, <3>2, <3>3, MovesIndex
  <2>6. \A d \in Devices : idx[d].gen <= idx'[d].gen
    BY <1>1, <2>2, <2>5 DEF Gens
  <2> QED BY <1>0, <2>3, <2>4, <2>6 DEF AheadInv
<1> QED BY <1>2, <1>3, NextMoves DEF vars, Land, storage, reading, batching

\* Where no two processes share an Index, none ever falls back to a head it
\* was past: a Snapshot is restored only over a catalog below it (catch_up.rs,
\* CK-9, RV-5).
THEOREM IndexesAdvance == OwnIndex => (Spec => IndexAdvances)
<1> SUFFICES ASSUME OwnIndex PROVE Spec => IndexAdvances
  OBVIOUS
<1>1. Init => AheadInv
  BY InitTypeInv DEF AheadInv, Ahead, Init
<1>2. AheadInv /\ [Next]_vars => AheadInv'
  BY NextAheadInv
<1>3. AheadInv /\ [Next]_vars => [\A d \in Devices : idx[d].gen <= idx'[d].gen]_vars
  BY NextAheadInv
<1> QED BY <1>1, <1>2, <1>3, PTL DEF Spec, IndexAdvances

-----------------------------------------------------------------------------
(* Catalogs and the chain *)

\* A record succeeds the one below it: its Keyring maps what that one left.
Exact(r) ==
  \A q \in created : r.gen = q.gen + 1 =>
    r.rm \subseteq q.maps /\ r.maps = (q.maps \ r.rm) \cup Adds(r.batch)

\* The chain has reached a generation.
Passed(g) == \E q \in created : g <= q.gen

\* A catalog is empty, or shows what the head it stands at left.
Sound(cat) == cat = NoCatalog \/ Follows(cat)

Dense == \A q \in created : \A g \in 0 .. q.gen : \E r \in created : r.gen = g

Recorded ==
  /\ Dense
  /\ \A r \in created : Exact(r)
  /\ \A r \in sent : Exact(r) \/ Passed(r.gen)

Catalogued ==
  /\ \A d \in Devices : Sound(idx[d])
  /\ \A p \in Procs : Sound(hand[p])
  /\ \A s \in snaps : Sound(s.at)

\* How far the Index of a process is, at each of its calls.
Reached(p) ==
  /\ pc[p] \in {"walk", "restore", "fetch", "apply", "caught"} => nxt[p] <= Index(p).gen + 1
  /\ pc[p] = "apply" => rec[p].gen = nxt[p]
  /\ pc[p] \in {"caught", "standing"} => ListedHead(p) <= Index(p).gen
  /\ pc[p] \in {"replicate", "aim", "send"} => hand[p].gen <= Index(p).gen
  /\ pc[p] \in {"send", "await", "readback", "refresh"} => rec[p].gen <= Index(p).gen + 1

\* The head a candidate is built on admits its batch, and the candidate is
\* exact unless the slot it is for was consumed meanwhile.
Built(p) ==
  /\ pc[p] = "standing" /\ Index(p).gen = ListedHead(p) => Admits(Index(p), bat[p], rm[p])
  /\ pc[p] = "replicate" /\ Stands(p) => Admits(hand[p], bat[p], rm[p])
  /\ pc[p] = "aim" /\ Stands(p) => Exact(rec[p]) \/ Passed(rec[p].gen)
  /\ pc[p] = "send" => Exact(rec[p]) \/ Passed(rec[p].gen)

CatalogInv ==
  /\ ChainInv /\ Recorded /\ Catalogued
  /\ \A p \in Procs : Reached(p) /\ Built(p)

\* No Index falls back.
Advances == \A d \in Devices : idx[d].gen <= idx'[d].gen

-----------------------------------------------------------------------------
(* Sound catalogs *)

LEMMA RecordFields ==
  ASSUME NEW r \in Records
  PROVE  /\ r.gen \in Nat /\ r.batch \in Batches \cup {Genesis}
         /\ r.rm \subseteq Containers /\ r.maps \subseteq Containers
BY DEF Records

LEMMA CatalogFields ==
  ASSUME NEW cat \in Catalogs
  PROVE  /\ cat.gen \in Gens /\ cat.gen \in Int /\ cat.gen >= -1
         /\ cat = [gen |-> cat.gen, head |-> cat.head, cur |-> cat.cur, maps |-> cat.maps]
BY DEF Catalogs, Gens

\* The greatest of some generations is the newest of them.
LEMMA NewestIsTop ==
  ASSUME NEW S, S \subseteq Gens, NEW m \in S, \A g \in S : g <= m
  PROVE  Newest(S) = m
<1> DEFINE top == {g \in S : \A h \in S : h <= g}
<1>1. m \in top
  OBVIOUS
<1>2. \A g \in top : g <= m /\ m <= g /\ g \in Int /\ m \in Int
  BY DEF Gens
<1>3. \A g \in top : g = m
  BY <1>2
<1>4. Newest(S) \in top
  BY <1>1 DEF Newest
<1> QED BY <1>3, <1>4

\* A catalog is empty, or shows what one of some records left.
SoundIn(C, cat) ==
  \/ cat = NoCatalog
  \/ \E r \in C : /\ cat.gen = r.gen /\ cat.head = r.batch
                 /\ cat.cur = r.maps /\ cat.maps = r.maps

\* Two sound catalogs that stand at one head are the same.
LEMMA SoundAtOneHead ==
  ASSUME NEW C, C \subseteq Records, \A q, r \in C : q.gen = r.gen => q = r,
         NEW c \in Catalogs, NEW e \in Catalogs, SoundIn(C, c), SoundIn(C, e),
         c.gen = e.gen
  PROVE  c = e
<1>1. \A r \in C : r.gen \in Nat
  BY RecordFields
<1>2. CASE c = NoCatalog \/ e = NoCatalog
  BY <1>1, <1>2 DEF SoundIn, NoCatalog
<1>3. CASE c # NoCatalog /\ e # NoCatalog
  <2>1. PICK r \in C : c.gen = r.gen /\ c.head = r.batch /\ c.cur = r.maps /\ c.maps = r.maps
    BY <1>3 DEF SoundIn
  <2>2. PICK q \in C : e.gen = q.gen /\ e.head = q.batch /\ e.cur = q.maps /\ e.maps = q.maps
    BY <1>3 DEF SoundIn
  <2>3. r = q
    BY <2>1, <2>2
  <2> QED BY <2>1, <2>2, <2>3, CatalogFields
<1> QED BY <1>2, <1>3

\* What a sound catalog shows of the record it stands at.
LEMMA SoundShows ==
  ASSUME OneSuccessor, NEW cat, Sound(cat), NEW q \in created, q.gen = cat.gen,
         TypeOK
  PROVE  cat.head = q.batch /\ cat.cur = q.maps /\ cat.maps = q.maps
<1>1. q.gen \in Nat
  BY RecordFields DEF TypeOK
<1>2. cat # NoCatalog
  BY <1>1 DEF NoCatalog
<1> QED BY <1>2 DEF Sound, Follows, OneSuccessor

\* The next record leaves a sound catalog sound.
LEMMA AppliedIsSound ==
  ASSUME ChainInv, NEW cat \in Catalogs, Sound(cat), NEW r \in created, Exact(r),
         r.gen <= cat.gen + 1
  PROVE  Sound(ApplyTo(cat, r))
<1>0. TypeOK /\ OneSuccessor /\ r \in Records
  BY DEF ChainInv, TypeInv, TypeOK, Chained
<1>1. CASE r.gen <= cat.gen
  BY <1>1 DEF ApplyTo
<1>2. CASE ~(r.gen <= cat.gen)
  <2>1. r.gen = cat.gen + 1 /\ r.gen \in Nat /\ cat.gen \in Int
    BY <1>0, <1>2, CatalogFields, RecordFields
  <2>2. ApplyTo(cat, r) = [gen |-> r.gen, head |-> r.batch,
                           cur |-> (cat.cur \ r.rm) \cup Adds(r.batch), maps |-> r.maps]
    BY <1>2 DEF ApplyTo
  <2>3. (cat.cur \ r.rm) \cup Adds(r.batch) = r.maps
    <3>1. CASE cat = NoCatalog
      <4>1. r.gen = 0
        BY <2>1, <3>1 DEF NoCatalog
      <4>2. r = FirstRecord
        BY <4>1 DEF ChainInv, Chained, Rooted
      <4> QED BY <3>1, <4>2 DEF NoCatalog, FirstRecord, Adds
    <3>2. CASE Follows(cat)
      <4>1. PICK q \in created : cat.gen = q.gen /\ cat.cur = q.maps
        BY <3>2 DEF Follows
      <4>2. r.gen = q.gen + 1
        BY <2>1, <4>1
      <4>3. r.maps = (q.maps \ r.rm) \cup Adds(r.batch)
        BY <4>2 DEF Exact
      <4> QED BY <4>1, <4>3
    <3> QED BY <3>1, <3>2 DEF Sound
  <2> QED BY <2>2, <2>3 DEF Sound, Follows
<1> QED BY <1>1, <1>2

LEMMA SoundStays ==
  ASSUME created \subseteq created', NEW cat, Sound(cat)
  PROVE  Sound(cat)'
BY DEF Sound, Follows, NoCatalog

-----------------------------------------------------------------------------
(* The chain grows *)

\* A record stored takes the generation above the newest, and leaves what was
\* exact exact.
LEMMA ExactStays ==
  ASSUME ChainInv, ChainInv', created \subseteq created', NEW r, r.gen \in Nat, Exact(r),
         r.gen = 0 \/ \E q \in created : q.gen + 1 = r.gen
  PROVE  Exact(r)'
<1>1. SUFFICES ASSUME NEW q \in created', r.gen = q.gen + 1
      PROVE r.rm \subseteq q.maps /\ r.maps = (q.maps \ r.rm) \cup Adds(r.batch)
  BY DEF Exact
<1>2. \A t \in created' : t.gen \in Nat
  BY RecordFields DEF ChainInv, TypeInv, TypeOK
<1>3. r.gen # 0
  BY <1>1, <1>2
<1>4. PICK t \in created : t.gen + 1 = r.gen
  BY <1>3
<1>5. t \in created' /\ t.gen = q.gen
  BY <1>1, <1>2, <1>4
<1>6. t = q
  BY <1>5 DEF ChainInv, Chained, OneSuccessor
<1> QED BY <1>1, <1>6 DEF Exact

LEMMA RootedBelow ==
  ASSUME ChainInv, NEW r \in created \cup sent
  PROVE  r.gen \in Nat /\ (r.gen = 0 \/ \E q \in created : q.gen + 1 = r.gen)
<1>1. r \in Records /\ Rooted(r) /\ created \subseteq Records
  BY DEF ChainInv, TypeInv, TypeOK, Chained
<1>2. r.gen \in Nat /\ \A q \in created : q.gen \in Nat
  BY <1>1, RecordFields
<1>3. ASSUME r.gen # 0 PROVE \E q \in created : q.gen + 1 = r.gen
  BY <1>1, <1>2, <1>3 DEF Rooted
<1> QED BY <1>2, <1>3

\* A create whose slot is free extends the chain by one.
LEMMA LandExtends ==
  ASSUME CatalogInv, ChainInv', NEW r \in sent, Land(r)
  PROVE  ~Passed(r.gen) /\ Exact(r)
<1>1. created' = created \cup {r} /\ r \in created'
  BY DEF Land
<1>2. r \notin created
  BY DEF Land, SlotFree, CatalogInv, ChainInv, Chained
<1>3. ~Passed(r.gen)
  <2> SUFFICES ASSUME NEW q \in created, r.gen <= q.gen PROVE FALSE
    BY DEF Passed
  <2>1. r.gen \in Nat /\ q.gen \in Nat
    BY RootedBelow DEF CatalogInv
  <2>2. PICK t \in created : t.gen = r.gen
    BY <2>1 DEF CatalogInv, Recorded, Dense
  <2>3. t = r
    BY <1>1, <2>2 DEF ChainInv, Chained, OneSuccessor
  <2> QED BY <1>2, <2>2, <2>3
<1> QED BY <1>3 DEF CatalogInv, Recorded

\* What the other processes hold stays right whatever one does.
LEMMA OthersStay ==
  ASSUME CatalogInv, ChainInv', created \subseteq created', Advances,
         \A d \in Devices : Sound(idx[d])', NEW q \in Procs, Same(q)
  PROVE  Reached(q)' /\ Built(q)'
<1> USE ProcAssumption DEF ProcAssumption
<1>1. TypeOK /\ TypeOK' /\ OneSuccessor'
  BY DEF CatalogInv, ChainInv, TypeInv, Chained
<1>2. /\ Index(q) \in Catalogs /\ Index(q)' \in Catalogs
      /\ Index(q).gen \in Int /\ Index(q)'.gen \in Int
      /\ hand[q].gen \in Int /\ hand[q] \in Catalogs
      /\ rec[q] \in Records /\ rec[q].gen \in Nat /\ nxt[q] \in Nat
  BY <1>1, CatalogFields, RecordFields DEF TypeOK, Index
<1>3. Index(q).gen <= Index(q)'.gen
  BY DEF Advances, Index
<1>4. ListedHead(q)' = ListedHead(q) /\ ListedHead(q) \in Int /\ (Stands(q)' <=> Stands(q))
  BY <1>1, HeadIsGen DEF Same, ListedHead, Stands, Gens
<1>5. UNCHANGED <<pc[q], nxt[q], hand[q], rec[q], bat[q], rm[q]>>
  BY DEF Same
<1>6. Reached(q)'
  BY <1>2, <1>3, <1>4, <1>5 DEF CatalogInv, Reached
<1>7. ASSUME pc[q] = "standing", Index(q)'.gen = ListedHead(q)
      PROVE  Admits(Index(q)', bat[q], rm[q])
  <2>1. Index(q).gen = Index(q)'.gen /\ Index(q).gen = ListedHead(q)
    BY <1>2, <1>3, <1>4, <1>7 DEF CatalogInv, Reached
  <2>2. SoundIn(created', Index(q)')
    BY DEF Index, Sound, Follows, SoundIn
  <2>3. SoundIn(created', Index(q))
    BY DEF CatalogInv, Catalogued, Index, Sound, Follows, SoundIn
  <2>4. created' \subseteq Records /\ \A t, r \in created' : t.gen = r.gen => t = r
    BY <1>1 DEF TypeOK, OneSuccessor
  <2> HIDE DEF Index
  <2>5. Index(q) = Index(q)'
    BY <1>2, <2>1, <2>2, <2>3, <2>4, SoundAtOneHead
  <2>6. Admits(Index(q), bat[q], rm[q])
    BY <1>7, <2>1 DEF CatalogInv, Built
  <2> QED BY <2>5, <2>6
<1>8. ASSUME Exact(rec[q]) \/ Passed(rec[q].gen), pc[q] \in {"aim", "send"},
             pc[q] = "aim" => Stands(q)
      PROVE  (Exact(rec[q]) \/ Passed(rec[q].gen))'
  <2>1. CASE Passed(rec[q].gen)
    BY <1>5, <2>1 DEF Passed
  <2>2. CASE Exact(rec[q])
    <3>1. rec[q].gen = hand[q].gen + 1 /\ Placed(hand[q])
      BY <1>8, <1>2 DEF CatalogInv, ChainInv, Local, Aiming, AllPlaced, Stands
    <3>2. rec[q].gen = 0 \/ \E t \in created : t.gen + 1 = rec[q].gen
      BY <1>2, <3>1 DEF Placed
    <3>3. \A r : r = rec[q] => Exact(r)'
      BY <1>2, <2>2, <3>2, ExactStays DEF CatalogInv
    <3>4. Exact(rec[q])'
      BY <1>5, <3>3 DEF Exact
    <3> QED BY <3>4
  <2> QED BY <1>8, <2>1, <2>2
<1>9. Built(q)'
  BY <1>4, <1>5, <1>7, <1>8 DEF CatalogInv, Built
<1> QED BY <1>6, <1>9

\* At p, the process that moved, and over what it wrote, is what is left to show.
LEMMA OneMoves ==
  ASSUME CatalogInv, ChainInv', Advances, NEW p \in Procs, \A q \in Procs \ {p} : Same(q),
         UNCHANGED created,
         \A r \in sent' \ sent : Exact(r) \/ Passed(r.gen),
         \A s \in snaps' \ snaps : Sound(s.at),
         \A d \in Devices : Sound(idx[d])',
         Sound(hand[p])', Reached(p)', Built(p)'
  PROVE  CatalogInv'
<1>1. Recorded'
  BY DEF CatalogInv, Recorded, Dense, Exact, Passed
<1>2. Catalogued'
  <2>1. ASSUME NEW q \in Procs PROVE Sound(hand[q])'
    BY SoundStays DEF CatalogInv, Catalogued, Same, Sound, Follows
  <2>2. (\A s \in snaps : Sound(s.at))'
    BY DEF CatalogInv, Catalogued, Sound, Follows
  <2> QED BY <2>1, <2>2 DEF Catalogued
<1>3. \A q \in Procs : Reached(q)' /\ Built(q)'
  BY OthersStay
<1> QED BY <1>1, <1>2, <1>3 DEF CatalogInv

\* The same where the process wrote no Index.
LEMMA OneMovesQuietly ==
  ASSUME CatalogInv, ChainInv', NEW p \in Procs, \A q \in Procs \ {p} : Same(q),
         UNCHANGED <<created, idx>>,
         \A r \in sent' \ sent : Exact(r) \/ Passed(r.gen),
         \A s \in snaps' \ snaps : Sound(s.at),
         Sound(hand'[p]), Reached(p)', Built(p)'
  PROVE  CatalogInv'
<1>1. Advances
  BY CatalogFields DEF Advances, CatalogInv, ChainInv, TypeInv, TypeOK
<1>2. \A d \in Devices : Sound(idx[d])'
  BY DEF CatalogInv, Catalogued, Sound, Follows
<1>3. Sound(hand[p])'
  BY DEF Sound, Follows
<1> QED BY <1>1, <1>2, <1>3, OneMoves

\* A run that ends, or begins, holds nothing that could be wrong.
LEMMA EndsCatalogInv ==
  ASSUME CatalogInv, ChainInv', NEW p \in Procs, NEW how, Finish(p, how),
         UNCHANGED <<created, sent, snaps, idx>>
  PROVE  CatalogInv'
<1>1. TypeOK
  BY DEF CatalogInv, ChainInv, TypeInv
<1>2. /\ \A q \in Procs \ {p} : Same(q)
      /\ pc'[p] = "idle" /\ hand'[p] = NoCatalog
  BY <1>1, EndsAlone
<1>3. Sound(hand'[p]) /\ Reached(p)' /\ Built(p)'
  BY <1>2 DEF Sound, Reached, Built
<1> QED BY <1>2, <1>3, OneMovesQuietly

LEMMA RetriesCatalogInv ==
  ASSUME CatalogInv, ChainInv', NEW p \in Procs, Retry(p), UNCHANGED <<storage, idx>>
  PROVE  CatalogInv'
<1>1. TypeOK /\ UNCHANGED <<created, sent, snaps, idx>>
  BY DEF CatalogInv, ChainInv, TypeInv, storage
<1>2. CASE Finish(p, "failed")
  BY <1>1, <1>2, EndsCatalogInv
<1>3. CASE pc' = [pc EXCEPT ![p] = "list"] /\ UNCHANGED hand
  <2>1. pc'[p] = "list" /\ hand'[p] = hand[p]
    BY <1>1, <1>3 DEF TypeOK
  <2>2. Sound(hand'[p]) /\ Reached(p)' /\ Built(p)'
    BY <2>1 DEF Reached, Built, CatalogInv, Catalogued
  <2>3. \A q \in Procs \ {p} : Same(q)
    BY <1>1, RetriesAlone
  <2> QED BY <1>1, <2>2, <2>3, OneMovesQuietly
<1> QED BY <1>1, <1>2, <1>3, RetriesAlone

LEMMA LandCatalogInv ==
  ASSUME CatalogInv, NEW r \in sent, Land(r)
  PROVE  CatalogInv'
<1>1. ChainInv' /\ created' = created \cup {r}
      /\ UNCHANGED <<sent, snaps, idx, pc, job, lst, nxt, kept, hand, rec, bat, rm, base, tries>>
  BY LandChainInv DEF CatalogInv, Land, reading, batching
<1>2. ~Passed(r.gen) /\ Exact(r)
  BY <1>1, LandExtends
<1>3. created \subseteq created'
  BY <1>1
<1>4. Dense'
  <2> SUFFICES ASSUME NEW q \in created', NEW g \in 0 .. q.gen PROVE \E t \in created' : t.gen = g
    BY DEF Dense
  <2>1. CASE q \in created
    BY <1>1, <2>1 DEF CatalogInv, Recorded, Dense
  <2>2. CASE q = r /\ g = r.gen
    BY <1>1, <2>2
  <2>3. CASE q = r /\ g # r.gen
    <3>1. r.gen \in Nat /\ (r.gen = 0 \/ \E t \in created : t.gen + 1 = r.gen)
      BY RootedBelow DEF CatalogInv
    <3>2. PICK t \in created : t.gen + 1 = r.gen
      BY <2>3, <3>1
    <3>3. t.gen \in Nat
      BY RootedBelow DEF CatalogInv
    <3>4. g \in 0 .. t.gen
      BY <2>3, <3>1, <3>2, <3>3
    <3> QED BY <1>1, <3>4 DEF CatalogInv, Recorded, Dense
  <2> QED BY <1>1, <2>1, <2>2, <2>3
<1>5. ASSUME NEW t \in created \cup sent, Exact(t) PROVE Exact(t)'
  BY <1>1, <1>3, <1>5, RootedBelow, ExactStays DEF CatalogInv
<1>6. Recorded'
  <2>1. \A t \in created' : Exact(t)'
    BY <1>1, <1>2, <1>5 DEF CatalogInv, Recorded
  <2>2. \A t \in sent : Exact(t)' \/ Passed(t.gen)'
    BY <1>3, <1>5 DEF CatalogInv, Recorded, Passed
  <2> QED BY <1>1, <1>4, <2>1, <2>2 DEF Recorded
<1>7. Catalogued'
  <2>1. \A cat : Sound(cat) => Sound(cat)'
    BY <1>3, SoundStays
  <2>2. \A d \in Devices : Sound(idx[d])'
    BY <1>1, <2>1 DEF CatalogInv, Catalogued, Sound, Follows
  <2>3. \A p \in Procs : Sound(hand[p])'
    BY <1>1, <2>1 DEF CatalogInv, Catalogued, Sound, Follows
  <2>4. (\A s \in snaps : Sound(s.at))'
    BY <1>1, <2>1 DEF CatalogInv, Catalogued, Sound, Follows
  <2> QED BY <2>2, <2>3, <2>4 DEF Catalogued
<1>8. ASSUME NEW q \in Procs PROVE Reached(q)' /\ Built(q)'
  <2>1. Advances
    BY <1>1, CatalogFields DEF Advances, CatalogInv, ChainInv, TypeInv, TypeOK
  <2>2. Same(q)
    BY <1>1 DEF Same
  <2> QED BY <1>1, <1>3, <1>7, <2>1, <2>2, OthersStay DEF Catalogued
<1> QED BY <1>1, <1>6, <1>7, <1>8 DEF CatalogInv

LEMMA ReadsGen ==
  ASSUME TypeOK, NEW p \in Procs, NEW g, NEW r \in CanRead(p, g)
  PROVE  r.gen = g
BY DEF CanRead, Listed, Reach

LEMMA CatchUpCatalogInv ==
  ASSUME CatalogInv, Advances, NEW p \in Procs, CatchUpStep(p)
  PROVE  CatalogInv'
<1> USE ProcAssumption DEF ProcAssumption
<1>1. ChainInv' /\ TypeOK /\ TypeOK'
  BY CatchUpChainInv DEF CatalogInv, ChainInv, TypeInv
<1>2. \A q \in Procs \ {p} : Same(q)
  BY <1>1, CatchUpAlone
<1>3. UNCHANGED <<live, created, sent, snaps>>
  BY DEF CatchUpStep, List, ReadHeld, Walk, WalkRefused, Restore, Fetch, FetchMissing,
         Apply, CaughtUp, storage
<1>4. /\ Index(p) \in Catalogs /\ Index(p).gen \in Int /\ nxt[p] \in Nat
      /\ hand[p] \in Catalogs /\ hand[p].gen \in Int
      /\ rec[p] \in Records /\ rec[p].gen \in Nat /\ ListedHead(p) \in Int
  BY <1>1, CatalogFields, RecordFields, HeadIsGen DEF TypeOK, Index, Gens
<1>5. Reached(p) /\ Sound(hand[p]) /\ Sound(Index(p))
  BY DEF CatalogInv, Catalogued, Index
<1>6. CASE List(p)
  <2>1. pc'[p] = "held" /\ hand'[p] = hand[p] /\ idx' = idx
    BY <1>1, <1>6 DEF List, TypeOK, Goto
  <2>2. Sound(hand'[p]) /\ Reached(p)' /\ Built(p)'
    BY <1>5, <2>1 DEF Reached, Built
  <2> QED BY <1>1, <1>2, <1>3, <2>1, <2>2, OneMovesQuietly
<1>7. CASE ReadHeld(p)
  <2>1. pc'[p] = "walk" /\ hand'[p] = hand[p] /\ idx' = idx /\ nxt'[p] = Index(p).gen + 1
    BY <1>1, <1>7 DEF ReadHeld, TypeOK, Goto, Index
  <2>2. Sound(hand'[p]) /\ Built(p)'
    BY <1>5, <2>1 DEF Built
  <2>3. Reached(p)'
    BY <1>4, <2>1 DEF Reached, Index
  <2> QED BY <1>1, <1>2, <1>3, <2>1, <2>2, <2>3, OneMovesQuietly
<1>8. CASE Walk(p)
  <2>1. /\ idx' = idx /\ nxt' = nxt /\ lst' = lst /\ pc[p] = "walk"
    BY <1>1, <1>8, WalkChooses DEF Walk
  <2>2. /\ pc'[p] \in {"caught", "fetch", "restore"}
        /\ pc'[p] = "caught" => nxt[p] > ListedHead(p)
        /\ Sound(hand'[p])
    BY <1>1, <1>5, <1>8, WalkChooses DEF CatalogInv, Catalogued
  <2>3. Built(p)'
    BY <2>2 DEF Built
  <2>4. ListedHead(p)' = ListedHead(p) /\ Index(p)' = Index(p)
    BY <2>1 DEF ListedHead, Index
  <2>5. Reached(p)'
    BY <1>4, <1>5, <2>1, <2>2, <2>4 DEF Reached
  <2> QED BY <1>1, <1>2, <1>3, <2>1, <2>2, <2>3, <2>5, OneMovesQuietly
<1>9. CASE Restore(p)
  <2>1. /\ idx' = [idx EXCEPT ![DeviceOf[p]] = hand[p]] /\ lst' = lst
        /\ nxt'[p] = hand[p].gen + 1 /\ hand'[p] = NoCatalog
        /\ pc'[p] = AfterReplay(p, hand[p].gen + 1)
    BY <1>1, <1>9 DEF Restore, TypeOK, Goto, reading
  <2>2. /\ Index(p)' = hand[p] /\ ListedHead(p)' = ListedHead(p)
    BY <1>1, <2>1 DEF Index, ListedHead, TypeOK
  <2>3. \A d \in Devices : Sound(idx'[d])
    BY <1>1, <1>5, <2>1 DEF TypeOK, CatalogInv, Catalogued
  <2>4. \A d \in Devices : Sound(idx[d])'
    BY <1>3, <2>3 DEF Sound, Follows
  <2>5. pc'[p] \in {"caught", "fetch"} /\ (pc'[p] = "caught" => hand[p].gen + 1 > ListedHead(p))
    BY <2>1 DEF AfterReplay
  <2>6. Sound(hand[p])' /\ Built(p)'
    BY <2>1, <2>5 DEF Sound, Built
  <2>7. Reached(p)'
    BY <1>4, <2>1, <2>2, <2>5 DEF Reached
  <2> QED BY <1>1, <1>2, <1>3, <2>4, <2>6, <2>7, OneMoves
<1>10. CASE Fetch(p)
  <2>1. /\ idx' = idx /\ nxt' = nxt /\ hand' = hand /\ pc[p] = "fetch" /\ pc'[p] = "apply"
        /\ \E r \in {k \in kept[p] : k.gen = nxt[p]} \cup CanRead(p, nxt[p]) : rec'[p] = r
    BY <1>1, <1>10 DEF Fetch, TypeOK, Goto
  <2>2. rec'[p].gen = nxt[p]
    BY <1>1, <2>1, ReadsGen
  <2>3. Sound(hand'[p]) /\ Built(p)'
    BY <1>5, <2>1 DEF Built
  <2>4. Reached(p)'
    BY <1>5, <2>1, <2>2 DEF Reached, Index
  <2> QED BY <1>1, <1>2, <1>3, <2>1, <2>3, <2>4, OneMovesQuietly
<1>11. CASE Apply(p)
  <2>1. /\ idx' = [idx EXCEPT ![DeviceOf[p]] = ApplyTo(idx[DeviceOf[p]], rec[p])]
        /\ lst' = lst /\ hand' = hand /\ nxt'[p] = nxt[p] + 1 /\ pc[p] = "apply"
        /\ pc'[p] = AfterReplay(p, nxt[p] + 1)
    BY <1>1, <1>11 DEF Apply, TypeOK, Goto, reading
  <2>2. Index(p)' = ApplyTo(Index(p), rec[p]) /\ ListedHead(p)' = ListedHead(p)
    BY <1>1, <2>1 DEF Index, ListedHead, TypeOK
  <2>3. rec[p] \in created /\ rec[p].gen = nxt[p] /\ nxt[p] <= Index(p).gen + 1
    BY <1>5, <2>1 DEF Reached, CatalogInv, ChainInv, Local, Reading
  <2>4. Exact(rec[p])
    BY <2>3 DEF CatalogInv, Recorded
  <2>5. Sound(ApplyTo(Index(p), rec[p]))
    BY <1>4, <1>5, <2>3, <2>4, AppliedIsSound DEF CatalogInv
  <2>6. \A d \in Devices : Sound(idx'[d])
    BY <1>1, <2>1, <2>5 DEF TypeOK, CatalogInv, Catalogued, Index
  <2>7. \A d \in Devices : Sound(idx[d])'
    BY <1>3, <2>6 DEF Sound, Follows
  <2>8. pc'[p] \in {"caught", "fetch"} /\ (pc'[p] = "caught" => nxt[p] + 1 > ListedHead(p))
    BY <2>1 DEF AfterReplay
  <2>9. Sound(hand[p])' /\ Built(p)'
    BY <1>3, <1>5, <2>1, <2>8 DEF Sound, Follows, Built
  <2>10. nxt[p] <= Index(p)'.gen /\ Index(p)'.gen \in Int
    BY <1>1, <1>4, <2>2, <2>3, ApplyAdvances, CatalogFields DEF TypeOK, Index
  <2>11. Reached(p)'
    BY <1>4, <2>1, <2>2, <2>8, <2>10 DEF Reached
  <2> QED BY <1>1, <1>2, <1>3, <2>7, <2>9, <2>11, OneMoves
<1>12. CASE WalkRefused(p) \/ FetchMissing(p) \/ CaughtUp(p)
  BY <1>1, <1>3, <1>12, EndsCatalogInv DEF WalkRefused, FetchMissing, CaughtUp
<1> QED BY <1>6, <1>7, <1>8, <1>9, <1>10, <1>11, <1>12 DEF CatchUpStep

\* A candidate built where the head stands is exact, unless the Index it was
\* built from had moved past that head.
LEMMA ReplicateExact ==
  ASSUME CatalogInv, NEW p \in Procs, pc[p] = "replicate", Stands(p), NEW r,
         r.gen = ListedHead(p) + 1, r.batch = bat[p], r.rm = rm[p],
         r.maps = Candidates(Index(p), bat[p], rm[p])
  PROVE  Exact(r) \/ Passed(r.gen)
<1>1. TypeOK /\ OneSuccessor /\ Reached(p) /\ Sound(hand[p]) /\ Sound(Index(p))
      /\ hand[p].gen = ListedHead(p) /\ Admits(hand[p], bat[p], rm[p])
  BY ProcAssumption
  DEF ProcAssumption, CatalogInv, ChainInv, TypeInv, Chained, Catalogued, Index, Built, Stands
<1>2. /\ Index(p) \in Catalogs /\ hand[p] \in Catalogs
      /\ Index(p).gen \in Int /\ hand[p].gen \in Int
  BY <1>1, ProcAssumption, CatalogFields DEF ProcAssumption, TypeOK, Index
<1>3. hand[p].gen <= Index(p).gen
  BY <1>1 DEF Reached
<1>4. r.gen = hand[p].gen + 1
  BY <1>1
<1>5. CASE Index(p).gen = hand[p].gen
  <2>1. SoundIn(created, Index(p)) /\ SoundIn(created, hand[p])
    BY <1>1 DEF Sound, Follows, SoundIn
  <2>2. Index(p) = hand[p]
    BY <1>1, <1>2, <1>5, <2>1, SoundAtOneHead DEF TypeOK, OneSuccessor
  <2>3. r.rm \subseteq hand[p].cur /\ r.maps = (hand[p].cur \ r.rm) \cup Adds(r.batch)
    BY <1>1, <2>2 DEF Admits, Candidates
  <2>4. ASSUME NEW q \in created, r.gen = q.gen + 1
        PROVE  r.rm \subseteq q.maps /\ r.maps = (q.maps \ r.rm) \cup Adds(r.batch)
    <3>a. q \in Records
      BY <1>1 DEF TypeOK
    <3>b. q.gen \in Nat
      BY <3>a, RecordFields
    <3>1. q.gen = hand[p].gen
      BY <1>2, <1>4, <2>4, <3>b
    <3>2. hand[p].cur = q.maps
      BY <1>1, <3>1, SoundShows
    <3> QED BY <2>3, <3>2
  <2> QED BY <2>4 DEF Exact
<1>6. CASE Index(p).gen # hand[p].gen
  <2>1. hand[p].gen + 1 <= Index(p).gen
    BY <1>2, <1>3, <1>6
  <2>2. Index(p) # NoCatalog
    BY <1>2, <2>1, CatalogFields DEF NoCatalog
  <2>3. \E q \in created : q.gen = Index(p).gen
    BY <1>1, <2>2 DEF Sound, Follows
  <2>4. Passed(r.gen)
    BY <1>4, <2>1, <2>3 DEF Passed
  <2> QED BY <2>4
<1> QED BY <1>5, <1>6

LEMMA CommitCatalogInv ==
  ASSUME CatalogInv, Advances, NEW p \in Procs, CommitStep(p)
  PROVE  CatalogInv'
<1> USE ProcAssumption DEF ProcAssumption
<1>1. ChainInv' /\ TypeOK /\ TypeOK'
  BY CommitChainInv DEF CatalogInv, ChainInv, TypeInv
<1>2. \A q \in Procs \ {p} : Same(q)
  BY <1>1, CommitAlone
<1>4. /\ Index(p) \in Catalogs /\ Index(p).gen \in Int
      /\ hand[p] \in Catalogs /\ hand[p].gen \in Int
      /\ rec[p] \in Records /\ rec[p].gen \in Nat /\ ListedHead(p) \in Int
  BY <1>1, CatalogFields, RecordFields, HeadIsGen DEF TypeOK, Index, Gens
<1>5. Reached(p) /\ Built(p) /\ Sound(hand[p]) /\ Sound(Index(p))
  BY DEF CatalogInv, Catalogued, Index
<1>6. CASE Check(p)
  <2>1. CASE ~Admits(idx[DeviceOf[p]], bat[p], rm[p])
    BY <1>1, <1>6, <2>1, EndsCatalogInv DEF Check, storage
  <2>2. CASE Admits(idx[DeviceOf[p]], bat[p], rm[p])
    <3>1. /\ UNCHANGED <<created, sent, snaps, idx, lst, hand, bat, rm>>
          /\ pc[p] = "caught" /\ pc'[p] = "standing"
      BY <1>1, <1>6, <2>2 DEF Check, Goto, TypeOK, storage, reading
    <3>2. Index(p)' = Index(p) /\ ListedHead(p)' = ListedHead(p)
      BY <3>1 DEF Index, ListedHead
    <3>3. Reached(p)'
      BY <1>5, <3>1, <3>2 DEF Reached
    <3>4. Built(p)'
      BY <2>2, <3>1, <3>2 DEF Built, Index
    <3>5. Sound(hand'[p])
      BY <1>5, <3>1
    <3> QED BY <1>1, <1>2, <3>1, <3>3, <3>4, <3>5, OneMovesQuietly
  <2> QED BY <2>1, <2>2
<1>7. CASE ReadStanding(p)
  <2>1. /\ UNCHANGED <<created, sent, snaps, idx, lst, bat, rm>>
        /\ pc[p] = "standing" /\ pc'[p] = "replicate" /\ hand'[p] = Index(p)
    BY <1>1, <1>7 DEF ReadStanding, Goto, TypeOK, storage, reading, batching, Index
  <2>2. Index(p)' = Index(p) /\ ListedHead(p)' = ListedHead(p)
    BY <2>1 DEF Index, ListedHead
  <2>3. Reached(p)'
    BY <1>4, <2>1, <2>2 DEF Reached
  <2>4. Built(p)'
    BY <1>5, <2>1, <2>2 DEF Built, Stands
  <2>5. Sound(hand'[p])
    BY <1>5, <2>1
  <2> QED BY <1>1, <1>2, <2>1, <2>3, <2>4, <2>5, OneMovesQuietly
<1>8. CASE Replicate(p)
  <2> DEFINE r == [gen |-> ListedHead(p) + 1, batch |-> bat[p], rm |-> rm[p],
                   maps |-> Candidates(Index(p), bat[p], rm[p]), from |-> hand[p].head]
  <2>1. /\ UNCHANGED <<created, sent, snaps, idx, lst, hand, bat, rm>>
        /\ pc[p] = "replicate" /\ pc'[p] = "aim" /\ rec'[p] = r
    BY <1>1, <1>8 DEF Replicate, Goto, TypeOK, storage, reading, batching, Index
  <2>2. Index(p)' = Index(p) /\ ListedHead(p)' = ListedHead(p) /\ (Stands(p)' <=> Stands(p))
    BY <2>1 DEF Index, ListedHead, Stands
  <2>3. Reached(p)'
    BY <1>5, <2>1, <2>2 DEF Reached
  <2>a. r.gen = ListedHead(p) + 1 /\ r.batch = bat[p] /\ r.rm = rm[p]
        /\ r.maps = Candidates(Index(p), bat[p], rm[p])
    OBVIOUS
  <2>4. Stands(p) => Exact(r) \/ Passed(r.gen)
    <3> HIDE DEF r
    <3> QED BY <2>1, <2>a, ReplicateExact
  <2> HIDE DEF r
  <2>5. Stands(p) => (Exact(rec[p]) \/ Passed(rec[p].gen))'
    BY <2>1, <2>4 DEF Exact, Passed
  <2>6. Built(p)'
    BY <2>1, <2>2, <2>5 DEF Built
  <2>7. Sound(hand'[p])
    BY <1>5, <2>1
  <2> QED BY <1>1, <1>2, <2>1, <2>3, <2>6, <2>7, OneMovesQuietly
<1>9. CASE Aim(p)
  <2>1. /\ UNCHANGED <<created, sent, snaps, idx, lst, hand, rec, bat, rm>>
        /\ pc[p] = "aim" /\ pc'[p] = "send" /\ Stands(p)
    BY <1>1, <1>9 DEF Aim, Goto, TypeOK, storage, reading, batching
  <2>2. Index(p)' = Index(p) /\ ListedHead(p)' = ListedHead(p) /\ rec[p].gen = hand[p].gen + 1
    BY <2>1 DEF Index, ListedHead, Stands, CatalogInv, ChainInv, Local, Aiming
  <2>3. Reached(p)'
    BY <1>4, <1>5, <2>1, <2>2 DEF Reached
  <2>4. Built(p)'
    BY <1>5, <2>1 DEF Built, Exact, Passed
  <2>5. Sound(hand'[p])
    BY <1>5, <2>1
  <2> QED BY <1>1, <1>2, <2>1, <2>3, <2>4, <2>5, OneMovesQuietly
<1>10. CASE Send(p)
  <2>1. /\ UNCHANGED <<created, snaps, idx, lst, hand, rec, bat, rm>>
        /\ sent' = sent \cup {rec[p]} /\ pc[p] = "send" /\ pc'[p] = "await"
    BY <1>1, <1>10 DEF Send, Goto, TypeOK, reading, batching
  <2>2. Index(p)' = Index(p)
    BY <2>1 DEF Index
  <2>3. Reached(p)'
    BY <1>5, <2>1, <2>2 DEF Reached
  <2>4. Built(p)' /\ \A r \in sent' \ sent : Exact(r) \/ Passed(r.gen)
    BY <1>5, <2>1 DEF Built
  <2>5. Sound(hand'[p])
    BY <1>5, <2>1
  <2> QED BY <1>1, <1>2, <2>1, <2>3, <2>4, <2>5, OneMovesQuietly
<1>11. CASE Created(p) \/ Refused(p) \/ ReadBackOwn(p)
  <2>1. /\ UNCHANGED <<created, sent, snaps, idx, hand>>
        /\ pc[p] \in {"await", "readback"} /\ pc'[p] \in {"readback", "refresh"}
    BY <1>1, <1>11 DEF Created, Refused, ReadBackOwn, Goto, TypeOK, storage
  <2>2. rec'[p].gen = rec[p].gen
    BY <1>1, <1>11 DEF Created, Refused, ReadBackOwn, OwnRecords, TypeOK
  <2>3. Index(p)' = Index(p)
    BY <2>1 DEF Index
  <2>4. Reached(p)'
    BY <1>5, <2>1, <2>2, <2>3 DEF Reached
  <2>5. Built(p)'
    BY <2>1 DEF Built
  <2>6. Sound(hand'[p])
    BY <1>5, <2>1
  <2> QED BY <1>1, <1>2, <2>1, <2>4, <2>5, <2>6, OneMovesQuietly
<1>12. CASE Refresh(p)
  <2>1. /\ UNCHANGED <<created, sent, snaps, hand, rec>>
        /\ idx' = [idx EXCEPT ![DeviceOf[p]] = ApplyTo(idx[DeviceOf[p]], rec[p])]
        /\ pc[p] = "refresh" /\ pc'[p] = "clean"
    BY <1>1, <1>12 DEF Refresh, Goto, TypeOK, storage
  <2>2. rec[p] \in created /\ rec[p].gen <= Index(p).gen + 1
    BY <1>5, <2>1 DEF Reached, CatalogInv, ChainInv, Local, Reading
  <2>3. Sound(ApplyTo(Index(p), rec[p]))
    BY <1>4, <1>5, <2>2, AppliedIsSound DEF CatalogInv, Recorded
  <2>4. \A d \in Devices : Sound(idx'[d])
    BY <1>1, <2>1, <2>3 DEF TypeOK, CatalogInv, Catalogued, Index
  <2>5. (\A d \in Devices : Sound(idx[d])') /\ Sound(hand[p])'
    BY <1>5, <2>1, <2>4 DEF Sound, Follows
  <2>6. Reached(p)' /\ Built(p)'
    BY <2>1 DEF Reached, Built
  <2> QED BY <1>1, <1>2, <2>1, <2>5, <2>6, OneMoves
<1>13. CASE TrashRemovals(p)
  <2>1. UNCHANGED <<created, sent, snaps, idx>>
    BY <1>13 DEF TrashRemovals
  <2>2. CASE Due(p)
    <3>1. pc'[p] = "snapshot" /\ hand'[p] = hand[p]
      BY <1>1, <1>13, <2>2 DEF TrashRemovals, Goto, TypeOK
    <3>2. Sound(hand'[p]) /\ Reached(p)' /\ Built(p)'
      BY <1>5, <3>1 DEF Reached, Built
    <3> QED BY <1>1, <1>2, <2>1, <3>2, OneMovesQuietly
  <2>3. CASE ~Due(p)
    BY <1>1, <1>13, <2>1, <2>3, EndsCatalogInv DEF TrashRemovals
  <2> QED BY <2>2, <2>3
<1>14. CASE AimMoved(p) \/ ReadBackOther(p)
  BY <1>1, <1>14, RetriesCatalogInv DEF AimMoved, ReadBackOther
<1>15. CASE CheckMissing(p) \/ ReplicateRefused(p) \/ AimMissing(p)
  BY <1>1, <1>15, EndsCatalogInv DEF CheckMissing, ReplicateRefused, AimMissing, storage
<1> QED BY <1>6, <1>7, <1>8, <1>9, <1>10, <1>11, <1>12, <1>13, <1>14, <1>15 DEF CommitStep

LEMMA PruneCatalogInv ==
  ASSUME CatalogInv, SlotsStay, NEW p \in Procs, PruneStep(p)
  PROVE  CatalogInv'
<1> USE ProcAssumption DEF ProcAssumption
<1>1. ChainInv' /\ TypeOK
  BY PruneChainInv DEF CatalogInv, ChainInv, TypeInv
<1>2. \A q \in Procs \ {p} : Same(q)
  BY <1>1, PruneAlone
<1>3. Sound(hand[p]) /\ Sound(Index(p))
  BY DEF CatalogInv, Catalogued, Index
<1>4. CASE ReadCatalog(p) \/ PutSnapshot(p) \/ ReadHead(p) \/ Prune(p)
  <2>1. /\ UNCHANGED <<created, sent, idx>>
        /\ hand'[p] \in {hand[p], Index(p)}
        /\ pc'[p] \in {"put", "snapshot", "gate", "done", "prune"}
    BY <1>1, <1>4 DEF ReadCatalog, PutSnapshot, ReadHead, Prune, AfterCheckpoint, TypeOK,
                      Goto, storage, Index
  <2>2. \A s \in snaps' \ snaps : s.at = hand[p]
    BY <1>4 DEF ReadCatalog, PutSnapshot, ReadHead, Prune, storage
  <2>3. Sound(hand'[p]) /\ Reached(p)' /\ Built(p)'
    BY <1>3, <2>1 DEF Reached, Built
  <2>4. \A s \in snaps' \ snaps : Sound(s.at)
    BY <1>3, <2>2
  <2> QED BY <1>1, <1>2, <2>1, <2>3, <2>4, OneMovesQuietly
<1>5. CASE SnapshotExists(p) \/ Gate(p)
  <2>1. UNCHANGED <<created, sent, snaps, idx>>
    BY <1>5 DEF SnapshotExists, Gate, storage
  <2>2. CASE Finish(p, "failed")
    BY <1>1, <2>1, <2>2, EndsCatalogInv
  <2>3. CASE ~Finish(p, "failed")
    <3>1. /\ pc'[p] \in {"gate", "done", "prune"}
          /\ hand'[p] = hand[p] \/ \E s \in snaps : hand'[p] = s.at
      BY <1>1, <1>5, <2>3 DEF SnapshotExists, Gate, AfterCheckpoint, TypeOK, Goto
    <3>2. Sound(hand'[p]) /\ Reached(p)' /\ Built(p)'
      BY <1>3, <3>1 DEF Reached, Built, CatalogInv, Catalogued
    <3> QED BY <1>1, <1>2, <2>1, <3>2, OneMovesQuietly
  <2> QED BY <2>2, <2>3
<1>6. CASE CommitDone(p) \/ ReadHeadMissing(p) \/ PruneDone(p)
  BY <1>1, <1>6, EndsCatalogInv DEF CommitDone, ReadHeadMissing, PruneDone, storage
<1> QED BY <1>4, <1>5, <1>6 DEF PruneStep

LEMMA InitCatalogInv == ASSUME Init PROVE CatalogInv
<1>1. ChainInv
  BY InitChainInv
<1>2. Recorded
  BY DEF Init, Recorded, Dense, FirstRecord, Exact
<1>3. Catalogued
  BY DEF Init, Catalogued, Sound, Follows, FirstRecord, FirstCatalog, NoCatalog
<1>4. \A p \in Procs : Reached(p) /\ Built(p)
  BY DEF Init, Reached, Built
<1> QED BY <1>1, <1>2, <1>3, <1>4 DEF CatalogInv

LEMMA NextCatalogInv ==
  ASSUME CatalogInv, SlotsStay, Advances, [Next]_vars
  PROVE  CatalogInv'
<1>1. ChainInv' /\ TypeOK
  BY NextChainInv DEF CatalogInv, ChainInv, TypeInv
<1>2. CASE UNCHANGED vars
  <2>1. Recorded' /\ Catalogued'
    BY <1>2 DEF vars, storage, reading, CatalogInv, Recorded, Dense, Exact, Passed, Catalogued,
                Sound, Follows
  <2>2. \A p \in Procs : Reached(p)'
    BY <1>2 DEF vars, reading, batching, CatalogInv, Reached, Index, ListedHead
  <2>3. \A p \in Procs : Built(p)'
    BY <1>2 DEF vars, storage, reading, batching, CatalogInv, Built, Index, ListedHead, Stands,
                Exact, Passed
  <2> QED BY <1>1, <2>1, <2>2, <2>3 DEF CatalogInv
<1>3. ASSUME NEW p \in Procs,
             \/ \E b \in Batches, gone \in SUBSET Containers : Prepare(p, b, gone)
             \/ \E flow \in {"catchup", "prune"} : Start(p, flow)
      PROVE CatalogInv'
  <2>1. /\ UNCHANGED <<created, sent, snaps, idx, hand>> /\ pc'[p] = "list"
    BY <1>1, <1>3 DEF Prepare, Start, storage, Goto, TypeOK
  <2>2. Sound(hand'[p]) /\ Reached(p)' /\ Built(p)'
    BY <2>1 DEF Reached, Built, CatalogInv, Catalogued
  <2>3. \A q \in Procs \ {p} : Same(q)
    BY <1>1, <1>3, MovesAlone DEF Moves
  <2> QED BY <1>1, <2>1, <2>2, <2>3, OneMovesQuietly
<1>4. ASSUME NEW p \in Procs, Abandon(p) PROVE CatalogInv'
  BY <1>1, <1>4, EndsCatalogInv DEF Abandon, storage
<1> QED
  BY <1>2, <1>3, <1>4, LandCatalogInv, CatchUpCatalogInv, CommitCatalogInv, PruneCatalogInv
  DEF Next, Step

\* Where no Index falls back, whatever catch-ups and refreshes interleave on it
\* take it through every record (catch_up.rs replay, CK-9, CK-13).
THEOREM IndexesFollow == SlotsStay => (Spec /\ IndexAdvances => []IndexFollowsChain)
<1> SUFFICES ASSUME SlotsStay PROVE Spec /\ IndexAdvances => []IndexFollowsChain
  OBVIOUS
<1>1. Init => CatalogInv
  BY InitCatalogInv
<1>2. CatalogInv /\ [Next]_vars /\ [Advances]_vars => CatalogInv'
  <2>1. ASSUME CatalogInv, UNCHANGED vars PROVE Advances
    BY <2>1, CatalogFields
    DEF vars, Advances, CatalogInv, ChainInv, TypeInv, TypeOK
  <2> QED BY <2>1, NextCatalogInv
<1>3. CatalogInv => IndexFollowsChain
  BY DEF CatalogInv, Catalogued, Sound, IndexFollowsChain
<1> QED BY <1>1, <1>2, <1>3, PTL DEF Spec, IndexAdvances, Advances

\* There, every committed Keyring maps the very Containers current after its
\* record: what dropped a key would be an Index carried back between the reading
\* of its head and that of its Containers (replicate.rs, CP-8, KL-7).
THEOREM KeyringsExact == SlotsStay => (Spec /\ IndexAdvances => []KeyringExact)
<1> SUFFICES ASSUME SlotsStay PROVE Spec /\ IndexAdvances => []KeyringExact
  OBVIOUS
<1>1. Init => CatalogInv
  BY InitCatalogInv
<1>2. CatalogInv /\ [Next]_vars /\ [Advances]_vars => CatalogInv'
  <2>1. ASSUME CatalogInv, UNCHANGED vars PROVE Advances
    BY <2>1, CatalogFields
    DEF vars, Advances, CatalogInv, ChainInv, TypeInv, TypeOK
  <2> QED BY <2>1, NextCatalogInv
<1>3. CatalogInv => KeyringExact
  BY DEF CatalogInv, Recorded, Exact, KeyringExact
<1> QED BY <1>1, <1>2, <1>3, PTL DEF Spec, IndexAdvances, Advances

\* With an Index for each process both hold outright.
COROLLARY OwnIndexesFollow ==
  SlotsStay /\ OwnIndex => (Spec => []IndexFollowsChain /\ []KeyringExact)
<1> SUFFICES ASSUME SlotsStay, OwnIndex
             PROVE Spec => []IndexFollowsChain /\ []KeyringExact
  OBVIOUS
<1>1. Spec => IndexAdvances
  BY IndexesAdvance
<1>2. Spec /\ IndexAdvances => []IndexFollowsChain
  BY IndexesFollow
<1>3. Spec /\ IndexAdvances => []KeyringExact
  BY KeyringsExact
<1> QED BY <1>1, <1>2, <1>3

-----------------------------------------------------------------------------
(* What a run reports *)

\* The candidate a process works on is its batch's; once its own record is in
\* the chain it says so.
Settled(p) == bat[p] \in Batches /\ outcome[bat[p]] = "committed"

Reports(p) ==
  /\ pc[p] \in {"aim", "send", "await", "readback", "refresh"} =>
       rec[p].batch = bat[p] /\ Adds(bat[p]) \subseteq rec[p].maps
  /\ pc[p] = "refresh" => rec[p] \in created
  /\ pc[p] \in {"clean", "done"} => Settled(p)
  /\ pc[p] \in {"snapshot", "put"} => job[p] = "prune" \/ Settled(p)

ReportInv ==
  /\ TypeInv
  /\ \A r \in created \cup sent : Adds(r.batch) \subseteq r.maps
  /\ \A p \in Procs : Reports(p)
  /\ ReportedCommitStands

\* What was reported committed stays so, and rests on a record of the chain.
LEMMA ReportsStay ==
  ASSUME ReportInv, TypeInv', UNCHANGED created, NEW p \in Procs,
         \A q \in Procs \ {p} : Same(q),
         \A r \in sent' \ sent : Adds(r.batch) \subseteq r.maps,
         \A b \in Batches : outcome[b] = "committed" => outcome'[b] = "committed",
         \A b \in Batches : outcome'[b] = "committed" =>
            \/ outcome[b] = "committed"
            \/ \E r \in created : r.batch = b /\ Adds(b) \subseteq r.maps,
         Reports(p)'
  PROVE  ReportInv'
<1>1. (\A r \in created \cup sent : Adds(r.batch) \subseteq r.maps)'
  BY DEF ReportInv
<1>2. ASSUME NEW q \in Procs \ {p} PROVE Reports(q)'
  <2>1. Settled(q) => Settled(q)'
    BY DEF Settled, Same
  <2> QED BY <2>1 DEF ReportInv, Reports, Same
<1>3. ReportedCommitStands'
  BY DEF ReportInv, ReportedCommitStands
<1> QED BY <1>1, <1>2, <1>3 DEF ReportInv

\* A run that ends reports nothing new, or what it reported already.
LEMMA EndsReportInv ==
  ASSUME ReportInv, TypeInv', NEW p \in Procs, NEW how, Finish(p, how),
         how # "committed" \/ Settled(p), UNCHANGED <<created, sent>>
  PROVE  ReportInv'
<1>1. /\ pc'[p] = "idle" /\ \A q \in Procs \ {p} : Same(q)
  BY EndsAlone DEF ReportInv, TypeInv
<1>2. \A b \in Batches : outcome'[b] = IF b = bat[p] /\ outcome[b] = "open" THEN how ELSE outcome[b]
  BY DEF Finish
<1>3. \A b \in Batches : outcome'[b] = "committed" <=> outcome[b] = "committed"
  BY <1>2 DEF Settled
<1>4. Reports(p)'
  BY <1>1 DEF Reports
<1> QED BY <1>1, <1>3, <1>4, ReportsStay

\* A step that says nothing of its batch.
LEMMA SilentReportInv ==
  ASSUME ReportInv, TypeInv', NEW p \in Procs, \A q \in Procs \ {p} : Same(q),
         UNCHANGED <<created, outcome>>,
         \A r \in sent' \ sent : Adds(r.batch) \subseteq r.maps, Reports(p)'
  PROVE  ReportInv'
BY ReportsStay

LEMMA NextReportInv ==
  ASSUME ReportInv, [Next]_vars
  PROVE  ReportInv'
<1>1. TypeInv' /\ TypeOK /\ TypeOK'
  BY NextTypeInv DEF ReportInv, TypeInv
<1>2. CASE UNCHANGED vars
  BY <1>1, <1>2 DEF vars, storage, reading, batching, ReportInv, Reports, Settled,
                    ReportedCommitStands
<1>3. ASSUME NEW r \in sent, Land(r) PROVE ReportInv'
  <2>1. created' = created \cup {r} /\ UNCHANGED <<sent, pc, job, rec, bat, outcome>>
    BY <1>3 DEF Land, batching
  <2>2. \A p \in Procs : Reports(p)'
    BY <2>1 DEF ReportInv, Reports, Settled
  <2>3. ReportedCommitStands'
    BY <2>1 DEF ReportInv, ReportedCommitStands
  <2> QED BY <1>1, <2>1, <2>2, <2>3 DEF ReportInv
<1>4. ASSUME NEW p \in Procs, Moves(p) PROVE ReportInv'
  <2>1. \A q \in Procs \ {p} : Same(q)
    BY <1>1, <1>4, MovesAlone
  <2>2. Reports(p)
    BY DEF ReportInv
  <2>3. CASE CatchUpStep(p)
    <3>1. UNCHANGED <<created, sent>>
      BY <2>3 DEF CatchUpStep, List, ReadHeld, Walk, WalkRefused, Restore, Fetch,
                  FetchMissing, Apply, CaughtUp, storage
    <3>2. CASE WalkRefused(p) \/ FetchMissing(p) \/ CaughtUp(p)
      BY <1>1, <3>1, <3>2, EndsReportInv DEF WalkRefused, FetchMissing, CaughtUp
    <3>3. CASE List(p) \/ ReadHeld(p) \/ Restore(p) \/ Fetch(p) \/ Apply(p)
      <4>1. UNCHANGED outcome /\ pc'[p] \in {"held", "walk", "caught", "fetch", "apply"}
        BY <1>1, <3>3 DEF List, ReadHeld, Restore, Fetch, Apply, AfterReplay, TypeOK, Goto,
                          batching
      <4>2. Reports(p)'
        BY <4>1 DEF Reports
      <4> QED BY <1>1, <2>1, <3>1, <4>1, <4>2, SilentReportInv
    <3>4. CASE Walk(p)
      <4>1. UNCHANGED outcome /\ pc'[p] \in {"caught", "fetch", "restore"}
        BY <1>1, <3>4, WalkChooses DEF Walk, batching
      <4>2. Reports(p)'
        BY <4>1 DEF Reports
      <4> QED BY <1>1, <2>1, <3>1, <4>1, <4>2, SilentReportInv
    <3> QED BY <2>3, <3>2, <3>3, <3>4 DEF CatchUpStep
  <2>4. CASE CommitStep(p)
    <3>1. CASE CheckMissing(p) \/ ReplicateRefused(p) \/ AimMissing(p)
      BY <1>1, <3>1, EndsReportInv DEF CheckMissing, ReplicateRefused, AimMissing, storage
    <3>2. CASE AimMoved(p) \/ ReadBackOther(p)
      <4>1. Retry(p) /\ UNCHANGED <<created, sent>>
        BY <3>2 DEF AimMoved, ReadBackOther, storage
      <4>2. CASE Finish(p, "failed")
        BY <1>1, <4>1, <4>2, EndsReportInv
      <4>3. CASE ~Finish(p, "failed")
        <5>1. UNCHANGED outcome /\ pc'[p] = "list"
          BY <1>1, <4>1, <4>3, RetriesAlone DEF TypeOK
        <5>2. Reports(p)'
          BY <5>1 DEF Reports
        <5> QED BY <1>1, <2>1, <4>1, <5>1, <5>2, SilentReportInv
      <4> QED BY <4>2, <4>3
    <3>3. CASE Check(p)
      <4>1. CASE Finish(p, "refused")
        BY <1>1, <3>3, <4>1, EndsReportInv DEF Check, storage
      <4>2. CASE ~Finish(p, "refused")
        <5>1. UNCHANGED <<created, sent, outcome>> /\ pc'[p] = "standing"
          BY <1>1, <3>3, <4>2 DEF Check, storage, Goto, TypeOK
        <5>2. Reports(p)'
          BY <5>1 DEF Reports
        <5> QED BY <1>1, <2>1, <5>1, <5>2, SilentReportInv
      <4> QED BY <4>1, <4>2
    <3>4. CASE ReadStanding(p)
      <4>1. UNCHANGED <<created, sent, outcome>> /\ pc'[p] = "replicate"
        BY <1>1, <3>4 DEF ReadStanding, storage, Goto, TypeOK, batching
      <4>2. Reports(p)'
        BY <4>1 DEF Reports
      <4> QED BY <1>1, <2>1, <4>1, <4>2, SilentReportInv
    <3>5. CASE Replicate(p)
      <4>1. /\ UNCHANGED <<created, sent, outcome, bat>> /\ pc'[p] = "aim"
            /\ rec'[p].batch = bat[p]
            /\ rec'[p].maps = Candidates(idx[DeviceOf[p]], bat[p], rm[p])
        BY <1>1, <3>5 DEF Replicate, storage, Goto, TypeOK, batching
      <4>2. Adds(bat[p]) \subseteq rec'[p].maps
        BY <4>1 DEF Candidates
      <4>3. Reports(p)'
        BY <4>1, <4>2 DEF Reports
      <4> QED BY <1>1, <2>1, <4>1, <4>3, SilentReportInv
    <3>6. CASE Aim(p) \/ Created(p) \/ Refused(p)
      <4>1. /\ UNCHANGED <<created, sent, outcome, bat, rec>>
            /\ pc[p] \in {"aim", "await"} /\ pc'[p] \in {"send", "readback", "refresh"}
            /\ pc'[p] = "refresh" => rec[p] \in created
        BY <1>1, <3>6 DEF Aim, Created, Refused, storage, Goto, TypeOK, batching
      <4>2. Reports(p)'
        BY <2>2, <4>1 DEF Reports
      <4> QED BY <1>1, <2>1, <4>1, <4>2, SilentReportInv
    <3>7. CASE Send(p)
      <4>1. /\ UNCHANGED <<created, outcome, bat, rec>> /\ sent' = sent \cup {rec[p]}
            /\ pc[p] = "send" /\ pc'[p] = "await"
        BY <1>1, <3>7 DEF Send, Goto, TypeOK, batching
      <4>2. Reports(p)'
        BY <2>2, <4>1 DEF Reports
      <4>3. \A r \in sent' \ sent : Adds(r.batch) \subseteq r.maps
        BY <2>2, <4>1 DEF Reports
      <4> QED BY <1>1, <2>1, <4>1, <4>2, <4>3, SilentReportInv
    <3>8. CASE ReadBackOwn(p)
      <4>1. /\ UNCHANGED <<created, sent, outcome, bat>> /\ pc'[p] = "refresh"
            /\ rec'[p] \in live /\ rec'[p].batch = bat[p]
        BY <1>1, <3>8 DEF ReadBackOwn, OwnRecords, storage, Goto, TypeOK, batching
      <4>2. rec'[p] \in created
        BY <1>1, <4>1 DEF TypeOK
      <4>3. Adds(bat[p]) \subseteq rec'[p].maps
        BY <4>1, <4>2 DEF ReportInv
      <4>4. Reports(p)'
        BY <4>1, <4>2, <4>3 DEF Reports
      <4> QED BY <1>1, <2>1, <4>1, <4>4, SilentReportInv
    <3>9. CASE Refresh(p)
      <4>1. /\ UNCHANGED <<created, sent, bat, rec>> /\ pc[p] = "refresh" /\ pc'[p] = "clean"
            /\ outcome' = [outcome EXCEPT ![bat[p]] = "committed"]
        BY <1>1, <3>9 DEF Refresh, storage, Goto, TypeOK
      <4>2. rec[p] \in created /\ rec[p].batch = bat[p] /\ Adds(bat[p]) \subseteq rec[p].maps
        BY <2>2, <4>1 DEF Reports
      <4>3. bat[p] \in Batches
        BY <1>1, <4>2, RecordFields, BatchAssumption DEF TypeOK, BatchAssumption
      <4>4. /\ outcome'[bat[p]] = "committed"
            /\ \A b \in Batches \ {bat[p]} : outcome'[b] = outcome[b]
        BY <1>1, <4>1, <4>3 DEF TypeOK
      <4>5. Reports(p)'
        BY <4>1, <4>3, <4>4 DEF Reports, Settled
      <4> QED BY <1>1, <2>1, <4>1, <4>2, <4>4, <4>5, ReportsStay
    <3>10. CASE TrashRemovals(p)
      <4>1. UNCHANGED <<created, sent>> /\ Settled(p)
        BY <2>2, <3>10 DEF TrashRemovals, Reports
      <4>2. CASE Finish(p, "committed")
        BY <1>1, <4>1, <4>2, EndsReportInv
      <4>3. CASE ~Finish(p, "committed")
        <5>1. UNCHANGED <<outcome, bat>> /\ pc'[p] = "snapshot"
          BY <1>1, <3>10, <4>3 DEF TrashRemovals, Goto, TypeOK, batching
        <5>2. Reports(p)'
          BY <4>1, <5>1 DEF Reports, Settled
        <5> QED BY <1>1, <2>1, <4>1, <5>1, <5>2, SilentReportInv
      <4> QED BY <4>2, <4>3
    <3> QED BY <2>4, <3>1, <3>2, <3>3, <3>4, <3>5, <3>6, <3>7, <3>8, <3>9, <3>10 DEF CommitStep
  <2>5. CASE PruneStep(p)
    <3>1. UNCHANGED <<created, sent>>
      BY <2>5 DEF PruneStep, ReadCatalog, PutSnapshot, SnapshotExists, CommitDone, ReadHead,
                  ReadHeadMissing, Gate, Prune, PruneDone, storage
    <3>2. CASE Finish(p, "failed")
      BY <1>1, <3>1, <3>2, EndsReportInv
    <3>3. CASE CommitDone(p)
      BY <1>1, <2>2, <3>1, <3>3, EndsReportInv DEF CommitDone, Reports
    <3>4. CASE ReadCatalog(p) \/ PutSnapshot(p) \/ (SnapshotExists(p) /\ ~Finish(p, "failed"))
      <4>1. /\ UNCHANGED <<outcome, bat, job>> /\ pc[p] \in {"snapshot", "put"}
            /\ pc'[p] \in {"put", "gate", "done"}
            /\ pc'[p] = "done" => job[p] # "prune"
        BY <1>1, <3>4 DEF ReadCatalog, PutSnapshot, SnapshotExists, AfterCheckpoint, Goto,
                          TypeOK, batching
      <4>2. Reports(p)'
        BY <2>2, <4>1 DEF Reports, Settled
      <4> QED BY <1>1, <2>1, <3>1, <4>1, <4>2, SilentReportInv
    <3>5. CASE ReadHead(p) \/ (Gate(p) /\ ~Finish(p, "failed")) \/ Prune(p)
      <4>1. /\ UNCHANGED <<outcome, bat, job>>
            /\ pc'[p] \in {"snapshot", "put", "prune"}
            /\ pc'[p] # "prune" => job[p] = "prune"
        BY <1>1, <3>5 DEF ReadHead, Gate, Prune, Goto, TypeOK, batching
      <4>2. Reports(p)'
        BY <4>1 DEF Reports
      <4> QED BY <1>1, <2>1, <3>1, <4>1, <4>2, SilentReportInv
    <3> QED BY <2>5, <3>2, <3>3, <3>4, <3>5 DEF PruneStep, ReadHeadMissing, PruneDone
  <2>6. ASSUME NEW b \in Batches, NEW gone, Prepare(p, b, gone) PROVE ReportInv'
    <3>1. /\ UNCHANGED <<created, sent>> /\ pc'[p] = "list"
          /\ outcome[b] = "none" /\ outcome' = [outcome EXCEPT ![b] = "open"]
      BY <1>1, <2>6 DEF Prepare, Goto, TypeOK, storage
    <3>2. \A c \in Batches : outcome'[c] = "committed" <=> outcome[c] = "committed"
      BY <1>1, <3>1 DEF TypeOK
    <3>3. Reports(p)'
      BY <3>1 DEF Reports
    <3> QED BY <1>1, <2>1, <3>1, <3>2, <3>3, ReportsStay
  <2>7. ASSUME NEW flow, Start(p, flow) PROVE ReportInv'
    <3>1. UNCHANGED <<created, sent, outcome>> /\ pc'[p] = "list"
      BY <1>1, <2>7 DEF Start, Goto, TypeOK, storage, batching
    <3>2. Reports(p)'
      BY <3>1 DEF Reports
    <3> QED BY <1>1, <2>1, <3>1, <3>2, SilentReportInv
  <2>8. CASE Abandon(p)
    BY <1>1, <2>8, EndsReportInv DEF Abandon, storage
  <2> QED BY <1>4, <2>3, <2>4, <2>5, <2>6, <2>7, <2>8 DEF Moves, Step
<1> QED BY <1>2, <1>3, <1>4, NextMoves

LEMMA InitReportInv == ASSUME Init PROVE ReportInv
<1>1. TypeInv
  BY InitTypeInv
<1>2. \A r \in created \cup sent : Adds(r.batch) \subseteq r.maps
  BY DEF Init, Adds, FirstRecord
<1>3. (\A p \in Procs : Reports(p)) /\ ReportedCommitStands
  BY DEF Init, Reports, ReportedCommitStands
<1> QED BY <1>1, <1>2, <1>3 DEF ReportInv

\* A run that reports its batch committed has a record on the chain, whatever
\* answers were lost, refused or read back (run.rs, journal.rs commit).
THEOREM ReportsAreTrue == Spec => []ReportedCommitStands
<1>1. Init => ReportInv
  BY InitReportInv
<1>2. ReportInv /\ [Next]_vars => ReportInv'
  BY NextReportInv
<1>3. ReportInv => ReportedCommitStands
  BY DEF ReportInv
<1> QED BY <1>1, <1>2, <1>3, PTL DEF Spec

-----------------------------------------------------------------------------
(* Snapshots, and what prune leaves *)

\* The heads there is a Snapshot of.
Named == {s.name : s \in snaps}

\* The newest record is in Storage, and so is every one no Snapshot covers.
Kept ==
  /\ \E h \in live : \A r \in created : r.gen <= h.gen
  /\ \A r \in created : (\A s \in snaps : s.name < r.gen) => r \in live

Checkpoints ==
  /\ \A s \in snaps : s.at.gen = s.name
  /\ snaps = {} \/ \E s \in snaps : \A t \in snaps : t.name <= s.name

\* How far the Index of a process is at most, and what the checkpoint it works
\* on is of.
Level(p) ==
  /\ \A g \in lst[p].snaps : g <= ListedHead(p) /\ g \in Named
  /\ pc[p] \in {"held", "walk", "restore", "fetch", "apply", "caught", "standing",
                "replicate", "aim"} => Index(p).gen <= ListedHead(p)
  /\ pc[p] = "restore" => hand[p].gen <= ListedHead(p)
  /\ pc[p] \in {"fetch", "apply"} => nxt[p] <= ListedHead(p)
  /\ pc[p] \in {"send", "await", "readback", "refresh"} => Index(p).gen < rec[p].gen
  /\ pc[p] \in {"clean", "snapshot"} => Index(p).gen = rec[p].gen
  /\ pc[p] = "put" => hand[p].gen = rec[p].gen \/ rec[p].gen \in Named
  /\ pc[p] \in {"gate", "prune"} => hand[p].gen \in Named

CheckpointInv == Kept /\ Checkpoints /\ \A p \in Procs : Level(p)

-----------------------------------------------------------------------------
(* What others hold *)

\* A catalog that stands at a head is no newer than the newest record.
LEMMA BelowTop ==
  ASSUME ChainInv, NEW cat, Sound(cat), NEW h \in created, \A r \in created : r.gen <= h.gen
  PROVE  cat.gen <= h.gen
<1>1. h.gen \in Nat
  BY RecordFields DEF ChainInv, TypeInv, TypeOK
<1>2. CASE cat = NoCatalog
  BY <1>1, <1>2 DEF NoCatalog
<1>3. CASE Follows(cat)
  BY <1>3 DEF Follows
<1> QED BY <1>2, <1>3 DEF Sound

\* What is above every process's Index moves with none but its own steps.
LEMMA OthersLevel ==
  ASSUME OwnIndex, snaps \subseteq snaps', NEW p \in Procs, NEW q \in Procs \ {p}, Same(q),
         Level(q), \A d \in Devices \ {DeviceOf[p]} : idx'[d] = idx[d]
  PROVE  Level(q)'
<1>1. DeviceOf[q] \in Devices \ {DeviceOf[p]}
  BY ProcAssumption DEF ProcAssumption, OwnIndex
<1>2. Index(q)' = Index(q) /\ ListedHead(q)' = ListedHead(q)
  BY <1>1 DEF Index, ListedHead, Same
<1>3. Named \subseteq Named'
  BY DEF Named
<1>4. UNCHANGED <<pc[q], lst[q], nxt[q], hand[q], rec[q]>>
  BY DEF Same
<1>5. \A g \in lst'[q].snaps : g <= ListedHead(q)' /\ g \in Named'
  BY <1>2, <1>3, <1>4 DEF Level
<1>6. pc'[q] = "put" => hand'[q].gen = rec'[q].gen \/ rec'[q].gen \in Named'
  BY <1>3, <1>4 DEF Level
<1>7. pc'[q] \in {"gate", "prune"} => hand'[q].gen \in Named'
  BY <1>3, <1>4 DEF Level
<1> QED BY <1>2, <1>4, <1>5, <1>6, <1>7 DEF Level, Named

\* A step that stores and removes nothing.
LEMMA QuietCheckpointInv ==
  ASSUME CheckpointInv, TypeOK, OwnIndex, NEW p \in Procs, Moves(p),
         UNCHANGED <<live, created, snaps>>, Level(p)'
  PROVE  CheckpointInv'
<1>1. \A q \in Procs \ {p} : Same(q)
  BY MovesAlone
<1>2. \A d \in Devices \ {DeviceOf[p]} : idx'[d] = idx[d]
  BY MovesIndex DEF TypeOK
<1>3. \A q \in Procs \ {p} : Level(q)'
  BY <1>1, <1>2, OthersLevel DEF CheckpointInv
<1>4. Kept' /\ Checkpoints'
  BY DEF CheckpointInv, Kept, Checkpoints
<1> QED BY <1>3, <1>4 DEF CheckpointInv

\* A run that is over, or about to list, has nothing but its listing.
LEMMA RestsLevel ==
  ASSUME NEW p \in Procs, UNCHANGED snaps, Level(p), pc'[p] \in {"idle", "list", "done"},
         lst'[p] \in {lst[p], NoListing}
  PROVE  Level(p)'
<1>1. CASE lst'[p] = NoListing
  BY <1>1 DEF Level, NoListing
<1>2. CASE lst'[p] = lst[p]
  <2>1. /\ ListedHead(p)' = ListedHead(p)
        /\ \A g \in lst'[p].snaps : g <= ListedHead(p) /\ g \in Named
    BY <1>2 DEF Level, ListedHead
  <2> QED BY <2>1 DEF Level, Named
<1> QED BY <1>1, <1>2

-----------------------------------------------------------------------------
(* What one step leaves *)

\* What a process holds, in the shapes the steps below need.
LEMMA Measures ==
  ASSUME TypeOK, NEW p \in Procs
  PROVE  /\ Index(p) \in Catalogs /\ Index(p).gen \in Int
         /\ hand[p].gen \in Int /\ nxt[p] \in Nat /\ ListedHead(p) \in Int
         /\ rec[p] \in Records /\ rec[p].gen \in Nat
BY ProcAssumption, CatalogFields, RecordFields, HeadIsGen
DEF ProcAssumption, TypeOK, Index, Gens

\* A listing shows the newest record, and no Snapshot above it.
LEMMA ListsTop ==
  ASSUME CatalogInv, Kept, Checkpoints, NEW p \in Procs, List(p)
  PROVE  /\ Index(p).gen <= ListedHead(p)'
         /\ \A g \in Named : g <= ListedHead(p)'
<1>1. TypeOK /\ \A r \in live : r.gen \in Nat /\ r \in created
  BY RecordFields DEF CatalogInv, ChainInv, TypeInv, TypeOK
<1>2. PICK h \in live : \A r \in created : r.gen <= h.gen
  BY DEF Kept
<1>3. lst'[p].recs = live
  BY <1>1 DEF List, TypeOK
<1>4. Newest({r.gen : r \in live}) = h.gen
  BY <1>1, <1>2, NewestIsTop DEF Gens
<1>5. ListedHead(p)' = h.gen
  BY <1>3, <1>4 DEF ListedHead
<1>6. Sound(Index(p)) /\ \A s \in snaps : Sound(s.at)
  BY ProcAssumption DEF ProcAssumption, CatalogInv, Catalogued, Index
<1>7. \A cat : Sound(cat) => cat.gen <= h.gen
  BY <1>1, <1>2, BelowTop DEF CatalogInv
<1>8. ASSUME NEW g \in Named PROVE g <= h.gen
  <2>1. PICK s \in snaps : s.name = g
    BY DEF Named
  <2> QED BY <1>6, <1>7, <2>1 DEF Checkpoints
<1> QED BY <1>5, <1>6, <1>7, <1>8

LEMMA CatchUpLevel ==
  ASSUME CatalogInv, CheckpointInv, NEW p \in Procs, CatchUpStep(p)
  PROVE  Level(p)' /\ UNCHANGED <<live, created, snaps>>
<1> USE ProcAssumption DEF ProcAssumption
<1>1. TypeOK /\ TypeOK'
  BY CatchUpTypeInv DEF CatalogInv, ChainInv, TypeInv
<1>2. UNCHANGED <<live, created, snaps>>
  BY DEF CatchUpStep, List, ReadHeld, Walk, WalkRefused, Restore, Fetch, FetchMissing,
         Apply, CaughtUp, storage
<1>3. Named' = Named
  BY <1>2 DEF Named
<1>4. /\ Index(p) \in Catalogs /\ Index(p).gen \in Int
      /\ hand[p].gen \in Int /\ nxt[p] \in Nat /\ ListedHead(p) \in Int
      /\ rec[p] \in Records /\ rec[p].gen \in Nat
  BY <1>1, Measures
<1>5. Level(p) /\ Reached(p)
  BY DEF CheckpointInv, CatalogInv
<1>6. CASE List(p)
  <2>1. pc'[p] = "held" /\ idx' = idx /\ lst'[p].snaps = Named
    BY <1>1, <1>6 DEF List, TypeOK, Goto, Named
  <2>2. Index(p)' = Index(p)
    BY <2>1 DEF Index
  <2>3. Index(p).gen <= ListedHead(p)' /\ \A g \in Named : g <= ListedHead(p)'
    BY <1>6, ListsTop DEF CheckpointInv
  <2>4. Level(p)'
    BY <1>3, <2>1, <2>2, <2>3 DEF Level
  <2> QED BY <1>2, <2>4
<1>7. CASE WalkRefused(p) \/ FetchMissing(p) \/ CaughtUp(p)
  <2>1. pc'[p] = "idle" /\ lst'[p] = NoListing
    BY <1>1, <1>7, EndsAlone DEF WalkRefused, FetchMissing, CaughtUp
  <2> QED BY <1>2, <1>5, <2>1, RestsLevel
<1>8. CASE ReadHeld(p) \/ Walk(p) \/ Restore(p) \/ Fetch(p) \/ Apply(p)
  <2>0. lst' = lst
    BY <1>8 DEF ReadHeld, Walk, Restore, Fetch, Apply
  <2>1. /\ ListedHead(p)' = ListedHead(p)
        /\ \A g \in lst'[p].snaps : g <= ListedHead(p)' /\ g \in Named'
    BY <1>3, <1>5, <2>0 DEF ListedHead, Level
  <2>2. CASE ReadHeld(p)
    <3>1. pc[p] = "held" /\ pc'[p] = "walk" /\ idx' = idx
      BY <1>1, <2>2 DEF ReadHeld, TypeOK, Goto
    <3>2. Index(p)' = Index(p)
      BY <3>1 DEF Index
    <3>3. Level(p)'
      BY <1>5, <2>1, <3>1, <3>2 DEF Level
    <3> QED BY <1>2, <3>3
  <2>3. CASE Walk(p)
    <3>1. pc[p] = "walk" /\ idx' = idx /\ nxt' = nxt
      BY <1>1, <2>3, WalkChooses DEF Walk
    <3>2. /\ pc'[p] \in {"caught", "fetch", "restore"}
          /\ pc'[p] = "fetch" => ~(nxt[p] > ListedHead(p))
          /\ pc'[p] = "restore" => hand'[p].gen \in lst[p].snaps
      BY <1>1, <2>3, WalkChooses
    <3>3. Index(p)' = Index(p)
      BY <3>1 DEF Index
    <3>4. pc'[p] = "restore" => hand'[p].gen <= ListedHead(p)
      BY <1>5, <3>2 DEF Level
    <3>5. pc'[p] = "fetch" => nxt'[p] <= ListedHead(p)
      BY <1>4, <3>1, <3>2
    <3>6. Index(p).gen <= ListedHead(p)
      BY <1>5, <3>1 DEF Level
    <3>7. Level(p)'
      BY <2>1, <3>2, <3>3, <3>4, <3>5, <3>6 DEF Level
    <3> QED BY <1>2, <3>7
  <2>4. CASE Restore(p)
    <3>1. /\ pc[p] = "restore" /\ idx' = [idx EXCEPT ![DeviceOf[p]] = hand[p]]
          /\ nxt'[p] = hand[p].gen + 1 /\ pc'[p] = AfterReplay(p, hand[p].gen + 1)
      BY <1>1, <2>4 DEF Restore, TypeOK, Goto
    <3>2. Index(p)' = hand[p]
      BY <1>1, <3>1 DEF Index, TypeOK
    <3>3. /\ pc'[p] \in {"caught", "fetch"}
          /\ (pc'[p] = "fetch" => ~(hand[p].gen + 1 > ListedHead(p)))
      BY <3>1 DEF AfterReplay
    <3>4. hand[p].gen <= ListedHead(p)
      BY <1>5, <3>1 DEF Level
    <3>5. pc'[p] = "fetch" => nxt'[p] <= ListedHead(p)
      BY <1>4, <3>1, <3>3
    <3>6. Level(p)'
      BY <2>1, <3>2, <3>3, <3>4, <3>5 DEF Level
    <3> QED BY <1>2, <3>6
  <2>5. CASE Fetch(p)
    <3>1. pc[p] = "fetch" /\ pc'[p] = "apply" /\ idx' = idx /\ nxt' = nxt
      BY <1>1, <2>5 DEF Fetch, TypeOK, Goto
    <3>2. Index(p)' = Index(p)
      BY <3>1 DEF Index
    <3>3. Level(p)'
      BY <1>5, <2>1, <3>1, <3>2 DEF Level
    <3> QED BY <1>2, <3>3
  <2>6. CASE Apply(p)
    <3>1. /\ pc[p] = "apply" /\ pc'[p] = AfterReplay(p, nxt[p] + 1) /\ nxt'[p] = nxt[p] + 1
          /\ idx' = [idx EXCEPT ![DeviceOf[p]] = ApplyTo(idx[DeviceOf[p]], rec[p])]
      BY <1>1, <2>6 DEF Apply, TypeOK, Goto
    <3>2. Index(p)' = ApplyTo(Index(p), rec[p])
      BY <1>1, <3>1 DEF Index, TypeOK
    <3>3. Index(p)'.gen \in {Index(p).gen, rec[p].gen}
      BY <3>2 DEF ApplyTo
    <3>4. Index(p).gen <= ListedHead(p) /\ rec[p].gen <= ListedHead(p)
      BY <1>5, <3>1 DEF Level, Reached
    <3>5. pc'[p] \in {"caught", "fetch"} /\ (pc'[p] = "fetch" => ~(nxt[p] + 1 > ListedHead(p)))
      BY <3>1 DEF AfterReplay
    <3>6. pc'[p] = "fetch" => nxt'[p] <= ListedHead(p)
      BY <1>4, <3>1, <3>5
    <3>7. Index(p)'.gen <= ListedHead(p)'
      BY <2>1, <3>3, <3>4
    <3>8. Level(p)'
      BY <2>1, <3>5, <3>6, <3>7 DEF Level
    <3> QED BY <1>2, <3>8
  <2> QED BY <1>8, <2>2, <2>3, <2>4, <2>5, <2>6
<1> QED BY <1>6, <1>7, <1>8 DEF CatchUpStep

LEMMA CommitLevel ==
  ASSUME CatalogInv, CheckpointInv, NEW p \in Procs, CommitStep(p)
  PROVE  Level(p)' /\ UNCHANGED <<live, created, snaps>>
<1> USE ProcAssumption DEF ProcAssumption
<1>1. TypeOK /\ TypeOK'
  BY CommitTypeInv DEF CatalogInv, ChainInv, TypeInv
<1>2. UNCHANGED <<live, created, snaps>>
  BY DEF CommitStep, Check, CheckMissing, ReadStanding, Replicate, ReplicateRefused,
         Aim, AimMoved, AimMissing, Send, Created, Refused, ReadBackOwn,
         ReadBackOther, Refresh, TrashRemovals, storage
<1>3. Named' = Named
  BY <1>2 DEF Named
<1>4. /\ Index(p) \in Catalogs /\ Index(p).gen \in Int
      /\ hand[p].gen \in Int /\ nxt[p] \in Nat /\ ListedHead(p) \in Int
      /\ rec[p] \in Records /\ rec[p].gen \in Nat
  BY <1>1, Measures
<1>5. Level(p)
  BY DEF CheckpointInv
<1>6. CASE lst'[p] = NoListing /\ pc'[p] = "idle"
  BY <1>2, <1>5, <1>6, RestsLevel
<1>7. CASE lst'[p] = lst[p] /\ pc'[p] = "list"
  BY <1>2, <1>5, <1>7, RestsLevel
<1>8. CASE lst' = lst
  <2>1. /\ ListedHead(p)' = ListedHead(p)
        /\ \A g \in lst'[p].snaps : g <= ListedHead(p)' /\ g \in Named'
    BY <1>3, <1>5, <1>8 DEF ListedHead, Level
  <2>2. CASE /\ idx' = idx
             /\ pc[p] \in {"caught", "standing", "replicate"}
             /\ pc'[p] \in {"standing", "replicate", "aim"}
    <3>1. Index(p)' = Index(p)
      BY <2>2 DEF Index
    <3>2. Level(p)'
      BY <1>5, <2>1, <2>2, <3>1 DEF Level
    <3> QED BY <1>2, <3>2
  <2>3. CASE Aim(p)
    <3>1. /\ idx' = idx /\ rec' = rec /\ pc[p] = "aim" /\ pc'[p] = "send"
      BY <1>1, <2>3 DEF Aim, TypeOK, Goto
    <3>2. rec[p].gen = ListedHead(p) + 1
      BY <3>1 DEF CatalogInv, ChainInv, Local, Aiming
    <3>3. Index(p).gen <= ListedHead(p)
      BY <1>5, <3>1 DEF Level
    <3>4. Index(p)' = Index(p) /\ Index(p).gen < rec[p].gen
      BY <1>4, <3>1, <3>2, <3>3 DEF Index
    <3>5. Level(p)'
      BY <2>1, <3>1, <3>4 DEF Level
    <3> QED BY <1>2, <3>5
  <2>4. CASE Send(p) \/ Created(p) \/ Refused(p) \/ ReadBackOwn(p)
    <3>1. /\ idx' = idx /\ pc[p] \in {"send", "await", "readback"}
          /\ pc'[p] \in {"await", "readback", "refresh"}
      BY <1>1, <2>4 DEF Send, Created, Refused, ReadBackOwn, TypeOK, Goto
    <3>2. rec'[p].gen = rec[p].gen
      BY <1>1, <2>4 DEF Send, Created, Refused, ReadBackOwn, OwnRecords, TypeOK
    <3>3. Index(p)' = Index(p) /\ Index(p).gen < rec[p].gen
      BY <1>5, <3>1 DEF Index, Level
    <3>4. Level(p)'
      BY <2>1, <3>1, <3>2, <3>3 DEF Level
    <3> QED BY <1>2, <3>4
  <2>5. CASE Refresh(p)
    <3>1. /\ idx' = [idx EXCEPT ![DeviceOf[p]] = ApplyTo(idx[DeviceOf[p]], rec[p])]
          /\ rec' = rec /\ pc[p] = "refresh" /\ pc'[p] = "clean"
      BY <1>1, <2>5 DEF Refresh, TypeOK, Goto
    <3>2. Index(p)' = ApplyTo(Index(p), rec[p])
      BY <1>1, <3>1 DEF Index, TypeOK
    <3>3. Index(p).gen < rec[p].gen
      BY <1>5, <3>1 DEF Level
    <3>4. ~(rec[p].gen <= Index(p).gen)
      BY <1>4, <3>3
    <3>5. Index(p)'.gen = rec[p].gen
      BY <3>2, <3>4 DEF ApplyTo
    <3>6. Level(p)'
      BY <2>1, <3>1, <3>5 DEF Level
    <3> QED BY <1>2, <3>6
  <2>6. CASE idx' = idx /\ rec' = rec /\ pc[p] = "clean" /\ pc'[p] = "snapshot"
    <3>1. Index(p)' = Index(p) /\ Index(p).gen = rec[p].gen
      BY <1>5, <2>6 DEF Index, Level
    <3>2. Level(p)'
      BY <2>1, <2>6, <3>1 DEF Level
    <3> QED BY <1>2, <3>2
  <2>7. CASE CheckMissing(p) \/ ReplicateRefused(p) \/ AimMissing(p)
             \/ AimMoved(p) \/ ReadBackOther(p)
    <3>1. pc'[p] = "list" \/ (pc'[p] = "idle" /\ lst'[p] = NoListing)
      BY <1>1, <2>7, EndsAlone, RetriesAlone
      DEF CheckMissing, ReplicateRefused, AimMissing, AimMoved, ReadBackOther, TypeOK
    <3>2. lst'[p] = lst[p]
      BY <1>8
    <3> QED BY <1>6, <1>7, <3>1, <3>2
  <2>8. Check(p) => \/ pc'[p] = "standing" /\ pc[p] = "caught" /\ idx' = idx
                    \/ pc'[p] = "idle" /\ lst'[p] = NoListing
    BY <1>1, EndsAlone DEF Check, Goto, TypeOK
  <2>9. TrashRemovals(p) => \/ idx' = idx /\ rec' = rec /\ pc[p] = "clean" /\ pc'[p] = "snapshot"
                            \/ pc'[p] = "idle" /\ lst'[p] = NoListing
    BY <1>1, EndsAlone DEF TrashRemovals, Goto, TypeOK
  <2>10. ReadStanding(p) \/ Replicate(p) => <2>2!1
    BY <1>1 DEF ReadStanding, Replicate, Goto, TypeOK
  <2> QED BY <1>6, <2>2, <2>3, <2>4, <2>5, <2>6, <2>7, <2>8, <2>9, <2>10 DEF CommitStep
<1>9. \/ lst' = lst
      \/ lst'[p] = NoListing /\ pc'[p] = "idle"
  <2>1. CASE Check(p) \/ TrashRemovals(p)
    BY <1>1, <2>1, EndsAlone DEF Check, TrashRemovals, reading
  <2>2. CASE AimMoved(p) \/ ReadBackOther(p)
    BY <1>1, <2>2, RetriesAlone, EndsAlone DEF AimMoved, ReadBackOther
  <2>3. CASE CheckMissing(p) \/ ReplicateRefused(p) \/ AimMissing(p)
    BY <1>1, <2>3, EndsAlone DEF CheckMissing, ReplicateRefused, AimMissing
  <2>4. CASE \/ ReadStanding(p) \/ Replicate(p) \/ Aim(p) \/ Send(p) \/ Created(p)
             \/ Refused(p) \/ ReadBackOwn(p) \/ Refresh(p)
    BY <2>4 DEF ReadStanding, Replicate, Aim, Send, Created, Refused, ReadBackOwn, Refresh,
                reading
  <2> QED BY <2>1, <2>2, <2>3, <2>4 DEF CommitStep
<1> QED BY <1>6, <1>8, <1>9

\* A checkpoint that is put is of the head it is named after.
LEMMA PutCheckpointInv ==
  ASSUME CatalogInv, CheckpointInv, OwnIndex, NEW p \in Procs, PutSnapshot(p)
  PROVE  CheckpointInv'
<1> DEFINE new == [name |-> rec[p].gen, at |-> hand[p]]
<1>1. TypeOK
  BY DEF CatalogInv, ChainInv, TypeInv
<1>2. /\ pc[p] = "put" /\ pc'[p] \in {"gate", "done"} /\ snaps' = snaps \cup {new}
      /\ UNCHANGED <<live, created, idx, lst, hand, rec>>
  BY <1>1 DEF PutSnapshot, AfterCheckpoint, TypeOK, Goto, reading
<1>3. \A s \in snaps : s.name # rec[p].gen
  BY DEF PutSnapshot
<1>4. hand[p].gen = rec[p].gen
  BY <1>2, <1>3 DEF CheckpointInv, Level, Named
<1>5. rec[p].gen \in Nat /\ \A s \in snaps : s.name \in Nat
  BY <1>1, Measures DEF TypeOK
<1>6. Kept'
  BY <1>2 DEF CheckpointInv, Kept
<1>7. Checkpoints'
  <2>1. \A s \in snaps' : s.at.gen = s.name
    BY <1>2, <1>4 DEF CheckpointInv, Checkpoints
  <2>2. CASE snaps = {}
    BY <1>2, <1>5, <2>1, <2>2 DEF Checkpoints
  <2>3. ASSUME NEW s \in snaps, \A t \in snaps : t.name <= s.name PROVE Checkpoints'
    <3>1. CASE new.name <= s.name
      BY <1>2, <2>1, <2>3, <3>1 DEF Checkpoints
    <3>2. CASE ~(new.name <= s.name)
      <4>1. \A t \in snaps' : t.name <= new.name
        BY <1>2, <1>5, <2>3, <3>2
      <4> QED BY <1>2, <2>1, <4>1 DEF Checkpoints
    <3> QED BY <3>1, <3>2
  <2> QED BY <2>2, <2>3 DEF CheckpointInv, Checkpoints
<1>8. Level(p)'
  <2>1. Named' = Named \cup {hand[p].gen}
    <3>1. new.name = hand[p].gen
      BY <1>4
    <3> HIDE DEF new
    <3> QED BY <1>2, <3>1 DEF Named
  <2>2. ListedHead(p)' = ListedHead(p)
    BY <1>2 DEF ListedHead
  <2> QED BY <1>2, <2>1, <2>2 DEF CheckpointInv, Level
<1>9. \A q \in Procs \ {p} : Level(q)'
  <2>1. \A q \in Procs \ {p} : Same(q)
    BY <1>1, PruneAlone DEF PruneStep
  <2> QED BY <1>2, <2>1, OthersLevel DEF CheckpointInv
<1> QED BY <1>6, <1>7, <1>8, <1>9 DEF CheckpointInv

\* What goes to the trash is below the head, and covered by a Snapshot.
LEMMA PruneKeeps ==
  ASSUME CatalogInv, CheckpointInv, SlotsStay, NEW p \in Procs, Prune(p)
  PROVE  Kept'
<1>1. TypeOK
  BY DEF CatalogInv, ChainInv, TypeInv
<1>2. Minting /\ pc[p] = "prune" /\ UNCHANGED <<created, snaps>>
  BY DEF Prune, CatalogInv, ChainInv, Local, Pruning, SlotsStay
<1>3. PICK r \in Eligible(p) : live' = live \ {r} \/ live' = live
  BY <1>2 DEF Prune, Reach
<1>4. r \in created /\ r.gen <= hand[p].gen /\ r.gen < ListedHead(p) /\ r.gen \in Nat
  BY RecordFields DEF Eligible, CatalogInv, ChainInv, TypeInv, TypeOK, Local, Reading
<1>5. PICK h \in live : \A q \in created : q.gen <= h.gen
  BY DEF CheckpointInv, Kept
<1>6. h # r
  <2> DEFINE G == {q.gen : q \in lst[p].recs}
  <2>1. ListedHead(p) \in G \cup {-1} /\ ListedHead(p) \in Int
    <3>1. G \subseteq Gens
      BY <1>1, RecordFields DEF TypeOK, Gens
    <3>2. ListedHead(p) = Newest(G)
      BY DEF ListedHead
    <3> HIDE DEF G
    <3>3. Newest(G) \in G \cup {-1} /\ Newest(G) \in Gens
      BY <3>1, NewestIsGen
    <3>4. Newest(G) \in Int
      BY <3>3 DEF Gens
    <3> QED BY <3>2, <3>3, <3>4
  <2>2. ListedHead(p) # -1
    BY <1>4, <2>1
  <2>3. PICK q \in lst[p].recs : q.gen = ListedHead(p)
    BY <2>1, <2>2
  <2>4. q \in created /\ q.gen <= h.gen
    BY <1>5, <2>3 DEF CatalogInv, ChainInv, Local, Reading
  <2>5. h.gen \in Nat
    BY <1>1, <1>5, RecordFields DEF TypeOK
  <2> QED BY <1>4, <2>1, <2>3, <2>4, <2>5
<1>7. PICK s \in snaps : s.name = hand[p].gen
  BY <1>2 DEF CheckpointInv, Level, Named
<1>8. ~(s.name < r.gen)
  BY <1>1, <1>4, <1>7 DEF TypeOK
<1>9. ASSUME NEW q \in created, \A t \in snaps : t.name < q.gen PROVE q \in live'
  <2>1. q # r
    BY <1>8, <1>9
  <2>2. q \in live
    BY <1>9 DEF CheckpointInv, Kept
  <2> QED BY <1>3, <2>1, <2>2
<1> QED BY <1>2, <1>3, <1>5, <1>6, <1>9 DEF Kept

LEMMA PruneCheckpointInv ==
  ASSUME CatalogInv, CheckpointInv, SlotsStay, OwnIndex, NEW p \in Procs, PruneStep(p)
  PROVE  CheckpointInv'
<1> USE ProcAssumption DEF ProcAssumption
<1>1. TypeOK /\ Moves(p) /\ Level(p)
  BY DEF CatalogInv, ChainInv, TypeInv, Moves, Step, CheckpointInv
<1>2. CASE PutSnapshot(p)
  BY <1>2, PutCheckpointInv
<1>3. CASE Prune(p)
  <2>1. UNCHANGED <<created, snaps, idx, pc, lst, hand, rec>>
    BY <1>3 DEF Prune
  <2>2. Checkpoints'
    BY <2>1 DEF CheckpointInv, Checkpoints
  <2>3. \A q \in Procs \ {p} : Level(q)'
    <3>1. \A q \in Procs \ {p} : Same(q)
      BY <1>1, MovesAlone
    <3> QED BY <2>1, <3>1, OthersLevel DEF CheckpointInv
  <2>4. Level(p)'
    <3>1. ListedHead(p)' = ListedHead(p) /\ pc[p] = "prune" /\ Named' = Named
      BY <1>3, <2>1 DEF ListedHead, Prune, Named
    <3> QED BY <1>1, <2>1, <3>1 DEF Level
  <2> QED BY <1>3, <2>2, <2>3, <2>4, PruneKeeps DEF CheckpointInv
<1>4. CASE ~PutSnapshot(p) /\ ~Prune(p)
  <2>1. UNCHANGED <<live, created, snaps>>
    BY <1>4 DEF PruneStep, ReadCatalog, SnapshotExists, CommitDone, ReadHead,
                ReadHeadMissing, Gate, PruneDone, storage
  <2>2. Named' = Named
    BY <2>1 DEF Named
  <2>3. CASE lst'[p] = NoListing /\ pc'[p] = "idle"
    BY <1>1, <2>1, <2>3, RestsLevel, QuietCheckpointInv
  <2>4. CASE lst' = lst
    <3>1. /\ ListedHead(p)' = ListedHead(p)
          /\ \A g \in lst'[p].snaps : g <= ListedHead(p)' /\ g \in Named'
      BY <1>1, <2>2, <2>4 DEF ListedHead, Level
    <3>2. CASE ReadHead(p)
      <4>1. /\ idx' = idx /\ pc[p] = "caught"
            /\ pc'[p] = IF ListedHead(p) \in lst[p].snaps THEN "put" ELSE "snapshot"
            /\ rec'[p] \in CanRead(p, ListedHead(p))
        BY <1>1, <3>2 DEF ReadHead, TypeOK, Goto
      <4>2. rec'[p].gen = ListedHead(p)
        BY <1>1, <4>1, ReadsGen
      <4>3. /\ Index(p)' = Index(p) /\ Index(p).gen <= ListedHead(p)
            /\ ListedHead(p) <= Index(p).gen
        BY <1>1, <4>1 DEF Index, Level, Reached, CatalogInv
      <4>4. Index(p).gen \in Int /\ ListedHead(p) \in Int
        BY <1>1, Measures
      <4>5. Index(p)'.gen = rec'[p].gen
        BY <4>2, <4>3, <4>4
      <4>6. pc'[p] = "put" => rec'[p].gen \in Named'
        BY <3>1, <4>1, <4>2, <2>4
      <4>7. Level(p)'
        BY <3>1, <4>1, <4>5, <4>6 DEF Level
      <4> QED BY <1>1, <2>1, <4>7, QuietCheckpointInv
    <3>3. CASE ReadCatalog(p)
      <4>1. /\ hand'[p] = Index(p) /\ rec' = rec /\ pc[p] = "snapshot" /\ pc'[p] = "put"
        BY <1>1, <3>3 DEF ReadCatalog, TypeOK, Goto, Index
      <4>2. hand'[p].gen = rec'[p].gen
        BY <1>1, <4>1 DEF Level
      <4>3. Level(p)'
        BY <3>1, <4>1, <4>2 DEF Level
      <4> QED BY <1>1, <2>1, <4>3, QuietCheckpointInv
    <3>4. CASE SnapshotExists(p) /\ pc'[p] # "idle"
      <4>1. PICK s \in snaps : /\ s.name = rec[p].gen
                              /\ IF s.at.gen = s.name
                                 THEN /\ hand' = [hand EXCEPT ![p] = s.at]
                                      /\ Goto(p, AfterCheckpoint(p))
                                 ELSE Finish(p, "failed")
        BY <3>4 DEF SnapshotExists
      <4>2. s.at.gen = s.name
        BY <1>1, <3>4, <4>1, EndsAlone
      <4>3. hand'[p] = s.at /\ pc'[p] \in {"gate", "done"}
        BY <1>1, <4>1, <4>2 DEF TypeOK, Goto, AfterCheckpoint
      <4>4. hand'[p].gen \in Named'
        BY <2>2, <4>2, <4>3 DEF Named
      <4>5. Level(p)'
        BY <3>1, <4>3, <4>4 DEF Level
      <4> QED BY <1>1, <2>1, <4>5, QuietCheckpointInv
    <3>5. CASE Gate(p) /\ pc'[p] # "idle"
      <4>1. hand' = hand /\ pc[p] = "gate" /\ pc'[p] = "prune"
        BY <1>1, <3>5, EndsAlone DEF Gate, TypeOK, Goto
      <4>2. Level(p)'
        BY <1>1, <2>2, <3>1, <4>1 DEF Level
      <4> QED BY <1>1, <2>1, <4>2, QuietCheckpointInv
    <3>6. CASE pc'[p] = "idle"
      <4>1. lst'[p] = lst[p]
        BY <2>4
      <4> QED BY <1>1, <2>1, <3>6, <4>1, RestsLevel, QuietCheckpointInv
    <3>7. CommitDone(p) \/ ReadHeadMissing(p) \/ PruneDone(p) => pc'[p] = "idle"
      BY <1>1, EndsAlone DEF CommitDone, ReadHeadMissing, PruneDone
    <3> QED BY <1>4, <3>2, <3>3, <3>4, <3>5, <3>6, <3>7 DEF PruneStep
  <2>5. lst' = lst \/ (lst'[p] = NoListing /\ pc'[p] = "idle")
    <3>1. CASE SnapshotExists(p) \/ Gate(p)
      BY <1>1, <3>1, EndsAlone DEF SnapshotExists, Gate, reading
    <3>2. CASE CommitDone(p) \/ ReadHeadMissing(p) \/ PruneDone(p)
      BY <1>1, <3>2, EndsAlone DEF CommitDone, ReadHeadMissing, PruneDone
    <3>3. CASE ReadCatalog(p) \/ ReadHead(p)
      BY <3>3 DEF ReadCatalog, ReadHead, reading
    <3> QED BY <1>4, <3>1, <3>2, <3>3 DEF PruneStep
  <2> QED BY <2>3, <2>4, <2>5
<1> QED BY <1>2, <1>3, <1>4

LEMMA InitCheckpointInv == ASSUME Init PROVE CheckpointInv
<1>1. Kept
  BY DEF Init, Kept, FirstRecord
<1>2. Checkpoints /\ \A p \in Procs : Level(p)
  BY DEF Init, Checkpoints, Level, NoListing
<1> QED BY <1>1, <1>2 DEF CheckpointInv

LEMMA NextCheckpointInv ==
  ASSUME CatalogInv, CheckpointInv, SlotsStay, OwnIndex, [Next]_vars
  PROVE  CheckpointInv'
<1>1. TypeOK
  BY DEF CatalogInv, ChainInv, TypeInv
<1>2. CASE UNCHANGED vars
  BY <1>2 DEF vars, storage, reading, CheckpointInv, Kept, Checkpoints, Level, Index,
              ListedHead,
              Named
<1>3. ASSUME NEW r \in sent, Land(r) PROVE CheckpointInv'
  <2>1. /\ live' = live \cup {r} /\ created' = created \cup {r}
        /\ UNCHANGED <<snaps, idx, pc, lst, nxt, hand, rec>>
    BY <1>3 DEF Land, reading
  <2>2. r \in Records /\ created \subseteq Records /\ \A q \in created : q.gen \in Nat
    BY <1>1, RecordFields DEF TypeOK
  <2>3. \A q \in created : ~(r.gen <= q.gen)
    <3>1. ChainInv'
      BY <1>3, LandChainInv DEF CatalogInv
    <3> QED BY <1>3, <3>1, LandExtends DEF Passed
  <2>4. \A q \in created' : q.gen <= r.gen
    BY <2>1, <2>2, <2>3, RecordFields
  <2>5. Kept'
    BY <2>1, <2>4 DEF CheckpointInv, Kept
  <2>6. Checkpoints' /\ \A p \in Procs : Level(p)'
    BY <2>1 DEF CheckpointInv, Checkpoints, Level, Index, ListedHead, Named
  <2> QED BY <2>5, <2>6 DEF CheckpointInv
<1>4. ASSUME NEW p \in Procs, Moves(p) PROVE CheckpointInv'
  <2>1. Level(p)
    BY DEF CheckpointInv
  <2>2. CASE CatchUpStep(p)
    BY <1>1, <1>4, <2>2, CatchUpLevel, QuietCheckpointInv
  <2>3. CASE CommitStep(p)
    BY <1>1, <1>4, <2>3, CommitLevel, QuietCheckpointInv
  <2>4. CASE PruneStep(p)
    BY <2>4, PruneCheckpointInv
  <2>5. CASE ~Step(p)
    <3>1. UNCHANGED <<live, created, snaps>>
      BY <1>4, <2>5 DEF Moves, Prepare, Start, Abandon, storage
    <3>2. CASE Abandon(p)
      <4>1. pc'[p] = "idle" /\ lst'[p] = NoListing
        BY <1>1, <3>2, EndsAlone DEF Abandon
      <4> QED BY <1>1, <1>4, <2>1, <3>1, <4>1, RestsLevel, QuietCheckpointInv
    <3>3. CASE ~Abandon(p)
      <4>1. pc'[p] = "list" /\ lst'[p] = lst[p]
        BY <1>1, <1>4, <2>5, <3>3 DEF Moves, Prepare, Start, Goto, TypeOK, reading
      <4> QED BY <1>1, <1>4, <2>1, <3>1, <4>1, RestsLevel, QuietCheckpointInv
    <3> QED BY <3>2, <3>3
  <2> QED BY <2>2, <2>3, <2>4, <2>5 DEF Step
<1> QED BY <1>2, <1>3, <1>4, NextMoves

-----------------------------------------------------------------------------
(* What the invariant is for *)

LEMMA CheckpointsHold ==
  ASSUME SlotsStay, OwnIndex
  PROVE  Spec => [](CatalogInv /\ CheckpointInv)
<1>1. Init => AheadInv /\ CatalogInv /\ CheckpointInv
  <2>1. Init => AheadInv
    BY InitTypeInv DEF AheadInv, Ahead, Init
  <2> QED BY <2>1, InitCatalogInv, InitCheckpointInv
<1>2. AheadInv /\ CatalogInv /\ CheckpointInv /\ [Next]_vars
        => (AheadInv /\ CatalogInv /\ CheckpointInv)'
  BY NextAheadInv, NextCatalogInv, NextCheckpointInv DEF Advances
<1> QED BY <1>1, <1>2, PTL DEF Spec

\* Where no two processes share an Index, every Snapshot is the Index of the
\* head its name gives, so a device that adopts it stands at a head of the
\* chain (after_commit.rs checkpoint, CK-10).
THEOREM SnapshotsStand == SlotsStay /\ OwnIndex => (Spec => []SnapshotsAtTheirHead)
<1> SUFFICES ASSUME SlotsStay, OwnIndex PROVE Spec => []SnapshotsAtTheirHead
  OBVIOUS
<1>1. CatalogInv /\ CheckpointInv => SnapshotsAtTheirHead
  <2> SUFFICES ASSUME CatalogInv, CheckpointInv, NEW s \in snaps
               PROVE  s.at.gen = s.name /\ Follows(s.at)
    BY DEF SnapshotsAtTheirHead
  <2>1. s.at.gen = s.name /\ s.name \in Nat
    BY DEF CatalogInv, ChainInv, TypeInv, TypeOK, CheckpointInv, Checkpoints
  <2>2. s.at # NoCatalog
    BY <2>1 DEF NoCatalog
  <2> QED BY <2>1, <2>2 DEF CatalogInv, Catalogued, Sound
<1> QED BY <1>1, CheckpointsHold, PTL

\* And whatever prune has taken, wherever it stopped and whatever else ran, a
\* device with no Index reads the Library up to its head (prune/run.rs, CK-2,
\* CK-4).
THEOREM LibraryRecoverable == SlotsStay /\ OwnIndex => (Spec => []Recoverable)
<1> SUFFICES ASSUME SlotsStay, OwnIndex PROVE Spec => []Recoverable
  OBVIOUS
<1>1. CatalogInv /\ CheckpointInv => Recoverable
  <2> SUFFICES ASSUME CatalogInv, CheckpointInv PROVE Recoverable
    OBVIOUS
  <2>1. Named \subseteq Gens /\ \A r \in created : r.gen \in Nat
    BY RecordFields DEF CatalogInv, ChainInv, TypeInv, TypeOK, Named, Gens
  <2>2. \A s \in snaps : s.name <= Newest(Named)
    <3>1. CASE snaps = {}
      BY <3>1
    <3>2. ASSUME NEW s \in snaps, \A t \in snaps : t.name <= s.name
          PROVE  \A t \in snaps : t.name <= Newest(Named)
      <4>1. s.name \in Named /\ \A g \in Named : g <= s.name
        BY <3>2 DEF Named
      <4> QED BY <2>1, <3>2, <4>1, NewestIsTop
    <3> QED BY <3>1, <3>2 DEF CheckpointInv, Checkpoints
  <2>3. Newest(Named) \in Int
    <3>1. Newest(Named) \in Gens
      BY <2>1, NewestIsGen
    <3> QED BY <3>1 DEF Gens
  <2>4. ASSUME NEW r \in created, r.gen > Newest(Named) PROVE r \in live
    <3>1. \A s \in snaps : s.name < r.gen
      <4>1. \A s \in snaps : s.name \in Nat
        BY DEF CatalogInv, ChainInv, TypeInv, TypeOK
      <4> QED BY <2>1, <2>2, <2>3, <2>4, <4>1
    <3> QED BY <3>1 DEF CheckpointInv, Kept
  <2>5. Newest({s.name : s \in snaps}) = Newest(Named)
    BY DEF Named
  <2> QED BY <2>4, <2>5 DEF Recoverable, CheckpointInv, Checkpoints, Kept
<1> QED BY <1>1, CheckpointsHold, PTL
=============================================================================
