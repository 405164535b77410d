---------------------------- MODULE CommitProofs ----------------------------
(***************************************************************************)
(* Proofs about CommitProtocol for every number of processes, devices and  *)
(* batches.                                                                *)
(***************************************************************************)
EXTENDS CommitProperties, TLAPS

-----------------------------------------------------------------------------
(* Shapes *)

\* A process still on its way to an attempt has one to spare.
Spare(p) ==
  pc[p] \in {"idle", "list", "held", "walk", "restore", "fetch", "apply", "caught"}
    => tries[p] < Attempts

\* A process commits a batch of the Library's, and only one that commits
\* reaches the calls that write the candidate Keyring.
Working(p) ==
  /\ job[p] = "commit" => bat[p] \in Batches
  /\ pc[p] \in {"standing", "replicate"} => job[p] = "commit"

TypeInv == TypeOK /\ \A p \in Procs : Spare(p) /\ Working(p)

\* The newest of some generations is one of them, or -1.
LEMMA NewestIsGen ==
  ASSUME NEW S, S \subseteq Gens
  PROVE  Newest(S) \in S \cup {-1} /\ Newest(S) \in Gens
BY DEF Newest, Gens

\* The head a listing shows is the generation of a listed record, or -1.
LEMMA HeadIsGen ==
  ASSUME TypeOK, NEW p \in Procs
  PROVE  ListedHead(p) \in Gens
<1>1. {r.gen : r \in lst[p].recs} \subseteq Gens
  BY DEF TypeOK, Records, Gens
<1> QED BY <1>1, NewestIsGen DEF ListedHead

LEMMA InitTypeInv == ASSUME Init PROVE TypeInv
<1> USE ProcAssumption, BatchAssumption, PolicyAssumption
<1>1. FirstRecord \in Records /\ NoCatalog \in Catalogs /\ FirstCatalog \in Catalogs
  BY DEF FirstRecord, NoCatalog, FirstCatalog, Records, Catalogs, Gens
<1>2. NoListing \in [recs : SUBSET Records, snaps : SUBSET Nat]
  BY DEF NoListing
<1>3. TypeOK
  BY <1>1, <1>2 DEF Init, TypeOK, Calls, Gens, Containers
<1> QED BY <1>3 DEF Init, TypeInv, Spare, Working

\* Ending a run keeps every shape.
LEMMA FinishTypeInv ==
  ASSUME TypeInv, NEW p \in Procs, NEW how \in {"committed", "refused", "failed"},
         Finish(p, how), UNCHANGED <<live, created, sent, snaps, idx>>,
         trash' \subseteq Containers
  PROVE  TypeInv'
<1> USE ProcAssumption, BatchAssumption, PolicyAssumption
<1>1. FirstRecord \in Records /\ NoCatalog \in Catalogs
  BY DEF FirstRecord, NoCatalog, Records, Catalogs, Gens
<1>2. NoListing \in [recs : SUBSET Records, snaps : SUBSET Nat]
  BY DEF NoListing
<1>3. TypeOK'
  BY <1>1, <1>2 DEF TypeInv, TypeOK, Finish, Ended, Goto, Calls, Gens, Containers
<1>4. \A q \in Procs : Spare(q)' /\ Working(q)'
  BY DEF TypeInv, TypeOK, Finish, Ended, Goto, Spare, Working
<1> QED BY <1>3, <1>4 DEF TypeInv

LEMMA StopTypeInv ==
  ASSUME TypeInv, NEW p \in Procs, NEW how \in {"committed", "refused", "failed"},
         Finish(p, how), UNCHANGED <<storage, idx>>
  PROVE  TypeInv'
BY FinishTypeInv DEF storage, TypeInv, TypeOK

\* So does giving an attempt up for the next one.
LEMMA RetryTypeInv ==
  ASSUME TypeInv, NEW p \in Procs, Retry(p), UNCHANGED <<storage, idx>>
  PROVE  TypeInv'
<1>1. CASE ~Spent(p)
  <2>1. /\ pc' = [pc EXCEPT ![p] = "list"]
        /\ UNCHANGED <<storage, idx, job, reading, hand, rec, batching>>
    BY <1>1 DEF Retry, Goto
  <2>2. TypeOK'
    BY <2>1 DEF TypeInv, TypeOK, Calls, storage, reading, batching
  <2>3. \A q \in Procs : Spare(q)' /\ Working(q)'
    BY <1>1, <2>1, PolicyAssumption
    DEF TypeInv, TypeOK, Spare, Working, Spent, batching, PolicyAssumption
  <2> QED BY <2>2, <2>3 DEF TypeInv
<1>2. CASE Spent(p)
  BY <1>2, StopTypeInv DEF Retry
<1> QED BY <1>1, <1>2

LEMMA Defaults == FirstRecord \in Records /\ NoCatalog \in Catalogs
BY DEF FirstRecord, NoCatalog, Records, Catalogs, Gens

\* What a process reads through a listing are records.
LEMMA ReadsRecords ==
  ASSUME TypeOK, NEW p \in Procs, NEW g
  PROVE  CanRead(p, g) \subseteq Records
BY DEF TypeOK, CanRead, Listed, Reach

LEMMA AppliedIsCatalog ==
  ASSUME BatchAssumption, NEW cat \in Catalogs, NEW r \in Records
  PROVE  ApplyTo(cat, r) \in Catalogs
BY DEF BatchAssumption, ApplyTo, Catalogs, Records, Adds, Containers, Gens

\* The Index a replay goes on from stands at a generation, or below head-0.
LEMMA HeldGen ==
  ASSUME TypeOK, NEW p \in Procs
  PROVE  idx[DeviceOf[p]].gen + 1 \in Nat
<1>1. idx[DeviceOf[p]] \in Catalogs
  BY ProcAssumption DEF TypeOK, ProcAssumption
<1>2. \A cat \in Catalogs : cat.gen + 1 \in Nat
  BY DEF Catalogs, Gens
<1> QED BY <1>1, <1>2

LEMMA CatchUpTypeInv ==
  ASSUME TypeInv, NEW p \in Procs, CatchUpStep(p)
  PROVE  TypeInv'
<1> USE ProcAssumption, BatchAssumption, PolicyAssumption
<1> USE DEF TypeInv, TypeOK, Spare, Working, Goto, storage, reading, batching, Calls
<1>1. CASE List(p)
  BY <1>1 DEF List, Records
<1>2. CASE ReadHeld(p)
  <2>1. idx[DeviceOf[p]].gen + 1 \in Nat
    BY HeldGen
  <2>2. nxt' \in [Procs -> Nat]
    BY <1>2, <2>1 DEF ReadHeld
  <2> QED BY <1>2, <2>2 DEF ReadHeld
<1>3. CASE Walk(p)
  <2>1. AfterReplay(p, nxt[p]) \in {"caught", "fetch"}
    BY DEF AfterReplay
  <2> DEFINE above == {r.gen : r \in lst[p].recs} \ (0 .. Newest({nxt[p] - 1, Candidate(p)}))
  <2>a. PICK keep \in SUBSET UNION {CanRead(p, g) : g \in above} :
          kept' = [kept EXCEPT ![p] = keep]
    BY <1>3 DEF Walk
  <2>2. kept' \in [Procs -> SUBSET Records]
    <3>1. keep \subseteq Records
      BY ReadsRecords
    <3> QED BY <2>a, <3>1
  <2>3. hand' \in [Procs -> Catalogs] /\ pc' \in [Procs -> Calls]
    <3>1. CASE Candidate(p) = -1
      BY <1>3, <2>1, <3>1 DEF Walk
    <3>2. CASE Candidate(p) # -1
      <4>1. PICK s \in snaps : /\ hand' = [hand EXCEPT ![p] = s.at]
                              /\ pc' = [pc EXCEPT ![p] = "restore"]
        BY <1>3, <3>2 DEF Walk
      <4> QED BY <4>1
    <3> QED BY <3>1, <3>2
  <2>4. pc'[p] \in {"caught", "fetch", "restore"}
    BY <1>3, <2>1 DEF Walk
  <2>5. \A q \in Procs \ {p} : pc'[q] = pc[q]
    BY <1>3 DEF Walk
  <2> QED BY <1>3, <2>2, <2>3, <2>4, <2>5 DEF Walk
<1>4. CASE WalkRefused(p)
  BY <1>4, StopTypeInv DEF WalkRefused
<1>5. CASE Restore(p)
  <2>1. AfterReplay(p, hand[p].gen + 1) \in {"caught", "fetch"}
    BY DEF AfterReplay
  <2>2. hand[p] \in Catalogs /\ hand[p].gen + 1 \in Nat
    BY DEF Catalogs, Gens
  <2> QED BY <1>5, <2>1, <2>2, Defaults DEF Restore
<1>6. CASE Fetch(p)
  BY <1>6, ReadsRecords DEF Fetch
<1>7. CASE FetchMissing(p)
  BY <1>7, StopTypeInv DEF FetchMissing
<1>8. CASE Apply(p)
  <2>1. AfterReplay(p, nxt[p] + 1) \in {"caught", "fetch"}
    BY DEF AfterReplay
  <2>2. ApplyTo(idx[DeviceOf[p]], rec[p]) \in Catalogs
    BY AppliedIsCatalog DEF ProcAssumption
  <2> QED BY <1>8, <2>1, <2>2, Defaults DEF Apply
<1>9. CASE CaughtUp(p)
  BY <1>9, StopTypeInv DEF CaughtUp
<1> QED BY <1>1, <1>2, <1>3, <1>4, <1>5, <1>6, <1>7, <1>8, <1>9 DEF CatchUpStep

LEMMA CommitTypeInv ==
  ASSUME TypeInv, NEW p \in Procs, CommitStep(p)
  PROVE  TypeInv'
<1> USE ProcAssumption, BatchAssumption, PolicyAssumption
<1> USE DEF TypeInv, TypeOK, Spare, Working, Goto, storage, reading, batching, Calls
<1>1. CASE Check(p)
  <2>1. CASE Admits(idx[DeviceOf[p]], bat[p], rm[p])
    <3>1. Newest({base[p], ListedHead(p)}) \in Gens
      BY HeadIsGen, NewestIsGen
    <3>2. tries[p] + 1 \in 0 .. Attempts
      BY <1>1 DEF Check
    <3>3. /\ tries' = [tries EXCEPT ![p] = @ + 1]
          /\ base' = [base EXCEPT ![p] = Newest({base[p], ListedHead(p)})]
          /\ pc' = [pc EXCEPT ![p] = "standing"]
          /\ job[p] = "commit"
          /\ UNCHANGED <<storage, idx, job, reading, hand, rec, bat, rm, outcome>>
      BY <1>1, <2>1 DEF Check
    <3> HIDE DEF TypeInv
    <3>4. tries' \in [Procs -> 0 .. Attempts] /\ base' \in [Procs -> Gens]
      BY <3>1, <3>2, <3>3 DEF TypeInv
    <3> QED BY <3>3, <3>4 DEF TypeInv
  <2>2. CASE ~Admits(idx[DeviceOf[p]], bat[p], rm[p])
    BY <1>1, <2>2, StopTypeInv DEF Check
  <2> QED BY <2>1, <2>2
<1>2. CASE CheckMissing(p)
  BY <1>2, StopTypeInv DEF CheckMissing
<1>3. CASE ReadStanding(p)
  BY <1>3 DEF ReadStanding
<1>4. CASE Replicate(p)
  <2>1. bat[p] \in Batches
    BY <1>4 DEF Replicate
  <2>2. ListedHead(p) + 1 \in Nat
    BY HeadIsGen DEF Gens
  <2>3. Candidates(idx[DeviceOf[p]], bat[p], rm[p]) \subseteq Containers
    BY <2>1 DEF Candidates, Adds, Containers, Catalogs
  <2>4. [gen |-> ListedHead(p) + 1, batch |-> bat[p], rm |-> rm[p],
         maps |-> Candidates(idx[DeviceOf[p]], bat[p], rm[p]),
         from |-> hand[p].head] \in Records
    BY <2>1, <2>2, <2>3 DEF Records, Catalogs
  <2> QED BY <1>4, <2>4 DEF Replicate
<1>5. CASE ReplicateRefused(p)
  BY <1>5, StopTypeInv DEF ReplicateRefused
<1>6. CASE Aim(p)
  BY <1>6 DEF Aim
<1>7. CASE AimMoved(p)
  BY <1>7, RetryTypeInv DEF AimMoved
<1>8. CASE AimMissing(p)
  BY <1>8, StopTypeInv DEF AimMissing
<1>9. CASE Send(p)
  BY <1>9 DEF Send
<1>10. CASE Created(p)
  BY <1>10 DEF Created
<1>11. CASE Refused(p)
  BY <1>11 DEF Refused
<1>12. CASE ReadBackOwn(p)
  BY <1>12 DEF ReadBackOwn, OwnRecords
<1>13. CASE ReadBackOther(p)
  BY <1>13, RetryTypeInv DEF ReadBackOther
<1>14. CASE Refresh(p)
  <2>1. ApplyTo(idx[DeviceOf[p]], rec[p]) \in Catalogs
    BY AppliedIsCatalog
  <2> QED BY <1>14, <2>1 DEF Refresh
<1>15. CASE TrashRemovals(p)
  <2>1. PICK gone \in SUBSET rec[p].rm : trash' = trash \cup gone
    BY <1>15 DEF TrashRemovals
  <2>2. trash' \subseteq Containers
    BY <2>1 DEF Records
  <2>3. CASE Due(p)
    BY <1>15, <2>2, <2>3 DEF TrashRemovals
  <2>4. CASE ~Due(p)
    BY <1>15, <2>2, <2>4, FinishTypeInv DEF TrashRemovals
  <2> QED BY <2>3, <2>4
<1> QED BY <1>1, <1>2, <1>3, <1>4, <1>5, <1>6, <1>7, <1>8, <1>9, <1>10, <1>11,
           <1>12, <1>13, <1>14, <1>15 DEF CommitStep

LEMMA PruneTypeInv ==
  ASSUME TypeInv, NEW p \in Procs, PruneStep(p)
  PROVE  TypeInv'
<1> USE ProcAssumption, BatchAssumption, PolicyAssumption
<1> USE DEF TypeInv, TypeOK, Spare, Working, Goto, storage, reading, batching, Calls
<1>1. CASE ReadCatalog(p)
  BY <1>1 DEF ReadCatalog
<1>2. CASE PutSnapshot(p)
  BY <1>2 DEF PutSnapshot, AfterCheckpoint, Records
<1>3. CASE SnapshotExists(p)
  <2>1. PICK s \in snaps :
          /\ s.name = rec[p].gen
          /\ IF s.at.gen = s.name
             THEN /\ hand' = [hand EXCEPT ![p] = s.at]
                  /\ Goto(p, AfterCheckpoint(p))
                  /\ UNCHANGED <<job, reading, rec, batching>>
             ELSE Finish(p, "failed")
    BY <1>3 DEF SnapshotExists
  <2>2. UNCHANGED <<storage, idx>>
    BY <1>3 DEF SnapshotExists
  <2>3. CASE s.at.gen = s.name
    <3>1. s.at \in Catalogs
      OBVIOUS
    <3>2. /\ hand' = [hand EXCEPT ![p] = s.at]
          /\ pc' = [pc EXCEPT ![p] = AfterCheckpoint(p)]
          /\ UNCHANGED <<storage, idx, job, reading, rec, batching>>
      BY <2>1, <2>2, <2>3
    <3>3. AfterCheckpoint(p) \in {"gate", "done"}
      BY DEF AfterCheckpoint
    <3> QED BY <3>1, <3>2, <3>3
  <2>4. CASE s.at.gen # s.name
    BY <2>1, <2>2, <2>4, StopTypeInv
  <2> QED BY <2>3, <2>4
<1>4. CASE CommitDone(p)
  BY <1>4, StopTypeInv DEF CommitDone
<1>5. CASE ReadHead(p)
  BY <1>5, ReadsRecords DEF ReadHead
<1>6. CASE ReadHeadMissing(p)
  BY <1>6, StopTypeInv DEF ReadHeadMissing
<1>7. CASE Gate(p)
  <2>1. CASE RecordsTuple(hand[p], rec[p])
    BY <1>7, <2>1 DEF Gate
  <2>2. CASE ~RecordsTuple(hand[p], rec[p])
    BY <1>7, <2>2, StopTypeInv DEF Gate
  <2> QED BY <2>1, <2>2
<1>8. CASE Prune(p)
  <2>1. PICK r \in Eligible(p) : nxt' = [nxt EXCEPT ![p] = r.gen + 1]
    BY <1>8 DEF Prune
  <2>2. r \in Records
    BY DEF Eligible
  <2>3. r.gen + 1 \in Nat
    BY <2>2 DEF Records
  <2> QED BY <1>8, <2>1, <2>3 DEF Prune
<1>9. CASE PruneDone(p)
  BY <1>9, StopTypeInv DEF PruneDone
<1> QED BY <1>1, <1>2, <1>3, <1>4, <1>5, <1>6, <1>7, <1>8, <1>9 DEF PruneStep

LEMMA NextTypeInv == ASSUME TypeInv, [Next]_vars PROVE TypeInv'
<1> USE ProcAssumption, BatchAssumption, PolicyAssumption
<1>1. CASE UNCHANGED vars
  BY <1>1 DEF vars, TypeInv, TypeOK, Spare, Working, storage, reading, batching
<1>2. ASSUME NEW r \in sent, Land(r) PROVE TypeInv'
  BY <1>2 DEF Land, TypeInv, TypeOK, Spare, Working, reading, batching
<1>3. ASSUME NEW p \in Procs, NEW b \in Batches, NEW gone \in SUBSET Containers,
             Prepare(p, b, gone)
      PROVE TypeInv'
  BY <1>3 DEF Prepare, Goto, TypeInv, TypeOK, Spare, Working, Calls, Catalogs,
              storage, reading
<1>4. ASSUME NEW p \in Procs, NEW flow \in {"catchup", "prune"}, Start(p, flow)
      PROVE TypeInv'
  BY <1>4 DEF Start, Goto, TypeInv, TypeOK, Spare, Working, Calls,
              storage, reading, batching
<1>5. ASSUME NEW p \in Procs, Abandon(p) PROVE TypeInv'
  BY <1>5, StopTypeInv DEF Abandon
<1> QED
  BY <1>1, <1>2, <1>3, <1>4, <1>5, CatchUpTypeInv, CommitTypeInv, PruneTypeInv
  DEF Next, Step

\* Whatever runs on whichever devices, every variable keeps its shape, no run
\* spends more attempts than the policy allows, and Storage lists only what was
\* created (run.rs attempt_until_committed).
THEOREM TypesHold == Spec => []TypeOK
<1>1. Init => TypeInv
  BY InitTypeInv
<1>2. TypeInv /\ [Next]_vars => TypeInv'
  BY NextTypeInv
<1>3. TypeInv => TypeOK
  BY DEF TypeInv
<1> QED BY <1>1, <1>2, <1>3, PTL DEF Spec

-----------------------------------------------------------------------------
(* One successor *)

\* Where the chain stays one, a consumed slot stays consumed: identifiers are
\* never free again, and names are freed by prune alone.
SlotsStay == Minting \/ Pruners = {}

\* The record a slot came from was created, one generation below.
Rooted(r) ==
  IF r.gen = 0 THEN r = FirstRecord
  ELSE \E q \in created : q.gen = r.gen - 1 /\ q.batch = r.from

\* A catalog that stands at a head stands at one that was created.
Placed(cat) == cat.gen >= 0 => \E q \in created : q.gen = cat.gen /\ q.batch = cat.head

\* What a process has read, and what it is about to create.
Reading(p) ==
  /\ lst[p].recs \subseteq created /\ kept[p] \subseteq created
  /\ pc[p] \in {"apply", "refresh"} => rec[p] \in created
Aiming(p) ==
  /\ pc[p] = "aim" => rec[p].from = hand[p].head /\ rec[p].gen = ListedHead(p) + 1
  /\ pc[p] = "send" => /\ rec[p].from = hand[p].head
                       /\ rec[p].gen = hand[p].gen + 1 /\ hand[p].gen >= 0
Pruning(p) ==
  /\ job[p] = "prune" => p \in Pruners
  /\ pc[p] \in {"gate", "prune"} => job[p] = "prune"

Chained ==
  /\ OneSuccessor
  /\ \A r \in created \cup sent : Rooted(r)
  /\ Minting \/ live = created
AllPlaced ==
  /\ \A d \in Devices : Placed(idx[d])
  /\ \A p \in Procs : Placed(hand[p])
  /\ \A s \in snaps : Placed(s.at)
Local == \A p \in Procs : Reading(p) /\ Aiming(p) /\ Pruning(p)

ChainInv == TypeInv /\ Chained /\ AllPlaced /\ Local

LEMMA InitChainInv == ASSUME Init PROVE ChainInv
<1> USE ProcAssumption, BatchAssumption, PolicyAssumption
<1>1. TypeInv
  BY InitTypeInv
<1>2. Chained
  BY DEF Init, Chained, OneSuccessor, Rooted, FirstRecord
<1>3. AllPlaced
  BY DEF Init, AllPlaced, Placed, FirstRecord, NoCatalog, FirstCatalog
<1>4. Local
  BY DEF Init, Local, Reading, Aiming, Pruning, FirstRecord, NoListing
<1> QED BY <1>1, <1>2, <1>3, <1>4 DEF ChainInv

\* Through a listing a process reads only what was created.
LEMMA ReadsCreated ==
  ASSUME ChainInv, NEW p \in Procs, NEW g
  PROVE  CanRead(p, g) \subseteq created
BY DEF ChainInv, Local, Reading, TypeInv, TypeOK, CanRead, Listed, Reach

\* A create that lands takes a slot no record took: with every record rooted in
\* the one below, no other record has its generation.
LEMMA LandChained ==
  ASSUME ChainInv, NEW r \in sent, Land(r)
  PROVE  Chained'
<1>1. r \in Records /\ created \subseteq Records /\ sent \subseteq Records
  BY DEF ChainInv, TypeInv, TypeOK
<1>2. created' = created \cup {r} /\ sent' = sent /\ live' = live \cup {r}
  BY DEF Land
<1>3. \A q \in created : q.gen = r.gen => q = r
  <2> SUFFICES ASSUME NEW q \in created, q.gen = r.gen, q # r PROVE FALSE
    OBVIOUS
  <2>1. CASE Minting
    <3>1. ~(q.from = r.from)
      BY <2>1 DEF Land, SlotFree
    <3>2. r.gen # 0
      BY DEF ChainInv, Chained, Rooted
    <3>3. PICK q0 \in created : q0.gen = q.gen - 1 /\ q0.batch = q.from
      BY <3>2 DEF ChainInv, Chained, Rooted
    <3>4. PICK r0 \in created : r0.gen = r.gen - 1 /\ r0.batch = r.from
      BY <3>2 DEF ChainInv, Chained, Rooted
    <3>5. q0 = r0
      BY <3>3, <3>4 DEF ChainInv, Chained, OneSuccessor
    <3> QED BY <3>1, <3>3, <3>4, <3>5
  <2>2. CASE ~Minting
    BY <2>2 DEF Land, SlotFree, ChainInv, Chained
  <2> QED BY <2>1, <2>2
<1>4. OneSuccessor'
  BY <1>2, <1>3 DEF OneSuccessor, ChainInv, Chained
<1>5. (\A q \in created \cup sent : Rooted(q))'
  BY <1>2 DEF ChainInv, Chained, Rooted
<1>6. Minting \/ live' = created'
  BY <1>2 DEF ChainInv, Chained
<1> QED BY <1>4, <1>5, <1>6 DEF Chained

LEMMA LandChainInv ==
  ASSUME ChainInv, NEW r \in sent, Land(r)
  PROVE  ChainInv'
<1>1. TypeInv'
  BY NextTypeInv DEF Next, ChainInv
<1>2. /\ created' = created \cup {r}
      /\ UNCHANGED <<snaps, idx, pc, job, lst, nxt, kept, hand, rec>>
  BY DEF Land, reading
<1>3. AllPlaced'
  BY <1>2 DEF ChainInv, AllPlaced, Placed
<1>4. Local'
  BY <1>2 DEF ChainInv, Local, Reading, Aiming, Pruning, ListedHead
<1> QED BY <1>1, <1>3, <1>4, LandChained DEF ChainInv

\* Nothing new is stored: what is left to show is about the Indexes and the
\* process itself, at p the one that moved.
LEMMA QuietChainInv ==
  ASSUME ChainInv, TypeInv', NEW p \in Procs,
         UNCHANGED <<created, sent, snaps>>,
         Minting \/ live' = live,
         \A d \in Devices : Placed(idx[d])',
         Placed(hand[p])', Reading(p)', Aiming(p)', Pruning(p)',
         \A q \in Procs \ {p} : UNCHANGED <<pc[q], job[q], lst[q], kept[q], hand[q], rec[q]>>
  PROVE  ChainInv'
<1>1. Chained'
  BY DEF ChainInv, Chained, OneSuccessor, Rooted
<1>2. AllPlaced'
  BY DEF ChainInv, AllPlaced, Placed
<1>3. ASSUME NEW q \in Procs PROVE (Reading(q) /\ Aiming(q) /\ Pruning(q))'
  <2>1. CASE q = p
    BY <2>1
  <2>2. CASE q # p
    <3>1. /\ UNCHANGED <<pc[q], job[q], lst[q], kept[q], hand[q], rec[q]>>
          /\ Reading(q) /\ Aiming(q) /\ Pruning(q)
      BY <2>2 DEF ChainInv, Local
    <3> QED BY <3>1 DEF Reading, Aiming, Pruning, ListedHead
  <2> QED BY <2>1, <2>2
<1> QED BY <1>1, <1>2, <1>3 DEF ChainInv, Local

LEMMA StopChainInv ==
  ASSUME ChainInv, TypeInv', NEW p \in Procs, NEW how, Finish(p, how),
         UNCHANGED <<live, created, sent, snaps, idx>>
  PROVE  ChainInv'
<1> USE DEF ChainInv, TypeInv, TypeOK, Finish, Ended, Goto
<1>1. \A q \in Procs \ {p} :
        UNCHANGED <<pc[q], job[q], lst[q], kept[q], hand[q], rec[q]>>
  OBVIOUS
<1>2. /\ pc'[p] = "idle" /\ job'[p] = "none" /\ lst'[p] = NoListing
      /\ kept'[p] = {} /\ hand'[p] = NoCatalog
  OBVIOUS
<1>3. \A d \in Devices : Placed(idx[d])'
  BY DEF AllPlaced, Placed
<1>4. Placed(hand[p])' /\ Reading(p)' /\ Aiming(p)' /\ Pruning(p)'
  BY <1>2 DEF Placed, NoCatalog, Reading, NoListing, Aiming, Pruning
<1> QED BY <1>1, <1>3, <1>4, QuietChainInv

LEMMA RetryChainInv ==
  ASSUME ChainInv, TypeInv', NEW p \in Procs, Retry(p), UNCHANGED <<storage, idx>>
  PROVE  ChainInv'
<1>1. CASE ~Spent(p)
  <2> USE <1>1 DEF ChainInv, TypeInv, TypeOK, Retry, Goto, storage, reading, batching
  <2>1. \A q \in Procs \ {p} :
          UNCHANGED <<pc[q], job[q], lst[q], kept[q], hand[q], rec[q]>>
    OBVIOUS
  <2>2. pc'[p] = "list" /\ UNCHANGED <<job, lst, kept, hand, rec>>
    OBVIOUS
  <2>3. \A d \in Devices : Placed(idx[d])'
    BY DEF AllPlaced, Placed
  <2>4. Placed(hand[p])' /\ Reading(p)' /\ Aiming(p)' /\ Pruning(p)'
    BY <2>2 DEF AllPlaced, Placed, Local, Reading, Aiming, Pruning
  <2> QED BY <2>1, <2>3, <2>4, QuietChainInv
<1>2. CASE Spent(p)
  BY <1>2, StopChainInv DEF Retry, storage
<1> QED BY <1>1, <1>2

\* The catalog a created record leaves stands at a created head.
LEMMA AppliedIsPlaced ==
  ASSUME NEW cat, NEW r \in created, Placed(cat)
  PROVE  Placed(ApplyTo(cat, r))
BY DEF Placed, ApplyTo

LEMMA CatchUpChainInv ==
  ASSUME ChainInv, NEW p \in Procs, CatchUpStep(p)
  PROVE  ChainInv'
<1>1. TypeInv'
  BY CatchUpTypeInv DEF ChainInv
<1>2. UNCHANGED storage
  BY DEF CatchUpStep, List, ReadHeld, Walk, WalkRefused, Restore, Fetch, FetchMissing,
         Apply, CaughtUp
<1>3. UNCHANGED <<live, created, sent, snaps>>
  BY <1>2 DEF storage
<1> USE DEF ChainInv, TypeInv, TypeOK, Goto, reading, batching
<1>4. CASE List(p) \/ ReadHeld(p) \/ Walk(p) \/ Restore(p) \/ Fetch(p) \/ Apply(p)
  <2> USE <1>4 DEF List, ReadHeld, Walk, Restore, Fetch, Apply
  <2>1. \A q \in Procs \ {p} :
          UNCHANGED <<pc[q], job[q], lst[q], kept[q], hand[q], rec[q]>>
    OBVIOUS
  <2>2. \A d \in Devices : Placed(idx[d])'
    <3>1. CASE Restore(p)
      BY <1>3, <3>1 DEF AllPlaced, Placed
    <3>3. CASE Apply(p)
      <4>1. idx' = [idx EXCEPT ![DeviceOf[p]] = ApplyTo(idx[DeviceOf[p]], rec[p])]
        BY <3>3
      <4>2. DeviceOf[p] \in Devices /\ rec[p] \in created
        BY <3>3, ProcAssumption DEF Local, Reading, ProcAssumption
      <4>3. Placed(ApplyTo(idx[DeviceOf[p]], rec[p]))
        BY <4>2, AppliedIsPlaced DEF AllPlaced
      <4>4. \A d \in Devices : Placed(idx'[d])
        BY <4>1, <4>3 DEF AllPlaced
      <4> QED BY <1>3, <4>4 DEF Placed
    <3>2. CASE UNCHANGED idx
      BY <1>3, <3>2 DEF AllPlaced, Placed
    <3> QED BY <3>1, <3>2, <3>3
  <2>3. Placed(hand[p])'
    BY <1>3 DEF AllPlaced, Placed, NoCatalog
  <2>4. Reading(p)'
    BY <1>3, ReadsCreated DEF Local, Reading, AfterReplay
  <2>5. Aiming(p)' /\ Pruning(p)'
    BY DEF Local, Aiming, Pruning, AfterReplay
  <2> QED BY <1>1, <1>3, <2>1, <2>2, <2>3, <2>4, <2>5, QuietChainInv
<1>5. CASE WalkRefused(p) \/ FetchMissing(p) \/ CaughtUp(p)
  BY <1>1, <1>3, <1>5, StopChainInv DEF WalkRefused, FetchMissing, CaughtUp
<1> QED BY <1>4, <1>5 DEF CatchUpStep

LEMMA CommitChainInv ==
  ASSUME ChainInv, NEW p \in Procs, CommitStep(p)
  PROVE  ChainInv'
<1>1. TypeInv'
  BY CommitTypeInv DEF ChainInv
<1> USE DEF ChainInv, TypeInv, TypeOK, Goto, reading, batching, storage
<1>2. CASE \/ ReadStanding(p) \/ Replicate(p) \/ Aim(p) \/ Created(p) \/ Refused(p)
           \/ ReadBackOwn(p)
  <2> USE <1>2 DEF ReadStanding, Replicate, Aim, Created, Refused, ReadBackOwn
  <2>1. /\ UNCHANGED <<live, created, sent, snaps, idx, job, lst, kept>>
        /\ \A q \in Procs \ {p} : UNCHANGED <<pc[q], hand[q], rec[q]>>
    OBVIOUS
  <2>2. \A d \in Devices : Placed(idx[d])'
    BY <2>1 DEF AllPlaced, Placed
  <2>3. Placed(hand[p])'
    BY <2>1, ProcAssumption DEF AllPlaced, Placed, ProcAssumption
  <2>4. Reading(p)'
    BY <2>1 DEF Local, Reading, OwnRecords
  <2>5. Aiming(p)'
    <3>1. CASE Replicate(p)
      BY <3>1 DEF Aiming, ListedHead
    <3>2. CASE Aim(p)
      <4>1. PICK r \in lst[p].recs : r.gen = ListedHead(p)
        BY <3>2 DEF CanRead, Listed, Stands
      <4>2. ListedHead(p) >= 0
        BY <4>1 DEF Records
      <4> QED BY <3>2, <4>2 DEF Local, Aiming, Stands
    <3>3. CASE ReadStanding(p) \/ Created(p) \/ Refused(p) \/ ReadBackOwn(p)
      BY <3>3 DEF Aiming
    <3> QED BY <3>1, <3>2, <3>3
  <2>6. Pruning(p)'
    BY <2>1 DEF Local, Pruning
  <2> QED BY <1>1, <2>1, <2>2, <2>3, <2>4, <2>5, <2>6, QuietChainInv
<1>3. CASE Check(p)
  <2>1. CASE Admits(idx[DeviceOf[p]], bat[p], rm[p])
    <3> USE <1>3, <2>1 DEF Check
    <3>1. /\ UNCHANGED <<live, created, sent, snaps, idx, job, lst, kept, hand, rec>>
          /\ pc' = [pc EXCEPT ![p] = "standing"]
      OBVIOUS
    <3>2. /\ \A d \in Devices : Placed(idx[d])'
          /\ Placed(hand[p])' /\ Reading(p)' /\ Aiming(p)' /\ Pruning(p)'
      BY <3>1 DEF AllPlaced, Placed, Local, Reading, Aiming, Pruning
    <3> QED BY <1>1, <3>1, <3>2, QuietChainInv
  <2>2. CASE ~Admits(idx[DeviceOf[p]], bat[p], rm[p])
    BY <1>1, <1>3, <2>2, StopChainInv DEF Check
  <2> QED BY <2>1, <2>2
<1>4. CASE CheckMissing(p) \/ ReplicateRefused(p) \/ AimMissing(p)
  BY <1>1, <1>4, StopChainInv DEF CheckMissing, ReplicateRefused, AimMissing
<1>5. CASE AimMoved(p) \/ ReadBackOther(p)
  BY <1>1, <1>5, RetryChainInv DEF AimMoved, ReadBackOther
<1>6. CASE Send(p)
  <2>1. /\ sent' = sent \cup {rec[p]} /\ pc' = [pc EXCEPT ![p] = "await"]
        /\ UNCHANGED <<live, created, snaps, idx, job, lst, kept, hand, rec>>
    BY <1>6 DEF Send
  <2>2. Rooted(rec[p])
    <3>1. Placed(hand[p]) /\ Aiming(p) /\ pc[p] = "send"
      BY <1>6 DEF Send, AllPlaced, Local
    <3>2. /\ rec[p].from = hand[p].head /\ rec[p].gen = hand[p].gen + 1
          /\ hand[p].gen \in Nat
      BY <3>1 DEF Aiming, Catalogs, Gens
    <3>3. PICK q \in created : q.gen = hand[p].gen /\ q.batch = hand[p].head
      BY <3>1, <3>2 DEF Placed
    <3> HIDE DEF ChainInv, TypeInv, TypeOK
    <3>4. rec[p].gen # 0 /\ q.gen = rec[p].gen - 1 /\ q.batch = rec[p].from
      BY <3>2, <3>3
    <3> QED BY <3>4 DEF Rooted
  <2>3. Chained'
    <3>1. \A r \in created \cup sent' : Rooted(r)
      BY <2>1, <2>2 DEF Chained
    <3>2. (\A r \in created \cup sent : Rooted(r))'
      BY <2>1, <3>1 DEF Rooted
    <3> QED BY <2>1, <3>2 DEF Chained, OneSuccessor
  <2>4. AllPlaced' /\ Local'
    BY <2>1 DEF AllPlaced, Placed, Local, Reading, Aiming, Pruning, ListedHead
  <2> QED BY <1>1, <2>3, <2>4
<1>7. CASE Refresh(p)
  <2>1. /\ UNCHANGED <<live, created, sent, snaps, job, lst, kept, hand, rec>>
        /\ pc' = [pc EXCEPT ![p] = "clean"]
        /\ idx' = [idx EXCEPT ![DeviceOf[p]] = ApplyTo(idx[DeviceOf[p]], rec[p])]
    BY <1>7 DEF Refresh
  <2>2. Placed(ApplyTo(idx[DeviceOf[p]], rec[p]))
    BY <1>7, AppliedIsPlaced, ProcAssumption
    DEF Refresh, AllPlaced, Local, Reading, ProcAssumption
  <2>3. \A d \in Devices : Placed(idx'[d])
    BY <2>1, <2>2 DEF AllPlaced
  <2>4. \A d \in Devices : Placed(idx[d])'
    BY <2>1, <2>3 DEF Placed
  <2>5. Placed(hand[p])' /\ Reading(p)' /\ Aiming(p)' /\ Pruning(p)'
    BY <2>1 DEF AllPlaced, Placed, Local, Reading, Aiming, Pruning
  <2> QED BY <1>1, <2>1, <2>4, <2>5, QuietChainInv
<1>8. CASE TrashRemovals(p)
  <2>1. UNCHANGED <<live, created, sent, snaps, idx>>
    BY <1>8 DEF TrashRemovals
  <2>2. CASE Due(p)
    <3>1. UNCHANGED <<job, lst, kept, hand, rec>> /\ pc' = [pc EXCEPT ![p] = "snapshot"]
      BY <1>8, <2>2 DEF TrashRemovals
    <3>2. /\ \A d \in Devices : Placed(idx[d])'
          /\ Placed(hand[p])' /\ Reading(p)' /\ Aiming(p)' /\ Pruning(p)'
      BY <2>1, <3>1 DEF AllPlaced, Placed, Local, Reading, Aiming, Pruning
    <3> QED BY <1>1, <2>1, <3>1, <3>2, QuietChainInv
  <2>3. CASE ~Due(p)
    BY <1>1, <1>8, <2>1, <2>3, StopChainInv DEF TrashRemovals
  <2> QED BY <2>2, <2>3
<1> QED BY <1>2, <1>3, <1>4, <1>5, <1>6, <1>7, <1>8 DEF CommitStep

LEMMA PruneChainInv ==
  ASSUME ChainInv, SlotsStay, NEW p \in Procs, PruneStep(p)
  PROVE  ChainInv'
<1>1. TypeInv'
  BY PruneTypeInv DEF ChainInv
<1> USE DEF ChainInv, TypeInv, TypeOK, Goto, reading, batching, storage
<1>2. CASE ReadCatalog(p) \/ ReadHead(p)
  <2> USE <1>2 DEF ReadCatalog, ReadHead
  <2>1. /\ UNCHANGED <<live, created, sent, snaps, idx, job, lst, kept>>
        /\ \A q \in Procs \ {p} : UNCHANGED <<pc[q], hand[q], rec[q]>>
    OBVIOUS
  <2>2. \A d \in Devices : Placed(idx[d])'
    BY <2>1 DEF AllPlaced, Placed
  <2>3. Placed(hand[p])'
    BY <2>1, ProcAssumption DEF AllPlaced, Placed, ProcAssumption
  <2>4. Reading(p)' /\ Aiming(p)' /\ Pruning(p)'
    BY <2>1 DEF Local, Reading, Aiming, Pruning
  <2> QED BY <1>1, <2>1, <2>2, <2>3, <2>4, QuietChainInv
<1>3. CASE PutSnapshot(p)
  <2>1. /\ snaps' = snaps \cup {[name |-> rec[p].gen, at |-> hand[p]]}
        /\ pc' = [pc EXCEPT ![p] = AfterCheckpoint(p)]
        /\ UNCHANGED <<live, created, sent, idx, job, lst, kept, hand, rec>>
    BY <1>3 DEF PutSnapshot
  <2>2. Chained'
    BY <2>1 DEF Chained, OneSuccessor, Rooted
  <2>3. AllPlaced'
    BY <2>1 DEF AllPlaced, Placed
  <2>4. Local'
    BY <2>1 DEF Local, Reading, Aiming, Pruning, ListedHead, AfterCheckpoint
  <2> QED BY <1>1, <2>2, <2>3, <2>4
<1>4. CASE SnapshotExists(p)
  <2>1. UNCHANGED <<live, created, sent, snaps, idx>>
    BY <1>4 DEF SnapshotExists
  <2>2. CASE Finish(p, "failed")
    BY <1>1, <2>1, <2>2, StopChainInv
  <2>3. CASE ~Finish(p, "failed")
    <3>1. PICK s \in snaps : /\ hand' = [hand EXCEPT ![p] = s.at]
                            /\ pc' = [pc EXCEPT ![p] = AfterCheckpoint(p)]
                            /\ UNCHANGED <<job, lst, kept, rec>>
      BY <1>4, <2>3 DEF SnapshotExists
    <3>2. \A d \in Devices : Placed(idx[d])'
      BY <2>1 DEF AllPlaced, Placed
    <3>3. Placed(hand[p])'
      BY <2>1, <3>1 DEF AllPlaced, Placed
    <3>4. Reading(p)' /\ Aiming(p)' /\ Pruning(p)'
      BY <2>1, <3>1 DEF Local, Reading, Aiming, Pruning, AfterCheckpoint
    <3> QED BY <1>1, <2>1, <3>1, <3>2, <3>3, <3>4, QuietChainInv
  <2> QED BY <2>2, <2>3
<1>5. CASE CommitDone(p) \/ ReadHeadMissing(p) \/ PruneDone(p)
  BY <1>1, <1>5, StopChainInv DEF CommitDone, ReadHeadMissing, PruneDone
<1>6. CASE Gate(p)
  <2>1. CASE RecordsTuple(hand[p], rec[p])
    <3>1. /\ pc[p] = "gate" /\ pc' = [pc EXCEPT ![p] = "prune"]
          /\ UNCHANGED <<live, created, sent, snaps, idx, job, lst, kept, hand, rec>>
      BY <1>6, <2>1 DEF Gate
    <3>2. /\ \A d \in Devices : Placed(idx[d])'
          /\ Placed(hand[p])' /\ Reading(p)' /\ Aiming(p)' /\ Pruning(p)'
      BY <3>1 DEF AllPlaced, Placed, Local, Reading, Aiming, Pruning
    <3> QED BY <1>1, <3>1, <3>2, QuietChainInv
  <2>2. CASE ~RecordsTuple(hand[p], rec[p])
    BY <1>1, <1>6, <2>2, StopChainInv DEF Gate
  <2> QED BY <2>1, <2>2
<1>7. CASE Prune(p)
  <2>1. UNCHANGED <<created, sent, snaps, idx, pc, job, lst, kept, hand, rec>>
    BY <1>7 DEF Prune
  <2>2. Minting
    BY <1>7 DEF Prune, Local, Pruning, SlotsStay
  <2>3. /\ \A d \in Devices : Placed(idx[d])'
        /\ Placed(hand[p])' /\ Reading(p)' /\ Aiming(p)' /\ Pruning(p)'
    BY <2>1 DEF AllPlaced, Placed, Local, Reading, Aiming, Pruning, ListedHead
  <2> QED BY <1>1, <2>1, <2>2, <2>3, QuietChainInv
<1> QED BY <1>2, <1>3, <1>4, <1>5, <1>6, <1>7 DEF PruneStep

LEMMA NextChainInv == ASSUME ChainInv, SlotsStay, [Next]_vars PROVE ChainInv'
<1>1. TypeInv'
  BY NextTypeInv DEF ChainInv
<1> USE DEF ChainInv, TypeInv, TypeOK, Goto, reading, batching, storage
<1>2. CASE UNCHANGED vars
  BY <1>1, <1>2 DEF vars, Chained, OneSuccessor, Rooted, AllPlaced, Placed, Local,
                    Reading, Aiming, Pruning, ListedHead
<1>3. ASSUME NEW p \in Procs,
             \/ \E b \in Batches, gone \in SUBSET Containers : Prepare(p, b, gone)
             \/ \E flow \in {"catchup", "prune"} : Start(p, flow)
      PROVE ChainInv'
  <2> USE <1>3 DEF Prepare, Start
  <2>1. /\ UNCHANGED <<live, created, sent, snaps, idx, lst, kept, hand, rec>>
        /\ pc' = [pc EXCEPT ![p] = "list"]
        /\ \A q \in Procs \ {p} : UNCHANGED job[q]
    OBVIOUS
  <2>2. /\ \A d \in Devices : Placed(idx[d])'
        /\ Placed(hand[p])' /\ Reading(p)' /\ Aiming(p)'
    BY <2>1 DEF AllPlaced, Placed, Local, Reading, Aiming
  <2>3. Pruning(p)'
    BY <2>1 DEF Local, Pruning
  <2> QED BY <1>1, <2>1, <2>2, <2>3, QuietChainInv
<1>4. ASSUME NEW p \in Procs, Abandon(p) PROVE ChainInv'
  BY <1>1, <1>4, StopChainInv DEF Abandon
<1> QED
  BY <1>2, <1>3, <1>4, LandChainInv, CatchUpChainInv, CommitChainInv, PruneChainInv
  DEF Next, Step

\* Whatever two writers on any devices start from, whatever refusals and lost
\* answers they meet, and however often they are killed, a head has one
\* successor, on every Storage that mints identifiers, and on one that keys
\* objects by name as long as nothing is pruned (journal.rs, CP-2, CP-3).
THEOREM ChainIsOne == SlotsStay => (Spec => []OneSuccessor)
<1> SUFFICES ASSUME SlotsStay PROVE Spec => []OneSuccessor
  OBVIOUS
<1>1. Init => ChainInv
  BY InitChainInv
<1>2. ChainInv /\ [Next]_vars => ChainInv'
  BY NextChainInv
<1>3. ChainInv => OneSuccessor
  BY DEF ChainInv, Chained
<1> QED BY <1>1, <1>2, <1>3, PTL DEF Spec
=============================================================================
