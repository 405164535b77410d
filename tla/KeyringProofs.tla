--------------------------- MODULE KeyringProofs ---------------------------
(***************************************************************************)
(* Proofs about KeyringLifecycle and FetchMemory for every number of       *)
(* processes, devices, replicas, attempts and faults, and every cast: what *)
(* a selected generation loses, what stands before a commit or a prune     *)
(* goes on, and what a run may report as lost.                             *)
(***************************************************************************)
EXTENDS KeyringProperties, FiniteSetTheorems, TLAPS

-----------------------------------------------------------------------------
(* Shapes *)

Sets == [gen : Nat \ {0}, by : Procs \cup {Genesis}]
Copies == [set : Sets, pos : Positions, n : Nat]
Listings == [head : Nat, heads : SUBSET Nat, copies : SUBSET Copies]

\* The calls of each role, and those several have.
WriterCalls == {"again", "repair", "write", "prove", "aim", "create", "refresh", "forget"}
PrunerCalls == {"checkpoint", "records", "replicas"}
RefresherCalls == {"remember", "forget short"}
FetcherCalls == {"list turn", "listing", "keeping", "table turn", "waiting", "told"}
Calls == WriterCalls \cup PrunerCalls \cup RefresherCalls \cup FetcherCalls
           \cup {"idle", "catch up", "open", "read"}

Heads ==
  /\ setup \in Setups /\ chain \in Seq(Procs \cup {Genesis}) /\ Newest \in Nat \ {0}
  /\ live \subseteq 1 .. Newest /\ Newest \in live
  /\ snaps \in [Gens -> Nat] /\ idx \in [Devices -> 1 .. Newest]
Objects ==
  /\ stored \subseteq Copies /\ IsFiniteSet(stored)
  /\ gone \subseteq stored /\ bad \subseteq stored
  /\ \A c \in stored : c.set.gen <= Newest + 1
Holdings ==
  /\ pc \in [Procs -> Calls] /\ lst \in [Procs -> Listings] /\ com \in [Procs -> Sets]
  /\ verd \in [Procs -> [Positions -> Verdicts]] /\ mine \in [Procs -> SUBSET Copies]
  /\ left \in [Procs -> BOOLEAN] /\ tries \in [Procs -> Nat]
Histories == DOMAIN struck = Procs /\ DOMAIN through = Procs
Memory ==
  /\ kept \in [at : Nat, copies : SUBSET Copies]
  /\ table \in [gen : Nat, verd : [Positions -> Verdicts]]
  /\ fresh \subseteq Procs /\ waits \in [Procs -> Procs]
Types == Heads /\ Objects /\ Holdings /\ ran \in [Procs -> Nat] /\ Histories /\ Memory

\* Each call is one of its role; who waits is waiting.
Suits(l, r) ==
  /\ l \in WriterCalls => r = "writer"
  /\ l \in PrunerCalls => r = "pruner"
  /\ l \in RefresherCalls => r = "refresher"
  /\ l \in FetcherCalls => r = "fetcher"
  /\ l = "open" => r \in {"writer", "reader"}
  /\ l = "catch up" => r \in {"writer", "pruner", "reader", "refresher"}
  /\ l = "read" => r \in {"writer", "pruner", "reader", "fetcher"}
Places(p) ==
  /\ Suits(pc[p], Role(p))
  /\ waits[p] # p => pc[p] = "waiting"
  /\ ran[p] <= setup.runs[p] /\ (pc[p] # "idle" => ran[p] # 0)
  /\ tries[p] <= Attempts
  /\ Role(p) # "writer" \/ pc[p] \in {"idle", "forget"} => tries[p] = 0
  /\ pc[p] = "again" => tries[p] < Attempts

\* Each head of the chain past the first is a run of a writer's of its own, one
\* that is past its create.
Past == {"idle", "refresh", "forget"}
Attributes(f) ==
  /\ \A g \in 2 .. Newest :
       LET p == f[g][1] IN
         /\ f[g][2] <= ran[p]
         /\ f[g][2] = ran[p] => pc[p] \in Past
  /\ \A g, h \in 2 .. Newest : f[g] = f[h] => g = h
Counted == \E f \in [2 .. Newest -> Commits(setup)] : Attributes(f)

-----------------------------------------------------------------------------
(* The invariant *)

\* What a run reads under is what some head selects, and it reads through
\* objects Storage has held.
Reads(p) ==
  /\ com[p].gen \in 1 .. Newest /\ com[p] = Sel(com[p].gen)
  /\ lst[p].head \in 0 .. Newest
  /\ pc[p] = "refresh" => com[p].gen < Newest
  /\ Role(p) # "fetcher" => lst[p].copies \subseteq stored

\* Before it reads, a run has found nothing; what it put is of the set it
\* repairs, or of its candidate, and a position is put where it put one.
Blank == {"idle", "catch up", "open", "checkpoint", "again", "remember", "forget",
          "forget short"}
Works(p) ==
  /\ Role(p) # "fetcher" /\ pc[p] \in Blank => verd[p] = Unread
  /\ Role(p) # "fetcher" /\ pc[p] = "read" =>
       \A i \in Positions : verd[p][i] \in {"unread", "valid", "lost", "unfetched"}
  /\ pc[p] \notin {"repair", "write", "prove", "aim", "create", "refresh"} => mine[p] = {}
  /\ mine[p] \subseteq stored
  /\ pc[p] = "repair" => \A c \in mine[p] : c.set = com[p]
  /\ pc[p] \in {"write", "prove"} => \A c \in mine[p] : c.set = Candidate(p)
  /\ pc[p] \in {"repair", "write", "prove"} =>
       \A i \in Positions : verd[p][i] = "put" => \E c \in mine[p] : c.pos = i
  /\ pc[p] = "write" => \A i \in Positions : verd[p][i] \in {"unread", "put", "failed"}
  /\ pc[p] \in {"aim", "create"} => \A i \in Positions : verd[p][i] = "proved"

\* What a commit or a prune read or put back was valid since it listed Storage.
Passes(p) ==
  \A i \in Positions :
    \/ <<com[p].gen, i>> \notin through[p]
    \/ /\ pc[p] \notin {"write", "prove", "aim", "create", "records", "replicas"}
       /\ Role(p) # "fetcher" /\ pc[p] \in {"read", "repair"} =>
            verd[p][i] \notin {"valid", "proved"}

\* A prune disposes under the head it listed, once no record below it stands.
Disposes(p) ==
  /\ Role(p) = "pruner" /\ pc[p] \in {"read", "records", "replicas"} =>
       com[p].gen = lst[p].head
  /\ Role(p) = "pruner" /\ pc[p] \in {"catch up", "checkpoint", "read", "records"} =>
       left[p] \/ \A g \in live : g < lst[p].head => g \in lst[p].heads
  /\ pc[p] = "replicas" => \A g \in live : g >= com[p].gen

\* A candidate that may still be selected lost to Storage alone what was proved
\* of it.
Selects(p) ==
  pc[p] \in {"prove", "aim", "create"} /\ com[p].gen = Newest =>
    \A i \in Positions : verd[p][i] = "proved" =>
      Valid(Candidate(p), i) \/ <<Candidate(p), i>> \in hit

\* Where names are keys, the one object of a position is in the listing, or the
\* position was invalid at some time of the run; and what it found lost was.
TheCopy(s, i) == [set |-> s, pos |-> i, n |-> 1]
Sees(p) ==
  /\ Role(p) # "fetcher" /\ pc[p] # "idle" /\ lst[p].head # 0 =>
       \A i \in Positions :
         \/ TheCopy(Sel(lst[p].head), i) \in lst[p].copies
         \/ <<lst[p].head, i>> \in struck[p]
  /\ Role(p) # "fetcher" /\ com[p].gen = lst[p].head =>
       \A i \in Positions : verd[p][i] = "lost" => <<com[p].gen, i>> \in struck[p]
OneEach == \A c \in stored : c = TheCopy(c.set, c.pos)

Holds(p) == Places(p) /\ Reads(p) /\ Works(p) /\ Passes(p) /\ Disposes(p) /\ Selects(p)

KeyringInv == Types /\ Counted /\ SelectedSafe /\ \A p \in Procs : Holds(p)
LossInv == ~setup.minting => OneEach /\ \A p \in Procs : Sees(p)

-----------------------------------------------------------------------------
(* Steps keep every shape *)

\* What a set, an object and a default are made of.
LEMMA Defaults ==
  /\ Unread \in [Positions -> Verdicts]
  /\ NoListing \in Listings /\ NoListing.head = 0 /\ NoListing.copies = {}
  /\ NoTable \in [gen : Nat, verd : [Positions -> Verdicts]]
BY DEF Unread, Verdicts, NoListing, Listings, NoTable

LEMMA SelIsSet ==
  ASSUME Types, NEW g \in 1 .. Newest
  PROVE  Sel(g) \in Sets
<1>1. chain[g] \in Procs \cup {Genesis}
  BY DEF Types, Heads, Newest
<1> QED BY <1>1 DEF Sel, Sets

LEMMA InitTypes == ASSUME MInit PROVE Types
<1> DEFINE S == {[set |-> [gen |-> 1, by |-> Genesis], pos |-> i, n |-> 1] : i \in Positions}
<1> USE BoundAssumption
<1>1. chain \in Seq(Procs \cup {Genesis}) /\ Newest = 1
  BY DEF MInit, Init, Newest
<1>2. stored = S /\ IsFiniteSet(S)
  <2>1. IsFiniteSet(Positions)
    BY FS_Interval DEF Positions
  <2> DEFINE f == [i \in Positions |-> [set |-> [gen |-> 1, by |-> Genesis], pos |-> i, n |-> 1]]
  <2>2. f \in Surjection(Positions, S)
    BY DEF Surjection
  <2>3. IsFiniteSet(S)
    BY <2>1, <2>2, FS_Surjection
  <2> QED BY <2>3 DEF MInit, Init
<1>3. S \subseteq Copies /\ \A c \in S : c.set.gen = 1
  BY DEF Copies, Sets
<1>4. snaps \in [Gens -> Nat] /\ idx \in [Devices -> 1 .. Newest]
  BY <1>1 DEF MInit, Init
<1>5. com \in [Procs -> Sets]
  BY DEF MInit, Init, Sets
<1> HIDE DEF S
<1>6. /\ live \subseteq 1 .. Newest /\ Newest \in live /\ setup \in Setups
      /\ gone \subseteq stored /\ bad \subseteq stored
  BY <1>1 DEF MInit, Init
<1>7. /\ pc \in [Procs -> Calls] /\ lst \in [Procs -> Listings]
      /\ verd \in [Procs -> [Positions -> Verdicts]] /\ mine \in [Procs -> SUBSET Copies]
  BY Defaults DEF MInit, Init, Calls
<1>8. /\ left \in [Procs -> BOOLEAN] /\ tries \in [Procs -> Nat] /\ ran \in [Procs -> Nat]
      /\ DOMAIN struck = Procs /\ DOMAIN through = Procs
  BY DEF MInit, Init
<1>9. /\ kept \in [at : Nat, copies : SUBSET Copies]
      /\ table \in [gen : Nat, verd : [Positions -> Verdicts]]
      /\ fresh \subseteq Procs /\ waits \in [Procs -> Procs]
  BY Defaults DEF MInit
<1> QED BY <1>1, <1>2, <1>3, <1>4, <1>5, <1>6, <1>7, <1>8, <1>9
  DEF Types, Heads, Objects, Holdings, Histories, Memory

\* The histories follow whatever happens.
LEMMA RecordedTypes == ASSUME Recorded PROVE Histories'
BY DEF Recorded, Watch, Histories

\* One call of a process takes it to the next, or a position to a verdict.
LEMMA GotoTypes ==
  ASSUME Types, NEW p \in Procs, NEW l \in Calls, Goto(p, l)
  PROVE  pc' \in [Procs -> Calls]
BY DEF Types, Holdings, Goto

LEMMA JudgeTypes ==
  ASSUME Types, NEW p \in Procs, NEW i \in Positions, NEW v \in Verdicts, Judge(p, i, v)
  PROVE  verd' \in [Procs -> [Positions -> Verdicts]]
<1>1. verd \in [Procs -> [Positions -> Verdicts]]
  BY DEF Types, Holdings
<1> QED BY <1>1 DEF Judge

\* The end of a run, and another attempt, keep the shapes of what it holds.
LEMMA EndedTypes ==
  ASSUME Types, NEW p \in Procs, Ended(p)
  PROVE  Holdings'
<1>1. Sel(1) \in Sets
  BY SelIsSet DEF Types, Heads
<1>2. pc' \in [Procs -> Calls]
  BY DEF Types, Holdings, Ended, Goto, Calls, WriterCalls
<1>3. com' \in [Procs -> Sets]
  BY <1>1 DEF Types, Holdings, Ended
<1>4. lst' \in [Procs -> Listings] /\ verd' \in [Procs -> [Positions -> Verdicts]]
  BY Defaults DEF Types, Holdings, Ended
<1> QED BY <1>2, <1>3, <1>4 DEF Types, Holdings, Ended

LEMMA RetryTypes ==
  ASSUME Types, NEW p \in Procs, Retry(p)
  PROVE  Holdings'
<1>1. CASE Ended(p)
  BY <1>1, EndedTypes
<1>2. CASE ~Ended(p)
  <2>1. pc' \in [Procs -> Calls]
    BY <1>2 DEF Types, Holdings, Retry, Goto, Calls, WriterCalls
  <2>2. verd' \in [Procs -> [Positions -> Verdicts]]
    BY <1>2, Defaults DEF Types, Holdings, Retry
  <2> QED BY <1>2, <2>1, <2>2 DEF Types, Holdings, Retry
<1> QED BY <1>1, <1>2

\* The object a put makes is one more of the copies of a set.
LEMMA NewCopyIsCopy ==
  ASSUME Types, NEW s \in Sets, NEW i \in Positions
  PROVE  /\ NewCopy(s, i) \in Copies
         /\ NewCopy(s, i).set = s /\ NewCopy(s, i).pos = i
         /\ ~setup.minting => NewCopy(s, i) = TheCopy(s, i)
<1> DEFINE T == {c \in stored : c.set = s /\ c.pos = i}
<1>1. T \in SUBSET stored
  OBVIOUS
<1> HIDE DEF T
<1>2. Cardinality(T) \in Nat
  BY <1>1, FS_Subset, FS_CardinalityType DEF Types, Objects
<1> USE DEF T
<1>3. NewCopy(s, i) = [set |-> s, pos |-> i, n |-> IF setup.minting THEN 1 + Cardinality(T) ELSE 1]
  BY DEF NewCopy
<1> HIDE DEF T
<1> QED BY <1>2, <1>3 DEF Copies, TheCopy

\* The calls that change nothing but what the process holds.
LEMMA QuietTypes ==
  ASSUME Types, UNCHANGED <<chained, storage, ran, memory>>, Recorded, Holdings'
  PROVE  Types'
<1>1. Heads' /\ Objects'
  BY DEF Types, Heads, Objects, chained, storage, Newest
<1>2. Memory'
  BY DEF Types, Memory, memory
<1> QED BY <1>1, <1>2, RecordedTypes DEF Types

\* Up to the set it reads, and the reading of it.
LEMMA ListTypes ==
  ASSUME Types, NEW p \in Procs, List(p), UNCHANGED memory, Recorded
  PROVE  Types'
<1>1. Listing \in Listings
  BY DEF Types, Heads, Objects, Listing, Listings, Newest
<1>2. lst' \in [Procs -> Listings]
  BY <1>1 DEF Types, Holdings, List
<1>3. pc' \in [Procs -> Calls]
  BY GotoTypes DEF List, Calls
<1>4. tries[p] + (IF Role(p) = "writer" THEN 1 ELSE 0) \in Nat
  BY DEF Types, Holdings
<1>5. tries' \in [Procs -> Nat]
  BY <1>4 DEF Types, Holdings, List
<1>6. Begin(p) \/ ran' = ran
  BY DEF List
<1>7. ran' \in [Procs -> Nat]
  BY <1>6 DEF Types, Begin
<1>8. Holdings'
  BY <1>2, <1>3, <1>5 DEF Types, Holdings, List
<1>9. Heads' /\ Objects' /\ Memory'
  BY DEF Types, Heads, Objects, Memory, List, chained, storage, memory, Newest
<1> QED BY <1>7, <1>8, <1>9, RecordedTypes DEF Types

LEMMA CatchUpTypes ==
  ASSUME Types, NEW p \in Procs, Holds(p), CatchUp(p), UNCHANGED memory, Recorded
  PROVE  Types'
<1>1. PICK l \in Calls : Goto(p, l)
  BY DEF CatchUp, Calls, PrunerCalls, RefresherCalls
<1>2. pc' \in [Procs -> Calls]
  BY <1>1, GotoTypes
<1>3. lst[p].head \in 0 .. Newest
  BY DEF Holds, Reads
<1>4. \A d \in Devices : Greater(idx[d], lst[p].head) \in 1 .. Newest
  BY <1>3 DEF Types, Heads, Greater
<1>5. idx' \in [Devices -> 1 .. Newest]
  BY <1>4 DEF CatchUp, Types, Heads
<1>6. Heads'
  BY <1>5 DEF Types, Heads, CatchUp, Newest
<1>7. Objects' /\ Holdings' /\ Memory' /\ ran' = ran
  BY <1>2 DEF Types, Objects, Holdings, Memory, CatchUp, storage, memory, Newest
<1> QED BY <1>6, <1>7, RecordedTypes DEF Types

LEMMA ReadingTypes ==
  ASSUME Types, NEW p \in Procs, UNCHANGED memory, Recorded,
         \/ Open(p) \/ ReadDone(p) \/ Kill(p)
         \/ \E i \in Positions : ReadPosition(p, i)
  PROVE  Types'
<1>1. CASE ReadDone(p) \/ Kill(p)
  BY <1>1, EndedTypes, QuietTypes DEF ReadDone, Kill
<1>2. CASE Open(p)
  <2>1. setup.dev[p] \in Devices
    BY SetupAssumption DEF Types, Heads
  <2>2. Sel(idx[setup.dev[p]]) \in Sets
    BY <2>1, SelIsSet DEF Types, Heads
  <2>3. com' \in [Procs -> Sets]
    BY <1>2, <2>2 DEF Open, Types, Holdings
  <2>4. pc' \in [Procs -> Calls]
    BY <1>2, GotoTypes DEF Open, Calls
  <2>5. verd' \in [Procs -> [Positions -> Verdicts]]
    BY <1>2, Defaults DEF Types, Holdings, Open
  <2>6. Holdings'
    BY <1>2, <2>3, <2>4, <2>5 DEF Open, Types, Holdings
  <2> QED BY <1>2, <2>6, QuietTypes DEF Open
<1>3. CASE \E i \in Positions : ReadPosition(p, i)
  <2>1. PICK i \in Positions : ReadPosition(p, i)
    BY <1>3
  <2>2. PICK v \in Verdicts : Judge(p, i, v)
    BY <2>1 DEF ReadPosition, Judge, Found, Verdicts
  <2>3. verd' \in [Procs -> [Positions -> Verdicts]]
    BY <2>2, JudgeTypes
  <2>4. Holdings'
    BY <2>1, <2>3 DEF ReadPosition, Types, Holdings
  <2> QED BY <2>1, <2>4, QuietTypes DEF ReadPosition
<1> QED BY <1>1, <1>2, <1>3

\* A put makes a further object of the set it is of.
LEMMA PutTypes ==
  ASSUME Types, NEW s \in Sets, NEW i \in Positions, s.gen <= Newest + 1,
         Put(NewCopy(s, i)), UNCHANGED chain
  PROVE  Objects'
<1>1. stored' = stored \cup {NewCopy(s, i)}
  BY DEF Put
<1>2. IsFiniteSet(stored')
  BY <1>1, FS_AddElement DEF Types, Objects
<1>3. NewCopy(s, i) \in Copies /\ NewCopy(s, i).set = s
  BY NewCopyIsCopy
<1> QED BY <1>1, <1>2, <1>3 DEF Types, Objects, Put, Newest

LEMMA WriteTypes ==
  ASSUME Types, NEW p \in Procs, NEW i \in Positions, NEW s \in Sets,
         s.gen <= Newest + 1, Write(p, i, s), UNCHANGED memory, Recorded
  PROVE  Types'
<1>1. verd' \in [Procs -> [Positions -> Verdicts]]
  BY JudgeTypes DEF Write, Verdicts
<1>2. CASE /\ Put(NewCopy(s, i))
           /\ mine' = [mine EXCEPT ![p] = {c \in @ : c.pos # i} \cup {NewCopy(s, i)}]
  <2>1. mine' \in [Procs -> SUBSET Copies]
    BY <1>2, NewCopyIsCopy DEF Types, Holdings
  <2>2. Objects'
    BY <1>2, PutTypes DEF Write, chained
  <2>3. Heads' /\ Memory'
    BY DEF Types, Heads, Memory, Write, chained, memory, Newest
  <2>4. Holdings' /\ ran' = ran
    BY <1>1, <2>1 DEF Types, Holdings, Write
  <2> QED BY <2>2, <2>3, <2>4, RecordedTypes DEF Types
<1>3. CASE UNCHANGED <<storage, mine>>
  <2>1. Holdings'
    BY <1>1, <1>3 DEF Write, Types, Holdings
  <2> QED BY <1>3, <2>1, QuietTypes DEF Write
<1> QED BY <1>2, <1>3 DEF Write

\* What a candidate is.
LEMMA CandidateIsSet ==
  ASSUME Types, NEW p \in Procs, Reads(p)
  PROVE  /\ com[p] \in Sets /\ com[p].gen <= Newest
         /\ Candidate(p) \in Sets /\ Candidate(p).gen = com[p].gen + 1
BY DEF Types, Heads, Holdings, Reads, Sets, Candidate

\* A new head is one more, for which everything before stays in range.
LEMMA CreateTypes ==
  ASSUME Types, NEW p \in Procs, Create(p), com[p].gen = Newest,
         UNCHANGED memory, Recorded
  PROVE  Types'
<1>1. /\ chain' = Append(chain, p) /\ live' = live \cup {Newest + 1}
      /\ Goto(p, "refresh") /\ UNCHANGED <<lst, com, verd, mine, left, tries>>
      /\ UNCHANGED <<setup, snaps, idx, storage, faults, ran, hit>>
  BY DEF Create
<1>2. chain' \in Seq(Procs \cup {Genesis}) /\ Newest' = Newest + 1
  <2>1. chain \in Seq(Procs \cup {Genesis}) /\ p \in Procs \cup {Genesis}
    BY DEF Types, Heads
  <2> QED BY <1>1, <2>1 DEF Newest
<1>3. \A n \in 1 .. Newest : n \in 1 .. Newest'
  BY <1>2 DEF Types, Heads
<1>4. idx' \in [Devices -> 1 .. Newest']
  BY <1>1, <1>3 DEF Types, Heads
<1>5. live' \subseteq 1 .. Newest' /\ Newest' \in live' /\ Newest' \in Nat \ {0}
  BY <1>1, <1>2 DEF Types, Heads
<1>6. Heads'
  BY <1>1, <1>2, <1>4, <1>5 DEF Types, Heads
<1>7. \A c \in stored : c.set.gen \in Nat
  BY DEF Types, Objects, Copies, Sets
<1>8. Objects'
  BY <1>1, <1>2, <1>7 DEF Types, Heads, Objects, storage
<1>9. pc' \in [Procs -> Calls]
  BY <1>1, GotoTypes DEF Calls, WriterCalls
<1>10. Holdings' /\ Memory'
  BY <1>1, <1>9 DEF Types, Holdings, Memory, memory
<1> QED BY <1>1, <1>6, <1>8, <1>10, RecordedTypes DEF Types

\* A call that only moves the process on.
LEMMA OnlyGotoTypes ==
  ASSUME Types, NEW p \in Procs, NEW l \in Calls, Goto(p, l), Recorded,
         UNCHANGED <<chained, storage, ran, memory, lst, com, verd, mine, left, tries>>
  PROVE  Types'
<1>1. Holdings'
  BY GotoTypes DEF Types, Holdings
<1> QED BY <1>1, QuietTypes

LEMMA CommitTypes ==
  ASSUME Types, NEW p \in Procs, Holds(p), WriterStep(p), UNCHANGED memory, Recorded
  PROVE  Types'
<1> DEFINE Same == UNCHANGED <<chained, storage, ran>>
<1>1. CASE Ended(p) /\ Same
  BY <1>1, EndedTypes, QuietTypes
<1>2. CASE Retry(p) /\ Same
  BY <1>2, RetryTypes, QuietTypes
<1>3. CASE Examined(p)
  <2>1. \/ Ended(p) /\ Same
        \/ /\ Goto(p, "repair") /\ Same
           /\ UNCHANGED <<lst, com, verd, mine, left, tries>>
    BY <1>3 DEF Examined
  <2> QED BY <1>1, <2>1, OnlyGotoTypes DEF Calls, WriterCalls
<1>4. CASE Repaired(p)
  <2>1. \/ Ended(p) /\ Same
        \/ /\ Goto(p, "write") /\ Same /\ verd' = [verd EXCEPT ![p] = Unread]
           /\ mine' = [mine EXCEPT ![p] = {}] /\ UNCHANGED <<lst, com, left, tries>>
    BY <1>4 DEF Repaired
  <2>2. CASE Goto(p, "write") /\ Same /\ verd' = [verd EXCEPT ![p] = Unread]
             /\ mine' = [mine EXCEPT ![p] = {}] /\ UNCHANGED <<lst, com, left, tries>>
    <3>1. verd' \in [Procs -> [Positions -> Verdicts]] /\ mine' \in [Procs -> SUBSET Copies]
      BY <2>2, Defaults DEF Types, Holdings
    <3>2. pc' \in [Procs -> Calls]
      BY <2>2, GotoTypes DEF Calls, WriterCalls
    <3>3. Holdings'
      BY <2>2, <3>1, <3>2 DEF Types, Holdings
    <3> QED BY <2>2, <3>3, QuietTypes
  <2> QED BY <1>1, <2>1, <2>2
<1>5. CASE Replicated(p)
  <2>1. \/ Ended(p) /\ Same
        \/ /\ Goto(p, "prove") \/ Goto(p, "aim")
           /\ Same /\ UNCHANGED <<lst, com, verd, mine, left, tries>>
    BY <1>5 DEF Replicated
  <2> QED BY <1>1, <2>1, OnlyGotoTypes DEF Calls, WriterCalls
<1>6. CASE Aim(p)
  <2>1. \/ Ended(p) /\ Same
        \/ Retry(p) /\ Same
        \/ /\ Goto(p, "create") /\ Same
           /\ UNCHANGED <<lst, com, verd, mine, left, tries>>
    BY <1>6 DEF Aim
  <2> QED BY <1>1, <1>2, <2>1, OnlyGotoTypes DEF Calls, WriterCalls
<1>7. CASE Create(p)
  <2>1. CASE com[p].gen # Newest
    BY <1>2, <1>7, <2>1 DEF Create, chained
  <2> QED BY <1>7, <2>1, CreateTypes
<1>8. CASE Refresh(p)
  <2>1. com[p].gen + 1 \in 1 .. Newest
    BY <1>8 DEF Refresh, Holds, Reads, Types, Heads
  <2>2. \A d \in Devices : Greater(idx[d], com[p].gen + 1) \in 1 .. Newest
    BY <2>1 DEF Types, Heads, Greater
  <2>3. idx' \in [Devices -> 1 .. Newest]
    BY <1>8, <2>2 DEF Refresh, Types, Heads
  <2>4. Heads'
    BY <1>8, <2>3 DEF Types, Heads, Refresh, Newest
  <2>5. Objects' /\ Memory' /\ ran' = ran
    BY <1>8 DEF Types, Objects, Memory, Refresh, storage, memory, Newest
  <2> QED BY <1>8, <2>4, <2>5, EndedTypes, RecordedTypes DEF Types, Refresh
<1>9. CASE \E i \in Positions : Rewrite(p, i) \/ WriteReplica(p, i)
  <2>1. com[p] \in Sets /\ com[p].gen \in Nat /\ Newest \in Nat
    BY DEF Types, Heads, Holdings, Sets
  <2>2. com[p].gen <= Newest + 1 /\ Candidate(p).gen <= Newest + 1 /\ Candidate(p) \in Sets
    BY <2>1, CandidateIsSet DEF Holds
  <2> QED BY <1>9, <2>1, <2>2, WriteTypes DEF Rewrite, WriteReplica
<1>10. CASE \E i \in Positions : ReadBack(p, i)
  <2>1. verd' \in [Procs -> [Positions -> Verdicts]]
    BY <1>10, JudgeTypes DEF ReadBack, Verdicts
  <2>2. Holdings'
    BY <1>10, <2>1 DEF Types, Holdings, ReadBack
  <2> QED BY <1>10, <2>2, QuietTypes DEF ReadBack
<1> QED
  BY <1>3, <1>4, <1>5, <1>6, <1>7, <1>8, <1>9, <1>10 DEF WriterStep

\* The calls of a prune, and what Storage does.
LEMMA PruneTypes ==
  ASSUME Types, NEW p \in Procs, Holds(p), PrunerStep(p), UNCHANGED memory, Recorded
  PROVE  Types'
<1> DEFINE Same == UNCHANGED <<chained, storage, ran>>
<1> USE DEF Calls, PrunerCalls
<1>1. CASE Ended(p) /\ Same
  BY <1>1, EndedTypes, QuietTypes
<1>2. lst[p] \in Listings
  BY DEF Types, Holdings
<1>3. CASE Checkpoint(p)
  <2>1. setup.dev[p] \in Devices
    BY SetupAssumption DEF Types, Heads
  <2> DEFINE h == lst[p].head
             r == IF snaps[h] = 0 THEN idx[setup.dev[p]] ELSE snaps[h]
  <2>2. /\ snaps' = [snaps EXCEPT ![h] = r]
        /\ \/ /\ r = h /\ com' = [com EXCEPT ![p] = Sel(h)] /\ Goto(p, "read")
              /\ UNCHANGED <<lst, verd, mine, left, tries>>
           \/ r # h /\ Ended(p)
        /\ UNCHANGED <<setup, chain, live, idx, storage, ran>>
    BY <1>3 DEF Checkpoint
  <2>3. h \in Gens => r \in Nat
    BY <2>1 DEF Types, Heads
  <2>4. snaps' \in [Gens -> Nat]
    BY <2>2, <2>3 DEF Types, Heads
  <2>5. r = h => h \in 1 .. Newest
    <3>1. h \in 0 .. Newest
      BY DEF Holds, Reads
    <3>2. r # 0
      BY <2>1 DEF Types, Heads
    <3> QED BY <2>1, <3>1, <3>2 DEF Types, Heads
  <2>6. Heads' /\ Objects' /\ Memory'
    BY <2>2, <2>4 DEF Types, Heads, Objects, Memory, storage, memory, Newest
  <2>7. Holdings'
    <3>1. CASE Ended(p)
      BY <3>1, EndedTypes
    <3>2. CASE ~Ended(p)
      <4>1. com' \in [Procs -> Sets]
        BY <2>2, <2>5, <3>2, SelIsSet DEF Types, Holdings
      <4>2. pc' \in [Procs -> Calls]
        BY <2>2, <3>2, GotoTypes
      <4> QED BY <2>2, <3>2, <4>1, <4>2 DEF Types, Holdings
    <3> QED BY <3>1, <3>2
  <2> QED BY <2>2, <2>6, <2>7, RecordedTypes DEF Types
<1>4. CASE Gate(p) \/ RecordsTrashed(p) \/ Disposed(p)
  <2>1. \/ Ended(p) /\ Same
        \/ /\ Goto(p, "records") \/ Goto(p, "replicas")
           /\ Same /\ UNCHANGED <<lst, com, verd, mine, left, tries>>
    BY <1>4 DEF Gate, RecordsTrashed, Disposed
  <2> QED BY <1>1, <2>1, OnlyGotoTypes
<1>5. CASE TrashRecord(p)
  <2>1. PICK g \in lst[p].heads :
          /\ g < lst[p].head
          /\ lst' = [lst EXCEPT ![p].heads = @ \ {g}]
          /\ \/ live' = live \ {g} /\ UNCHANGED left
             \/ left' = [left EXCEPT ![p] = TRUE] /\ UNCHANGED live
    BY <1>5 DEF TrashRecord
  <2>2. UNCHANGED <<setup, chain, snaps, idx, storage, pc, com, verd, mine, tries, ran>>
    BY <1>5 DEF TrashRecord
  <2>3. lst' \in [Procs -> Listings]
    BY <1>2, <2>1 DEF Types, Holdings, Listings
  <2>4. Holdings'
    BY <2>1, <2>2, <2>3 DEF Types, Holdings
  <2>5. lst[p].head \in 0 .. Newest /\ g \in Nat
    BY <1>2 DEF Holds, Reads, Listings
  <2>6. g # Newest
    BY <2>1, <2>5 DEF Types, Heads
  <2>7. Heads' /\ Objects' /\ Memory'
    BY <2>1, <2>2, <2>6 DEF Types, Heads, Objects, Memory, storage, memory, Newest
  <2> QED BY <2>2, <2>4, <2>7, RecordedTypes DEF Types
<1>6. CASE Dispose(p)
  <2>1. PICK c \in Superseded(p) :
          /\ lst' = [lst EXCEPT ![p].copies = @ \ {c}]
          /\ gone' = gone \cup {c} \/ gone' = gone
          /\ UNCHANGED <<chained, stored, bad, pc, com, verd, mine, left, tries, ran>>
    BY <1>6 DEF Dispose
  <2>2. lst' \in [Procs -> Listings]
    BY <1>2, <2>1 DEF Types, Holdings, Listings
  <2>3. Role(p) = "pruner"
    BY <1>6 DEF Dispose, Holds, Places, Suits
  <2>4. c \in stored
    BY <2>1, <2>3 DEF Superseded, Holds, Reads
  <2>5. Heads' /\ Objects' /\ Memory' /\ Holdings'
    BY <2>1, <2>2, <2>4
    DEF Types, Heads, Objects, Memory, Holdings, chained, memory, Newest
  <2> QED BY <2>1, <2>5, RecordedTypes DEF Types
<1> QED BY <1>3, <1>4, <1>5, <1>6 DEF PrunerStep

LEMMA FaultTypes ==
  ASSUME Types, NEW c \in stored, Fault(c), UNCHANGED memory, Recorded
  PROVE  Types'
<1>1. Heads' /\ Objects' /\ Memory' /\ Holdings' /\ ran' = ran
  BY DEF Fault, Types, Heads, Objects, Memory, Holdings, chained, memory, run, Newest
<1> QED BY <1>1, RecordedTypes DEF Types

\* The calls of a fetch, and of what else the memory goes through.
LEMMA FetchTypes ==
  ASSUME Types, NEW p \in Procs, FetchStep(p) \/ Fetch(p) \/ Drop(p), Recorded
  PROVE  Types'
<1> USE DEF Calls, FetcherCalls, WriterCalls, RefresherCalls
<1>1. Heads' /\ Objects' /\ Histories'
  <2>1. UNCHANGED <<chained, storage>>
    BY DEF FetchStep, Fetch, Drop, ListTurn, ListRefused, ListRead, Keep, TableTurn,
           TableRead, Told, Remember, Forget, StorageSame
  <2> QED
    BY <2>1, RecordedTypes DEF Types, Heads, Objects, chained, storage, Newest
<1>2. /\ lst \in [Procs -> Listings] /\ com \in [Procs -> Sets] /\ lst[p] \in Listings
      /\ verd \in [Procs -> [Positions -> Verdicts]] /\ pc \in [Procs -> Calls]
      /\ \A q \in Procs : pc[q] \in Calls
  BY DEF Types, Holdings
<1>3. /\ kept \in [at : Nat, copies : SUBSET Copies]
      /\ table \in [gen : Nat, verd : [Positions -> Verdicts]]
      /\ waits \in [Procs -> Procs] /\ fresh \subseteq Procs
  BY DEF Types, Memory
<1>4. \A l \in Calls : \A S : Moved(S, l) => pc' \in [Procs -> Calls]
  BY <1>2 DEF Moved
<1>5. \A S \in SUBSET Procs : Freed(S) => waits' \in [Procs -> Procs]
  BY <1>3 DEF Freed
<1>6. Waiting(p) \subseteq Procs
  BY DEF Waiting
<1>7. Listing.copies \subseteq Copies
  BY DEF Types, Objects, Listing
<1>8. CASE Fetch(p)
  <2>1. setup.dev[p] \in Devices
    BY SetupAssumption DEF Types, Heads
  <2>2. Sel(idx[setup.dev[p]]) \in Sets
    BY <2>1, SelIsSet DEF Types, Heads
  <2>3. com' \in [Procs -> Sets] /\ pc' \in [Procs -> Calls]
    BY <1>2, <1>8, <2>2, GotoTypes DEF Fetch
  <2>4. Holdings' /\ Memory'
    BY <1>8, <2>3 DEF Fetch, Types, Holdings, Memory, memory
  <2>5. Begin(p)
    BY <1>8 DEF Fetch
  <2>6. ran' \in [Procs -> Nat]
    BY <2>5 DEF Begin, Types
  <2> QED BY <1>1, <2>4, <2>6 DEF Types
<1>9. CASE ListTurn(p)
  <2>1. /\ lst' = [lst EXCEPT ![p].copies = kept.copies]
           \/ (\E q \in Procs : lst' = [lst EXCEPT ![p].copies = lst[q].copies])
           \/ lst' = lst
    BY <1>9 DEF ListTurn, Lister
  <2>2. \A S \in SUBSET Copies : [lst EXCEPT ![p].copies = S] \in [Procs -> Listings]
    BY <1>2 DEF Listings
  <2>3. kept.copies \in SUBSET Copies /\ \A q \in Procs : lst[q].copies \in SUBSET Copies
    BY <1>2, <1>3 DEF Listings
  <2>4. lst' \in [Procs -> Listings]
    BY <1>2, <2>1, <2>2, <2>3
  <2>5. pc' \in [Procs -> Calls]
    <3>1. PICK l \in Calls : Goto(p, l)
      BY <1>9 DEF ListTurn
    <3> QED BY <3>1, GotoTypes
  <2>6. waits' \in [Procs -> Procs]
    BY <1>3, <1>9 DEF ListTurn, Lister
  <2>7. Holdings' /\ Memory' /\ ran' = ran
    BY <1>9, <2>4, <2>5, <2>6 DEF ListTurn, Types, Holdings, Memory
  <2> QED BY <1>1, <2>7 DEF Types
<1>10. CASE ListRefused(p)
  <2>1. Holdings' /\ Memory' /\ ran' = ran
    BY <1>4, <1>5, <1>6, <1>10 DEF ListRefused, Types, Holdings, Memory
  <2> QED BY <1>1, <2>1 DEF Types
<1>11. CASE ListRead(p)
  <2>1. lst' \in [Procs -> Listings]
    BY <1>2, <1>7, <1>11 DEF ListRead, Listings
  <2>2. pc' \in [Procs -> Calls]
    BY <1>2, <1>11 DEF ListRead
  <2>3. Holdings' /\ Memory' /\ ran' = ran
    BY <1>5, <1>6, <1>11, <2>1, <2>2 DEF ListRead, Types, Holdings, Memory
  <2> QED BY <1>1, <2>3 DEF Types
<1>12. CASE Keep(p) \/ Remember(p)
  <2>1. setup.dev[p] \in Devices
    BY SetupAssumption DEF Types, Heads
  <2>2. com[p].gen \in Nat /\ lst[p].copies \in SUBSET Copies
    BY <1>2 DEF Sets, Listings
  <2>3. idx[setup.dev[p]] \in Nat
    BY <2>1 DEF Types, Heads
  <2>4. \/ kept' = kept
        \/ \E g \in Nat : kept' = [at |-> g, copies |-> lst[p].copies]
    BY <1>12, <2>2, <2>3 DEF Keep, KeepAt, Remember
  <2>5. kept' \in [at : Nat, copies : SUBSET Copies]
    BY <1>3, <2>2, <2>4
  <2>6. pc' \in [Procs -> Calls]
    BY <1>12, GotoTypes DEF Keep, Remember
  <2>7. Holdings' /\ Memory' /\ ran' = ran
    BY <1>12, <2>5, <2>6 DEF Keep, Remember, Types, Holdings, Memory
  <2> QED BY <1>1, <2>7 DEF Types
<1>13. CASE TableTurn(p)
  <2>1. verd' \in [Procs -> [Positions -> Verdicts]]
    BY <1>2, <1>3, <1>13 DEF TableTurn
  <2>2. pc' \in [Procs -> Calls]
    <3>1. PICK l \in Calls : Goto(p, l)
      BY <1>13 DEF TableTurn
    <3> QED BY <3>1, GotoTypes
  <2>3. waits' \in [Procs -> Procs] /\ fresh' \subseteq Procs
    BY <1>3, <1>13 DEF TableTurn, Reader
  <2>4. Holdings' /\ Memory' /\ ran' = ran
    BY <1>13, <2>1, <2>2, <2>3 DEF TableTurn, Types, Holdings, Memory
  <2> QED BY <1>1, <2>4 DEF Types
<1>14. CASE TableRead(p)
  <2>1. verd' \in [Procs -> [Positions -> Verdicts]]
    BY <1>2, <1>14 DEF TableRead
  <2>2. com[p].gen \in Nat
    BY <1>2 DEF Sets
  <2>3. table' \in [gen : Nat, verd : [Positions -> Verdicts]]
    BY <1>2, <1>3, <1>14, <2>2 DEF TableRead
  <2>4. Waiting(p) \cup {p} \subseteq Procs
    BY <1>6
  <2>5. pc' \in [Procs -> Calls] /\ waits' \in [Procs -> Procs]
    BY <1>4, <1>5, <1>14, <2>4 DEF TableRead
  <2>6. Holdings' /\ Memory' /\ ran' = ran
    BY <1>14, <2>1, <2>3, <2>5 DEF TableRead, Types, Holdings, Memory
  <2> QED BY <1>1, <2>6 DEF Types
<1>15. CASE Told(p)
  <2>1. Holdings' /\ Memory' /\ ran' = ran
    BY <1>15, EndedTypes DEF Told, Types, Memory, memory
  <2> QED BY <1>1, <2>1 DEF Types
<1>16. CASE Drop(p)
  <2>1. lst' \in [Procs -> Listings] /\ verd' \in [Procs -> [Positions -> Verdicts]]
    BY <1>2, <1>16, Defaults DEF Drop
  <2>2. Sel(1) \in Sets
    BY SelIsSet DEF Types, Heads
  <2>3. com' \in [Procs -> Sets]
    BY <1>2, <1>16, <2>2 DEF Drop
  <2>4. pc' \in [Procs -> Calls] /\ waits' \in [Procs -> Procs]
    BY <1>2, <1>5, <1>6, <1>16 DEF Drop
  <2>5. Holdings' /\ Memory' /\ ran' = ran
    BY <1>16, <2>1, <2>3, <2>4 DEF Drop, Types, Holdings, Memory
  <2> QED BY <1>1, <2>5 DEF Types
<1>17. CASE Forget(p)
  <2>1. lst' \in [Procs -> Listings] /\ pc' \in [Procs -> Calls]
    BY <1>2, <1>17, Defaults DEF Forget
  <2>2. table' \in [gen : Nat, verd : [Positions -> Verdicts]]
    BY <1>3, <1>17, Defaults DEF Forget
  <2>3. Holdings' /\ Memory' /\ ran' = ran
    BY <1>17, <2>1, <2>2 DEF Forget, Types, Holdings, Memory
  <2> QED BY <1>1, <2>3 DEF Types
<1> QED
  BY <1>8, <1>9, <1>10, <1>11, <1>12, <1>13, <1>14, <1>15, <1>16, <1>17 DEF FetchStep

\* Every step keeps every shape.
LEMMA NextTypes == ASSUME Types, \A p \in Procs : Holds(p), Next PROVE Types'
<1>1. ASSUME NEW p \in Procs, RunStep(p), UNCHANGED memory, Recorded PROVE Types'
  BY <1>1, ListTypes, CatchUpTypes, ReadingTypes, CommitTypes, PruneTypes DEF RunStep
<1> QED BY <1>1, FaultTypes, FetchTypes, ReadingTypes DEF Next, Step

-----------------------------------------------------------------------------
(* What every step leaves of what others rely on *)

\* A history only ever tells more of a run that goes on, and less of what has
\* been invalid all along.
LEMMA Watched ==
  ASSUME Types, Recorded, NEW p \in Procs
  PROVE  /\ (pc'[p] = "catch up" => pc[p] = "catch up") => through'[p] \subseteq through[p]
         /\ through'[p] \subseteq Invalid'
         /\ pc'[p] # "idle" => Invalid' \subseteq struck'[p]
         /\ pc'[p] # "idle" /\ pc[p] # "idle" => struck[p] \subseteq struck'[p]
BY DEF Recorded, Watch

\* The chain and the objects grow; a valid object is lost to Storage, or to the
\* disposal of a generation no standing record selects; and a new head selects
\* a set that is whole but for what Storage did.
Grows ==
  /\ setup' = setup /\ Newest' \in {Newest, Newest + 1}
  /\ \A g \in 1 .. Newest : chain'[g] = chain[g]
  /\ stored \subseteq stored' /\ hit \subseteq hit'
  /\ \A c \in stored \ (gone \cup bad) :
       \/ c \in stored' \ (gone' \cup bad')
       \/ <<c.set, c.pos>> \in hit'
       \/ c.set.gen < Newest /\ c.set.gen \notin live
  /\ \A g \in live' \ live :
       /\ g = Newest + 1 /\ Newest' = Newest + 1
       /\ \A i \in Positions : Valid(Sel(g), i)' \/ <<Sel(g), i>>' \in hit'

\* A call that leaves Storage and the chain alone.
Calm == UNCHANGED <<setup, chain, live, storage, hit>>
LEMMA CalmGrows == ASSUME Types, Calm PROVE Grows
BY DEF Calm, Grows, storage, Newest

\* What was valid is, or Storage harmed it, or it was superseded.
LEMMA ValidStays ==
  ASSUME Types, Grows, NEW s, NEW i, Valid(s, i)
  PROVE  \/ Valid(s, i)' \/ <<s, i>> \in hit'
         \/ s.gen < Newest /\ s.gen \notin live
<1>1. PICK c \in stored \ (gone \cup bad) : c.set = s /\ c.pos = i
  BY DEF Valid
<1>2. Valid(s, i)' <=> \E d \in stored' \ (gone' \cup bad') : d.set = s /\ d.pos = i
  BY DEF Valid
<1> QED BY <1>1, <1>2 DEF Grows

LEMMA SelStays ==
  ASSUME Types, Grows, NEW g \in 1 .. Newest
  PROVE  Sel(g)' = Sel(g) /\ g \in 1 .. Newest'
<1>1. Newest \in Nat /\ Newest' \in {Newest, Newest + 1} /\ chain'[g] = chain[g]
  BY DEF Types, Heads, Grows
<1> QED BY <1>1 DEF Sel

LEMMA SelectedStays == ASSUME Types, Grows, SelectedSafe PROVE SelectedSafe'
<1> SUFFICES ASSUME NEW g \in live', NEW i \in Positions
             PROVE  Valid(Sel(g), i)' \/ <<Sel(g), i>>' \in hit'
  BY DEF SelectedSafe, Positions
<1>1. CASE g \in live
  <2>1. g \in 1 .. Newest
    BY <1>1 DEF Types, Heads
  <2>2. Sel(g)' = Sel(g) /\ Sel(g).gen = g
    BY <2>1, SelStays DEF Sel
  <2>3. Valid(Sel(g), i) \/ <<Sel(g), i>> \in hit
    BY <1>1 DEF SelectedSafe
  <2>4. CASE Valid(Sel(g), i)
    <3>1. (\E c \in stored' \ (gone' \cup bad') : c.set = Sel(g) /\ c.pos = i) \/ <<Sel(g), i>> \in hit'
      BY <1>1, <2>2, <2>4, ValidStays DEF Valid
    <3> QED BY <2>2, <3>1 DEF Valid
  <2> QED BY <2>2, <2>3, <2>4 DEF Grows
<1>2. CASE g \notin live
  BY <1>2 DEF Grows
<1> QED BY <1>1, <1>2

\* A process that a step is not of.
Still(p) ==
  /\ pc'[p] = pc[p] /\ lst'[p] = lst[p] /\ com'[p] = com[p] /\ verd'[p] = verd[p]
  /\ mine'[p] = mine[p] /\ left'[p] = left[p] /\ tries'[p] = tries[p]
  /\ ran'[p] = ran[p] /\ waits'[p] = waits[p]

LEMMA BystanderHolds ==
  ASSUME Types, Types', NEW p \in Procs, Holds(p), Still(p), Grows, Recorded
  PROVE  Holds(p)'
<1>1. Newest \in Nat /\ Newest' \in {Newest, Newest + 1} /\ Role(p)' = Role(p)
  BY DEF Types, Heads, Grows, Role
<1>2. Places(p)'
  BY <1>1 DEF Holds, Places, Still, Grows
<1>3. com[p].gen \in 1 .. Newest /\ com[p] = Sel(com[p].gen)
  BY DEF Holds, Reads
<1>4. Reads(p)'
  <2>1. com'[p].gen \in 1 .. Newest' /\ com'[p] = Sel(com[p].gen)'
    BY <1>3, SelStays DEF Still
  <2>2. lst'[p].head \in 0 .. Newest'
    BY <1>1 DEF Holds, Reads, Still
  <2>3. pc'[p] = "refresh" => com'[p].gen < Newest'
    BY <1>1, <1>3 DEF Holds, Reads, Still
  <2>4. Role(p)' # "fetcher" => lst'[p].copies \subseteq stored'
    BY <1>1 DEF Holds, Reads, Still, Grows
  <2> QED BY <2>1, <2>2, <2>3, <2>4 DEF Reads, Still, Sel
<1>5. Works(p)'
  BY <1>1 DEF Holds, Works, Still, Grows, Candidate, Unread, Positions
<1>6. Passes(p)'
  <2>1. through'[p] \subseteq through[p]
    BY Watched DEF Still
  <2> QED BY <1>1, <2>1 DEF Holds, Passes, Still, Positions
<1>7. Disposes(p)'
  <2>1. \A g \in live' : g \in live \/ g = Newest + 1
    BY DEF Grows
  <2>2. lst[p].head \in 0 .. Newest
    BY DEF Holds, Reads
  <2>3. \A g \in live : g \in Nat
    BY DEF Types, Heads
  <2>4. /\ pc'[p] = pc[p] /\ lst'[p] = lst[p] /\ com'[p] = com[p] /\ left'[p] = left[p]
        /\ Disposes(p)
    BY DEF Holds, Still
  <2>5. \A g \in live' : g < lst[p].head => g \in live
    BY <1>1, <2>1, <2>2
  <2>6. pc[p] = "replicas" => \A g \in live' : g >= com[p].gen
    BY <1>1, <1>3, <2>1, <2>3, <2>4 DEF Disposes
  <2> QED BY <1>1, <2>4, <2>5, <2>6 DEF Disposes
<1>8. Selects(p)'
  <2> SUFFICES ASSUME pc'[p] \in {"prove", "aim", "create"}, com'[p].gen = Newest',
                      NEW i \in Positions, verd'[p][i] = "proved"
               PROVE  Valid(Candidate(p), i)' \/ <<Candidate(p), i>>' \in hit'
    BY DEF Selects, Positions
  <2>1. Candidate(p)' = Candidate(p) /\ Candidate(p).gen = Newest + 1 /\ com[p].gen = Newest
    <3>1. com'[p] = com[p]
      BY DEF Still
    <3>2. com[p].gen = Newest
      BY <1>1, <1>3, <3>1
    <3> QED BY <3>1, <3>2 DEF Candidate
  <2>2. Valid(Candidate(p), i) \/ <<Candidate(p), i>> \in hit
    BY <2>1 DEF Holds, Selects, Still
  <2>3. (\E c \in stored' \ (gone' \cup bad') : c.set = Candidate(p) /\ c.pos = i)
          \/ <<Candidate(p), i>> \in hit'
    BY <1>1, <2>1, <2>2, ValidStays DEF Valid, Grows
  <2> QED BY <2>1, <2>3 DEF Valid
<1> QED BY <1>2, <1>4, <1>5, <1>6, <1>7, <1>8 DEF Holds

\* A run that is past its create begins anew before it is not.
Advances(p) ==
  /\ ran[p] <= ran'[p]
  /\ Role(p) = "writer" /\ pc[p] \in Past /\ pc'[p] \notin Past => ran[p] < ran'[p]
LEMMA CountedStays ==
  ASSUME Types, Types', Counted, UNCHANGED <<setup, chain>>, \A p \in Procs : Advances(p)
  PROVE  Counted'
<1>1. PICK f \in [2 .. Newest -> Commits(setup)] : Attributes(f)
  BY DEF Counted
<1>2. Newest' = Newest /\ Newest \in Nat
  BY DEF Newest, Types, Heads
<1>3. ASSUME NEW g \in 2 .. Newest
      PROVE  /\ f[g][2] <= ran'[f[g][1]]
             /\ f[g][2] = ran'[f[g][1]] => pc'[f[g][1]] \in Past
  <2>1. f[g][1] \in Procs /\ Role(f[g][1]) = "writer" /\ f[g][2] \in Nat
    <3>1. f[g] \in Commits(setup)
      BY <1>1
    <3>2. PICK q \in Procs : setup.role[q] = "writer" /\ f[g] \in {q} \X (1 .. setup.runs[q])
      BY <3>1 DEF Commits
    <3>3. f[g][1] = q /\ f[g][2] \in 1 .. setup.runs[q]
      BY <3>2
    <3>4. setup.runs[q] \in Nat
      BY SetupAssumption DEF Types, Heads
    <3> QED BY <3>2, <3>3, <3>4 DEF Role
  <2> DEFINE p == f[g][1]
  <2>2. f[g][2] <= ran[p] /\ (f[g][2] = ran[p] => pc[p] \in Past)
    BY <1>1 DEF Attributes
  <2>3. Advances(p)
    BY <2>1
  <2>4. ran[p] \in Nat /\ ran'[p] \in Nat
    BY <2>1 DEF Types
  <2> QED BY <2>1, <2>2, <2>3, <2>4 DEF Advances
<1>4. Attributes(f)'
  BY <1>1, <1>2, <1>3 DEF Attributes
<1> QED BY <1>1, <1>2, <1>4 DEF Counted, Commits

\* A step of one process that keeps what it relies on keeps the invariant.
LEMMA OneSteps ==
  ASSUME KeyringInv, Types', NEW p \in Procs, Grows, Recorded, Holds(p)', Counted',
         \A q \in Procs \ {p} : Still(q)
  PROVE  KeyringInv'
<1>1. \A q \in Procs : Holds(q)'
  BY BystanderHolds DEF KeyringInv
<1> QED BY <1>1, SelectedStays DEF KeyringInv

\* So does one that leaves Storage and the chain alone.
LEMMA CalmSteps ==
  ASSUME KeyringInv, Types', NEW p \in Procs, Calm, Recorded, Holds(p)', Advances(p),
         \A q \in Procs \ {p} : Still(q)
  PROVE  KeyringInv'
<1>1. \A q \in Procs : Advances(q)
  <2> SUFFICES ASSUME NEW q \in Procs \ {p} PROVE Advances(q)
    OBVIOUS
  <2>1. ran[q] \in Nat
    BY DEF KeyringInv, Types
  <2> QED BY <2>1 DEF Advances, Still
<1>2. Counted'
  BY <1>1, CountedStays DEF KeyringInv, Calm
<1> QED BY <1>2, CalmGrows, OneSteps DEF KeyringInv

\* What a call that leaves Storage alone leaves to be said.
LEMMA CalmValues ==
  ASSUME Types, Calm
  PROVE  /\ Newest' = Newest /\ Newest \in Nat \ {0} /\ Invalid' = Invalid
         /\ \A p \in Procs : Role(p)' = Role(p)
         /\ \A g \in 1 .. Newest : Sel(g)' = Sel(g)
<1>1. Newest' = Newest /\ Newest \in Nat \ {0} /\ \A p \in Procs : Role(p)' = Role(p)
  BY DEF Types, Heads, Calm, Newest, Role
<1>2. \A g : Sel(g)' = Sel(g)
  BY DEF Calm, Sel
<1>3. \A s, i : Valid(s, i)' <=> Valid(s, i)
  BY DEF Calm, storage, Valid
<1>4. Invalid' = Invalid
  BY <1>1, <1>2, <1>3 DEF Invalid, Positions
<1> QED BY <1>1, <1>2, <1>4

\* The end of a run, or of an attempt, leaves nothing that could be wrong.
LEMMA EndedSteps ==
  ASSUME KeyringInv, Types', NEW p \in Procs, Ended(p), Calm, UNCHANGED <<ran, waits>>,
         Recorded, pc[p] \notin {"idle", "waiting"}
  PROVE  KeyringInv'
<1>1. Types /\ Holds(p)
  BY DEF KeyringInv
<1>2. /\ pc'[p] \in {"idle", "forget"} /\ (pc'[p] = "forget" => Role(p) = "writer")
      /\ lst'[p] = NoListing /\ com'[p] = Sel(1) /\ verd'[p] = Unread
      /\ mine'[p] = {} /\ tries'[p] = 0
  BY <1>1 DEF Ended, Goto, Types, Holdings
<1>3. /\ Newest' = Newest /\ Newest \in Nat \ {0} /\ Role(p)' = Role(p)
      /\ Sel(1)' = Sel(1) /\ Sel(1).gen = 1 /\ setup' = setup
  BY <1>1, CalmValues DEF Sel, Calm
<1>4. Places(p)'
  <2>1. ran'[p] <= setup'.runs[p] /\ ran'[p] # 0 /\ waits'[p] = p
    BY <1>1, <1>3 DEF Holds, Places
  <2>2. tries'[p] <= Attempts
    BY <1>2, BoundAssumption
  <2> QED
    BY <1>2, <1>3, <2>1, <2>2
    DEF Places, Suits, WriterCalls, PrunerCalls, RefresherCalls, FetcherCalls
<1>5. Reads(p)' /\ Works(p)'
  BY <1>2, <1>3, Defaults DEF Reads, Works, Unread, Sel
<1>6. Passes(p)' /\ Disposes(p)' /\ Selects(p)'
  BY <1>2 DEF Passes, Disposes, Selects
<1>7. \A q \in Procs \ {p} : Still(q)
  BY <1>1 DEF Ended, Goto, Types, Holdings, Still
<1>8. Advances(p)
  BY <1>1, <1>2 DEF Advances, Past, Types
<1> QED BY <1>1, <1>4, <1>5, <1>6, <1>7, <1>8, CalmSteps DEF Holds

LEMMA RetrySteps ==
  ASSUME KeyringInv, Types', NEW p \in Procs, Retry(p), Calm, UNCHANGED <<ran, waits>>,
         Recorded, pc[p] \in {"aim", "create"}
  PROVE  KeyringInv'
<1>1. Types /\ Holds(p)
  BY DEF KeyringInv
<1>2. CASE Ended(p)
  BY <1>2, EndedSteps
<1>3. CASE ~Ended(p)
  <2>1. /\ tries[p] < Attempts /\ pc' = [pc EXCEPT ![p] = "again"]
        /\ verd' = [verd EXCEPT ![p] = Unread] /\ mine' = [mine EXCEPT ![p] = {}]
        /\ UNCHANGED <<lst, com, left, tries>>
    BY <1>3 DEF Retry, Goto
  <2>2. pc'[p] = "again" /\ verd'[p] = Unread /\ mine'[p] = {}
    BY <1>1, <2>1 DEF Types, Holdings
  <2>3. Newest' = Newest /\ Role(p)' = Role(p) /\ setup' = setup /\ Role(p) = "writer"
    BY <1>1, CalmValues DEF Calm, Holds, Places, Suits, WriterCalls
  <2>4. Places(p)'
    BY <1>1, <2>1, <2>2, <2>3
    DEF Holds, Places, Suits, WriterCalls, PrunerCalls, RefresherCalls, FetcherCalls
  <2>5. Reads(p)'
    BY <1>1, <2>1, <2>2, <2>3, CalmValues DEF Holds, Reads, Calm, storage
  <2>6. Works(p)' /\ Passes(p)' /\ Disposes(p)' /\ Selects(p)'
    BY <2>2, <2>3 DEF Works, Passes, Disposes, Selects, Unread
  <2>7. \A q \in Procs \ {p} : Still(q)
    BY <1>1, <2>1 DEF Types, Holdings, Still
  <2>8. Advances(p)
    BY <1>1 DEF Advances, Past, Types
  <2> QED BY <1>1, <2>4, <2>5, <2>6, <2>7, <2>8, CalmSteps DEF Holds
<1> QED BY <1>2, <1>3

-----------------------------------------------------------------------------
(* A run, up to the set it reads *)

LEMMA ListHolds ==
  ASSUME KeyringInv, Types', NEW p \in Procs, List(p), UNCHANGED memory, Recorded
  PROVE  KeyringInv'
<1>1. Types /\ Holds(p)
  BY DEF KeyringInv
<1>2. Calm /\ waits' = waits
  BY DEF List, chained, Calm, memory
<1>3. /\ pc' = [pc EXCEPT ![p] = "catch up"] /\ lst' = [lst EXCEPT ![p] = Listing]
      /\ tries' = [tries EXCEPT ![p] = @ + (IF Role(p) = "writer" THEN 1 ELSE 0)]
      /\ UNCHANGED <<com, verd, mine, left>>
  BY DEF List, Goto
<1>4. \/ /\ Role(p) \in {"writer", "pruner", "reader", "refresher"} /\ pc[p] = "idle"
         /\ ran[p] < setup.runs[p] /\ ran' = [ran EXCEPT ![p] = @ + 1]
      \/ pc[p] = "again" /\ ran' = ran
  BY DEF List, Begin
<1>5. ran \in [Procs -> Nat] /\ setup.runs[p] \in Nat /\ tries[p] \in Nat
  BY <1>1, SetupAssumption DEF Types, Heads, Holdings
<1>6. \A q \in Procs \ {p} : ran'[q] = ran[q]
  BY <1>4, <1>5
<1>7. /\ pc[p] \in {"idle", "again"}
      /\ pc[p] = "idle" => ran[p] < setup.runs[p] /\ ran'[p] = ran[p] + 1
      /\ pc[p] # "idle" => ran'[p] = ran[p]
  BY <1>4, <1>5
<1>8. Role(p) \in {"writer", "pruner", "reader", "refresher"}
  BY <1>1, <1>4 DEF Holds, Places, Suits, WriterCalls
<1>9. /\ pc'[p] = "catch up"
      /\ com'[p] = com[p] /\ verd'[p] = verd[p] /\ mine'[p] = mine[p] /\ left'[p] = left[p]
  BY <1>1, <1>3 DEF Types, Holdings
<1>10. lst'[p].head = Newest /\ lst'[p].heads = live /\ lst'[p].copies = stored \ gone
  BY <1>1, <1>3 DEF Types, Holdings, Listing
<1>11. /\ Role(p) = "writer" => tries'[p] = tries[p] + 1
       /\ Role(p) # "writer" => tries'[p] = tries[p]
  <2>1. tries \in [Procs -> Nat]
    BY <1>1 DEF Types, Holdings
  <2>2. tries'[p] = tries[p] + (IF Role(p) = "writer" THEN 1 ELSE 0)
    BY <1>3, <2>1
  <2> QED BY <1>5, <2>2
<1>12. /\ Newest' = Newest /\ Role(p)' = Role(p) /\ setup' = setup /\ Newest \in Nat \ {0}
       /\ \A g \in 1 .. Newest : Sel(g)' = Sel(g)
  BY <1>1, <1>2, CalmValues DEF Calm
<1>13. Places(p)'
  <2>1. ran'[p] <= setup.runs[p] /\ ran'[p] # 0
    <3>1. ran[p] <= setup.runs[p] /\ (pc[p] # "idle" => ran[p] # 0) /\ ran[p] \in Nat
      BY <1>1, <1>5 DEF Holds, Places
    <3> QED BY <1>5, <1>7, <3>1
  <2>2. /\ Role(p) = "writer" => tries[p] < Attempts
        /\ Role(p) # "writer" => tries[p] = 0
    <3>1. (pc[p] = "idle" \/ Role(p) # "writer" => tries[p] = 0) /\ (pc[p] = "again" => tries[p] < Attempts)
      BY <1>1 DEF Holds, Places
    <3> QED BY <1>7, <3>1, BoundAssumption
  <2>3. tries'[p] <= Attempts /\ (Role(p) # "writer" => tries'[p] = 0)
    BY <1>5, <1>11, <2>2, BoundAssumption
  <2>4. waits'[p] = p
    BY <1>1, <1>2, <1>7 DEF Holds, Places
  <2> QED
    BY <1>8, <1>9, <1>12, <2>1, <2>3, <2>4
    DEF Places, Suits, WriterCalls, PrunerCalls, RefresherCalls, FetcherCalls
<1>14. Reads(p)'
  <2>1. com[p].gen \in 1 .. Newest /\ com[p] = Sel(com[p].gen)
    BY <1>1 DEF Holds, Reads
  <2>2. stored' = stored
    BY <1>2 DEF Calm, storage
  <2>3. com'[p] = Sel(com[p].gen)'
    BY <1>9, <1>12, <2>1
  <2>4. lst'[p].head \in 0 .. Newest' /\ lst'[p].copies \subseteq stored'
    BY <1>10, <1>12, <2>2
  <2> QED BY <1>9, <1>12, <2>1, <2>3, <2>4 DEF Reads, Sel
<1>15. Works(p)'
  BY <1>1, <1>2, <1>7, <1>9, <1>12 DEF Holds, Works, Blank, Calm, storage, Unread
<1>16. Passes(p)' /\ Selects(p)'
  BY <1>9 DEF Passes, Selects
<1>17. Disposes(p)'
  BY <1>2, <1>9, <1>10 DEF Disposes, Calm
<1>18. \A q \in Procs \ {p} : Still(q)
  BY <1>1, <1>2, <1>3, <1>6 DEF Types, Holdings, Still
<1>19. Advances(p)
  <2>1. ran[p] \in Nat
    BY <1>5
  <2>2. ran[p] <= ran'[p] /\ (pc[p] = "idle" => ran[p] < ran'[p])
    BY <1>7, <2>1
  <2>3. pc[p] \in Past => pc[p] = "idle"
    BY <1>7 DEF Past
  <2> QED BY <2>2, <2>3 DEF Advances
<1> QED
  BY <1>1, <1>2, <1>13, <1>14, <1>15, <1>16, <1>17, <1>18, <1>19, CalmSteps DEF Holds

\* A run that goes on to a call of its role.
LEMMA GoesOn ==
  ASSUME NEW p \in Procs, Places(p), pc[p] \notin {"idle", "waiting"},
         Role(p)' = Role(p), setup' = setup, tries'[p] = tries[p], ran'[p] = ran[p],
         waits'[p] = waits[p], Suits(pc'[p], Role(p)), pc'[p] \notin {"idle", "forget", "again"}
  PROVE  Places(p)'
<1>1. waits'[p] = p
  BY DEF Places
<1> QED BY <1>1 DEF Places

\* One whose call touches nothing it shares need only be looked at itself.
LEMMA OwnSteps ==
  ASSUME KeyringInv, Types', NEW p \in Procs, Calm, UNCHANGED <<ran, waits>>, Recorded,
         pc[p] \notin {"idle", "waiting"}, tries'[p] = tries[p],
         Suits(pc'[p], Role(p)), pc'[p] \notin {"idle", "forget", "again"},
         pc[p] \in Past => pc'[p] \in Past,
         \A q \in Procs \ {p} : Still(q),
         Reads(p)', Works(p)', Passes(p)', Disposes(p)', Selects(p)'
  PROVE  KeyringInv'
<1>1. Types /\ Places(p)
  BY DEF KeyringInv, Holds
<1>2. Places(p)'
  BY <1>1, CalmValues, GoesOn DEF Calm
<1>3. Advances(p)
  BY <1>1 DEF Advances, Types
<1> QED BY <1>2, <1>3, CalmSteps DEF Holds

\* What it reads under and through, where neither changes.
LEMMA ReadsOn ==
  ASSUME Types, NEW p \in Procs, Reads(p), Calm, pc'[p] # "refresh",
         com'[p] = com[p], lst'[p] = lst[p]
  PROVE  Reads(p)'
<1>1. com[p].gen \in 1 .. Newest /\ com[p] = Sel(com[p].gen)
  BY DEF Reads
<1>2. com'[p].gen \in 1 .. Newest' /\ com'[p] = Sel(com[p].gen)'
  BY <1>1, CalmValues
<1>3. lst'[p].head \in 0 .. Newest' /\ Role(p)' = Role(p) /\ stored' = stored
  BY CalmValues DEF Reads, Calm, storage
<1> QED BY <1>2, <1>3 DEF Reads, Sel

LEMMA CatchUpHolds ==
  ASSUME KeyringInv, Types', NEW p \in Procs, CatchUp(p), UNCHANGED memory, Recorded
  PROVE  KeyringInv'
<1>1. Types /\ Holds(p)
  BY DEF KeyringInv
<1>2. Calm /\ UNCHANGED <<ran, waits>>
  BY DEF CatchUp, Calm, memory
<1>3. UNCHANGED <<lst, com, verd, mine, left, tries>> /\ pc[p] = "catch up"
  BY DEF CatchUp
<1>4. /\ \A q \in Procs \ {p} : pc'[q] = pc[q]
      /\ \/ pc'[p] = "checkpoint" /\ Role(p) = "pruner"
         \/ pc'[p] = "remember" /\ Role(p) = "refresher"
         \/ pc'[p] = "open" /\ Role(p) \in {"writer", "reader"}
  BY <1>1, <1>3
  DEF CatchUp, Goto, Types, Holdings, Holds, Places, Suits
<1>5. Role(p)' = Role(p)
  BY <1>1, <1>2, CalmValues
<1>6. Reads(p)'
  BY <1>1, <1>2, <1>3, <1>4, ReadsOn DEF Holds
<1>7. Works(p)'
  BY <1>1, <1>2, <1>3, <1>4, <1>5 DEF Holds, Works, Blank, Calm, storage, Unread
<1>8. Passes(p)' /\ Selects(p)'
  BY <1>4 DEF Passes, Selects
<1>9. Disposes(p)'
  BY <1>1, <1>2, <1>3, <1>4, <1>5 DEF Holds, Disposes, Calm
<1>10. Suits(pc'[p], Role(p)) /\ pc'[p] \notin {"idle", "forget", "again"}
  BY <1>4 DEF Suits, WriterCalls, PrunerCalls, RefresherCalls, FetcherCalls
<1>11. \A q \in Procs \ {p} : Still(q)
  BY <1>2, <1>3, <1>4 DEF Still
<1>12. pc[p] \notin {"idle", "waiting"} /\ (pc[p] \in Past => pc'[p] \in Past)
  BY <1>3 DEF Past
<1> QED
  BY <1>2, <1>3, <1>6, <1>7, <1>8, <1>9, <1>10, <1>11, <1>12, OwnSteps

LEMMA OpenHolds ==
  ASSUME KeyringInv, Types', NEW p \in Procs, Open(p), UNCHANGED memory, Recorded
  PROVE  KeyringInv'
<1>1. Types /\ Holds(p)
  BY DEF KeyringInv
<1>2. Calm /\ UNCHANGED <<ran, waits>>
  BY DEF Open, chained, Calm, memory
<1>3. UNCHANGED <<lst, mine, left, tries>> /\ pc[p] = "open"
  BY DEF Open
<1>4. /\ pc'[p] = "read" /\ verd'[p] = Unread /\ com'[p] = Sel(idx[setup.dev[p]])
      /\ \A q \in Procs \ {p} : pc'[q] = pc[q] /\ verd'[q] = verd[q] /\ com'[q] = com[q]
  BY <1>1 DEF Open, Goto, Types, Holdings
<1>5. Role(p) \in {"writer", "reader"} /\ Role(p)' = Role(p)
  BY <1>1, <1>2, <1>3, CalmValues DEF Holds, Places, Suits
<1>6. Reads(p)'
  <2>1. idx[setup.dev[p]] \in 1 .. Newest
    <3>1. setup.dev[p] \in Devices
      BY <1>1, SetupAssumption DEF Types, Heads
    <3> QED BY <1>1, <3>1 DEF Types, Heads
  <2>2. com'[p].gen \in 1 .. Newest' /\ com'[p] = [gen |-> com'[p].gen, by |-> chain'[com'[p].gen]]
    <3>1. PICK g \in 1 .. Newest : com'[p] = Sel(g)
      BY <1>4, <2>1
    <3>2. Sel(g)' = Sel(g) /\ g \in 1 .. Newest'
      BY <1>1, <1>2, CalmValues
    <3> QED BY <3>1, <3>2 DEF Sel
  <2>3. lst'[p].head \in 0 .. Newest' /\ lst'[p].copies \subseteq stored'
    BY <1>1, <1>2, <1>3, <1>5, CalmValues DEF Holds, Reads, Calm, storage
  <2> QED BY <1>4, <2>2, <2>3 DEF Reads, Sel
<1>7. Works(p)'
  BY <1>1, <1>2, <1>3, <1>4, <1>5 DEF Holds, Works, Blank, Calm, storage, Unread, Positions
<1>8. Passes(p)'
  BY <1>4 DEF Passes, Unread, Positions
<1>9. Selects(p)' /\ Disposes(p)'
  BY <1>4, <1>5 DEF Selects, Disposes
<1>10. Suits(pc'[p], Role(p)) /\ pc'[p] \notin {"idle", "forget", "again"}
  BY <1>4, <1>5 DEF Suits, WriterCalls, PrunerCalls, RefresherCalls, FetcherCalls
<1>11. \A q \in Procs \ {p} : Still(q)
  BY <1>2, <1>3, <1>4 DEF Still
<1>12. pc[p] \notin {"idle", "waiting"} /\ (pc[p] \in Past => pc'[p] \in Past)
  BY <1>3 DEF Past
<1> QED
  BY <1>2, <1>3, <1>6, <1>7, <1>8, <1>9, <1>10, <1>11, <1>12, OwnSteps

\* A position is valid where a listed object reads back.
LEMMA FoundValid ==
  ASSUME Types, NEW p \in Procs, Reads(p), Role(p) # "fetcher", NEW i \in Positions,
         "valid" \in Found(p, i)
  PROVE  <<com[p].gen, i>> \notin Invalid
<1>1. PICK c \in lst[p].copies : c.set = com[p] /\ c.pos = i /\ c \notin gone \cup bad
  BY DEF Found
<1>2. Valid(com[p], i) /\ com[p] = Sel(com[p].gen)
  BY <1>1 DEF Valid, Reads
<1> QED BY <1>2 DEF Invalid

LEMMA ReadPositionHolds ==
  ASSUME KeyringInv, Types', NEW p \in Procs, NEW i \in Positions, ReadPosition(p, i),
         UNCHANGED memory, Recorded
  PROVE  KeyringInv'
<1>1. Types /\ Holds(p)
  BY DEF KeyringInv
<1>2. Calm /\ UNCHANGED <<ran, waits>>
  BY DEF ReadPosition, chained, Calm, memory
<1>3. UNCHANGED <<pc, lst, com, mine, left, tries>> /\ pc[p] = "read"
  BY DEF ReadPosition
<1>4. PICK v \in Found(p, i) : verd' = [verd EXCEPT ![p][i] = v]
  BY DEF ReadPosition
<1>5. /\ verd'[p][i] = v /\ \A j \in Positions \ {i} : verd'[p][j] = verd[p][j]
      /\ \A q \in Procs \ {p} : verd'[q] = verd[q]
  BY <1>1, <1>4 DEF Types, Holdings
<1>6. Role(p)' = Role(p) /\ v \in {"valid", "lost", "unfetched"}
  BY <1>1, <1>2, CalmValues DEF Found
<1>7. Reads(p)'
  BY <1>1, <1>2, <1>3, ReadsOn DEF Holds
<1>8. Works(p)'
  BY <1>1, <1>2, <1>3, <1>5, <1>6 DEF Holds, Works, Blank, Calm, storage
<1>9. Passes(p)'
  <2>1. through'[p] \subseteq through[p] /\ through'[p] \subseteq Invalid
    BY <1>1, <1>2, <1>3, Watched, CalmValues
  <2>2. \A j \in Positions :
          \/ <<com[p].gen, j>> \notin through'[p]
          \/ Role(p) # "fetcher" => verd'[p][j] \notin {"valid", "proved"}
    <3>1. v = "valid" /\ Role(p) # "fetcher" => <<com[p].gen, i>> \notin Invalid
      BY <1>1, FoundValid DEF Holds
    <3>2. \A j \in Positions \ {i} :
            \/ <<com[p].gen, j>> \notin through[p]
            \/ Role(p) # "fetcher" => verd'[p][j] \notin {"valid", "proved"}
      BY <1>1, <1>3, <1>5 DEF Holds, Passes
    <3> QED BY <1>5, <1>6, <2>1, <3>1, <3>2
  <2> QED BY <1>3, <1>6, <2>2 DEF Passes, Positions
<1>10. Selects(p)' /\ Disposes(p)'
  BY <1>1, <1>2, <1>3, <1>6 DEF Holds, Selects, Disposes, Calm
<1>11. Suits(pc'[p], Role(p))
  BY <1>1, <1>3 DEF Holds, Places
<1>12. \A q \in Procs \ {p} : Still(q)
  BY <1>2, <1>3, <1>5 DEF Still
<1> QED
  BY <1>2, <1>3, <1>7, <1>8, <1>9, <1>10, <1>11, <1>12, OwnSteps DEF Past

-----------------------------------------------------------------------------
(* A commit *)

LEMMA ExaminedHolds ==
  ASSUME KeyringInv, Types', NEW p \in Procs, Examined(p), UNCHANGED memory, Recorded
  PROVE  KeyringInv'
<1>1. Types /\ Holds(p) /\ pc[p] = "read" /\ Role(p) = "writer"
  BY DEF KeyringInv, Examined
<1>2. Calm /\ UNCHANGED <<ran, waits>>
  BY DEF Examined, chained, Calm, memory
<1>3. CASE Ended(p)
  BY <1>1, <1>2, <1>3, EndedSteps
<1>4. CASE ~Ended(p)
  <2>1. UNCHANGED <<lst, com, verd, mine, left, tries>> /\ Goto(p, "repair")
    BY <1>4 DEF Examined
  <2>2. pc'[p] = "repair" /\ \A q \in Procs \ {p} : pc'[q] = pc[q]
    BY <1>1, <2>1 DEF Goto, Types, Holdings
  <2>3. Role(p)' = "writer"
    BY <1>1, <1>2, CalmValues
  <2>4. Reads(p)'
    BY <1>1, <1>2, <2>1, <2>2, ReadsOn DEF Holds
  <2>5. Works(p)'
    BY <1>1, <1>2, <2>1, <2>2, <2>3 DEF Holds, Works, Blank, Calm, storage
  <2>6. Passes(p)'
    <3>1. through'[p] \subseteq through[p]
      BY <1>1, <2>2, Watched
    <3> QED BY <1>1, <2>1, <2>2, <3>1 DEF Holds, Passes, Positions
  <2>7. Selects(p)' /\ Disposes(p)'
    BY <2>2, <2>3 DEF Selects, Disposes
  <2>8. Suits(pc'[p], Role(p))
    BY <1>1, <2>2 DEF Suits, WriterCalls, PrunerCalls, RefresherCalls, FetcherCalls
  <2>9. \A q \in Procs \ {p} : Still(q)
    BY <1>2, <2>1, <2>2 DEF Still
  <2> QED
    BY <1>1, <1>2, <2>1, <2>2, <2>4, <2>5, <2>6, <2>7, <2>8, <2>9, OwnSteps DEF Past
<1> QED BY <1>3, <1>4

\* A put only adds what is valid.
LEMMA PutGrows ==
  ASSUME Types, NEW c, Put(c), UNCHANGED <<setup, chain, live, hit>>
  PROVE  Grows
<1>1. Newest' = Newest /\ \A g \in 1 .. Newest : chain'[g] = chain[g]
  BY DEF Newest
<1> QED BY <1>1 DEF Grows, Put

\* The put of a replica, of the set that is repaired or of the candidate.
LEMMA WriteHolds ==
  ASSUME KeyringInv, Types', NEW p \in Procs, NEW i \in Positions, NEW s,
         Write(p, i, s), UNCHANGED memory, Recorded,
         \/ pc[p] = "repair" /\ s = com[p]
         \/ pc[p] = "write" /\ s = Candidate(p)
  PROVE  KeyringInv'
<1>1. Types /\ Holds(p) /\ Counted
  BY DEF KeyringInv
<1>2. UNCHANGED <<setup, chain, live, hit, pc, lst, com, left, tries, ran, waits>>
  BY DEF Write, chained, memory
<1>3. s \in Sets
  BY <1>1, CandidateIsSet DEF Holds
<1>4. /\ \/ /\ Put(NewCopy(s, i)) /\ verd' = [verd EXCEPT ![p][i] = "put"]
            /\ mine' = [mine EXCEPT ![p] = {c \in @ : c.pos # i} \cup {NewCopy(s, i)}]
         \/ UNCHANGED <<storage, mine>> /\ verd' = [verd EXCEPT ![p][i] = "failed"]
  BY DEF Write, Judge
<1>5. /\ \A j \in Positions \ {i} : verd'[p][j] = verd[p][j]
      /\ \A q \in Procs \ {p} : verd'[q] = verd[q] /\ mine'[q] = mine[q]
  BY <1>1, <1>4 DEF Types, Holdings
<1>6. \/ /\ verd'[p][i] = "put" /\ stored' = stored \cup {NewCopy(s, i)}
         /\ mine'[p] = {c \in mine[p] : c.pos # i} \cup {NewCopy(s, i)}
      \/ verd'[p][i] = "failed" /\ stored' = stored /\ mine'[p] = mine[p]
  BY <1>1, <1>4 DEF Types, Holdings, Put, storage
<1>7. Grows
  <2>1. CASE Put(NewCopy(s, i))
    BY <1>1, <1>2, <2>1, PutGrows
  <2>2. CASE UNCHANGED storage
    BY <1>1, <1>2, <2>2, CalmGrows DEF Calm
  <2> QED BY <1>4, <2>1, <2>2
<1>8. Role(p)' = Role(p) /\ Role(p) = "writer" /\ Newest' = Newest
  BY <1>1, <1>2 DEF Role, Newest, Holds, Places, Suits, WriterCalls
<1>9. Places(p)'
  BY <1>1, <1>2, <1>8 DEF Holds, Places
<1>10. Reads(p)'
  BY <1>1, <1>2, <1>6, <1>8 DEF Holds, Reads, Sel
<1>11. Works(p)'
  <2>1. NewCopy(s, i).set = s /\ NewCopy(s, i).pos = i
    BY <1>1, <1>3, NewCopyIsCopy
  <2>2. mine'[p] \subseteq stored' /\ \A c \in mine'[p] : c \in mine[p] \/ c.set = s
    BY <1>1, <1>6, <2>1 DEF Holds, Works
  <2>3. \A j \in Positions : verd'[p][j] = "put" => \E c \in mine'[p] : c.pos = j
    <3> SUFFICES ASSUME NEW j \in Positions, verd'[p][j] = "put"
                 PROVE  \E c \in mine'[p] : c.pos = j
      OBVIOUS
    <3>1. CASE j = i
      BY <1>6, <2>1, <3>1
    <3>2. CASE j # i
      <4>1. PICK c \in mine[p] : c.pos = j
        BY <1>1, <1>5, <3>2 DEF Holds, Works
      <4> QED BY <1>6, <3>2, <4>1
    <3> QED BY <3>1, <3>2
  <2>4. pc[p] = "write" => \A j \in Positions : verd'[p][j] \in {"unread", "put", "failed"}
    BY <1>1, <1>5, <1>6 DEF Holds, Works
  <2>5. Candidate(p)' = Candidate(p)
    BY <1>2 DEF Candidate
  <2> QED
    BY <1>1, <1>2, <1>8, <2>2, <2>3, <2>4, <2>5 DEF Holds, Works, Blank, Positions
<1>12. Passes(p)'
  <2>1. through'[p] \subseteq through[p]
    BY <1>1, <1>2, Watched
  <2> QED
    BY <1>1, <1>2, <1>5, <1>6, <1>8, <2>1 DEF Holds, Passes, Positions
<1>13. Disposes(p)' /\ Selects(p)'
  BY <1>2, <1>8 DEF Disposes, Selects
<1>14. \A q \in Procs \ {p} : Still(q)
  BY <1>2, <1>5 DEF Still
<1>15. Counted'
  <2>1. \A q \in Procs : Advances(q)
    BY <1>1, <1>2 DEF Advances, Types
  <2> QED BY <1>1, <1>2, <2>1, CountedStays
<1> QED
  BY <1>7, <1>9, <1>10, <1>11, <1>12, <1>13, <1>14, <1>15, OneSteps DEF Holds

\* What is read back through the object of its put is there.
LEMMA ReadBackHolds ==
  ASSUME KeyringInv, Types', NEW p \in Procs, NEW i \in Positions, ReadBack(p, i),
         UNCHANGED memory, Recorded
  PROVE  KeyringInv'
<1>1. Types /\ Holds(p) /\ pc[p] \in {"repair", "prove"}
  BY DEF KeyringInv, ReadBack
<1>2. Calm /\ UNCHANGED <<ran, waits>>
  BY DEF ReadBack, chained, Calm, memory
<1>3. UNCHANGED <<pc, lst, com, mine, left, tries>> /\ verd[p][i] = "put"
  BY DEF ReadBack
<1>4. \/ /\ verd' = [verd EXCEPT ![p][i] = "proved"]
         /\ {c \in mine[p] : c.pos = i} \cap (gone \cup bad) = {}
      \/ verd' = [verd EXCEPT ![p][i] = "failed"]
  BY DEF ReadBack, Judge
<1>5. /\ \A j \in Positions \ {i} : verd'[p][j] = verd[p][j]
      /\ \A q \in Procs \ {p} : verd'[q] = verd[q]
      /\ \/ /\ verd'[p][i] = "proved"
            /\ \A c \in mine[p] : c.pos = i => c \notin gone \cup bad
         \/ verd'[p][i] = "failed"
  BY <1>1, <1>4 DEF Types, Holdings
<1>6. Role(p)' = "writer" /\ Role(p) = "writer"
  BY <1>1, <1>2, CalmValues DEF Holds, Places, Suits, WriterCalls
<1>7. Reads(p)'
  BY <1>1, <1>2, <1>3, ReadsOn DEF Holds
<1>8. Works(p)'
  <2>1. Candidate(p)' = Candidate(p)
    BY <1>3 DEF Candidate
  <2> QED
    BY <1>1, <1>2, <1>3, <1>5, <1>6, <2>1 DEF Holds, Works, Blank, Calm, storage, Positions
<1>9. verd'[p][i] = "proved" =>
        Valid(IF pc[p] = "repair" THEN com[p] ELSE Candidate(p), i)
  <2>1. PICK c \in mine[p] : c.pos = i
    BY <1>1, <1>3 DEF Holds, Works
  <2>2. c \in stored /\ c.set = IF pc[p] = "repair" THEN com[p] ELSE Candidate(p)
    BY <1>1 DEF Holds, Works
  <2> QED BY <1>5, <2>1, <2>2 DEF Valid
<1>10. Passes(p)'
  <2>1. through'[p] \subseteq through[p] /\ through'[p] \subseteq Invalid
    BY <1>1, <1>2, <1>3, Watched, CalmValues
  <2>2. CASE pc[p] = "prove"
    BY <1>1, <1>3, <2>1, <2>2 DEF Holds, Passes, Positions
  <2>3. CASE pc[p] = "repair"
    <3>1. verd'[p][i] = "proved" => <<com[p].gen, i>> \notin through'[p]
      BY <1>1, <1>9, <2>1, <2>3 DEF Holds, Reads, Invalid
    <3>2. \A j \in Positions \ {i} :
            <<com[p].gen, j>> \notin through[p] \/ verd'[p][j] \notin {"valid", "proved"}
      BY <1>1, <1>5, <1>6, <2>3 DEF Holds, Passes
    <3>3. \A j \in Positions :
            <<com[p].gen, j>> \notin through'[p] \/ verd'[p][j] \notin {"valid", "proved"}
      BY <1>5, <2>1, <3>1, <3>2
    <3> QED BY <1>3, <2>3, <3>3 DEF Passes, Positions
  <2> QED BY <1>1, <2>2, <2>3
<1>11. Disposes(p)'
  BY <1>1, <1>3, <1>6 DEF Disposes
<1>12. Selects(p)'
  <2> SUFFICES ASSUME pc[p] = "prove", com[p].gen = Newest, NEW j \in Positions,
                      verd'[p][j] = "proved"
               PROVE  Valid(Candidate(p), j)' \/ <<Candidate(p), j>>' \in hit'
    BY <1>1, <1>2, <1>3, CalmValues DEF Selects, Positions
  <2>1. Candidate(p)' = Candidate(p) /\ UNCHANGED <<stored, gone, bad, hit>>
    BY <1>2, <1>3 DEF Candidate, Calm, storage
  <2>2. Valid(Candidate(p), j) \/ <<Candidate(p), j>> \in hit
    BY <1>1, <1>5, <1>9 DEF Holds, Selects
  <2> QED BY <2>1, <2>2 DEF Valid
<1>13. Suits(pc'[p], Role(p))
  BY <1>1, <1>3 DEF Holds, Places
<1>14. \A q \in Procs \ {p} : Still(q)
  BY <1>2, <1>3, <1>5 DEF Still
<1> QED
  BY <1>1, <1>2, <1>3, <1>7, <1>8, <1>10, <1>11, <1>12, <1>13, <1>14, OwnSteps DEF Past

\* The repair goes on to the candidate when every position is there.
LEMMA RepairedHolds ==
  ASSUME KeyringInv, Types', NEW p \in Procs, Repaired(p), UNCHANGED memory, Recorded
  PROVE  KeyringInv'
<1>1. Types /\ Holds(p) /\ pc[p] = "repair"
  BY DEF KeyringInv, Repaired
<1>2. Calm /\ UNCHANGED <<ran, waits>>
  BY DEF Repaired, chained, Calm, memory
<1>3. CASE Ended(p)
  BY <1>1, <1>2, <1>3, EndedSteps
<1>4. CASE ~Ended(p)
  <2>1. /\ Left(p, {"valid", "proved"}) /\ Goto(p, "write")
        /\ verd' = [verd EXCEPT ![p] = Unread] /\ mine' = [mine EXCEPT ![p] = {}]
        /\ UNCHANGED <<lst, com, left, tries>>
    BY <1>4 DEF Repaired
  <2>2. /\ pc'[p] = "write" /\ verd'[p] = Unread /\ mine'[p] = {}
        /\ \A q \in Procs \ {p} : pc'[q] = pc[q] /\ verd'[q] = verd[q] /\ mine'[q] = mine[q]
    BY <1>1, <2>1 DEF Goto, Types, Holdings
  <2>3. Role(p)' = "writer" /\ Role(p) = "writer"
    BY <1>1, <1>2, CalmValues DEF Holds, Places, Suits, WriterCalls
  <2>4. Reads(p)'
    BY <1>1, <1>2, <2>1, <2>2, ReadsOn DEF Holds
  <2>5. Works(p)'
    BY <2>2, <2>3 DEF Works, Blank, Unread, Positions
  <2>6. Passes(p)'
    <3>1. through'[p] \subseteq through[p]
      BY <1>1, <2>2, Watched
    <3>2. \A i \in Positions : <<com[p].gen, i>> \notin through[p]
      BY <1>1, <2>1, <2>3 DEF Holds, Passes, Left
    <3> QED BY <2>1, <3>1, <3>2 DEF Passes, Positions
  <2>7. Selects(p)' /\ Disposes(p)'
    BY <2>2, <2>3 DEF Selects, Disposes, Unread, Positions
  <2>8. Suits(pc'[p], Role(p))
    BY <2>2, <2>3 DEF Suits, WriterCalls, PrunerCalls, RefresherCalls, FetcherCalls
  <2>9. \A q \in Procs \ {p} : Still(q)
    BY <1>2, <2>1, <2>2 DEF Still
  <2> QED
    BY <1>1, <1>2, <2>1, <2>2, <2>4, <2>5, <2>6, <2>7, <2>8, <2>9, OwnSteps DEF Past
<1> QED BY <1>3, <1>4

\* The candidate goes on when every replica of it is put, and then when every
\* one of them read back.
LEMMA ReplicatedHolds ==
  ASSUME KeyringInv, Types', NEW p \in Procs, Replicated(p), UNCHANGED memory, Recorded
  PROVE  KeyringInv'
<1>1. Types /\ Holds(p) /\ pc[p] \in {"write", "prove"}
  BY DEF KeyringInv, Replicated
<1>2. Calm /\ UNCHANGED <<ran, waits>>
  BY DEF Replicated, chained, Calm, memory
<1>3. CASE Ended(p)
  BY <1>1, <1>2, <1>3, EndedSteps
<1>4. CASE ~Ended(p)
  <2>1. /\ UNCHANGED <<lst, com, verd, mine, left, tries>>
        /\ \/ pc[p] = "write" /\ Goto(p, "prove")
           \/ pc[p] = "prove" /\ Goto(p, "aim") /\ Left(p, {"proved"})
    BY <1>4 DEF Replicated
  <2>2. /\ \/ pc[p] = "write" /\ pc'[p] = "prove"
           \/ /\ pc[p] = "prove" /\ pc'[p] = "aim"
              /\ \A i \in Positions : verd[p][i] = "proved"
        /\ \A q \in Procs \ {p} : pc'[q] = pc[q]
    BY <1>1, <2>1 DEF Goto, Types, Holdings, Left
  <2>3. Role(p)' = "writer" /\ Role(p) = "writer"
    BY <1>1, <1>2, CalmValues DEF Holds, Places, Suits, WriterCalls
  <2>4. Reads(p)'
    BY <1>1, <1>2, <2>1, <2>2, ReadsOn DEF Holds
  <2>5. Candidate(p)' = Candidate(p)
    BY <2>1 DEF Candidate
  <2>6. Works(p)'
    BY <1>1, <1>2, <2>1, <2>2, <2>3, <2>5 DEF Holds, Works, Blank, Calm, storage, Positions
  <2>7. Passes(p)'
    <3>1. through'[p] \subseteq through[p]
      BY <1>1, <2>2, Watched
    <3> QED BY <1>1, <2>1, <3>1 DEF Holds, Passes, Positions
  <2>8. Disposes(p)'
    BY <2>2, <2>3 DEF Disposes
  <2>9. Selects(p)'
    <3>1. CASE pc[p] = "write"
      <4>1. \A i \in Positions : verd'[p][i] # "proved"
        BY <1>1, <2>1, <3>1 DEF Holds, Works
      <4> QED BY <4>1 DEF Selects, Positions
    <3>2. CASE pc[p] = "prove"
      <4> SUFFICES ASSUME com[p].gen = Newest, NEW i \in Positions
                   PROVE  Valid(Candidate(p), i)' \/ <<Candidate(p), i>>' \in hit'
        BY <1>1, <1>2, <2>1, CalmValues DEF Selects, Positions
      <4>1. Valid(Candidate(p), i) \/ <<Candidate(p), i>> \in hit
        BY <1>1, <2>2, <3>2 DEF Holds, Selects
      <4> QED BY <1>2, <2>5, <4>1 DEF Valid, Calm, storage
    <3> QED BY <1>1, <3>1, <3>2
  <2>10. Suits(pc'[p], Role(p))
    BY <2>2, <2>3 DEF Suits, WriterCalls, PrunerCalls, RefresherCalls, FetcherCalls
  <2>11. \A q \in Procs \ {p} : Still(q)
    BY <1>2, <2>1, <2>2 DEF Still
  <2> QED
    BY <1>1, <1>2, <2>1, <2>2, <2>4, <2>6, <2>7, <2>8, <2>9, <2>10, <2>11, OwnSteps DEF Past
<1> QED BY <1>3, <1>4

LEMMA AimHolds ==
  ASSUME KeyringInv, Types', NEW p \in Procs, Aim(p), UNCHANGED memory, Recorded
  PROVE  KeyringInv'
<1>1. Types /\ Holds(p) /\ pc[p] = "aim"
  BY DEF KeyringInv, Aim
<1>2. Calm /\ UNCHANGED <<ran, waits>>
  BY DEF Aim, chained, Calm, memory
<1>3. CASE Ended(p)
  BY <1>1, <1>2, <1>3, EndedSteps
<1>4. CASE Retry(p)
  BY <1>1, <1>2, <1>4, RetrySteps
<1>5. CASE ~Ended(p) /\ ~Retry(p)
  <2>1. UNCHANGED <<lst, com, verd, mine, left, tries>> /\ Goto(p, "create")
    BY <1>5 DEF Aim
  <2>2. pc'[p] = "create" /\ \A q \in Procs \ {p} : pc'[q] = pc[q]
    BY <1>1, <2>1 DEF Goto, Types, Holdings
  <2>3. Role(p)' = "writer" /\ Role(p) = "writer"
    BY <1>1, <1>2, CalmValues DEF Holds, Places, Suits, WriterCalls
  <2>4. Reads(p)'
    BY <1>1, <1>2, <2>1, <2>2, ReadsOn DEF Holds
  <2>5. Candidate(p)' = Candidate(p)
    BY <2>1 DEF Candidate
  <2>6. Works(p)'
    BY <1>1, <1>2, <2>1, <2>2, <2>3 DEF Holds, Works, Blank, Calm, storage, Positions
  <2>7. Passes(p)'
    <3>1. through'[p] \subseteq through[p]
      BY <1>1, <2>2, Watched
    <3> QED BY <1>1, <2>1, <3>1 DEF Holds, Passes, Positions
  <2>8. Disposes(p)'
    BY <2>2, <2>3 DEF Disposes
  <2>9. Selects(p)'
    <3> SUFFICES ASSUME com[p].gen = Newest, NEW i \in Positions, verd[p][i] = "proved"
                 PROVE  Valid(Candidate(p), i)' \/ <<Candidate(p), i>>' \in hit'
      BY <1>1, <1>2, <2>1, CalmValues DEF Selects, Positions
    <3>1. Valid(Candidate(p), i) \/ <<Candidate(p), i>> \in hit
      BY <1>1 DEF Holds, Selects
    <3> QED BY <1>2, <2>5, <3>1 DEF Valid, Calm, storage
  <2>10. Suits(pc'[p], Role(p))
    BY <2>2, <2>3 DEF Suits, WriterCalls, PrunerCalls, RefresherCalls, FetcherCalls
  <2>11. \A q \in Procs \ {p} : Still(q)
    BY <1>2, <2>1, <2>2 DEF Still
  <2> QED
    BY <1>1, <1>2, <2>1, <2>2, <2>4, <2>6, <2>7, <2>8, <2>9, <2>10, <2>11, OwnSteps DEF Past
<1> QED BY <1>3, <1>4, <1>5

\* A new head is a run of its own.
LEMMA CreateCounts ==
  ASSUME Types, Counted, NEW p \in Procs, Places(p), pc[p] = "create",
         Newest' = Newest + 1, UNCHANGED <<setup, ran>>,
         pc'[p] = "refresh", \A q \in Procs \ {p} : pc'[q] = pc[q]
  PROVE  Counted'
<1>1. PICK f \in [2 .. Newest -> Commits(setup)] : Attributes(f)
  BY DEF Counted
<1>2. Newest \in Nat \ {0}
  BY DEF Types, Heads
<1> DEFINE m == <<p, ran[p]>>
           e == [g \in 2 .. Newest + 1 |-> IF g = Newest + 1 THEN m ELSE f[g]]
<1>3. m \in Commits(setup)
  <2>1. Role(p) = "writer" /\ ran[p] \in 1 .. setup.runs[p]
    <3>1. ran[p] \in Nat /\ setup.runs[p] \in Nat
      BY SetupAssumption DEF Types, Heads
    <3>2. ran[p] <= setup.runs[p] /\ ran[p] # 0 /\ Role(p) = "writer"
      BY DEF Places, Suits, WriterCalls
    <3> QED BY <3>1, <3>2
  <2> QED BY <2>1 DEF Commits, Role
<1>4. \A g \in 2 .. Newest + 1 : g = Newest + 1 \/ g \in 2 .. Newest
  BY <1>2
<1>5. e \in [2 .. Newest' -> Commits(setup)]
  BY <1>1, <1>3, <1>4
<1>6. \A g \in 2 .. Newest : e[g] = f[g] /\ f[g] # m
  <2> SUFFICES ASSUME NEW g \in 2 .. Newest PROVE e[g] = f[g] /\ f[g] # m
    OBVIOUS
  <2>1. g \in 2 .. Newest + 1 /\ g # Newest + 1
    BY <1>2
  <2>2. f[g] = m => FALSE
    BY <1>1 DEF Attributes, Past
  <2> QED BY <2>1, <2>2
<1>7. e[Newest + 1] = m
  BY <1>2
<1>8. ran[p] \in Nat
  BY DEF Types
<1>9. ASSUME NEW g \in 2 .. Newest + 1
      PROVE  /\ e[g][2] <= ran[e[g][1]]
             /\ e[g][2] = ran[e[g][1]] => pc'[e[g][1]] \in Past
  <2>1. CASE g = Newest + 1
    BY <1>7, <1>8, <2>1 DEF Past
  <2>2. CASE g \in 2 .. Newest
    <3>1. /\ e[g] = f[g] /\ f[g][2] <= ran[f[g][1]]
          /\ f[g][2] = ran[f[g][1]] => pc[f[g][1]] \in Past
      BY <1>1, <1>6, <2>2 DEF Attributes
    <3>2. f[g][1] \in Procs
      <4>1. f[g] \in Commits(setup)
        BY <1>1, <2>2
      <4> QED BY <4>1 DEF Commits
    <3> QED BY <3>1, <3>2 DEF Past
  <2> QED BY <1>4, <2>1, <2>2
<1>10. \A g, h \in 2 .. Newest + 1 : e[g] = e[h] => g = h
  <2> HIDE DEF e, m
  <2>1. \A g, h \in 2 .. Newest : e[g] = e[h] => g = h
    BY <1>1, <1>6 DEF Attributes
  <2> QED BY <1>4, <1>6, <1>7, <2>1
<1> HIDE DEF e
<1>11. PICK k \in [2 .. Newest' -> Commits(setup)] : k = e
  BY <1>5
<1>12. Attributes(k)'
  BY <1>9, <1>10, <1>11 DEF Attributes
<1> QED BY <1>12 DEF Counted, Commits

LEMMA CreateHolds ==
  ASSUME KeyringInv, Types', NEW p \in Procs, Create(p), UNCHANGED memory, Recorded
  PROVE  KeyringInv'
<1>1. Types /\ Holds(p) /\ Counted /\ pc[p] = "create"
  BY DEF KeyringInv, Create
<1>2. CASE com[p].gen # Newest
  <2>1. Calm /\ UNCHANGED <<ran, waits>> /\ Retry(p)
    BY <1>2 DEF Create, Calm, memory
  <2> QED BY <1>1, <2>1, RetrySteps
<1>3. CASE com[p].gen = Newest
  <2>1. /\ chain' = Append(chain, p) /\ live' = live \cup {Newest + 1} /\ Goto(p, "refresh")
        /\ UNCHANGED <<lst, com, verd, mine, left, tries>>
        /\ UNCHANGED <<setup, snaps, idx, storage, faults, ran, hit, waits>>
    BY <1>3 DEF Create, memory
  <2>2. pc'[p] = "refresh" /\ \A q \in Procs \ {p} : pc'[q] = pc[q]
    BY <1>1, <2>1 DEF Goto, Types, Holdings
  <2>3. Role(p)' = "writer" /\ Role(p) = "writer"
    BY <1>1, <2>1 DEF Role, Holds, Places, Suits, WriterCalls
  <2>4. /\ Newest \in Nat \ {0} /\ Newest' = Newest + 1 /\ chain'[Newest + 1] = p
        /\ \A g \in 1 .. Newest : chain'[g] = chain[g]
    <3>1. chain \in Seq(Procs \cup {Genesis}) /\ p \in Procs \cup {Genesis}
      BY <1>1 DEF Types, Heads
    <3> QED BY <1>1, <2>1, <3>1 DEF Newest, Types, Heads
  <2>5. PICK n \in Nat : n = Newest + 1
    BY <2>4
  <2>6. Sel(n)' = Candidate(p) /\ \A g \in 1 .. Newest : Sel(g)' = Sel(g)
    BY <1>3, <2>4, <2>5 DEF Sel, Candidate
  <2>7. \A i \in Positions : Valid(Candidate(p), i) \/ <<Candidate(p), i>> \in hit
    BY <1>1, <1>3 DEF Holds, Works, Selects
  <2>8. Grows
    <3>1. ASSUME NEW i \in Positions PROVE Valid(Sel(n), i)' \/ <<Sel(n), i>>' \in hit'
      <4>1. UNCHANGED <<stored, gone, bad, hit>>
        BY <2>1 DEF storage
      <4>2. <<Sel(n), i>>' = <<Candidate(p), i>>
        BY <2>6
      <4>3. Valid(Sel(n), i)' <=> \E c \in stored' \ (gone' \cup bad') : c.set = Sel(n)' /\ c.pos = i
        BY DEF Valid
      <4>4. Valid(Sel(n), i)' <=> Valid(Candidate(p), i)
        BY <2>6, <4>1, <4>3 DEF Valid
      <4> QED BY <2>7, <4>1, <4>2, <4>4
    <3>2. \A g \in live' \ live :
            /\ g = Newest + 1 /\ Newest' = Newest + 1
            /\ \A i \in Positions : Valid(Sel(g), i)' \/ <<Sel(g), i>>' \in hit'
      <4> SUFFICES ASSUME NEW g \in live' \ live
                   PROVE  /\ g = n
                          /\ \A i \in Positions : Valid(Sel(g), i)' \/ <<Sel(g), i>>' \in hit'
        BY <2>4, <2>5
      <4>1. g = n
        BY <2>1, <2>5
      <4> QED BY <3>1, <4>1
    <3> QED BY <2>1, <2>4, <3>2 DEF Grows, storage
  <2>9. Places(p)'
    BY <1>1, <2>1, <2>2, <2>3, GoesOn
    DEF Holds, Suits, WriterCalls, PrunerCalls, RefresherCalls, FetcherCalls
  <2>10. Reads(p)'
    <3>1. /\ com[p] = Sel(com[p].gen) /\ lst[p].head \in 0 .. Newest
          /\ lst[p].copies \subseteq stored
      BY <1>1, <2>3 DEF Holds, Reads
    <3>2. com[p] = [gen |-> com[p].gen, by |-> chain'[com[p].gen]]
      BY <1>3, <2>4, <3>1 DEF Sel
    <3>3. com[p].gen \in 1 .. Newest' /\ com[p].gen < Newest' /\ lst[p].head \in 0 .. Newest'
      BY <1>3, <2>4, <3>1
    <3> QED BY <2>1, <3>1, <3>2, <3>3 DEF Reads, Sel, storage
  <2>11. Works(p)'
    BY <1>1, <2>1, <2>2 DEF Holds, Works, Blank, storage
  <2>12. Passes(p)' /\ Disposes(p)' /\ Selects(p)'
    BY <2>2, <2>3 DEF Passes, Disposes, Selects
  <2>13. Counted'
    BY <1>1, <2>1, <2>2, <2>4, CreateCounts DEF Holds
  <2>14. \A q \in Procs \ {p} : Still(q)
    BY <2>1, <2>2 DEF Still
  <2> QED
    BY <2>8, <2>9, <2>10, <2>11, <2>12, <2>13, <2>14, OneSteps DEF Holds
<1> QED BY <1>2, <1>3

\* A run that ends, whichever call ends it.
LEMMA EndingHolds ==
  ASSUME KeyringInv, Types', NEW p \in Procs, Refresh(p) \/ ReadDone(p) \/ Kill(p),
         UNCHANGED memory, Recorded
  PROVE  KeyringInv'
<1>1. Types /\ Holds(p)
  BY DEF KeyringInv
<1>2. Calm /\ UNCHANGED <<ran, waits>> /\ Ended(p)
  BY DEF Refresh, ReadDone, Kill, chained, Calm, memory
<1>3. pc[p] \notin {"idle", "waiting"}
  <2>1. CASE Refresh(p) \/ ReadDone(p)
    BY <2>1 DEF Refresh, ReadDone
  <2>2. CASE Kill(p)
    <3>1. pc[p] = "waiting" => p \in setup.served
      BY <1>1, CastAssumption DEF Types, Heads, Holds, Places, Suits, FetcherCalls, Role
    <3>2. p \in setup.killed /\ setup.killed \cap setup.served = {}
      BY <1>1, <2>2, CastAssumption DEF Kill, Types, Heads
    <3> QED BY <2>2, <3>1, <3>2 DEF Kill
  <2> QED BY <2>1, <2>2
<1> QED BY <1>2, <1>3, EndedSteps

-----------------------------------------------------------------------------
(* A prune, and Storage *)

LEMMA CheckpointHolds ==
  ASSUME KeyringInv, Types', NEW p \in Procs, Checkpoint(p), UNCHANGED memory, Recorded
  PROVE  KeyringInv'
<1>1. Types /\ Holds(p) /\ pc[p] = "checkpoint"
  BY DEF KeyringInv, Checkpoint
<1>2. Calm /\ UNCHANGED <<ran, waits>>
  BY DEF Checkpoint, Calm, memory
<1>3. CASE Ended(p)
  BY <1>1, <1>2, <1>3, EndedSteps
<1>4. CASE ~Ended(p)
  <2> DEFINE h == lst[p].head
             r == IF snaps[h] = 0 THEN idx[setup.dev[p]] ELSE snaps[h]
  <2>1. /\ UNCHANGED <<lst, verd, mine, left, tries>> /\ Goto(p, "read")
        /\ r = h /\ com' = [com EXCEPT ![p] = Sel(h)]
    BY <1>4 DEF Checkpoint
  <2>2. /\ pc'[p] = "read" /\ com'[p] = Sel(h)
        /\ \A q \in Procs \ {p} : pc'[q] = pc[q] /\ com'[q] = com[q]
    BY <1>1, <2>1 DEF Goto, Types, Holdings
  <2>3. Role(p)' = "pruner" /\ Role(p) = "pruner"
    BY <1>1, <1>2, CalmValues DEF Holds, Places, Suits, PrunerCalls
  <2>4. h \in 1 .. Newest
    <3>1. h \in 0 .. Newest
      BY <1>1 DEF Holds, Reads
    <3>2. idx[setup.dev[p]] \in 1 .. Newest
      <4>1. setup.dev[p] \in Devices
        BY <1>1, SetupAssumption DEF Types, Heads
      <4> QED BY <1>1, <4>1 DEF Types, Heads
    <3>3. r # 0
      BY <3>2
    <3> QED BY <1>1, <2>1, <3>1, <3>3 DEF Types, Heads
  <2>5. PICK g \in 1 .. Newest : g = h
    BY <2>4
  <2>6. com'[p] = Sel(g) /\ Sel(g).gen = g /\ lst'[p].head = g
    BY <2>1, <2>2, <2>5 DEF Sel
  <2>7. Sel(g)' = Sel(g) /\ Newest' = Newest /\ Newest \in Nat \ {0}
    BY <1>1, <1>2, CalmValues
  <2>8. Reads(p)'
    <3>1. lst'[p].copies \subseteq stored'
      BY <1>1, <1>2, <2>1, <2>3 DEF Holds, Reads, Calm, storage
    <3>2. com'[p] = [gen |-> g, by |-> chain'[g]] /\ lst'[p].head \in 0 .. Newest'
      BY <2>6, <2>7 DEF Sel
    <3> QED BY <2>2, <2>7, <3>1, <3>2 DEF Reads, Sel
  <2>9. verd[p] = Unread /\ mine[p] = {}
    BY <1>1, <2>3 DEF Holds, Works, Blank
  <2>10. Works(p)'
    BY <2>1, <2>2, <2>9 DEF Works, Blank, Unread, Positions
  <2>11. Passes(p)'
    BY <2>1, <2>2, <2>9 DEF Passes, Unread, Positions
  <2>12. Disposes(p)'
    BY <1>1, <1>2, <2>1, <2>2, <2>3, <2>6 DEF Holds, Disposes, Calm
  <2>13. Selects(p)'
    BY <2>2 DEF Selects
  <2>14. Suits(pc'[p], Role(p))
    BY <2>2, <2>3 DEF Suits, WriterCalls, PrunerCalls, RefresherCalls, FetcherCalls
  <2>15. \A q \in Procs \ {p} : Still(q)
    BY <1>2, <2>1, <2>2 DEF Still
  <2> QED
    BY <1>1, <1>2, <2>1, <2>2, <2>8, <2>10, <2>11, <2>12, <2>13, <2>14, <2>15, OwnSteps DEF Past
<1> QED BY <1>3, <1>4

\* Nothing is removed before every position was found valid, and no replica
\* before every record that was listed went.
LEMMA PassingHolds ==
  ASSUME KeyringInv, Types', NEW p \in Procs, Gate(p) \/ RecordsTrashed(p),
         UNCHANGED memory, Recorded
  PROVE  KeyringInv'
<1>1. Types /\ Holds(p)
  BY DEF KeyringInv
<1>2. Calm /\ UNCHANGED <<ran, waits>>
  BY DEF Gate, RecordsTrashed, chained, Calm, memory
<1>3. CASE Ended(p)
  BY <1>2, <1>3, EndedSteps DEF Gate, RecordsTrashed
<1>4. CASE ~Ended(p)
  <2>1. /\ UNCHANGED <<lst, com, verd, mine, left, tries>>
        /\ \/ /\ pc[p] = "read" /\ Role(p) = "pruner" /\ Complete(p)
              /\ Goto(p, "records")
           \/ /\ pc[p] = "records" /\ lst[p].heads \subseteq {lst[p].head} /\ ~left[p]
              /\ Goto(p, "replicas")
    BY <1>4 DEF Gate, RecordsTrashed
  <2>2. /\ \/ pc[p] = "read" /\ pc'[p] = "records" /\ \A i \in Positions : verd[p][i] = "valid"
           \/ /\ pc[p] = "records" /\ pc'[p] = "replicas"
              /\ lst[p].heads \subseteq {lst[p].head} /\ ~left[p]
        /\ \A q \in Procs \ {p} : pc'[q] = pc[q]
    BY <1>1, <2>1 DEF Goto, Types, Holdings, Complete, Left
  <2>3. Role(p)' = "pruner" /\ Role(p) = "pruner"
    BY <1>1, <1>2, <2>1, CalmValues DEF Holds, Places, Suits, PrunerCalls
  <2>4. Reads(p)'
    BY <1>1, <1>2, <2>1, <2>2, ReadsOn DEF Holds
  <2>5. Works(p)'
    BY <1>1, <1>2, <2>1, <2>2 DEF Holds, Works, Blank, Calm, storage
  <2>6. Passes(p)'
    <3>1. through'[p] \subseteq through[p]
      BY <1>1, <2>2, Watched
    <3>2. \A i \in Positions : <<com[p].gen, i>> \notin through[p]
      BY <1>1, <2>2, <2>3 DEF Holds, Passes
    <3> QED BY <2>1, <3>1, <3>2 DEF Passes, Positions
  <2>7. Disposes(p)'
    <3>1. CASE pc[p] = "read"
      BY <1>1, <1>2, <2>1, <2>2, <2>3, <3>1 DEF Holds, Disposes, Calm
    <3>2. CASE pc[p] = "records"
      <4>1. com[p].gen = lst[p].head
        BY <1>1, <2>3, <3>2 DEF Holds, Disposes
      <4>2. \A g \in live : g < lst[p].head => g \in lst[p].heads
        BY <1>1, <2>2, <2>3, <3>2 DEF Holds, Disposes
      <4>3. lst[p].head \in Nat /\ \A g \in live : g \in Nat
        BY <1>1 DEF Holds, Reads, Types, Heads
      <4>4. lst[p].heads \subseteq {lst[p].head}
        BY <2>2, <3>2
      <4>5. \A g \in live : g >= com[p].gen
        BY <4>1, <4>2, <4>3, <4>4
      <4> QED BY <1>2, <2>1, <2>2, <3>2, <4>1, <4>5 DEF Disposes, Calm
    <3> QED BY <2>2, <3>1, <3>2
  <2>8. Selects(p)'
    BY <2>2 DEF Selects
  <2>9. Suits(pc'[p], Role(p))
    BY <2>2, <2>3 DEF Suits, WriterCalls, PrunerCalls, RefresherCalls, FetcherCalls
  <2>10. \A q \in Procs \ {p} : Still(q)
    BY <1>2, <2>1, <2>2 DEF Still
  <2> QED
    BY <1>2, <2>1, <2>2, <2>4, <2>5, <2>6, <2>7, <2>8, <2>9, <2>10, OwnSteps DEF Past
<1> QED BY <1>3, <1>4

\* What is left of the records below the head is listed, or one could not go.
LEMMA TrashRecordHolds ==
  ASSUME KeyringInv, Types', NEW p \in Procs, TrashRecord(p), UNCHANGED memory, Recorded
  PROVE  KeyringInv'
<1>1. Types /\ Holds(p) /\ Counted /\ pc[p] = "records"
  BY DEF KeyringInv, TrashRecord
<1>2. UNCHANGED <<setup, chain, storage, hit, pc, com, verd, mine, tries, ran, waits>>
  BY DEF TrashRecord, memory
<1>3. PICK g \in lst[p].heads :
        /\ lst' = [lst EXCEPT ![p].heads = @ \ {g}]
        /\ \/ live' = live \ {g} /\ left' = left
           \/ left' = [left EXCEPT ![p] = TRUE] /\ live' = live
  BY DEF TrashRecord
<1>4. /\ lst'[p].heads = lst[p].heads \ {g} /\ lst'[p].head = lst[p].head
      /\ lst'[p].copies = lst[p].copies
      /\ \A q \in Procs \ {p} : lst'[q] = lst[q] /\ left'[q] = left[q]
      /\ live' \subseteq live /\ (left'[p] \/ (live' = live \ {g} /\ left'[p] = left[p]))
  <2>1. lst \in [Procs -> Listings] /\ left \in [Procs -> BOOLEAN] /\ lst[p] \in Listings
    BY <1>1 DEF Types, Holdings
  <2>2. /\ lst'[p] = [lst[p] EXCEPT !.heads = @ \ {g}]
        /\ \A q \in Procs \ {p} : lst'[q] = lst[q]
    BY <1>3, <2>1
  <2>3. /\ \A q \in Procs \ {p} : left'[q] = left[q]
        /\ live' \subseteq live /\ (left'[p] \/ (live' = live \ {g} /\ left'[p] = left[p]))
    <3>1. CASE left' = left /\ live' = live \ {g}
      BY <3>1
    <3>2. CASE left' = [left EXCEPT ![p] = TRUE] /\ live' = live
      BY <2>1, <3>2
    <3> QED BY <1>3, <3>1, <3>2
  <2> QED BY <2>1, <2>2, <2>3 DEF Listings
<1>5. Role(p)' = "pruner" /\ Role(p) = "pruner"
  BY <1>1, <1>2 DEF Holds, Places, Suits, PrunerCalls, Role
<1>6. Newest' = Newest
  BY <1>2 DEF Newest
<1>7. Grows
  BY <1>2, <1>4, <1>6 DEF Grows, storage
<1>8. Places(p)'
  BY <1>1, <1>2, <1>5, GoesOn DEF Holds, Places
<1>9. Reads(p)'
  BY <1>1, <1>2, <1>4, <1>5, <1>6 DEF Holds, Reads, Sel, storage
<1>10. Works(p)' /\ Selects(p)'
  BY <1>1, <1>2 DEF Holds, Works, Blank, storage, Selects
<1>11. Passes(p)'
  <2>1. through'[p] \subseteq through[p]
    BY <1>1, <1>2, Watched
  <2> QED BY <1>1, <1>2, <2>1 DEF Holds, Passes, Positions
<1>12. Disposes(p)'
  BY <1>1, <1>2, <1>4, <1>5 DEF Holds, Disposes
<1>13. Counted'
  <2>1. \A q \in Procs : Advances(q)
    BY <1>1, <1>2 DEF Advances, Types
  <2> QED BY <1>1, <1>2, <2>1, CountedStays
<1>14. \A q \in Procs \ {p} : Still(q)
  BY <1>2, <1>4 DEF Still
<1> QED
  BY <1>7, <1>8, <1>9, <1>10, <1>11, <1>12, <1>13, <1>14, OneSteps DEF Holds

\* What is disposed of is of a generation no standing record selects.
LEMMA DisposeHolds ==
  ASSUME KeyringInv, Types', NEW p \in Procs, Dispose(p), UNCHANGED memory, Recorded
  PROVE  KeyringInv'
<1>1. Types /\ Holds(p) /\ Counted /\ pc[p] = "replicas"
  BY DEF KeyringInv, Dispose
<1>2. UNCHANGED <<setup, chain, live, stored, bad, hit, pc, com, verd, mine, left, tries, ran, waits>>
  BY DEF Dispose, chained, memory
<1>3. PICK c \in Superseded(p) :
        /\ lst' = [lst EXCEPT ![p].copies = @ \ {c}]
        /\ gone' = gone \cup {c} \/ gone' = gone
  BY DEF Dispose
<1>4. /\ lst'[p].copies \subseteq lst[p].copies /\ lst'[p].head = lst[p].head
      /\ \A q \in Procs \ {p} : lst'[q] = lst[q]
  BY <1>1, <1>3 DEF Types, Holdings, Listings
<1>5. Role(p)' = "pruner" /\ Role(p) = "pruner"
  BY <1>1, <1>2 DEF Holds, Places, Suits, PrunerCalls, Role
<1>6. Newest' = Newest
  BY <1>2 DEF Newest
<1>7. Grows
  <2>1. c.set.gen < com[p].gen /\ c \in stored
    BY <1>1, <1>3, <1>5 DEF Superseded, Holds, Reads
  <2>2. com[p].gen \in 1 .. Newest /\ c.set.gen \in Nat /\ Newest \in Nat
    BY <1>1, <2>1 DEF Holds, Reads, Types, Heads, Objects, Copies, Sets
  <2>3. \A g \in live : g >= com[p].gen
    BY <1>1 DEF Holds, Disposes
  <2>4. c.set.gen < Newest /\ c.set.gen \notin live
    BY <2>1, <2>2, <2>3
  <2> QED BY <1>2, <1>3, <1>6, <2>4 DEF Grows
<1>8. Places(p)'
  BY <1>1, <1>2, <1>5, GoesOn DEF Holds, Places
<1>9. Reads(p)'
  BY <1>1, <1>2, <1>4, <1>5, <1>6 DEF Holds, Reads, Sel
<1>10. Works(p)' /\ Selects(p)'
  BY <1>1, <1>2 DEF Holds, Works, Blank, Selects
<1>11. Passes(p)'
  <2>1. through'[p] \subseteq through[p]
    BY <1>1, <1>2, Watched
  <2> QED BY <1>1, <1>2, <2>1 DEF Holds, Passes, Positions
<1>12. Disposes(p)'
  <2>1. com[p].gen = lst[p].head /\ \A g \in live : g >= com[p].gen
    BY <1>1, <1>5 DEF Holds, Disposes
  <2> QED BY <1>1, <1>2, <1>4, <2>1 DEF Disposes
<1>13. Counted'
  <2>1. \A q \in Procs : Advances(q)
    BY <1>1, <1>2 DEF Advances, Types
  <2> QED BY <1>1, <1>2, <2>1, CountedStays
<1>14. \A q \in Procs \ {p} : Still(q)
  BY <1>2, <1>4 DEF Still
<1> QED
  BY <1>7, <1>8, <1>9, <1>10, <1>11, <1>12, <1>13, <1>14, OneSteps DEF Holds

LEMMA DisposedHolds ==
  ASSUME KeyringInv, Types', NEW p \in Procs, Disposed(p), UNCHANGED memory, Recorded
  PROVE  KeyringInv'
<1>1. Calm /\ UNCHANGED <<ran, waits>> /\ Ended(p) /\ pc[p] = "replicas"
  BY DEF Disposed, chained, Calm, memory
<1> QED BY <1>1, EndedSteps

\* What Storage does to an object is in the history.
LEMMA FaultHolds ==
  ASSUME KeyringInv, Types', NEW c \in stored, Fault(c), UNCHANGED memory, Recorded
  PROVE  KeyringInv'
<1>1. Types /\ Counted /\ SelectedSafe
  BY DEF KeyringInv
<1>2. /\ UNCHANGED <<setup, chain, live, stored>> /\ UNCHANGED <<run, waits>>
      /\ hit' = hit \cup {<<c.set, c.pos>>}
      /\ gone' \subseteq gone \cup {c} /\ bad' \subseteq bad \cup {c}
  BY DEF Fault, chained, memory
<1>3. Grows
  BY <1>2 DEF Grows, Newest
<1>4. \A q \in Procs : Still(q) /\ Holds(q) /\ Advances(q)
  BY <1>1, <1>2 DEF KeyringInv, Still, run, Advances, Types
<1>5. \A q \in Procs : Holds(q)'
  BY <1>1, <1>3, <1>4, BystanderHolds
<1>6. Counted'
  BY <1>1, <1>2, <1>4, CountedStays
<1> QED BY <1>1, <1>3, <1>5, <1>6, SelectedStays DEF KeyringInv

-----------------------------------------------------------------------------
(* The memory of reads, and the fetches that share it *)

\* A fetch that goes on or ends, of its own call or of the one it waited for.
Moves(p) ==
  /\ pc'[p] \in FetcherCalls \cup {"idle", "read"}
  /\ waits'[p] # p => pc'[p] = "waiting"
  /\ ran[p] <= ran'[p] /\ ran'[p] <= setup.runs[p] /\ (pc'[p] # "idle" => ran'[p] # 0)
  /\ tries'[p] = 0 /\ mine'[p] = {}
  /\ com'[p] = com[p] \/ \E g \in 1 .. Newest : com'[p] = Sel(g)
  /\ lst'[p].head \in {0, lst[p].head}

LEMMA MovingHolds ==
  ASSUME Types, NEW p \in Procs, Holds(p), Role(p) = "fetcher", Calm, Moves(p)
  PROVE  Holds(p)' /\ Advances(p)
<1>1. /\ Role(p)' = "fetcher" /\ Newest' = Newest /\ Newest \in Nat \ {0}
      /\ setup' = setup /\ \A g \in 1 .. Newest : Sel(g)' = Sel(g)
  BY CalmValues DEF Calm
<1>2. Places(p)'
  <2>1. Suits(pc'[p], "fetcher") /\ pc'[p] # "again"
    BY DEF Moves, Suits, FetcherCalls, WriterCalls, PrunerCalls, RefresherCalls
  <2>2. tries'[p] <= Attempts
    BY BoundAssumption DEF Moves
  <2> QED BY <1>1, <2>1, <2>2 DEF Places, Moves
<1>3. Reads(p)'
  <2>1. PICK g \in 1 .. Newest : com'[p] = Sel(g)
    BY DEF Holds, Reads, Moves
  <2>2. com'[p] = [gen |-> g, by |-> chain'[g]]
    BY <1>1, <2>1 DEF Sel
  <2>3. lst'[p].head \in 0 .. Newest'
    BY <1>1 DEF Holds, Reads, Moves
  <2>4. pc'[p] # "refresh"
    BY DEF Moves, FetcherCalls
  <2> QED BY <1>1, <2>2, <2>3, <2>4 DEF Reads, Sel
<1>4. pc'[p] \notin {"repair", "write", "prove", "aim", "create", "records", "replicas"}
  BY DEF Moves, FetcherCalls
<1>5. Works(p)' /\ Passes(p)' /\ Disposes(p)' /\ Selects(p)'
  BY <1>1, <1>4 DEF Works, Passes, Disposes, Selects, Moves
<1> QED BY <1>1, <1>2, <1>3, <1>5 DEF Holds, Advances, Moves

LEMMA FetchSteps ==
  ASSUME KeyringInv, Types', Calm, Recorded,
         \A q \in Procs : Still(q) \/ (Role(q) = "fetcher" /\ Moves(q))
  PROVE  KeyringInv'
<1>1. Types /\ Grows
  BY CalmGrows DEF KeyringInv
<1>2. ASSUME NEW q \in Procs PROVE Holds(q)' /\ Advances(q)
  <2>1. CASE Still(q)
    <3>1. Advances(q)
      BY <1>1, <2>1 DEF Still, Advances, Types
    <3> QED BY <1>1, <2>1, <3>1, BystanderHolds DEF KeyringInv
  <2>2. CASE Role(q) = "fetcher" /\ Moves(q)
    BY <1>1, <2>2, MovingHolds DEF KeyringInv
  <2> QED BY <2>1, <2>2
<1>3. Counted'
  BY <1>1, <1>2, CountedStays DEF KeyringInv, Calm
<1> QED BY <1>1, <1>2, <1>3, SelectedStays DEF KeyringInv

\* What a fetch that is under way has.
LEMMA Fetching ==
  ASSUME Types, NEW p \in Procs, Holds(p), pc[p] # "waiting",
         pc[p] \in FetcherCalls \/ Role(p) = "fetcher"
  PROVE  /\ Role(p) = "fetcher" /\ waits[p] = p /\ tries[p] = 0 /\ mine[p] = {}
         /\ ran[p] <= setup.runs[p] /\ ran[p] \in Nat /\ (pc[p] # "idle" => ran[p] # 0)
<1>1. Role(p) = "fetcher"
  BY DEF Holds, Places, Suits
<1>2. pc[p] \notin {"repair", "write", "prove", "aim", "create", "refresh"}
  BY <1>1 DEF Holds, Places, Suits, WriterCalls
<1> QED BY <1>1, <1>2 DEF Holds, Places, Works, Types

LEMMA WaitingIsFetching ==
  ASSUME Types, NEW p \in Procs, Holds(p), pc[p] = "waiting"
  PROVE  /\ Role(p) = "fetcher" /\ tries[p] = 0 /\ mine[p] = {}
         /\ ran[p] <= setup.runs[p] /\ ran[p] \in Nat /\ ran[p] # 0
<1>1. Role(p) = "fetcher"
  BY DEF Holds, Places, Suits, FetcherCalls
<1> QED BY <1>1 DEF Holds, Places, Works, Types

LEMMA FetchHolds ==
  ASSUME KeyringInv, Types', NEW p \in Procs, Fetch(p), Recorded
  PROVE  KeyringInv'
<1>1. Types /\ Holds(p)
  BY DEF KeyringInv
<1>2. Calm /\ UNCHANGED <<lst, verd, mine, left, tries, waits>>
  BY DEF Fetch, StorageSame, chained, Calm, memory
<1>3. /\ Role(p) = "fetcher" /\ pc[p] = "idle" /\ ran[p] < setup.runs[p]
      /\ ran' = [ran EXCEPT ![p] = @ + 1] /\ pc' = [pc EXCEPT ![p] = "list turn"]
      /\ com' = [com EXCEPT ![p] = Sel(idx[setup.dev[p]])]
  BY DEF Fetch, Begin, Goto
<1>4. /\ ran'[p] = ran[p] + 1 /\ pc'[p] = "list turn" /\ com'[p] = Sel(idx[setup.dev[p]])
      /\ \A q \in Procs \ {p} : ran'[q] = ran[q] /\ pc'[q] = pc[q] /\ com'[q] = com[q]
  <2>1. ran \in [Procs -> Nat]
    BY <1>1 DEF Types
  <2>2. ran'[p] = ran[p] + 1 /\ \A q \in Procs \ {p} : ran'[q] = ran[q]
    BY <1>3, <2>1
  <2>3. pc \in [Procs -> Calls] /\ com \in [Procs -> Sets]
    BY <1>1 DEF Types, Holdings
  <2> QED BY <1>3, <2>2, <2>3
<1>5. waits[p] = p /\ tries[p] = 0 /\ mine[p] = {} /\ ran[p] \in Nat
  BY <1>1, <1>3, Fetching
<1>6. setup.runs[p] \in Nat /\ idx[setup.dev[p]] \in 1 .. Newest
  <2>1. setup.dev[p] \in Devices /\ setup.runs[p] \in Nat
    BY <1>1, SetupAssumption DEF Types, Heads
  <2> QED BY <1>1, <2>1 DEF Types, Heads
<1>7. ran[p] <= ran'[p] /\ ran'[p] <= setup.runs[p] /\ ran'[p] # 0
  <2>1. ran'[p] = ran[p] + 1 /\ ran[p] < setup.runs[p]
    BY <1>3, <1>4
  <2> QED BY <1>5, <1>6, <2>1
<1>8. Moves(p)
  BY <1>2, <1>4, <1>5, <1>6, <1>7 DEF Moves, FetcherCalls
<1>9. \A q \in Procs \ {p} : Still(q)
  BY <1>2, <1>4 DEF Still
<1> QED BY <1>2, <1>3, <1>8, <1>9, FetchSteps

\* A turn either answers from the memory, waits for another's read, or reads.
LEMMA TurnHolds ==
  ASSUME KeyringInv, Types', NEW p \in Procs, ListTurn(p) \/ Keep(p) \/ TableTurn(p),
         Recorded
  PROVE  KeyringInv'
<1>1. Types /\ Holds(p)
  BY DEF KeyringInv
<1>2. Calm /\ UNCHANGED <<com, mine, left, tries, ran>>
  BY DEF ListTurn, Keep, TableTurn, StorageSame, chained, Calm
<1>3. pc[p] \in {"list turn", "keeping", "table turn"}
  BY DEF ListTurn, Keep, TableTurn
<1>4. /\ Role(p) = "fetcher" /\ waits[p] = p /\ tries[p] = 0 /\ mine[p] = {}
      /\ ran[p] <= setup.runs[p] /\ ran[p] \in Nat /\ ran[p] # 0
  BY <1>1, <1>3, Fetching DEF FetcherCalls
<1>5. \/ waits' = waits /\ \E l \in {"table turn", "listing", "told", "read"} : Goto(p, l)
      \/ (\E q : waits' = [waits EXCEPT ![p] = q]) /\ Goto(p, "waiting")
  BY DEF ListTurn, Keep, TableTurn
<1>6. /\ pc'[p] \in FetcherCalls \cup {"read"}
      /\ waits'[p] # p => pc'[p] = "waiting"
      /\ \A q \in Procs \ {p} : pc'[q] = pc[q] /\ waits'[q] = waits[q]
  <2>1. pc \in [Procs -> Calls] /\ waits \in [Procs -> Procs]
    BY <1>1 DEF Types, Holdings, Memory
  <2> QED BY <1>4, <1>5, <2>1 DEF Goto, FetcherCalls
<1>7. /\ lst'[p].head = lst[p].head
      /\ \A q \in Procs \ {p} : lst'[q] = lst[q] /\ verd'[q] = verd[q]
  <2>1. /\ lst \in [Procs -> Listings] /\ lst[p] \in Listings
        /\ verd \in [Procs -> [Positions -> Verdicts]]
    BY <1>1 DEF Types, Holdings
  <2>2. lst' = lst \/ \E S : lst' = [lst EXCEPT ![p].copies = S]
    BY DEF ListTurn, Keep, TableTurn
  <2>3. verd' = verd \/ verd' = [verd EXCEPT ![p] = table.verd]
    BY DEF ListTurn, Keep, TableTurn
  <2> QED BY <2>1, <2>2, <2>3 DEF Listings
<1>8. Moves(p)
  BY <1>2, <1>4, <1>6, <1>7 DEF Moves
<1>9. \A q \in Procs \ {p} : Still(q)
  BY <1>2, <1>6, <1>7 DEF Still
<1> QED BY <1>2, <1>4, <1>8, <1>9, FetchSteps

\* A read that lands, or is dropped, takes those who wait for it along.
LEMMA LandingHolds ==
  ASSUME KeyringInv, Types', NEW p \in Procs,
         ListRefused(p) \/ ListRead(p) \/ TableRead(p) \/ Drop(p), Recorded
  PROVE  KeyringInv'
<1>1. Types /\ Holds(p) /\ pc[p] \in {"listing", "read"}
  BY DEF KeyringInv, ListRefused, ListRead, TableRead, Drop
<1>2. Calm /\ UNCHANGED <<mine, left, tries, ran>>
  BY DEF ListRefused, ListRead, TableRead, Drop, StorageSame, chained, Calm
<1>3. /\ Role(p) = "fetcher" /\ waits[p] = p /\ tries[p] = 0 /\ mine[p] = {}
      /\ ran[p] <= setup.runs[p] /\ ran[p] \in Nat /\ ran[p] # 0
  <2>1. pc[p] \in FetcherCalls \/ Role(p) = "fetcher"
    BY DEF ListRefused, ListRead, TableRead, Drop, FetcherCalls
  <2> QED BY <1>1, <2>1, Fetching
<1>4. /\ p \notin Waiting(p)
      /\ \A q \in Waiting(p) : q \in Procs /\ pc[q] = "waiting"
  BY <1>1 DEF Waiting
<1>5. /\ pc'[p] \in FetcherCalls \cup {"idle"}
      /\ \A q \in Waiting(p) : pc'[q] \in FetcherCalls /\ waits'[q] = q
      /\ \A q \in Procs \ (Waiting(p) \cup {p}) : pc'[q] = pc[q] /\ waits'[q] = waits[q]
      /\ waits'[p] = p
  <2>1. Freed(Waiting(p))
    <3>1. CASE TableRead(p)
      <4>1. Freed(Waiting(p) \cup {p})
        BY <3>1 DEF TableRead
      <4> QED BY <1>3, <4>1 DEF Freed
    <3> QED BY <3>1 DEF ListRefused, ListRead, Drop
  <2>2. /\ pc'[p] \in FetcherCalls \cup {"idle"}
        /\ \A q \in Waiting(p) : pc'[q] \in FetcherCalls
        /\ \A q \in Procs \ (Waiting(p) \cup {p}) : pc'[q] = pc[q]
    BY <1>4 DEF ListRefused, ListRead, TableRead, Drop, Moved, FetcherCalls
  <2> QED BY <1>3, <1>4, <2>1, <2>2 DEF Freed
<1>6. /\ com'[p] = com[p] \/ com'[p] = Sel(1)
      /\ lst'[p].head \in {0, lst[p].head}
      /\ \A q \in Procs \ {p} : com'[q] = com[q] /\ lst'[q].head = lst[q].head
      /\ \A q \in Procs \ (Waiting(p) \cup {p}) : lst'[q] = lst[q] /\ verd'[q] = verd[q]
  <2>1. /\ lst \in [Procs -> Listings] /\ com \in [Procs -> Sets]
        /\ verd \in [Procs -> [Positions -> Verdicts]]
        /\ \A q \in Procs : lst[q] \in Listings
    BY <1>1 DEF Types, Holdings
  <2>2. CASE ListRefused(p) \/ TableRead(p)
    BY <2>1, <2>2 DEF ListRefused, TableRead
  <2>3. CASE ListRead(p)
    BY <2>1, <2>3 DEF ListRead, Listings
  <2>4. CASE Drop(p)
    BY <2>1, <2>4, Defaults DEF Drop
  <2> QED BY <2>2, <2>3, <2>4
<1>7. Moves(p)
  <2>1. Newest \in Nat \ {0}
    BY <1>1 DEF Types, Heads
  <2>2. com'[p] = com[p] \/ \E g \in 1 .. Newest : com'[p] = Sel(g)
    BY <1>6, <2>1
  <2> QED BY <1>2, <1>3, <1>5, <1>6, <2>2 DEF Moves
<1>8. ASSUME NEW q \in Waiting(p) PROVE Role(q) = "fetcher" /\ Moves(q)
  <2>1. /\ Role(q) = "fetcher" /\ tries[q] = 0 /\ mine[q] = {}
        /\ ran[q] <= setup.runs[q] /\ ran[q] \in Nat /\ ran[q] # 0
    BY <1>1, <1>4, WaitingIsFetching DEF KeyringInv
  <2>2. q \in Procs \ {p}
    BY <1>4
  <2> QED BY <1>2, <1>5, <1>6, <2>1, <2>2 DEF Moves
<1>9. \A q \in Procs \ (Waiting(p) \cup {p}) : Still(q)
  BY <1>2, <1>5, <1>6 DEF Still
<1> QED BY <1>2, <1>3, <1>7, <1>8, <1>9, FetchSteps

LEMMA ToldHolds ==
  ASSUME KeyringInv, Types', NEW p \in Procs, Told(p), Recorded
  PROVE  KeyringInv'
<1>1. Calm /\ UNCHANGED <<ran, waits>> /\ Ended(p) /\ pc[p] = "told"
  BY DEF Told, StorageSame, chained, Calm, memory
<1> QED BY <1>1, EndedSteps

LEMMA RememberHolds ==
  ASSUME KeyringInv, Types', NEW p \in Procs, Remember(p), Recorded
  PROVE  KeyringInv'
<1>1. Types /\ Holds(p) /\ pc[p] = "remember"
  BY DEF KeyringInv, Remember
<1>2. Calm /\ UNCHANGED <<lst, com, verd, mine, left, tries, ran, waits>>
  BY DEF Remember, StorageSame, chained, Calm
<1>3. pc'[p] = "forget short" /\ \A q \in Procs \ {p} : pc'[q] = pc[q]
  BY <1>1 DEF Remember, Goto, Types, Holdings
<1>4. Role(p)' = "refresher" /\ Role(p) = "refresher"
  BY <1>1, <1>2, CalmValues DEF Holds, Places, Suits, RefresherCalls
<1>5. Reads(p)'
  BY <1>1, <1>2, <1>3, ReadsOn DEF Holds
<1>6. Works(p)'
  BY <1>1, <1>2, <1>3, <1>4 DEF Holds, Works, Blank, Unread
<1>7. Passes(p)' /\ Disposes(p)' /\ Selects(p)'
  BY <1>3, <1>4 DEF Passes, Disposes, Selects
<1>8. Suits(pc'[p], Role(p))
  BY <1>3, <1>4 DEF Suits, WriterCalls, PrunerCalls, RefresherCalls, FetcherCalls
<1>9. \A q \in Procs \ {p} : Still(q)
  BY <1>2, <1>3 DEF Still
<1> QED BY <1>1, <1>2, <1>3, <1>5, <1>6, <1>7, <1>8, <1>9, OwnSteps DEF Past

LEMMA ForgetHolds ==
  ASSUME KeyringInv, Types', NEW p \in Procs, Forget(p), Recorded
  PROVE  KeyringInv'
<1>1. Types /\ Holds(p) /\ pc[p] \in {"forget", "forget short"}
  BY DEF KeyringInv, Forget
<1>2. Calm /\ UNCHANGED <<com, verd, mine, left, tries, ran, waits>>
  BY DEF Forget, StorageSame, chained, Calm
<1>3. /\ pc'[p] = "idle" /\ lst'[p] = NoListing
      /\ \A q \in Procs \ {p} : pc'[q] = pc[q] /\ lst'[q] = lst[q]
  BY <1>1 DEF Forget, Types, Holdings
<1>4. /\ Role(p)' = Role(p) /\ Role(p) \in {"writer", "refresher"} /\ setup' = setup
      /\ Newest' = Newest /\ Newest \in Nat \ {0}
  BY <1>1, <1>2, CalmValues
  DEF Holds, Places, Suits, WriterCalls, RefresherCalls, Calm
<1>5. waits[p] = p /\ tries[p] = 0 /\ ran[p] <= setup.runs[p] /\ ran[p] \in Nat
  <2>1. Places(p) /\ ran[p] \in Nat
    BY <1>1 DEF Holds, Types
  <2>2. waits[p] = p /\ ran[p] <= setup.runs[p]
    BY <1>1, <2>1 DEF Places
  <2>3. Role(p) # "writer" \/ pc[p] = "forget"
    BY <1>1, <2>1 DEF Places, Suits, RefresherCalls
  <2>4. tries[p] = 0
    BY <2>1, <2>3 DEF Places
  <2> QED BY <2>1, <2>2, <2>4
<1>6. Places(p)'
  BY <1>2, <1>3, <1>4, <1>5, BoundAssumption
  DEF Places, Suits, WriterCalls, PrunerCalls, RefresherCalls, FetcherCalls
<1>7. Reads(p)'
  <2>1. PICK g \in 1 .. Newest : com[p] = Sel(g)
    BY <1>1 DEF Holds, Reads
  <2>2. com'[p] = [gen |-> g, by |-> chain'[g]]
    BY <1>2, <2>1 DEF Calm, Sel
  <2> QED BY <1>3, <1>4, <2>2, Defaults DEF Reads, Sel
<1>8. Works(p)'
  BY <1>1, <1>2, <1>3, <1>4 DEF Holds, Works, Blank, Unread
<1>9. Passes(p)' /\ Disposes(p)' /\ Selects(p)'
  BY <1>3 DEF Passes, Disposes, Selects
<1>10. \A q \in Procs \ {p} : Still(q)
  BY <1>2, <1>3 DEF Still
<1>11. Advances(p)
  BY <1>2, <1>3, <1>5 DEF Advances, Past
<1> QED BY <1>2, <1>6, <1>7, <1>8, <1>9, <1>10, <1>11, CalmSteps DEF Holds

-----------------------------------------------------------------------------
(* The invariant holds *)

LEMMA InitHolds == ASSUME MInit PROVE KeyringInv
<1>1. Types
  BY InitTypes
<1>2. chain = <<Genesis>> /\ Newest = 1 /\ Sel(1) = [gen |-> 1, by |-> Genesis]
  BY DEF MInit, Init, Newest, Sel
<1>3. Counted
  <2> DEFINE f == [g \in 2 .. 1 |-> g]
  <2>1. f \in [2 .. Newest -> Commits(setup)] /\ Attributes(f)
    BY <1>2 DEF Attributes
  <2> QED BY <2>1 DEF Counted
<1>4. SelectedSafe
  <2> SUFFICES ASSUME NEW i \in Positions PROVE Valid(Sel(1), i)
    BY DEF MInit, Init, SelectedSafe, Positions
  <2>1. [set |-> Sel(1), pos |-> i, n |-> 1] \in stored
    BY <1>2 DEF MInit, Init
  <2>2. gone = {} /\ bad = {}
    BY DEF MInit, Init
  <2> QED BY <2>1, <2>2 DEF Valid
<1>5. ASSUME NEW p \in Procs PROVE Holds(p)
  <2>1. /\ pc[p] = "idle" /\ lst[p] = NoListing /\ com[p] = [gen |-> 1, by |-> Genesis]
        /\ verd[p] = Unread /\ mine[p] = {} /\ tries[p] = 0 /\ ran[p] = 0 /\ waits[p] = p
    BY DEF MInit, Init
  <2>2. setup.runs[p] \in Nat
    BY <1>1, SetupAssumption DEF Types, Heads
  <2>3. Places(p)
    BY <2>1, <2>2, BoundAssumption
    DEF Places, Suits, WriterCalls, PrunerCalls, RefresherCalls, FetcherCalls
  <2>4. Reads(p)
    BY <1>2, <2>1, Defaults DEF Reads
  <2>5. Works(p)
    BY <2>1 DEF Works
  <2>6. Passes(p) /\ Disposes(p) /\ Selects(p)
    BY <2>1 DEF Passes, Disposes, Selects
  <2> QED BY <2>3, <2>4, <2>5, <2>6 DEF Holds
<1> QED BY <1>1, <1>3, <1>4, <1>5 DEF KeyringInv

LEMMA RunHolds ==
  ASSUME KeyringInv, Types', NEW p \in Procs, RunStep(p), UNCHANGED memory, Recorded
  PROVE  KeyringInv'
<1>1. CASE WriterStep(p)
  <2>1. CASE Create(p) \/ Refresh(p)
    BY <2>1, CreateHolds, EndingHolds
  <2>2. CASE Examined(p) \/ Repaired(p) \/ Replicated(p) \/ Aim(p)
    BY <2>2, ExaminedHolds, RepairedHolds, ReplicatedHolds, AimHolds
  <2>3. ASSUME NEW i \in Positions, Rewrite(p, i) \/ WriteReplica(p, i)
        PROVE  KeyringInv'
    BY <2>3, WriteHolds DEF Rewrite, WriteReplica
  <2>4. ASSUME NEW i \in Positions, ReadBack(p, i) PROVE KeyringInv'
    BY <2>4, ReadBackHolds
  <2> QED BY <1>1, <2>1, <2>2, <2>3, <2>4 DEF WriterStep
<1>2. CASE PrunerStep(p)
  BY <1>2, CheckpointHolds, PassingHolds, TrashRecordHolds, DisposeHolds, DisposedHolds
  DEF PrunerStep
<1>3. CASE List(p) \/ CatchUp(p) \/ Open(p) \/ ReadDone(p)
  BY <1>3, ListHolds, CatchUpHolds, OpenHolds, EndingHolds
<1>4. ASSUME NEW i \in Positions, ReadPosition(p, i) PROVE KeyringInv'
  BY <1>4, ReadPositionHolds
<1> QED BY <1>1, <1>2, <1>3, <1>4 DEF RunStep

LEMMA NextHolds == ASSUME KeyringInv, Next PROVE KeyringInv'
<1>1. Types'
  BY NextTypes DEF KeyringInv
<1>2. ASSUME NEW c \in stored, Fault(c), UNCHANGED memory, Recorded PROVE KeyringInv'
  BY <1>1, <1>2, FaultHolds
<1>3. ASSUME NEW p \in Procs, Recorded,
             FetchStep(p) \/ Fetch(p) \/ Drop(p)
      PROVE  KeyringInv'
  BY <1>1, <1>3, FetchHolds, TurnHolds, LandingHolds, ToldHolds, RememberHolds, ForgetHolds
  DEF FetchStep
<1>4. ASSUME NEW p \in Procs, RunStep(p) \/ Kill(p), UNCHANGED memory, Recorded
      PROVE  KeyringInv'
  BY <1>1, <1>4, RunHolds, EndingHolds
<1> QED BY <1>2, <1>3, <1>4 DEF Next, Step

LEMMA InvHolds == Spec => []KeyringInv
<1>1. KeyringInv /\ UNCHANGED mvars => KeyringInv'
  <2> SUFFICES ASSUME KeyringInv, UNCHANGED mvars PROVE KeyringInv'
    OBVIOUS
  <2> USE DEF mvars, vars, memory
  <2>1. Types'
    BY DEF KeyringInv, Types, Heads, Objects, Holdings, Histories, Memory, Newest
  <2>2. Counted'
    BY DEF KeyringInv, Counted, Attributes, Newest
  <2>3. SelectedSafe'
    BY DEF KeyringInv, SelectedSafe, Valid, Sel
  <2>4. ASSUME NEW p \in Procs PROVE Holds(p)'
    <3>1. Holds(p)
      BY DEF KeyringInv
    <3>2. Places(p)' /\ Reads(p)'
      BY <3>1 DEF Holds, Places, Reads, Role, Sel, Newest
    <3>3. Works(p)'
      BY <3>1 DEF Holds, Works, Role, Unread, Candidate
    <3>4. Passes(p)' /\ Disposes(p)'
      BY <3>1 DEF Holds, Passes, Disposes, Role
    <3>5. Selects(p)'
      BY <3>1 DEF Holds, Selects, Newest, Candidate, Valid
    <3> QED BY <3>2, <3>3, <3>4, <3>5 DEF Holds
  <2> QED BY <2>1, <2>2, <2>3, <2>4 DEF KeyringInv
<1> QED BY InitHolds, NextHolds, <1>1, PTL DEF Spec

-----------------------------------------------------------------------------
(* What a run may report as lost *)

\* A process whose own call a step is not.
Silent(p) == pc'[p] = pc[p] /\ lst'[p] = lst[p] /\ com'[p] = com[p] /\ verd'[p] = verd[p]

\* A listing has the one object of each position that its head selects, or the
\* position is invalid.
Listed(p) ==
  \A i \in Positions : \/ TheCopy(Sel(lst[p].head), i) \in lst[p].copies
                       \/ <<lst[p].head, i>> \in Invalid

\* Where it had one it has it still.
Hears(p) ==
  \/ pc'[p] = "idle" \/ lst'[p].head = 0
  \/ /\ pc[p] # "idle" /\ lst'[p].head = lst[p].head
     /\ \A c \in lst[p].copies : c \in lst'[p].copies \/ c.set.gen # lst[p].head
  \/ Listed(p)'

\* What is found lost was so before, or is invalid.
Tells(p) ==
  \A i \in Positions : verd'[p][i] = "lost" /\ pc'[p] # "idle" /\ com'[p].gen = lst'[p].head =>
    \/ <<com'[p].gen, i>> \in Invalid'
    \/ pc[p] # "idle" /\ <<com'[p].gen, i>> \in struck[p]
    \/ /\ pc[p] # "idle" /\ verd[p][i] = "lost"
       /\ com'[p] = com[p] /\ lst'[p].head = lst[p].head

LEMMA SeesOn ==
  ASSUME Types, NEW p \in Procs, Holds(p), Holds(p)', Sees(p), Recorded,
         setup' = setup, \A g \in 1 .. Newest : Sel(g)' = Sel(g),
         Role(p) # "fetcher", Hears(p), Tells(p)
  PROVE  Sees(p)'
<1>1. /\ pc'[p] # "idle" => Invalid' \subseteq struck'[p]
      /\ pc'[p] # "idle" /\ pc[p] # "idle" => struck[p] \subseteq struck'[p]
  BY Watched
<1>2. Role(p)' = Role(p)
  BY DEF Role
<1>3. pc'[p] = "idle" => \A i \in Positions : verd'[p][i] # "lost"
  BY <1>2 DEF Holds, Works, Blank, Unread, Positions
<1>4. lst[p].head \in 0 .. Newest /\ Newest \in Nat
  BY DEF Holds, Reads, Types, Heads
<1>5. ASSUME pc'[p] # "idle", lst'[p].head # 0, NEW i \in Positions
      PROVE  \/ TheCopy([gen |-> lst'[p].head, by |-> chain'[lst'[p].head]], i) \in lst'[p].copies
             \/ <<lst'[p].head, i>> \in struck'[p]
  <2>1. CASE /\ pc[p] # "idle" /\ lst'[p].head = lst[p].head
             /\ \A c \in lst[p].copies : c \in lst'[p].copies \/ c.set.gen # lst[p].head
    <3>1. lst[p].head \in 1 .. Newest
      BY <1>4, <1>5, <2>1
    <3>2. PICK g \in 1 .. Newest : g = lst[p].head
      BY <3>1
    <3>3. [gen |-> g, by |-> chain'[g]] = Sel(g) /\ TheCopy(Sel(g), i).set.gen = g
      BY DEF Sel, TheCopy
    <3>4. TheCopy(Sel(g), i) \in lst[p].copies \/ <<g, i>> \in struck[p]
      BY <1>5, <2>1, <3>2 DEF Sees
    <3> QED BY <1>1, <1>5, <2>1, <3>2, <3>3, <3>4
  <2>2. CASE Listed(p)'
    BY <1>1, <1>5, <2>2 DEF Listed, Sel, Positions
  <2> QED BY <1>5, <2>1, <2>2 DEF Hears
<1>6. ASSUME com'[p].gen = lst'[p].head, NEW i \in Positions, verd'[p][i] = "lost"
      PROVE  <<com'[p].gen, i>> \in struck'[p]
  <2>1. pc'[p] # "idle"
    BY <1>3, <1>6
  <2>2. CASE <<com'[p].gen, i>> \in Invalid'
    BY <1>1, <2>1, <2>2
  <2>3. CASE pc[p] # "idle" /\ <<com'[p].gen, i>> \in struck[p]
    BY <1>1, <2>1, <2>3
  <2>4. CASE /\ pc[p] # "idle" /\ verd[p][i] = "lost"
             /\ com'[p] = com[p] /\ lst'[p].head = lst[p].head
    BY <1>1, <1>6, <2>1, <2>4 DEF Sees
  <2> QED BY <1>6, <2>1, <2>2, <2>3, <2>4 DEF Tells
<1> QED BY <1>2, <1>5, <1>6 DEF Sees, Positions, Sel

LEMMA SilentTells ==
  ASSUME NEW p \in Procs, Silent(p)
  PROVE  Hears(p) /\ (Holds(p) /\ Role(p) # "fetcher" => Tells(p))
BY DEF Silent, Hears, Tells, Holds, Works, Blank, Unread

\* The calls of a run that list nothing and read nothing.
Plain(p) ==
  /\ \A q \in Procs \ {p} : Silent(q)
  /\ pc[p] # "idle"
  /\ \/ lst'[p].head = 0 /\ verd'[p] = Unread
     \/ lst'[p] = lst[p] /\ verd'[p] = Unread
     \/ /\ lst'[p] = lst[p] /\ com'[p] = com[p]
        /\ \A i \in Positions : verd'[p][i] = "lost" => verd[p][i] = "lost"

LEMMA PlainTells == ASSUME NEW p \in Procs, Plain(p) PROVE Hears(p) /\ Tells(p)
BY DEF Plain, Hears, Tells, Unread

LEMMA EndedPlain ==
  ASSUME Types, NEW p \in Procs, Ended(p) \/ Retry(p), pc[p] # "idle"
  PROVE  Plain(p)
<1>1. CASE Ended(p)
  BY <1>1, Defaults DEF Ended, Goto, Types, Holdings, Plain, Silent
<1>2. CASE ~Ended(p)
  BY <1>2 DEF Retry, Goto, Types, Holdings, Plain, Silent
<1> QED BY <1>1, <1>2

\* A call that only goes on.
OnlyGoes(p) == UNCHANGED <<lst, com, verd>> /\ \E l : Goto(p, l)
LEMMA GoesPlain ==
  ASSUME Types, NEW p \in Procs, OnlyGoes(p), pc[p] # "idle"
  PROVE  Plain(p)
BY DEF OnlyGoes, Goto, Types, Holdings, Plain, Silent

LEMMA CommitPlain ==
  ASSUME Types, NEW p \in Procs, WriterStep(p)
  PROVE  Plain(p)
<1>1. CASE Examined(p) \/ Replicated(p) \/ Aim(p) \/ Create(p) \/ Refresh(p)
  <2>1. pc[p] # "idle" /\ (Ended(p) \/ Retry(p) \/ OnlyGoes(p))
    BY <1>1 DEF Examined, Replicated, Aim, Create, Refresh, OnlyGoes
  <2> QED BY <2>1, EndedPlain, GoesPlain
<1>2. CASE Repaired(p)
  <2>1. CASE Ended(p)
    BY <1>2, <2>1, EndedPlain DEF Repaired
  <2>2. CASE ~Ended(p)
    BY <1>2, <2>2 DEF Repaired, Goto, Types, Holdings, Plain, Silent
  <2> QED BY <2>1, <2>2
<1>3. CASE \E i \in Positions : Rewrite(p, i) \/ WriteReplica(p, i) \/ ReadBack(p, i)
  <2>1. PICK i \in Positions : Rewrite(p, i) \/ WriteReplica(p, i) \/ ReadBack(p, i)
    BY <1>3
  <2>2. /\ pc[p] # "idle" /\ UNCHANGED <<pc, lst, com>>
        /\ \E v \in {"put", "proved", "failed"} : Judge(p, i, v)
    BY <2>1 DEF Rewrite, WriteReplica, Write, ReadBack
  <2>3. PICK v \in {"put", "proved", "failed"} : verd' = [verd EXCEPT ![p][i] = v]
    BY <2>2 DEF Judge
  <2>4. /\ verd'[p][i] # "lost" /\ \A j \in Positions \ {i} : verd'[p][j] = verd[p][j]
        /\ \A q \in Procs \ {p} : verd'[q] = verd[q]
    BY <2>3 DEF Types, Holdings
  <2> QED BY <2>2, <2>4 DEF Plain, Silent
<1> QED BY <1>1, <1>2, <1>3 DEF WriterStep

LEMMA OtherPlain ==
  ASSUME Types, NEW p \in Procs, Holds(p),
         \/ CatchUp(p) \/ Open(p) \/ ReadDone(p) \/ Kill(p) \/ Remember(p) \/ Forget(p)
         \/ Checkpoint(p) \/ Gate(p) \/ RecordsTrashed(p) \/ Disposed(p)
  PROVE  Plain(p)
<1>1. CASE CatchUp(p) \/ Gate(p) \/ RecordsTrashed(p) \/ Remember(p)
  <2>1. pc[p] # "idle" /\ (Ended(p) \/ OnlyGoes(p))
    BY <1>1 DEF CatchUp, Gate, RecordsTrashed, Remember, OnlyGoes
  <2> QED BY <2>1, EndedPlain, GoesPlain
<1>2. CASE ReadDone(p) \/ Kill(p) \/ Disposed(p)
  BY <1>2, EndedPlain DEF ReadDone, Kill, Disposed
<1>3. CASE Open(p)
  BY <1>3 DEF Open, Goto, Types, Holdings, Plain, Silent
<1>4. CASE Checkpoint(p)
  <2>1. CASE Ended(p)
    BY <1>4, <2>1, EndedPlain DEF Checkpoint
  <2>2. CASE ~Ended(p)
    <3>1. verd[p] = Unread /\ pc[p] # "idle"
      BY <1>4 DEF Checkpoint, Holds, Places, Suits, PrunerCalls, Works, Blank
    <3>2. /\ UNCHANGED <<lst, verd>> /\ Goto(p, "read")
          /\ com' = [com EXCEPT ![p] = Sel(lst[p].head)]
      BY <1>4, <2>2 DEF Checkpoint
    <3> QED BY <3>1, <3>2 DEF Goto, Types, Holdings, Plain, Silent
  <2> QED BY <2>1, <2>2
<1>5. CASE Forget(p)
  <2>1. verd[p] = Unread /\ pc[p] # "idle"
    BY <1>5
    DEF Forget, Holds, Places, Suits, WriterCalls, RefresherCalls, Works, Blank
  <2>2. UNCHANGED <<com, verd>>
    BY <1>5 DEF Forget
  <2>3. /\ lst'[p].head = 0
        /\ \A q \in Procs \ {p} : pc'[q] = pc[q] /\ lst'[q] = lst[q]
    BY <1>5, Defaults DEF Forget, Types, Holdings
  <2> QED BY <2>1, <2>2, <2>3 DEF Plain, Silent
<1> QED BY <1>1, <1>2, <1>3, <1>4, <1>5

\* A listing names whatever Storage holds at the time.
LEMMA ListTells ==
  ASSUME Types, NEW p \in Procs, Holds(p), Holds(p)', List(p), OneEach
  PROVE  Hears(p) /\ Tells(p) /\ \A q \in Procs \ {p} : Silent(q)
<1>1. Calm /\ UNCHANGED <<com, verd>>
  BY DEF List, chained, Calm
<1>2. /\ lst'[p].head = Newest /\ lst'[p].copies = stored \ gone /\ pc'[p] = "catch up"
      /\ \A q \in Procs \ {p} : pc'[q] = pc[q] /\ lst'[q] = lst[q]
  <2>1. /\ lst' = [lst EXCEPT ![p] = Listing] /\ pc' = [pc EXCEPT ![p] = "catch up"]
        /\ lst \in [Procs -> Listings] /\ pc \in [Procs -> Calls]
    <3>1. lst \in [Procs -> Listings] /\ pc \in [Procs -> Calls]
      BY DEF Types, Holdings
    <3>2. lst' = [lst EXCEPT ![p] = Listing] /\ pc' = [pc EXCEPT ![p] = "catch up"]
      BY DEF List, Goto
    <3> QED BY <3>1, <3>2
  <2>2. lst'[p] = Listing /\ \A q \in Procs \ {p} : lst'[q] = lst[q]
    BY <2>1
  <2>3. pc'[p] = "catch up" /\ \A q \in Procs \ {p} : pc'[q] = pc[q]
    BY <2>1
  <2>4. Listing.head = Newest /\ Listing.copies = stored \ gone
    BY DEF Listing
  <2> QED BY <2>2, <2>3, <2>4
<1>3. Newest \in 1 .. Newest
  BY DEF Types, Heads
<1>4. PICK g \in 1 .. Newest : g = Newest
  BY <1>3
<1>5. Sel(g)' = Sel(g) /\ Invalid' = Invalid
  BY <1>1, CalmValues
<1>6. Listed(p)'
  <2> SUFFICES ASSUME NEW i \in Positions
               PROVE  \/ TheCopy([gen |-> g, by |-> chain'[g]], i) \in lst'[p].copies
                      \/ <<g, i>> \in Invalid'
    BY <1>2, <1>4 DEF Listed, Sel, Positions
  <2>1. CASE Valid(Sel(g), i)
    <3>1. PICK c \in stored \ (gone \cup bad) : c.set = Sel(g) /\ c.pos = i
      BY <2>1 DEF Valid
    <3>2. c = TheCopy(Sel(g), i)
      BY <3>1 DEF OneEach
    <3> QED BY <1>2, <1>5, <3>1, <3>2 DEF Sel
  <2>2. CASE ~Valid(Sel(g), i)
    <3>1. <<g, i>> \in Invalid
      BY <2>2 DEF Invalid
    <3> QED BY <1>5, <3>1
  <2> QED BY <2>1, <2>2
<1>7. Role(p)' = Role(p) /\ Role(p) # "fetcher"
  BY <1>1, CalmValues DEF List, Holds, Places, Suits, WriterCalls
<1>8. Tells(p)
  BY <1>2, <1>7 DEF Holds, Works, Blank, Unread, Tells
<1> QED BY <1>1, <1>2, <1>6, <1>8 DEF Hears, Silent

\* What reads back from no listed object is invalid, where the one object there
\* is was listed.
LEMMA ReadTells ==
  ASSUME Types, NEW p \in Procs, Holds(p), Sees(p), OneEach, Role(p) # "fetcher",
         NEW i \in Positions, ReadPosition(p, i)
  PROVE  Hears(p) /\ Tells(p) /\ \A q \in Procs \ {p} : Silent(q)
<1>1. Calm /\ UNCHANGED <<pc, lst, com>> /\ pc[p] = "read"
  BY DEF ReadPosition, chained, Calm
<1>2. PICK v \in Found(p, i) : verd' = [verd EXCEPT ![p][i] = v]
  BY DEF ReadPosition
<1>3. /\ verd'[p][i] = v /\ \A j \in Positions \ {i} : verd'[p][j] = verd[p][j]
      /\ \A q \in Procs \ {p} : verd'[q] = verd[q]
  BY <1>2 DEF Types, Holdings
<1>4. ASSUME v = "lost", com[p].gen = lst[p].head
      PROVE  <<com[p].gen, i>> \in Invalid \/ <<com[p].gen, i>> \in struck[p]
  <2>1. com[p].gen \in 1 .. Newest /\ com[p] = Sel(com[p].gen) /\ lst[p].copies \subseteq stored
    BY DEF Holds, Reads
  <2>2. \/ TheCopy(Sel(lst[p].head), i) \in lst[p].copies
        \/ <<lst[p].head, i>> \in struck[p]
    BY <1>1, <1>4, <2>1 DEF Sees
  <2>3. ASSUME TheCopy(com[p], i) \in lst[p].copies PROVE ~Valid(com[p], i)
    <3> SUFFICES ASSUME NEW c \in stored \ (gone \cup bad), c.set = com[p], c.pos = i
                 PROVE  FALSE
      BY DEF Valid
    <3>1. c \in lst[p].copies
      BY <2>3 DEF OneEach
    <3> QED BY <1>2, <1>4, <3>1 DEF Found
  <2> QED BY <1>4, <2>1, <2>2, <2>3 DEF Invalid
<1>5. Invalid' = Invalid
  BY <1>1, CalmValues
<1>6. Hears(p)
  BY <1>1 DEF Hears
<1>7. Tells(p)
  BY <1>1, <1>3, <1>4, <1>5 DEF Tells
<1> QED BY <1>1, <1>3, <1>6, <1>7 DEF Silent

\* A prune strikes off its listing what is not of the head it lists.
LEMMA StrikeTells ==
  ASSUME Types, NEW p \in Procs, Holds(p), TrashRecord(p) \/ Dispose(p)
  PROVE  Hears(p) /\ Tells(p) /\ \A q \in Procs \ {p} : Silent(q)
<1>1. UNCHANGED <<pc, com, verd>> /\ pc[p] \in {"records", "replicas"}
  BY DEF TrashRecord, Dispose
<1>2. Role(p) = "pruner" /\ com[p].gen = lst[p].head /\ com[p].gen \in Nat
  <2>1. Role(p) = "pruner"
    BY <1>1 DEF Holds, Places, Suits, PrunerCalls
  <2>2. com[p].gen = lst[p].head
    BY <1>1, <2>1 DEF Holds, Disposes
  <2>3. com[p].gen \in 1 .. Newest
    BY DEF Holds, Reads
  <2> QED BY <2>1, <2>2, <2>3
<1>3. lst \in [Procs -> Listings] /\ lst[p] \in Listings
  BY DEF Types, Holdings
<1>4. /\ lst'[p].head = lst[p].head
      /\ \A c \in lst[p].copies : c \in lst'[p].copies \/ c.set.gen # lst[p].head
      /\ \A q \in Procs \ {p} : lst'[q] = lst[q]
  <2>1. CASE TrashRecord(p)
    <3>1. PICK g : lst' = [lst EXCEPT ![p].heads = @ \ {g}]
      BY <2>1 DEF TrashRecord
    <3> QED BY <1>3, <3>1 DEF Listings
  <2>2. CASE Dispose(p)
    <3>1. PICK c \in Superseded(p) : lst' = [lst EXCEPT ![p].copies = @ \ {c}]
      BY <2>2 DEF Dispose
    <3>2. c.set.gen < lst[p].head /\ c \in Copies
      BY <1>2, <1>3, <3>1 DEF Superseded, Listings
    <3>3. c.set.gen # lst[p].head
      BY <1>2, <3>2 DEF Copies, Sets
    <3> QED BY <1>3, <3>1, <3>3 DEF Listings
  <2> QED BY <2>1, <2>2
<1> QED BY <1>1, <1>4 DEF Hears, Tells, Silent

\* A fetch is silent for every run that is not one.
LEMMA FetchTells ==
  ASSUME Types, NEW p \in Procs, Holds(p), \A q \in Procs : Holds(q),
         \/ Fetch(p) \/ Drop(p) \/ ListTurn(p) \/ ListRefused(p) \/ ListRead(p)
         \/ Keep(p) \/ TableTurn(p) \/ TableRead(p) \/ Told(p)
  PROVE  \A q \in Procs : Role(q) # "fetcher" => Silent(q)
<1> SUFFICES ASSUME NEW q \in Procs, Role(q) # "fetcher" PROVE Silent(q)
  OBVIOUS
<1>1. q # p
  BY DEF Fetch, Drop, ListTurn, ListRefused, ListRead, Keep, TableTurn, TableRead, Told,
         Holds, Places, Suits, FetcherCalls
<1>2. q \notin Waiting(p)
  BY DEF Waiting, Holds, Places, Suits, FetcherCalls
<1>3. /\ pc \in [Procs -> Calls] /\ lst \in [Procs -> Listings] /\ com \in [Procs -> Sets]
      /\ verd \in [Procs -> [Positions -> Verdicts]]
  BY DEF Types, Holdings
<1>4. CASE Fetch(p) \/ Drop(p) \/ Told(p)
  BY <1>1, <1>2, <1>3, <1>4 DEF Fetch, Drop, Told, Ended, Goto, Silent
<1>5. CASE ListTurn(p) \/ Keep(p) \/ TableTurn(p)
  <2>1. /\ com' = com /\ \E l : Goto(p, l)
        /\ lst' = lst \/ \E S : lst' = [lst EXCEPT ![p].copies = S]
        /\ verd' = verd \/ verd' = [verd EXCEPT ![p] = table.verd]
    BY <1>5 DEF ListTurn, Keep, TableTurn
  <2> QED BY <1>1, <1>3, <2>1 DEF Goto, Silent
<1>6. CASE ListRefused(p) \/ ListRead(p) \/ TableRead(p)
  BY <1>1, <1>2, <1>6 DEF ListRefused, ListRead, TableRead, Moved, Silent
<1> QED BY <1>4, <1>5, <1>6

\* What every step keeps of the cast, of what heads select and of the objects.
LEMMA NextKeeps ==
  ASSUME KeyringInv, Next
  PROVE  /\ setup' = setup /\ \A g \in 1 .. Newest : Sel(g)' = Sel(g)
         /\ ~setup.minting /\ OneEach => OneEach'
<1>1. Types /\ \A p \in Procs : Holds(p)
  BY DEF KeyringInv
<1>2. CASE UNCHANGED <<setup, chain, stored>>
  BY <1>2 DEF Sel, OneEach
<1>3. ASSUME NEW p \in Procs, Create(p)
      PROVE  /\ UNCHANGED <<setup, stored>>
             /\ \A g \in 1 .. Newest : Sel(g)' = Sel(g)
  <2>1. chain' = chain \/ chain' = Append(chain, p)
    BY <1>3 DEF Create
  <2>2. chain \in Seq(Procs \cup {Genesis}) /\ p \in Procs \cup {Genesis}
    BY <1>1 DEF Types, Heads
  <2>3. \A g \in 1 .. Newest : chain'[g] = chain[g]
    BY <2>1, <2>2 DEF Newest
  <2> QED BY <1>3, <2>3 DEF Create, storage, Sel
<1>4. ASSUME NEW p \in Procs, NEW i \in Positions, Rewrite(p, i) \/ WriteReplica(p, i)
      PROVE  /\ UNCHANGED <<setup, chain>>
             /\ ~setup.minting /\ OneEach => OneEach'
  <2>1. PICK s \in Sets : Write(p, i, s)
    BY <1>1, <1>4, CandidateIsSet DEF Rewrite, WriteReplica, Holds
  <2>2. stored' = stored \/ stored' = stored \cup {NewCopy(s, i)}
    BY <2>1 DEF Write, Put, storage
  <2>3. ~setup.minting => NewCopy(s, i) = TheCopy(s, i)
    BY <1>1, NewCopyIsCopy
  <2> QED BY <2>1, <2>2, <2>3 DEF Write, chained, OneEach, TheCopy
<1>5. CASE \E p \in Procs : Create(p)
  BY <1>3, <1>5 DEF OneEach
<1>6. CASE \E p \in Procs : \E i \in Positions : Rewrite(p, i) \/ WriteReplica(p, i)
  BY <1>4, <1>6 DEF Sel
<1>7. \/ UNCHANGED <<setup, chain, stored>>
      \/ \E p \in Procs : Create(p)
      \/ \E p \in Procs : \E i \in Positions : Rewrite(p, i) \/ WriteReplica(p, i)
  <2> USE DEF chained, storage
  <2>1. ASSUME NEW p \in Procs, PrunerStep(p) PROVE UNCHANGED <<setup, chain, stored>>
    BY <2>1 DEF PrunerStep, Checkpoint, Gate, TrashRecord, RecordsTrashed, Dispose, Disposed
  <2>2. ASSUME NEW p \in Procs, FetchStep(p) \/ Fetch(p) \/ Drop(p)
        PROVE  UNCHANGED <<setup, chain, stored>>
    BY <2>2 DEF FetchStep, Fetch, Drop, ListTurn, ListRefused, ListRead, Keep, TableTurn,
                TableRead, Told, Remember, Forget, StorageSame
  <2>3. ASSUME NEW p \in Procs, WriterStep(p)
        PROVE  \/ UNCHANGED <<setup, chain, stored>>
               \/ Create(p) \/ \E i \in Positions : Rewrite(p, i) \/ WriteReplica(p, i)
    BY <2>3 DEF WriterStep, Examined, Repaired, Replicated, Aim, Refresh, ReadBack
  <2>4. ASSUME NEW p \in Procs, RunStep(p), ~WriterStep(p), ~PrunerStep(p)
        PROVE  UNCHANGED <<setup, chain, stored>>
    BY <2>4 DEF RunStep, List, CatchUp, Open, ReadDone, ReadPosition
  <2>5. ASSUME NEW p \in Procs, Kill(p) PROVE UNCHANGED <<setup, chain, stored>>
    BY <2>5 DEF Kill
  <2>6. ASSUME NEW c \in stored, Fault(c) PROVE UNCHANGED <<setup, chain, stored>>
    BY <2>6 DEF Fault
  <2> QED BY <2>1, <2>2, <2>3, <2>4, <2>5, <2>6 DEF Next, Step
<1> QED BY <1>2, <1>5, <1>6, <1>7

LEMMA LossSteps ==
  ASSUME KeyringInv, KeyringInv', LossInv, Next
  PROVE  LossInv'
<1> SUFFICES ASSUME ~setup'.minting PROVE OneEach' /\ \A p \in Procs : Sees(p)'
  BY DEF LossInv
<1>1. setup' = setup /\ \A g \in 1 .. Newest : Sel(g)' = Sel(g)
  BY NextKeeps
<1>2. OneEach /\ \A p \in Procs : Sees(p)
  BY <1>1 DEF LossInv
<1>3. OneEach'
  BY <1>1, <1>2, NextKeeps
<1>4. Types /\ \A p \in Procs : Holds(p) /\ Holds(p)'
  BY DEF KeyringInv
<1>5. Recorded
  BY DEF Next
<1>6. \A p \in Procs : Role(p) # "fetcher" => Hears(p) /\ Tells(p)
  <2>1. ASSUME NEW p \in Procs, Hears(p), Role(p) # "fetcher" => Tells(p),
               \A q \in Procs \ {p} : Silent(q)
        PROVE  \A q \in Procs : Role(q) # "fetcher" => Hears(q) /\ Tells(q)
    BY <1>4, <2>1, SilentTells
  <2>2. ASSUME NEW p \in Procs, Plain(p)
        PROVE  \A q \in Procs : Role(q) # "fetcher" => Hears(q) /\ Tells(q)
    BY <2>1, <2>2, PlainTells DEF Plain
  <2>3. ASSUME NEW p \in Procs, FetchStep(p) \/ Fetch(p) \/ Drop(p)
        PROVE  \A q \in Procs : Role(q) # "fetcher" => Hears(q) /\ Tells(q)
    <3>1. CASE Remember(p) \/ Forget(p)
      BY <1>4, <2>2, <3>1, OtherPlain
    <3>2. CASE ~(Remember(p) \/ Forget(p))
      BY <1>4, <2>3, <3>2, FetchTells, SilentTells DEF FetchStep
    <3> QED BY <3>1, <3>2
  <2>4. ASSUME NEW p \in Procs, NEW i \in Positions, ReadPosition(p, i)
        PROVE  \A q \in Procs : Role(q) # "fetcher" => Hears(q) /\ Tells(q)
    <3>1. CASE Role(p) # "fetcher"
      BY <1>2, <1>4, <2>1, <2>4, <3>1, ReadTells
    <3>2. CASE Role(p) = "fetcher"
      <4>1. \A q \in Procs \ {p} : Silent(q)
        BY <1>4, <2>4 DEF ReadPosition, Silent, Types, Holdings
      <4> QED BY <1>4, <3>2, <4>1, SilentTells
    <3> QED BY <3>1, <3>2
  <2>5. ASSUME NEW p \in Procs, RunStep(p)
        PROVE  \A q \in Procs : Role(q) # "fetcher" => Hears(q) /\ Tells(q)
    <3>1. CASE WriterStep(p)
      BY <1>4, <2>2, <3>1, CommitPlain
    <3>2. CASE List(p)
      BY <1>2, <1>4, <2>1, <3>2, ListTells
    <3>3. CASE TrashRecord(p) \/ Dispose(p)
      BY <1>4, <2>1, <3>3, StrikeTells
    <3>4. CASE \/ CatchUp(p) \/ Open(p) \/ ReadDone(p)
               \/ Checkpoint(p) \/ Gate(p) \/ RecordsTrashed(p) \/ Disposed(p)
      BY <1>4, <2>2, <3>4, OtherPlain
    <3> QED BY <2>4, <2>5, <3>1, <3>2, <3>3, <3>4 DEF RunStep, PrunerStep
  <2>6. ASSUME NEW p \in Procs, Kill(p)
        PROVE  \A q \in Procs : Role(q) # "fetcher" => Hears(q) /\ Tells(q)
    BY <1>4, <2>2, <2>6, OtherPlain
  <2>7. ASSUME NEW c \in stored, Fault(c)
        PROVE  \A q \in Procs : Role(q) # "fetcher" => Hears(q) /\ Tells(q)
    <3>1. \A q \in Procs : Silent(q)
      BY <2>7 DEF Fault, run, Silent
    <3> QED BY <1>4, <3>1, SilentTells
  <2> QED BY <2>3, <2>5, <2>6, <2>7 DEF Next, Step
<1>7. ASSUME NEW p \in Procs PROVE Sees(p)'
  <2>1. CASE Role(p) # "fetcher"
    BY <1>1, <1>2, <1>4, <1>5, <1>6, <2>1, SeesOn
  <2>2. CASE Role(p) = "fetcher"
    BY <1>1, <2>2 DEF Sees, Role
  <2> QED BY <2>1, <2>2
<1> QED BY <1>3, <1>7

LEMMA LossHolds == Spec => [](KeyringInv /\ LossInv)
<1>1. ASSUME MInit PROVE LossInv
  <2>1. OneEach
    BY <1>1 DEF MInit, Init, OneEach, TheCopy
  <2>2. \A p \in Procs : pc[p] = "idle" /\ verd[p] = Unread
    BY <1>1 DEF MInit, Init
  <2>3. \A p \in Procs : Sees(p)
    BY <2>2 DEF Sees, Unread
  <2> QED BY <2>1, <2>3 DEF LossInv
<1>2. LossInv /\ UNCHANGED mvars => LossInv'
  <2> SUFFICES ASSUME LossInv, UNCHANGED mvars PROVE LossInv'
    OBVIOUS
  <2> USE DEF mvars, vars
  <2>1. setup' = setup /\ (OneEach => OneEach')
    BY DEF OneEach
  <2>2. \A p \in Procs : Sees(p) => Sees(p)'
    BY DEF Sees, Role, Sel
  <2> QED BY <2>1, <2>2 DEF LossInv
<1>3. KeyringInv /\ LossInv /\ [Next]_mvars /\ KeyringInv' => LossInv'
  BY <1>2, LossSteps
<1> QED BY <1>1, <1>3, InitHolds, InvHolds, PTL DEF Spec

-----------------------------------------------------------------------------
(* Theorems *)

\* Every variable keeps its shape: no chain outgrows the heads its cast's
\* commits can reach, and no Index stands at a head that is not there.
THEOREM TypesHold == Spec => []KeyringTypeOK
<1>1. ASSUME KeyringInv PROVE KeyringTypeOK
  <2>1. Types
    BY <1>1 DEF KeyringInv
  <2>2. Newest \in 1 .. MaxHeads
    <3>1. PICK f \in [2 .. Newest -> Commits(setup)] : Attributes(f)
      BY <1>1 DEF KeyringInv, Counted
    <3>2. f \in Injection(2 .. Newest, Commits(setup))
      BY <3>1 DEF Attributes, Injection, IsInjective
    <3>3. IsFiniteSet(Commits(setup)) /\ Cardinality(Commits(setup)) < MaxHeads
      BY <2>1, CastAssumption DEF Types, Heads
    <3>4. Cardinality(2 .. Newest) <= Cardinality(Commits(setup))
      BY <3>2, <3>3, FS_Injection
    <3>5. Newest \in Nat \ {0}
      BY <2>1 DEF Types, Heads
    <3>6. Cardinality(2 .. Newest) = IF 2 > Newest THEN 0 ELSE Newest - 2 + 1
      BY <3>5, FS_Interval
    <3>7. Cardinality(Commits(setup)) \in Nat
      BY <3>3, FS_CardinalityType
    <3> QED BY <3>3, <3>4, <3>5, <3>6, <3>7, BoundAssumption
  <2>3. ASSUME NEW p \in Procs
        PROVE  /\ verd[p] \in [Positions -> Verdicts] /\ tries[p] <= Attempts
               /\ waits[p] # p => pc[p] = "waiting"
    BY <1>1, <2>1 DEF KeyringInv, Holds, Places, Types, Holdings
  <2>4. \A d \in Devices : idx[d] \in 1 .. Newest
    BY <2>1 DEF Types, Heads
  <2> QED BY <2>1, <2>2, <2>3, <2>4 DEF KeyringTypeOK, Types, Heads, Objects, Newest
<1> QED BY <1>1, InvHolds, PTL

\* No commit selects its candidate and no prune removes anything before every
\* position of the committed set has been valid since the run listed Storage.
THEOREM GateStands == Spec => []GateHolds
<1>1. KeyringInv => GateHolds
  BY DEF KeyringInv, Holds, Passes, GateHolds, Shown
<1> QED BY <1>1, InvHolds, PTL

\* The generation a standing record selects loses a replica to Storage alone.
THEOREM SelectedStands == Spec => []SelectedSafe
<1>1. KeyringInv => SelectedSafe
  BY DEF KeyringInv
<1> QED BY <1>1, InvHolds, PTL

\* A put makes one object per name, as a Storage whose names are keys has it.
NamesAreKeys == \A s \in Setups : ~s.minting

\* Where an object has a name of its own, a run whose commitment is the one its
\* listing shows reports as lost only what was lost while it was under way.
THEOREM LossIsReal ==
  ASSUME NamesAreKeys
  PROVE  Spec => []LossReal
<1>1. ASSUME KeyringInv, LossInv PROVE LossReal
  <2>1. ~setup.minting
    BY <1>1 DEF NamesAreKeys, KeyringInv, Types, Heads
  <2> QED BY <1>1, <2>1 DEF LossInv, LossReal, Lost, Sees, Positions
<1> QED BY <1>1, LossHolds, PTL
=============================================================================
