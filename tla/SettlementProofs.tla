-------------------------- MODULE SettlementProofs --------------------------
(***************************************************************************)
(* Proofs about PendingSettlement for every number of processes, batches,  *)
(* Containers, kills and attempts, and every setting.                      *)
(***************************************************************************)
EXTENDS SettlementProperties, WellFoundedInduction, TLAPS

-----------------------------------------------------------------------------
(* Shapes *)

\* What a process holds between two calls is what its next call needs.
Ready(p) ==
  /\ run[p].pc \notin {"attempt", "send", "await", "readback", "refresh", "discard"}
       => run[p].tries < Attempts
  /\ run[p].pc \in {"write", "whole", "putting", "handle"} => run[p].at \in Containers
  /\ run[p].pc = "handle" => run[p].obj \in Objects
  /\ run[p].pc \in {"aim", "attempt", "send", "await", "readback", "refresh", "discard"}
       => run[p].bat \in Batches
  /\ run[p].pc \in {"attempt", "send", "await", "readback"} => run[p].slot # 0
  /\ run[p].recs \subseteq 1 .. Len(chain)
  /\ run[p].pc = "refresh" =>
       run[p].slot \in 1 .. Len(chain) /\ chain[run[p].slot].batch = run[p].bat

TypeInv ==
  /\ setup \in Setups
  /\ TypeOK
  /\ \A p \in Procs : Ready(p)

\* The largest of some numbers below a bound is one of them.
LEMMA LargestIsOne ==
  ASSUME NEW B \in Nat, NEW S, S \subseteq 0 .. B, S # {}
  PROVE  Largest(S) \in S /\ \A m \in S : m <= Largest(S)
<1> DEFINE U == {n \in Nat : \A m \in S : m <= n}
<1>1. B \in U
  OBVIOUS
<1>2. PICK k \in U : \A n \in U : ~(<<n, k>> \in OpToRel(<, Nat))
  <2>1. U \subseteq Nat /\ U # {}
    BY <1>1
  <2> HIDE DEF U
  <2> QED BY <2>1, NatLessThanWellFounded, WFMin
<1>3. \A n \in U : ~(n < k)
  BY <1>2 DEF OpToRel
<1>4. k \in S
  <2>1. SUFFICES ASSUME k \notin S PROVE FALSE
    OBVIOUS
  <2>2. \A m \in S : m <= k - 1
    BY <2>1
  <2>3. PICK m \in S : m <= k - 1
    BY <2>2
  <2>4. k - 1 \in Nat
    BY <2>3
  <2>5. k - 1 \in U
    BY <2>2, <2>4
  <2> QED BY <1>3, <2>5
<1>5. k \in S /\ \A m \in S : m <= k
  BY <1>4
<1> QED BY <1>5 DEF Largest

\* The head a listing shows is a record of the chain, or head-0.
LEMMA ListedHeadIsRecord ==
  ASSUME TypeInv, NEW p \in Procs
  PROVE  ListedHead(p) \in 0 .. Len(chain)
<1>1. Len(chain) \in Nat
  BY DEF TypeInv, TypeOK
<1>2. {0} \cup run[p].recs \subseteq 0 .. Len(chain)
  BY <1>1 DEF TypeInv, Ready
<1> QED BY <1>1, <1>2, LargestIsOne DEF ListedHead

\* Catching up takes the Index to a record, and never back.
LEMMA CatchUpIsRecord ==
  ASSUME TypeInv, NEW n \in 0 .. Len(chain)
  PROVE  Largest({idx, n}) \in 0 .. Len(chain)
<1>1. Len(chain) \in Nat /\ {idx, n} \subseteq 0 .. Len(chain)
  BY DEF TypeInv, TypeOK
<1> QED BY <1>1, LargestIsOne

\* What a setting and a default are made of.
LEMMA Defaults ==
  ASSUME setup \in Setups
  PROVE  /\ setup.puts \in Nat \ {0} /\ setup.kills \in Nat
         /\ NoRow \in Rows
         /\ \A o \in Objects : StoredAs(o) \in Objects
BY SetupAssumption DEF NoRow, Rows, Objects, StoredAs

\* A process that holds nothing is ready for anything.
LEMMA NoRunReady ==
  /\ NoRun.pc = "idle" /\ NoRun.tries = 0 /\ NoRun.recs = {}
  /\ NoRun \in Holdings
BY DataAssumption DEF NoRun, Calls, Holdings

LEMMA InitTypeInv == ASSUME Init PROVE TypeInv
<1> USE DataAssumption
<1>1. TypeOK
  BY Defaults, NoRunReady DEF Init, TypeOK
<1>2. \A p \in Procs : Ready(p)
  BY NoRunReady DEF Init, Ready
<1> QED BY <1>1, <1>2 DEF Init, TypeInv

\* The end of a run keeps every shape.
LEMMA OverTypeInv ==
  ASSUME TypeInv, NEW p \in Procs, Over(p), UNCHANGED <<idx, rows>>,
         kills' \in 0 .. setup.kills
  PROVE  TypeInv'
<1> USE DataAssumption
<1>1. Objects' = Objects /\ Rows' = Rows /\ Holdings' = Holdings
  BY DEF Over, Objects, Rows, Holdings
<1>2. run' \in [Procs -> Holdings]
  BY NoRunReady DEF Over, TypeInv, TypeOK
<1>3. TypeOK'
  BY <1>1, <1>2 DEF Over, TypeInv, TypeOK, rows
<1>4. ASSUME NEW q \in Procs PROVE Ready(q)'
  <2>1. chain' = chain /\ run'[q] \in {run[q], NoRun}
    BY DEF Over, TypeInv, TypeOK
  <2> QED BY <1>1, <2>1, NoRunReady DEF TypeInv, Ready
<1> QED BY <1>3, <1>4 DEF Over, TypeInv

\* Every variable but the chain and what the processes hold.
Others ==
  /\ live \subseteq 1 .. Len(chain) /\ idx \in 0 .. Len(chain)
  /\ sent \subseteq [gen : Nat, batch : Batches, refs : SUBSET Objects]
  /\ putting \cup stored \subseteq Objects
  /\ row \in [Containers -> Rows]
  /\ slots \in [Batches -> SUBSET Nat]
  /\ spools \cup used \subseteq Containers
  /\ owner \in Procs \cup {NoProc} /\ kills \in 0 .. setup.kills

\* A step of one process on the chain as it is.
LEMMA StepTypeInv ==
  ASSUME TypeInv, NEW p \in Procs, UNCHANGED <<setup, chain>>,
         run' = [run EXCEPT ![p] = run'[p]], run'[p] \in Holdings,
         Ready(p)', Others'
  PROVE  TypeInv'
<1>1. Objects' = Objects /\ Rows' = Rows /\ Holdings' = Holdings
  BY DEF Objects, Rows, Holdings
<1>2. run' \in [Procs -> Holdings]
  BY DEF TypeInv, TypeOK
<1>3. TypeOK'
  BY <1>1, <1>2 DEF TypeInv, TypeOK, Others
<1>4. ASSUME NEW q \in Procs PROVE Ready(q)'
  <2>1. CASE q = p
    BY <2>1
  <2>2. CASE q # p
    <3>1. run'[q] = run[q]
      BY <2>2 DEF TypeInv, TypeOK
    <3> QED BY <1>1, <3>1 DEF TypeInv, Ready
  <2> QED BY <2>1, <2>2
<1> QED BY <1>3, <1>4 DEF TypeInv

LEMMA OthersStay ==
  ASSUME TypeInv, UNCHANGED <<storage, idx, rows, owner, kills>>
  PROVE  Others'
<1>1. Objects' = Objects /\ Rows' = Rows
  BY DEF storage, Objects, Rows
<1> QED BY <1>1 DEF Others, TypeInv, TypeOK, storage, rows

LEMMA RetryTypeInv ==
  ASSUME TypeInv, NEW p \in Procs, NEW n \in Nat, Retry(p, n),
         UNCHANGED <<idx, rows, kills>>
  PROVE  TypeInv'
<1>1. CASE n < Attempts /\ run' = [run EXCEPT ![p].tries = n, ![p].pc = "list"]
             /\ UNCHANGED <<storage, owner>>
  <2>1. run[p] \in Holdings /\ "list" \in Calls /\ n \in 0 .. Attempts
    BY <1>1, DataAssumption DEF TypeInv, TypeOK, Calls
  <2>2. run' = [run EXCEPT ![p] = run'[p]] /\ run'[p] \in Holdings
    BY <1>1, <2>1 DEF Holdings, TypeInv, TypeOK
  <2>3. Ready(p)'
    BY <1>1 DEF TypeInv, TypeOK, Ready, storage, Holdings
  <2> QED BY <1>1, <2>2, <2>3, StepTypeInv, OthersStay DEF storage
<1>2. CASE n >= Attempts /\ Over(p)
  BY <1>2, OverTypeInv DEF TypeInv, TypeOK
<1> QED BY <1>1, <1>2 DEF Retry

\* What the next call of a process finds.
LEMMA Typed ==
  ASSUME TypeInv, NEW p \in Procs
  PROVE  /\ run[p] \in Holdings /\ run \in [Procs -> Holdings]
         /\ Ready(p)
BY DEF TypeInv, TypeOK

\* What a call puts in its process's hands keeps its shape.
LEMMA PcHeld ==
  ASSUME TypeInv, NEW p \in Procs, NEW l \in Calls, run' = [run EXCEPT ![p].pc = l]
  PROVE  run' = [run EXCEPT ![p] = run'[p]] /\ run'[p] \in Holdings
<1>1. run'[p] = [run[p] EXCEPT !.pc = l]
  BY Typed
<1>2. [run[p] EXCEPT !.pc = l] \in Holdings
  <2>1. \A h \in Holdings : [h EXCEPT !.pc = l] \in Holdings
    BY DEF Holdings
  <2> QED BY <2>1, Typed, Zenon
<1> QED BY <1>1, <1>2

LEMMA ListingHeld ==
  ASSUME NEW h \in Holdings, NEW R, R \subseteq Nat, NEW O, O \subseteq Objects
  PROVE  [h EXCEPT !.recs = R, !.objs = O, !.pc = "catchup"] \in Holdings
<1>1. "catchup" \in Calls
  BY DEF Calls
<1> QED BY <1>1 DEF Holdings

\* Taking rows away leaves rows and slots of their shapes.
LEMMA ClearTyped ==
  ASSUME TypeInv, NEW S, Clear(S), UNCHANGED setup
  PROVE  row' \in [Containers -> Rows] /\ slots' \in [Batches -> SUBSET Nat]
<1>1. NoRow \in Rows
  BY Defaults DEF TypeInv
<1> QED BY <1>1 DEF TypeInv, TypeOK, Clear

\* What a process reads of the rows, and what is left for it to do.
LEMMA RowsKept ==
  ASSUME NEW h \in Holdings, NEW S \in SUBSET Containers,
         NEW shown \in SUBSET Containers, NEW read \in SUBSET (Batches \X Nat)
  PROVE  [h EXCEPT !.todo = S, !.seen = shown, !.proof = read, !.pc = "settle"]
           \in Holdings
<1>1. "settle" \in Calls
  BY DEF Calls
<1> QED BY <1>1 DEF Holdings

LEMMA TodoKept ==
  ASSUME NEW h \in Holdings, NEW S \in SUBSET Containers
  PROVE  [h EXCEPT !.todo = S] \in Holdings
BY DEF Holdings

LEMMA TodoHeld ==
  ASSUME NEW h \in Holdings, NEW S \in SUBSET Containers, NEW l \in Calls
  PROVE  [h EXCEPT !.todo = S, !.pc = l] \in Holdings
BY DEF Holdings

LEMMA FlowHeld ==
  ASSUME NEW h \in Holdings, NEW f \in {"sync", "completion"}, NEW l \in Calls
  PROVE  [h EXCEPT !.flow = f, !.pc = l] \in Holdings
BY DEF Holdings

LEMMA SettlingTypeInv ==
  ASSUME TypeInv, NEW p \in Procs, Settling(p)
  PROVE  TypeInv'
<1> USE Typed
<1>1. CASE List(p)
  <2>1. /\ live \subseteq 1 .. Len(chain) /\ live \subseteq Nat
        /\ stored \subseteq Objects /\ "catchup" \in Calls
    BY DEF TypeInv, TypeOK, Calls
  <2>2. run' = [run EXCEPT ![p] = run'[p]] /\ run'[p] \in Holdings
    <3>1. /\ run' = [run EXCEPT ![p].recs = live, ![p].objs = stored, ![p].pc = "catchup"]
          /\ run'[p] = [run[p] EXCEPT !.recs = live, !.objs = stored, !.pc = "catchup"]
      BY <1>1 DEF List
    <3>2. [run[p] EXCEPT !.recs = live, !.objs = stored, !.pc = "catchup"] \in Holdings
      BY <2>1, ListingHeld, Zenon
    <3> QED BY <3>1, <3>2
  <2>3. Ready(p)'
    BY <1>1, <2>1 DEF List, Ready, Holdings, storage, Objects
  <2> QED BY <1>1, <2>2, <2>3, StepTypeInv, OthersStay DEF List, storage
<1>2. CASE CatchUp(p)
  <2>1. run' = [run EXCEPT ![p] = run'[p]] /\ run'[p] \in Holdings
    <3>1. PICK l \in Calls : run' = [run EXCEPT ![p].pc = l]
      BY <1>2 DEF CatchUp, Calls
    <3> QED BY <3>1, PcHeld
  <2>2. idx' \in 0 .. Len(chain)
    BY <1>2, ListedHeadIsRecord, CatchUpIsRecord DEF CatchUp
  <2>3. Ready(p)'
    BY <1>2 DEF CatchUp, Ready, Holdings, storage, Objects
  <2>4. Others'
    BY <1>2, <2>2 DEF CatchUp, Others, TypeInv, TypeOK, storage, rows, Objects, Rows
  <2> QED BY <1>2, <2>1, <2>3, <2>4, StepTypeInv DEF CatchUp, storage
<1>3. CASE ReadRows(p)
  <2> DEFINE S == {c \in Containers : row[c].state # "none"}
  <2>1. PICK read \in SUBSET Held(p) :
          run' = [run EXCEPT ![p].todo = S, ![p].seen = Current(idx), ![p].proof = read,
                             ![p].pc = "settle"]
    BY <1>3 DEF ReadRows
  <2>2. /\ read \in SUBSET (Batches \X Nat) /\ Current(idx) \in SUBSET Containers
        /\ S \in SUBSET Containers
    BY DEF Held, Holdings, Current
  <2> HIDE DEF S
  <2>3. /\ run'[p] \in Holdings /\ run' = [run EXCEPT ![p] = run'[p]]
        /\ run'[p].pc = "settle"
        /\ run'[p].recs = run[p].recs /\ run'[p].tries = run[p].tries
    <3>1. run'[p] = [run[p] EXCEPT !.todo = S, !.seen = Current(idx), !.proof = read,
                                   !.pc = "settle"]
      BY <2>1
    <3>2. run' = [run EXCEPT ![p] = run'[p]]
      BY <2>1, <3>1
    <3>3. run'[p] \in Holdings
      <4>1. [run[p] EXCEPT !.todo = S, !.seen = Current(idx), !.proof = read,
                           !.pc = "settle"] \in Holdings
        BY <2>2, RowsKept, Zenon
      <4> QED BY <3>1, <4>1, Zenon
    <3>4. /\ run'[p].pc = "settle"
          /\ run'[p].recs = run[p].recs /\ run'[p].tries = run[p].tries
      BY <3>1 DEF Holdings
    <3> QED BY <3>2, <3>3, <3>4
  <2>4. Ready(p)'
    BY <1>3, <2>3, Typed DEF ReadRows, Ready, storage
  <2> QED BY <1>3, <2>3, <2>4, StepTypeInv, OthersStay DEF ReadRows, storage
<1>4. CASE Complete(p) \/ Dispose(p)
  <2>1. PICK c \in run[p].todo, l \in {"clear", "trash"} :
          /\ spools' = spools \ {c}
          /\ run[p].pc = "settle" /\ run' = [run EXCEPT ![p].at = c, ![p].pc = l]
    BY <1>4 DEF Complete, Dispose
  <2>2. c \in Containers /\ l \in Calls
    BY DEF Holdings, Calls
  <2>3. run' = [run EXCEPT ![p] = run'[p]] /\ run'[p] \in Holdings
    BY <2>1, <2>2 DEF Holdings
  <2>4. UNCHANGED <<storage, idx, row, slots, used, owner, kills>>
    BY <1>4 DEF Complete, Dispose
  <2>5. Ready(p)'
    BY <2>1, <2>4 DEF Ready, Holdings, storage, Objects
  <2>6. Others'
    BY <2>1, <2>4 DEF Others, TypeInv, TypeOK, storage, Objects, Rows
  <2> QED BY <2>3, <2>4, <2>5, <2>6, StepTypeInv DEF storage
<1>5. CASE Retain(p)
  <2>1. PICK S \in SUBSET Containers : /\ run[p].pc = "settle"
                                       /\ run' = [run EXCEPT ![p].todo = S]
    <3>1. run[p].todo \subseteq Containers
      BY DEF Holdings
    <3> QED BY <1>5, <3>1 DEF Retain
  <2>2. run' = [run EXCEPT ![p] = run'[p]] /\ run'[p] \in Holdings
    BY <2>1, TodoKept
  <2>3. Ready(p)'
    BY <1>5, <2>1 DEF Retain, Ready, Holdings, storage, Objects
  <2> QED BY <1>5, <2>2, <2>3, StepTypeInv, OthersStay DEF Retain, storage
<1>6. CASE Trash(p)
  <2>1. run' = [run EXCEPT ![p] = run'[p]] /\ run'[p] \in Holdings
    <3>1. PICK l \in Calls : run' = [run EXCEPT ![p].pc = l]
      BY <1>6 DEF Trash, Calls
    <3> QED BY <3>1, PcHeld
  <2>2. /\ UNCHANGED <<setup, chain, live, sent, putting, idx, rows, owner, kills>>
        /\ stored' \subseteq stored
    BY <1>6 DEF Trash, storage
  <2>3. Ready(p)'
    BY <1>6, <2>2 DEF Trash, Ready, Holdings, Objects
  <2>4. Others'
    BY <2>2 DEF Others, TypeInv, TypeOK, rows, Objects, Rows
  <2> QED BY <2>1, <2>2, <2>3, <2>4, StepTypeInv
<1>7. CASE TrashFails(p)
  <2>1. run' = [run EXCEPT ![p] = run'[p]] /\ run'[p] \in Holdings
    <3>1. "settle" \in Calls
      BY DEF Calls
    <3> QED BY <1>7, <3>1 DEF TrashFails, Holdings
  <2>2. /\ UNCHANGED <<setup, chain, live, sent, putting, idx, rows, owner, kills>>
        /\ stored' \subseteq stored
    BY <1>7 DEF TrashFails, storage
  <2>3. Ready(p)'
    BY <1>7, <2>2 DEF TrashFails, Ready, Holdings, Objects
  <2>4. Others'
    BY <2>2 DEF Others, TypeInv, TypeOK, rows, Objects, Rows
  <2> QED BY <2>1, <2>2, <2>3, <2>4, StepTypeInv
<1>8. CASE ClearRow(p)
  <2>1. run' = [run EXCEPT ![p] = run'[p]] /\ run'[p] \in Holdings
    <3>1. "settle" \in Calls
      BY DEF Calls
    <3> QED BY <1>8, <3>1 DEF ClearRow, Holdings
  <2>2. Ready(p)'
    BY <1>8 DEF ClearRow, Ready, Holdings, storage, Objects
  <2>3. Others'
    BY <1>8, ClearTyped DEF ClearRow, Others, TypeInv, TypeOK, storage, Objects, Rows
  <2> QED BY <1>8, <2>1, <2>2, <2>3, StepTypeInv DEF ClearRow, storage
<1>9. CASE Settled(p)
  <2>1. CASE run[p].flow = "sync"
    <3>1. run' = [run EXCEPT ![p] = [NoRun EXCEPT !.flow = "sync", !.pc = "scan"]]
          /\ UNCHANGED <<storage, idx, rows, owner, kills>>
      BY <1>9, <2>1 DEF Settled
    <3>2. [NoRun EXCEPT !.flow = "sync", !.pc = "scan"] \in Holdings
      <4>1. "scan" \in Calls /\ NoRun \in Holdings
        BY NoRunReady DEF Calls
      <4> QED BY <4>1, FlowHeld, Zenon
    <3>3. run'[p].pc = "scan" /\ run'[p].tries = 0 /\ run'[p].recs = {}
      BY <3>1, NoRunReady DEF Holdings
    <3>4. Ready(p)'
      BY <3>1, <3>3, DataAssumption DEF Ready, storage
    <3> QED BY <3>1, <3>2, <3>4, StepTypeInv, OthersStay DEF storage
  <2>2. CASE run[p].flow # "sync"
    BY <1>9, <2>2, OverTypeInv DEF Settled, TypeInv, TypeOK
  <2> QED BY <2>1, <2>2
<1> QED BY <1>1, <1>2, <1>3, <1>4, <1>5, <1>6, <1>7, <1>8, <1>9 DEF Settling

\* A call that only leads to the next one, without a wait for an attempt's end.
LEMMA MoveTypeInv ==
  ASSUME TypeInv, NEW p \in Procs, NEW l \in Calls, run' = [run EXCEPT ![p].pc = l],
         UNCHANGED <<setup, chain>>, Others', Ready(p)'
  PROVE  TypeInv'
<1>1. run' = [run EXCEPT ![p] = run'[p]] /\ run'[p] \in Holdings
  BY Typed, PcHeld
<1> QED BY <1>1, StepTypeInv

\* What the calls that produce a batch put in their process's hands.
LEMMA BatchHeld ==
  ASSUME NEW h \in Holdings, NEW l \in Calls, NEW b \in Batches,
         NEW S \in SUBSET Containers
  PROVE  [h EXCEPT !.bat = b, !.todo = S, !.pc = l] \in Holdings
BY DEF Holdings

LEMMA ContainerHeld ==
  ASSUME NEW h \in Holdings, NEW l \in Calls, NEW c \in Containers
  PROVE  [h EXCEPT !.at = c, !.pc = l] \in Holdings
BY DEF Holdings

LEMMA ObjectHeld ==
  ASSUME NEW h \in Holdings, NEW o \in Objects
  PROVE  [h EXCEPT !.obj = o] \in Holdings
BY DEF Holdings

LEMMA ObjectHeldThen ==
  ASSUME NEW h \in Holdings, NEW l \in Calls, NEW o \in Objects
  PROVE  /\ [h EXCEPT !.obj = o, !.pc = l] \in Holdings
         /\ \A c \in Containers : [h EXCEPT !.at = c, !.obj = o, !.pc = l] \in Holdings
<1>1. [h EXCEPT !.obj = o, !.pc = l] \in Holdings
  BY DEF Holdings
<1>2. ASSUME NEW c \in Containers
      PROVE  [h EXCEPT !.at = c, !.obj = o, !.pc = l] \in Holdings
  BY DEF Holdings
<1> QED BY <1>1, <1>2

LEMMA ProducingTypeInv ==
  ASSUME TypeInv, NEW p \in Procs, Producing(p)
  PROVE  TypeInv'
<1> USE Typed
<1>1. CASE Scan(p)
  <2>1. CASE Over(p) /\ UNCHANGED <<idx, rows, kills>>
    BY <2>1, OverTypeInv DEF TypeInv, TypeOK
  <2>2. ASSUME NEW b \in Batches,
               run' = [run EXCEPT ![p].bat = b, ![p].todo = Of(b), ![p].pc = "spool"],
               UNCHANGED <<storage, idx, rows, owner, kills>>
        PROVE  TypeInv'
    <3>1. Of(b) \in SUBSET Containers /\ "spool" \in Calls
      BY DEF Of, Calls
    <3>2. run' = [run EXCEPT ![p] = run'[p]] /\ run'[p] \in Holdings
      <4>1. run'[p] = [run[p] EXCEPT !.bat = b, !.todo = Of(b), !.pc = "spool"]
        BY <2>2
      <4>2. [run[p] EXCEPT !.bat = b, !.todo = Of(b), !.pc = "spool"] \in Holdings
        BY <3>1, BatchHeld, Zenon
      <4> QED BY <2>2, <4>1, <4>2
    <3>3. Ready(p)'
      BY <1>1, <2>2 DEF Scan, Ready, Holdings, storage
    <3> QED BY <2>2, <3>2, <3>3, StepTypeInv, OthersStay DEF storage
  <2> QED BY <1>1, <2>1, <2>2 DEF Scan
<1>2. CASE Announce(p)
  <2>1. PICK c \in run[p].todo :
          /\ used' = used \cup {c}
          /\ row' = [row EXCEPT ![c] = [NoRow EXCEPT !.state = "spooling"]]
          /\ run' = [run EXCEPT ![p].at = c, ![p].pc = "write"]
    BY <1>2 DEF Announce
  <2>2. c \in Containers /\ "write" \in Calls
    BY DEF Holdings, Calls
  <2>3. run' = [run EXCEPT ![p] = run'[p]] /\ run'[p] \in Holdings
    <3>1. run'[p] = [run[p] EXCEPT !.at = c, !.pc = "write"]
      BY <2>1
    <3>2. [run[p] EXCEPT !.at = c, !.pc = "write"] \in Holdings
      BY <2>2, ContainerHeld, Zenon
    <3> QED BY <2>1, <3>1, <3>2
  <2>4. Ready(p)'
    BY <1>2, <2>1, <2>2 DEF Announce, Ready, Holdings, storage
  <2>5. [NoRow EXCEPT !.state = "spooling"] \in Rows /\ Rows' = Rows /\ Objects' = Objects
    BY <1>2, Defaults DEF Announce, TypeInv, Rows, storage, Objects
  <2>6. Others'
    BY <1>2, <2>1, <2>2, <2>5 DEF Announce, Others, TypeInv, TypeOK, storage
  <2> QED BY <1>2, <2>3, <2>4, <2>6, StepTypeInv DEF Announce, storage
<1>3. CASE WriteSpool(p)
  <2>1. run[p].at \in Containers /\ "whole" \in Calls
    BY <1>3 DEF WriteSpool, Ready, Calls
  <2>2. Others'
    BY <1>3, <2>1 DEF WriteSpool, Others, TypeInv, TypeOK, storage, Objects, Rows
  <2>3. Ready(p)'
    BY <1>3 DEF WriteSpool, Ready, Holdings, storage
  <2> QED BY <1>3, <2>1, <2>2, <2>3, MoveTypeInv DEF WriteSpool, storage
<1>4. CASE MarkSpooled(p)
  <2>1. run[p].at \in Containers /\ run[p].todo \ {run[p].at} \in SUBSET Containers
        /\ "spool" \in Calls
    BY <1>4 DEF MarkSpooled, Ready, Calls, Holdings
  <2>2. run' = [run EXCEPT ![p] = run'[p]] /\ run'[p] \in Holdings
    BY <1>4, <2>1 DEF MarkSpooled, Holdings
  <2>3. Rows' = Rows /\ Objects' = Objects
    BY <1>4 DEF MarkSpooled, Rows, storage, Objects
  <2>4. row' \in [Containers -> Rows]
    <3> DEFINE r == [row[run[p].at] EXCEPT !.state = IF @ = "spooling" THEN "spooled" ELSE @]
    <3>1. row' = [row EXCEPT ![run[p].at] = r]
      BY <1>4 DEF MarkSpooled
    <3>2. r \in Rows
      BY <2>1 DEF TypeInv, TypeOK, Rows
    <3> QED BY <3>1, <3>2 DEF TypeInv, TypeOK
  <2>5. Others'
    BY <1>4, <2>3, <2>4 DEF MarkSpooled, Others, TypeInv, TypeOK, storage
  <2>6. Ready(p)'
    BY <1>4 DEF MarkSpooled, Ready, Holdings, storage
  <2> QED BY <1>4, <2>2, <2>5, <2>6, StepTypeInv DEF MarkSpooled, storage
<1>5. CASE AllSpooled(p)
  <2>1. Of(run[p].bat) \subseteq Containers /\ "upload" \in Calls
    BY DEF Of, Calls
  <2>2. run' = [run EXCEPT ![p] = run'[p]] /\ run'[p] \in Holdings
    BY <1>5, <2>1 DEF AllSpooled, Holdings
  <2>3. Ready(p)'
    BY <1>5 DEF AllSpooled, Ready, Holdings, storage
  <2> QED BY <1>5, <2>2, <2>3, StepTypeInv, OthersStay DEF AllSpooled, storage
<1>6. CASE Put(p)
  <2>1. PICK c \in run[p].todo :
          /\ putting' = putting \cup {<<c, 1>>}
          /\ run' = [run EXCEPT ![p].at = c, ![p].obj = <<c, 1>>, ![p].pc = "putting"]
    BY <1>6 DEF Put
  <2>2. c \in Containers /\ <<c, 1>> \in Objects /\ "putting" \in Calls
    BY Defaults DEF Holdings, Calls, Objects, TypeInv
  <2>3. run' = [run EXCEPT ![p] = run'[p]] /\ run'[p] \in Holdings
    <3>1. run'[p] = [run[p] EXCEPT !.at = c, !.obj = <<c, 1>>, !.pc = "putting"]
      BY <2>1
    <3>2. [run[p] EXCEPT !.at = c, !.obj = <<c, 1>>, !.pc = "putting"] \in Holdings
      BY <2>2, ObjectHeldThen, Zenon
    <3> QED BY <2>1, <3>1, <3>2
  <2>4. Ready(p)'
    BY <1>6, <2>1, <2>2 DEF Put, Ready, Holdings
  <2>5. Rows' = Rows /\ Objects' = Objects
    BY <1>6 DEF Put, Rows, Objects
  <2>6. Others'
    BY <1>6, <2>1, <2>2, <2>5 DEF Put, Others, TypeInv, TypeOK, rows
  <2> QED BY <1>6, <2>3, <2>4, <2>6, StepTypeInv DEF Put
<1>7. CASE PutAgain(p)
  <2> DEFINE o == <<run[p].at, run[p].obj[2] + 1>>
  <2>1. /\ putting' = putting \cup {o} /\ run' = [run EXCEPT ![p].obj = o]
        /\ run[p].pc = "putting" /\ run[p].obj[2] < setup.puts
    BY <1>7 DEF PutAgain
  <2>2. o \in Objects
    <3>1. run[p].at \in Containers
      BY <2>1 DEF Ready
    <3>2. run[p].obj[2] \in Nat
      BY DEF Holdings, Objects, NoObject
    <3> QED BY <2>1, <3>1, <3>2, Defaults DEF Objects, TypeInv
  <2> HIDE DEF o
  <2>3. run' = [run EXCEPT ![p] = run'[p]] /\ run'[p] \in Holdings
    <3>1. run'[p] = [run[p] EXCEPT !.obj = o]
      BY <2>1
    <3>2. [run[p] EXCEPT !.obj = o] \in Holdings
      BY <2>2, ObjectHeld, Zenon
    <3> QED BY <2>1, <3>1, <3>2
  <2>4. Ready(p)'
    BY <1>7, <2>1, <2>2 DEF PutAgain, Ready, Holdings
  <2>5. Rows' = Rows /\ Objects' = Objects
    BY <1>7 DEF PutAgain, Rows, Objects
  <2>6. Others'
    BY <1>7, <2>1, <2>2, <2>5 DEF PutAgain, Others, TypeInv, TypeOK, rows
  <2> QED BY <1>7, <2>3, <2>4, <2>6, StepTypeInv DEF PutAgain
<1>8. CASE PutAnswered(p)
  <2> DEFINE o == StoredAs(run[p].obj)
  <2>1. /\ run' = [run EXCEPT ![p].obj = o, ![p].pc = "handle"]
        /\ run[p].pc = "putting" /\ o \in Objects /\ "handle" \in Calls
    BY <1>8 DEF PutAnswered, TypeInv, TypeOK, Calls
  <2> HIDE DEF o
  <2>2. run' = [run EXCEPT ![p] = run'[p]] /\ run'[p] \in Holdings
    <3>1. run'[p] = [run[p] EXCEPT !.obj = o, !.pc = "handle"]
      BY <2>1
    <3>2. [run[p] EXCEPT !.obj = o, !.pc = "handle"] \in Holdings
      BY <2>1, ObjectHeldThen, Zenon
    <3> QED BY <2>1, <3>1, <3>2
  <2>3. /\ run'[p].pc = "handle" /\ run'[p].obj = o /\ run'[p].at = run[p].at
        /\ run'[p].recs = run[p].recs /\ run'[p].tries = run[p].tries
    BY <2>1 DEF Holdings
  <2>4. setup' = setup /\ chain' = chain /\ Objects' = Objects
    BY <1>8 DEF PutAnswered, storage, Objects
  <2>5. Ready(p)'
    BY <2>1, <2>3, <2>4 DEF Ready
  <2> QED BY <1>8, <2>2, <2>5, StepTypeInv, OthersStay DEF PutAnswered, storage
<1>9. CASE RecordHandle(p)
  <2>1. /\ run[p].at \in Containers /\ run[p].obj \in Objects
        /\ run[p].todo \ {run[p].at} \in SUBSET Containers
        /\ run[p].got \cup {run[p].obj} \in SUBSET Objects
        /\ "upload" \in Calls
    BY <1>9 DEF RecordHandle, Ready, Calls, Holdings
  <2>2. run' = [run EXCEPT ![p] = run'[p]] /\ run'[p] \in Holdings
    BY <1>9, <2>1 DEF RecordHandle, Holdings
  <2>3. Rows' = Rows /\ Objects' = Objects
    BY <1>9 DEF RecordHandle, Rows, storage, Objects
  <2>4. [state |-> "uploaded", obj |-> run[p].obj, tried |-> FALSE] \in Rows
    BY <2>1 DEF Rows
  <2>5. Others'
    BY <1>9, <2>3, <2>4 DEF RecordHandle, Others, TypeInv, TypeOK, storage
  <2>6. Ready(p)'
    BY <1>9 DEF RecordHandle, Ready, Holdings, storage
  <2> QED BY <1>9, <2>2, <2>5, <2>6, StepTypeInv DEF RecordHandle, storage
<1>10. CASE AllUploaded(p)
  <2>1. "list" \in Calls
    BY DEF Calls
  <2>2. Ready(p)'
    BY <1>10 DEF AllUploaded, Ready, Holdings, storage
  <2> QED BY <1>10, <2>1, <2>2, MoveTypeInv, OthersStay DEF AllUploaded, storage
<1> QED BY <1>1, <1>2, <1>3, <1>4, <1>5, <1>6, <1>7, <1>8, <1>9, <1>10 DEF Producing

LEMMA AimHeld ==
  ASSUME NEW h \in Holdings, NEW n \in Nat, NEW t \in 0 .. Attempts
  PROVE  [h EXCEPT !.slot = n, !.tries = t, !.pc = "attempt"] \in Holdings
<1>1. "attempt" \in Calls
  BY DEF Calls
<1> QED BY <1>1 DEF Holdings

LEMMA CommittingTypeInv ==
  ASSUME TypeInv, NEW p \in Procs, Committing(p)
  PROVE  TypeInv'
<1> USE Typed
<1>1. CASE Aim(p)
  <2>1. CASE Over(p)
    BY <1>1, <2>1, OverTypeInv DEF Aim, TypeInv, TypeOK
  <2>2. CASE Retry(p, run[p].tries + 1)
    <3>1. run[p].tries + 1 \in Nat
      BY DataAssumption DEF Holdings
    <3> QED BY <1>1, <2>2, <3>1, RetryTypeInv DEF Aim
  <2>3. CASE /\ run' = [run EXCEPT ![p].slot = idx + 1, ![p].tries = @ + 1,
                                   ![p].pc = "attempt"]
             /\ UNCHANGED <<storage, owner>>
    <3>1. /\ idx + 1 \in Nat /\ run[p].tries + 1 \in 0 .. Attempts /\ "attempt" \in Calls
          /\ run[p].bat \in Batches
      <4>1. run[p].tries \in 0 .. Attempts /\ "attempt" \in Calls
        BY DEF Holdings, Calls
      <4>2. run[p].tries < Attempts /\ run[p].bat \in Batches
        BY <1>1 DEF Aim, Ready
      <4>3. idx + 1 \in Nat
        BY DEF TypeInv, TypeOK
      <4> QED BY <4>1, <4>2, <4>3, DataAssumption
    <3>2. run'[p] = [run[p] EXCEPT !.slot = idx + 1, !.tries = run[p].tries + 1,
                                   !.pc = "attempt"]
      BY <2>3
    <3>3. run' = [run EXCEPT ![p] = run'[p]] /\ run'[p] \in Holdings
      BY <2>3, <3>1, <3>2, AimHeld
    <3>4. /\ run'[p].pc = "attempt" /\ run'[p].bat = run[p].bat
          /\ run'[p].recs = run[p].recs /\ run'[p].slot = idx + 1
      BY <3>2 DEF Holdings
    <3>5. Ready(p)'
      BY <2>3, <3>1, <3>4 DEF Ready, storage, TypeInv, TypeOK
    <3> QED BY <1>1, <2>3, <3>3, <3>5, StepTypeInv, OthersStay DEF Aim, storage
  <2> QED BY <1>1, <2>1, <2>2, <2>3 DEF Aim
<1>2. CASE MarkAttempt(p)
  <2>1. run[p].bat \in Batches /\ run[p].slot \in Nat /\ "send" \in Calls
    BY <1>2 DEF MarkAttempt, Ready, Holdings, Calls
  <2>2. Rows' = Rows /\ Objects' = Objects
    BY <1>2 DEF MarkAttempt, Rows, storage, Objects
  <2>3. row' \in [Containers -> Rows]
    <3>1. \A r \in Rows : [r EXCEPT !.tried = TRUE] \in Rows
      BY DEF Rows
    <3> QED BY <1>2, <3>1 DEF MarkAttempt, Marked, TypeInv, TypeOK
  <2>4. slots' \in [Batches -> SUBSET Nat]
    BY <1>2, <2>1 DEF MarkAttempt, Marked, TypeInv, TypeOK
  <2>5. Others'
    BY <1>2, <2>2, <2>3, <2>4 DEF MarkAttempt, Others, TypeInv, TypeOK, storage
  <2>6. Ready(p)'
    BY <1>2, <2>1 DEF MarkAttempt, Ready, Holdings, storage
  <2> QED BY <1>2, <2>1, <2>5, <2>6, MoveTypeInv DEF MarkAttempt, storage
<1>3. CASE Send(p)
  <2>1. /\ run[p].bat \in Batches /\ run[p].slot \in Nat /\ run[p].got \subseteq Objects
        /\ "await" \in Calls
    BY <1>3 DEF Send, Ready, Holdings, Calls
  <2>2. Others'
    BY <1>3, <2>1 DEF Send, Others, TypeInv, TypeOK, rows, Rows, Objects
  <2>3. Ready(p)'
    BY <1>3, <2>1 DEF Send, Ready, Holdings
  <2> QED BY <1>3, <2>1, <2>2, <2>3, MoveTypeInv DEF Send
<1>4. CASE Created(p) \/ ReadBackOwn(p)
  <2>1. /\ run[p].bat \in Batches /\ "refresh" \in Calls /\ run[p].slot <= Len(chain)
        /\ chain[run[p].slot].batch = run[p].bat
        /\ run' = [run EXCEPT ![p].pc = "refresh"]
        /\ UNCHANGED <<storage, idx, rows, owner, kills>>
    BY <1>4 DEF Created, ReadBackOwn, Own, Taken, Ready, Calls
  <2>2. run[p].slot \in 1 .. Len(chain)
    BY <1>4, <2>1 DEF Created, ReadBackOwn, Ready, Holdings, TypeInv, TypeOK
  <2>3. Ready(p)'
    BY <2>1, <2>2 DEF Ready, Holdings, storage
  <2> QED BY <2>1, <2>3, MoveTypeInv, OthersStay DEF storage
<1>5. CASE Refused(p)
  <2>1. run[p].bat \in Batches /\ "readback" \in Calls
    BY <1>5 DEF Refused, Ready, Calls
  <2>2. Ready(p)'
    BY <1>5, <2>1 DEF Refused, Ready, Holdings, storage
  <2> QED BY <1>5, <2>1, <2>2, MoveTypeInv, OthersStay DEF Refused, storage
<1>6. CASE ReadBackOther(p)
  BY <1>6, RetryTypeInv DEF ReadBackOther, Holdings
<1>7. CASE Refresh(p)
  <2> DEFINE S == Of(run[p].bat)
  <2>1. /\ run[p].bat \in Batches /\ run[p].slot \in 0 .. Len(chain)
        /\ S \in SUBSET Containers /\ "discard" \in Calls
        /\ run' = [run EXCEPT ![p].todo = S, ![p].pc = "discard"]
    BY <1>7 DEF Refresh, Ready, Calls, Of
  <2>2. idx' \in 0 .. Len(chain)
    BY <1>7, <2>1, CatchUpIsRecord DEF Refresh
  <2>3. Rows' = Rows /\ Objects' = Objects
    BY <1>7 DEF Refresh, Rows, storage, Objects
  <2>4. Others'
    BY <1>7, <2>2, <2>3, ClearTyped DEF Refresh, Others, TypeInv, TypeOK, storage
  <2> HIDE DEF S
  <2>5. run' = [run EXCEPT ![p] = run'[p]] /\ run'[p] \in Holdings
    <3>1. run'[p] = [run[p] EXCEPT !.todo = S, !.pc = "discard"]
      BY <2>1
    <3>2. [run[p] EXCEPT !.todo = S, !.pc = "discard"] \in Holdings
      BY <2>1, TodoHeld, Zenon
    <3> QED BY <2>1, <3>1, <3>2
  <2>6. Ready(p)'
    <3>1. /\ run'[p].pc = "discard" /\ run'[p].bat = run[p].bat
          /\ run'[p].recs = run[p].recs
      <4>1. run'[p] = [run[p] EXCEPT !.todo = S, !.pc = "discard"]
        BY <2>1
      <4> QED BY <4>1 DEF Holdings
    <3>2. run[p].recs \subseteq 1 .. Len(chain) /\ chain' = chain
      BY <1>7 DEF Refresh, Ready, storage
    <3> QED BY <2>1, <3>1, <3>2 DEF Ready
  <2> QED BY <1>7, <2>4, <2>5, <2>6, StepTypeInv DEF Refresh, storage
<1>8. CASE DiscardSpool(p)
  <2>1. PICK c \in run[p].todo :
          /\ spools' \subseteq spools
          /\ run' = [run EXCEPT ![p].todo = @ \ {c}]
    BY <1>8 DEF DiscardSpool
  <2>2. run' = [run EXCEPT ![p] = run'[p]] /\ run'[p] \in Holdings
    <3>1. run[p].todo \ {c} \in SUBSET Containers
      BY DEF Holdings
    <3>2. run'[p] = [run[p] EXCEPT !.todo = @ \ {c}]
      BY <2>1
    <3>3. [run[p] EXCEPT !.todo = @ \ {c}] \in Holdings
      BY <3>1, TodoKept
    <3> QED BY <2>1, <3>2, <3>3
  <2>3. Others'
    BY <1>8, <2>1 DEF DiscardSpool, Others, TypeInv, TypeOK, storage, Rows, Objects
  <2>4. Ready(p)'
    BY <1>8, <2>1 DEF DiscardSpool, Ready, Holdings, storage
  <2> QED BY <1>8, <2>2, <2>3, <2>4, StepTypeInv DEF DiscardSpool, storage
<1>9. CASE Committed(p)
  BY <1>9, OverTypeInv DEF Committed, TypeInv, TypeOK
<1> QED BY <1>1, <1>2, <1>3, <1>4, <1>5, <1>6, <1>7, <1>8, <1>9 DEF Committing

LEMMA NextTypeInv == ASSUME TypeInv, [Next]_vars PROVE TypeInv'
<1> USE DataAssumption
<1>1. CASE UNCHANGED vars
  <2>1. setup' = setup /\ Objects' = Objects /\ Rows' = Rows /\ Holdings' = Holdings
    BY <1>1 DEF vars, storage, Objects, Rows, Holdings
  <2>2. TypeOK'
    BY <1>1, <2>1 DEF TypeInv, TypeOK, vars, storage, rows
  <2>3. \A p \in Procs : Ready(p)'
    BY <1>1, <2>1 DEF TypeInv, Ready, vars, storage
  <2> QED BY <2>1, <2>2, <2>3 DEF TypeInv
<1>2. ASSUME NEW r \in [batch : Batches \cup {NoBatch}, rm : SUBSET Containers,
                        refs : SUBSET Objects],
             chain' = Append(chain, r), live' = live \cup {Len(chain) + 1},
             UNCHANGED <<setup, sent, putting, stored, idx, rows, owner, kills, run>>
      PROVE  TypeInv'
  <2>1. setup' = setup /\ Objects' = Objects /\ Rows' = Rows /\ Holdings' = Holdings
    BY <1>2 DEF Objects, Rows, Holdings
  <2>2. /\ Len(chain') = Len(chain) + 1 /\ Len(chain) \in Nat
        /\ \A g \in 1 .. Len(chain) : chain'[g] = chain[g]
        /\ chain' \in Seq([batch : Batches \cup {NoBatch}, rm : SUBSET Containers,
                           refs : SUBSET Objects])
    BY <1>2 DEF TypeInv, TypeOK
  <2>3. TypeOK'
    <3>1. live' \subseteq 1 .. Len(chain') /\ idx' \in 0 .. Len(chain')
      <4>1. live \subseteq 1 .. Len(chain) /\ idx \in 0 .. Len(chain)
        BY DEF TypeInv, TypeOK
      <4>2. live' = live \cup {Len(chain) + 1} /\ idx' = idx
        BY <1>2
      <4>3. \A n \in Nat : 1 .. n \subseteq 1 .. n + 1 /\ 0 .. n \subseteq 0 .. n + 1
                            /\ n + 1 \in 1 .. n + 1
        OBVIOUS
      <4> QED BY <2>2, <4>1, <4>2, <4>3
    <3>2. /\ putting' \cup stored' \subseteq Objects /\ row' \in [Containers -> Rows]
          /\ slots' \in [Batches -> SUBSET Nat] /\ spools' \cup used' \subseteq Containers
          /\ sent' \subseteq [gen : Nat, batch : Batches, refs : SUBSET Objects]
          /\ owner' \in Procs \cup {NoProc} /\ kills' \in 0 .. setup'.kills
          /\ run' \in [Procs -> Holdings]
      BY <1>2, <2>1 DEF TypeInv, TypeOK, rows
    <3> QED BY <2>1, <2>2, <3>1, <3>2 DEF TypeOK
  <2>4. ASSUME NEW p \in Procs PROVE Ready(p)'
    BY <1>2, <2>1, <2>2 DEF TypeInv, Ready
  <2> QED BY <2>1, <2>3, <2>4 DEF TypeInv
<1>3. ASSUME NEW r \in sent, Land(r) PROVE TypeInv'
  <2>1. /\ r.batch \in Batches /\ r.refs \subseteq Objects
        /\ r.gen = Len(chain) + 1
    BY <1>3 DEF Land, TypeInv, TypeOK
  <2>2. [batch |-> r.batch, rm |-> {}, refs |-> r.refs]
          \in [batch : Batches \cup {NoBatch}, rm : SUBSET Containers,
               refs : SUBSET Objects]
    BY <2>1
  <2> QED BY <1>2, <1>3, <2>1, <2>2 DEF Land
<1>4. ASSUME NEW gone \in SUBSET Containers, RivalCommit(gone) PROVE TypeInv'
  <2>1. [batch |-> NoBatch, rm |-> gone, refs |-> {}]
          \in [batch : Batches \cup {NoBatch}, rm : SUBSET Containers,
               refs : SUBSET Objects]
    OBVIOUS
  <2> QED BY <1>2, <1>4, <2>1 DEF RivalCommit
<1>5. ASSUME UNCHANGED <<setup, chain, sent, owner, rows, kills, run>>, Others'
      PROVE  TypeInv'
  <2>1. Objects' = Objects /\ Rows' = Rows /\ Holdings' = Holdings
    BY <1>5 DEF Objects, Rows, Holdings
  <2>2. TypeOK'
    BY <1>5, <2>1 DEF TypeInv, TypeOK, Others
  <2>3. \A p \in Procs : Ready(p)'
    BY <1>5, <2>1 DEF TypeInv, Ready
  <2> QED BY <1>5, <2>2, <2>3 DEF TypeInv
<1>6. ASSUME NEW o \in putting, LandPut(o) PROVE TypeInv'
  <2>1. StoredAs(o) \in Objects /\ Objects' = Objects /\ Rows' = Rows
    BY <1>6, Defaults DEF LandPut, TypeInv, TypeOK, Objects, Rows
  <2>2. Others'
    BY <1>6, <2>1 DEF LandPut, Others, TypeInv, TypeOK, rows
  <2> QED BY <1>5, <1>6, <2>2 DEF LandPut
<1>7. ASSUME NEW g \in live, RivalPrune(g) PROVE TypeInv'
  <2>1. Others'
    BY <1>7 DEF RivalPrune, Others, TypeInv, TypeOK, rows, Objects, Rows
  <2> QED BY <1>5, <1>7, <2>1 DEF RivalPrune
<1>8. CASE Replay
  <2>1. Others'
    BY <1>8 DEF Replay, Others, TypeInv, TypeOK, rows, storage, Objects, Rows
  <2> QED BY <1>5, <1>8, <2>1 DEF Replay, storage
<1>9. ASSUME NEW p \in Procs, NEW flow \in {"sync", "completion"}, Open(p, flow)
      PROVE  TypeInv'
  <2>1. PICK l \in Calls : /\ l \in {"list", "rows"}
                           /\ run' = [run EXCEPT ![p].flow = flow, ![p].pc = l]
    BY <1>9 DEF Open, Calls
  <2>2. run' = [run EXCEPT ![p] = run'[p]] /\ run'[p] \in Holdings
    <3>1. run'[p] = [run[p] EXCEPT !.flow = flow, !.pc = l]
      BY <2>1, Typed
    <3>2. [run[p] EXCEPT !.flow = flow, !.pc = l] \in Holdings
      BY Typed, FlowHeld, Zenon
    <3> QED BY <2>1, <3>1, <3>2
  <2>3. Ready(p)'
    BY <1>9, <2>1, Typed DEF Open, Ready, Holdings, storage
  <2>4. Others'
    BY <1>9 DEF Open, Others, TypeInv, TypeOK, rows, storage, Objects, Rows
  <2> QED BY <1>9, <2>2, <2>3, <2>4, StepTypeInv DEF Open, storage
<1>10. ASSUME NEW p \in Procs, Kill(p) PROVE TypeInv'
  <2>1. kills' \in 0 .. setup.kills
    BY <1>10, Defaults DEF Kill, TypeInv, TypeOK
  <2> QED BY <1>10, <2>1, OverTypeInv DEF Kill
<1> QED
  BY <1>1, <1>3, <1>4, <1>6, <1>7, <1>8, <1>9, <1>10, SettlingTypeInv,
     ProducingTypeInv, CommittingTypeInv
  DEF Next, Step

\* Whatever is killed, lost or late, every variable keeps its shape, no commit
\* spends more attempts than the policy allows, and the Index stands at a record
\* of the chain (run.rs attempt_until_committed, catch_up).
THEOREM TypesHold == Spec => []TypeOK
<1>1. Init => TypeInv
  BY InitTypeInv
<1>2. TypeInv /\ [Next]_vars => TypeInv'
  BY NextTypeInv
<1>3. TypeInv => TypeOK
  BY DEF TypeInv
<1> QED BY <1>1, <1>2, <1>3, PTL DEF Spec

-----------------------------------------------------------------------------
(* Rows and spools *)

\* A Container nobody has drawn has no row, a row is marked only while it
\* stands, and the rows of a batch are marked together.
RowsAgree ==
  /\ \A c \in Containers \ used : row[c] = NoRow
  /\ \A c \in Containers : row[c].tried => row[c].state # "none"
  /\ \A c, d \in Containers :
       /\ BatchOf[c] = BatchOf[d]
       /\ row[c].state # "none" /\ row[d].state # "none"
       => row[c].tried = row[d].tried

\* The calls between which a process makes a batch, and those with one of its
\* Containers in hand.
Making == {"spool", "write", "whole", "upload", "putting", "handle"}
MakingOne == {"write", "whole", "putting", "handle"}

\* A process at work owns the rows; the batch it makes was never attempted; the
\* Containers it passed are drawn, the spool it writes has its row, and the row
\* it takes away has no spool.
Hand(p) ==
  /\ run[p].pc # "idle" => owner = p
  /\ run[p].pc \in Making =>
       run[p].todo \subseteq Of(run[p].bat) /\ \A c \in Of(run[p].bat) : ~row[c].tried
  /\ run[p].pc \in MakingOne => run[p].at \in Of(run[p].bat)
  /\ run[p].pc \in {"spool", "write", "whole"} => Of(run[p].bat) \ run[p].todo \subseteq used
  /\ run[p].pc \in {"upload", "putting", "handle"} => Of(run[p].bat) \subseteq used
  /\ run[p].pc \in {"write", "whole"} =>
       run[p].at \in used /\ row[run[p].at].state # "none"
  /\ run[p].pc \in {"trash", "clear"} => run[p].at \notin spools

RowsInv == RowsAgree /\ MarkedWithSlots /\ SpoolsNamed

AccountInv == TypeInv /\ RowsInv /\ \A p \in Procs : Hand(p)

LEMMA InitAccount == ASSUME Init PROVE AccountInv
<1>1. RowsAgree /\ MarkedWithSlots /\ SpoolsNamed
  BY DataAssumption DEF Init, RowsAgree, MarkedWithSlots, SpoolsNamed, NoRow
<1>2. \A p \in Procs : Hand(p)
  BY NoRunReady DEF Init, Hand, Making, MakingOne
<1> QED BY <1>1, <1>2, InitTypeInv DEF AccountInv, RowsInv

\* What stands while the rows do: the chain only grows under them.
LEMMA RowsStay ==
  ASSUME AccountInv, UNCHANGED rows,
         \A c \in Containers : CommittedAt(c) # {} => CommittedAt(c)' # {}
  PROVE  RowsInv'
<1>1. RowsAgree' /\ MarkedWithSlots'
  BY DEF AccountInv, RowsInv, RowsAgree, MarkedWithSlots, rows, NoRow, NoObject, Of
<1>2. SpoolsNamed'
  BY DEF AccountInv, TypeInv, TypeOK, RowsInv, SpoolsNamed, rows
<1> QED BY <1>1, <1>2 DEF RowsInv

\* While one process is at work, or comes to it, every other is idle.
LEMMA OneActs ==
  ASSUME AccountInv, NEW p \in Procs, run' = [run EXCEPT ![p] = run'[p]],
         run[p].pc # "idle" \/ owner = NoProc, Hand(p)'
  PROVE  \A q \in Procs : Hand(q)'
<1> SUFFICES ASSUME NEW q \in Procs, q # p PROVE Hand(q)'
  OBVIOUS
<1>1. run[q].pc = "idle"
  BY DataAssumption DEF AccountInv, Hand
<1>2. run'[q] = run[q]
  BY DEF AccountInv, TypeInv, TypeOK
<1> QED BY <1>1, <1>2 DEF Hand, Making, MakingOne

\* The calls that neither make a Container nor take a row away.
Plain == Calls \ (Making \cup {"trash", "clear"})

LEMMA PlainHand ==
  ASSUME NEW p \in Procs, run'[p].pc \in Plain, run'[p].pc = "idle" \/ owner' = p
  PROVE  Hand(p)'
BY DEF Hand, Plain, Making, MakingOne

LEMMA PlainAccount ==
  ASSUME AccountInv, TypeInv', NEW p \in Procs, UNCHANGED <<chain, rows>>,
         run' = [run EXCEPT ![p] = run'[p]],
         run[p].pc # "idle" \/ owner = NoProc,
         run'[p].pc \in Plain, run'[p].pc = "idle" \/ owner' = p
  PROVE  AccountInv'
<1>1. RowsInv'
  BY RowsStay DEF CommittedAt
<1> QED BY <1>1, PlainHand, OneActs DEF AccountInv

\* So does the end of a run.
LEMMA OverAccount ==
  ASSUME AccountInv, TypeInv', NEW p \in Procs, run[p].pc # "idle",
         Over(p), UNCHANGED rows
  PROVE  AccountInv'
<1>1. run'[p] = NoRun /\ run' = [run EXCEPT ![p] = run'[p]] /\ chain' = chain
  BY DEF Over, AccountInv, TypeInv, TypeOK
<1>2. "idle" \in Plain
  BY DEF Plain, Calls, Making
<1> QED BY <1>1, <1>2, NoRunReady, PlainAccount

LEMMA RetryAccount ==
  ASSUME AccountInv, TypeInv', NEW p \in Procs, NEW n \in Nat, run[p].pc # "idle",
         Retry(p, n), UNCHANGED rows
  PROVE  AccountInv'
<1>1. CASE run' = [run EXCEPT ![p].tries = n, ![p].pc = "list"]
             /\ UNCHANGED <<storage, owner>>
  <2>1. run' = [run EXCEPT ![p] = run'[p]] /\ run'[p].pc = "list"
    <3>1. run \in [Procs -> Holdings] /\ run[p] \in Holdings
      BY DEF AccountInv, TypeInv, TypeOK
    <3>2. run'[p] = [run[p] EXCEPT !.tries = n, !.pc = "list"]
      BY <1>1, <3>1
    <3> QED BY <1>1, <3>1, <3>2 DEF Holdings
  <2>2. "list" \in Plain
    BY DEF Plain, Calls, Making
  <2>3. owner' = p
    BY <1>1 DEF AccountInv, Hand
  <2> QED BY <1>1, <2>1, <2>2, <2>3, PlainAccount DEF storage
<1>2. CASE Over(p)
  BY <1>2, OverAccount
<1> QED BY <1>1, <1>2 DEF Retry

\* A process at work owns the rows, and holds what its calls are made of.
LEMMA AtWork ==
  ASSUME AccountInv, NEW p \in Procs
  PROVE  /\ run \in [Procs -> Holdings] /\ run[p] \in Holdings /\ Hand(p)
         /\ run[p].pc # "idle" => owner = p
BY DEF AccountInv, TypeInv, TypeOK, Hand

\* Whichever rows are taken away, those left and the slots of their batch still
\* go together.
LEMMA ClearAgrees ==
  ASSUME AccountInv, NEW S \in SUBSET Containers, Clear(S), used' = used
  PROVE  RowsAgree' /\ MarkedWithSlots'
<1>1. \A c \in Containers : row'[c] = IF c \in S THEN NoRow ELSE row[c]
  BY DEF Clear
<1>2. NoRow.state = "none" /\ NoRow.tried = FALSE /\ NoRow' = NoRow
  BY DEF NoRow, NoObject
<1>3. RowsAgree'
  BY <1>1, <1>2 DEF AccountInv, RowsInv, RowsAgree
<1>4. ASSUME NEW c \in Containers, row'[c].tried PROVE slots'[BatchOf[c]] # {}
  <2>1. c \notin S /\ row[c].tried /\ row[c].state # "none"
    BY <1>1, <1>2, <1>4 DEF AccountInv, RowsInv, RowsAgree
  <2>2. slots[BatchOf[c]] # {} /\ BatchOf[c] \in Batches /\ c \in Of(BatchOf[c]) \ S
    BY <2>1, DataAssumption DEF AccountInv, RowsInv, MarkedWithSlots, Of
  <2> QED BY <2>1, <2>2 DEF Clear
<1>5. ASSUME NEW b \in Batches, slots'[b] # {} PROVE \E c \in Of(b) : row'[c].tried
  <2>1. PICK c \in Of(b) \ S : row[c].state # "none" /\ slots[b] # {}
    BY <1>5 DEF Clear
  <2>2. PICK d \in Of(b) : row[d].tried
    BY <2>1 DEF AccountInv, RowsInv, MarkedWithSlots
  <2>3. row[c].tried
    BY <2>1, <2>2 DEF AccountInv, RowsInv, RowsAgree, Of
  <2> QED BY <1>1, <2>1, <2>3 DEF Of
<1> QED BY <1>3, <1>4, <1>5 DEF MarkedWithSlots, Of

LEMMA SettlingAccount ==
  ASSUME AccountInv, TypeInv', NEW p \in Procs, Settling(p)
  PROVE  AccountInv'
<1> USE AtWork
<1>1. CASE List(p) \/ CatchUp(p) \/ ReadRows(p) \/ Retain(p) \/ TrashFails(p)
  <2>1. /\ run[p].pc # "idle" /\ run'[p].pc \in {"catchup", "rows", "aim", "settle"}
        /\ run' = [run EXCEPT ![p] = run'[p]] /\ UNCHANGED <<chain, rows, owner>>
    <3>1. CASE List(p)
      BY <3>1 DEF List, storage, Holdings
    <3>2. CASE CatchUp(p)
      BY <3>2 DEF CatchUp, storage, Holdings
    <3>3. CASE ReadRows(p)
      <4> DEFINE S == {c \in Containers : row[c].state # "none"}
      <4>1. PICK read \in SUBSET Held(p) :
              run' = [run EXCEPT ![p].todo = S, ![p].seen = Current(idx), ![p].proof = read,
                                 ![p].pc = "settle"]
        BY <3>3 DEF ReadRows
      <4> HIDE DEF S
      <4>2. run'[p] = [run[p] EXCEPT !.todo = S, !.seen = Current(idx), !.proof = read,
                                     !.pc = "settle"]
        BY <4>1
      <4>3. run'[p].pc = "settle"
        BY <4>2 DEF Holdings
      <4>4. run' = [run EXCEPT ![p] = run'[p]]
        BY <4>1, <4>2
      <4> QED BY <3>3, <4>3, <4>4 DEF ReadRows, storage
    <3>4. CASE Retain(p)
      <4>1. PICK S : run' = [run EXCEPT ![p].todo = S]
        BY <3>4 DEF Retain
      <4>2. run'[p] = [run[p] EXCEPT !.todo = S]
        BY <4>1
      <4> QED BY <3>4, <4>1, <4>2 DEF Retain, storage, Holdings
    <3>5. CASE TrashFails(p)
      BY <3>5 DEF TrashFails, storage, Holdings
    <3> QED BY <1>1, <3>1, <3>2, <3>3, <3>4, <3>5
  <2>2. run'[p].pc \in Plain
    BY <2>1 DEF Plain, Calls, Making
  <2> QED BY <2>1, <2>2, PlainAccount
<1>2. CASE Complete(p) \/ Dispose(p)
  <2>1. PICK c \in run[p].todo, l \in {"clear", "trash"} :
          /\ spools' = spools \ {c} /\ run[p].pc = "settle"
          /\ run' = [run EXCEPT ![p].at = c, ![p].pc = l]
    BY <1>2 DEF Complete, Dispose
  <2>2. UNCHANGED <<storage, row, slots, used, owner>>
    BY <1>2 DEF Complete, Dispose
  <2>3. /\ run' = [run EXCEPT ![p] = run'[p]]
        /\ run'[p].at = c /\ run'[p].pc = l
    BY <2>1 DEF Holdings
  <2>4. RowsInv'
    <3>1. RowsAgree' /\ MarkedWithSlots'
      BY <2>2 DEF AccountInv, RowsInv, RowsAgree, MarkedWithSlots, NoRow, NoObject, Of
    <3>2. SpoolsNamed'
      BY <2>1, <2>2 DEF AccountInv, RowsInv, SpoolsNamed, storage, CommittedAt
    <3> QED BY <3>1, <3>2 DEF RowsInv
  <2>5. Hand(p)'
    BY <2>1, <2>2, <2>3 DEF Hand, Making, MakingOne
  <2> QED BY <2>1, <2>3, <2>4, <2>5, OneActs DEF AccountInv
<1>3. CASE Trash(p)
  <2>1. /\ run[p].pc = "trash" /\ run' = [run EXCEPT ![p].pc = "clear"]
        /\ UNCHANGED <<chain, rows, owner>>
    BY <1>3 DEF Trash, storage
  <2>2. /\ run' = [run EXCEPT ![p] = run'[p]]
        /\ run'[p].at = run[p].at /\ run'[p].pc = "clear"
    BY <2>1 DEF Holdings
  <2>3. RowsInv'
    BY <2>1, RowsStay DEF CommittedAt
  <2>4. Hand(p)'
    BY <2>1, <2>2 DEF Hand, Making, MakingOne, rows
  <2> QED BY <2>1, <2>2, <2>3, <2>4, OneActs DEF AccountInv
<1>4. CASE ClearRow(p)
  <2>1. /\ run[p].pc = "clear" /\ run'[p].pc = "settle"
        /\ run' = [run EXCEPT ![p] = run'[p]]
        /\ UNCHANGED <<chain, spools, used, owner>> /\ Clear({run[p].at})
    BY <1>4 DEF ClearRow, storage, Holdings
  <2>2. run[p].at \notin spools
    BY <2>1 DEF Hand
  <2>3. Clear({run[p].at} \cap Containers)
    BY <2>1 DEF Clear, Of
  <2>4. RowsAgree' /\ MarkedWithSlots'
    BY <2>1, <2>3, ClearAgrees
  <2>5. SpoolsNamed'
    <3>1. ASSUME NEW c \in spools PROVE row'[c] = row[c]
      BY <2>1, <2>2 DEF Clear, AccountInv, TypeInv, TypeOK
    <3> QED BY <2>1, <3>1 DEF AccountInv, RowsInv, SpoolsNamed, CommittedAt
  <2>6. Hand(p)'
    BY <2>1 DEF Hand, Making, MakingOne
  <2> QED BY <2>1, <2>4, <2>5, <2>6, OneActs DEF AccountInv, RowsInv
<1>5. CASE Settled(p)
  <2>1. run[p].pc # "idle" /\ UNCHANGED rows
    BY <1>5 DEF Settled
  <2>2. CASE Over(p)
    BY <2>1, <2>2, OverAccount
  <2>3. CASE /\ run' = [run EXCEPT ![p] = [NoRun EXCEPT !.flow = "sync", !.pc = "scan"]]
             /\ UNCHANGED <<storage, owner>>
    <3>1. run' = [run EXCEPT ![p] = run'[p]] /\ run'[p].pc = "scan"
      BY <2>3 DEF NoRun
    <3>2. "scan" \in Plain
      BY DEF Plain, Calls, Making
    <3> QED BY <2>1, <2>3, <3>1, <3>2, PlainAccount DEF storage
  <2> QED BY <1>5, <2>2, <2>3 DEF Settled
<1> QED BY <1>1, <1>2, <1>3, <1>4, <1>5 DEF Settling

\* A row of an unattempted batch may be written while it says no attempt was made.
LEMMA OneRowAgrees ==
  ASSUME AccountInv, TypeInv', NEW c \in Containers, c \in used', used \subseteq used',
         row'[c].state # "none", ~row'[c].tried,
         \A d \in Containers \ {c} : row'[d] = row[d],
         \A d \in Containers : BatchOf[d] = BatchOf[c] => ~row[d].tried
  PROVE  RowsAgree'
<1>1. NoRow' = NoRow
  BY DEF NoRow, NoObject
<1>2. \A d \in Containers \ used' : row'[d] = NoRow
  BY DEF AccountInv, RowsInv, RowsAgree
<1>3. \A d \in Containers : row'[d].tried => row'[d].state # "none"
  BY DEF AccountInv, RowsInv, RowsAgree
<1>4. ASSUME NEW d \in Containers, NEW e \in Containers, BatchOf[d] = BatchOf[e],
             row'[d].state # "none", row'[e].state # "none"
      PROVE  row'[d].tried = row'[e].tried
  <2>1. \A x \in Containers : row'[x].tried \in BOOLEAN
    BY DEF TypeInv, TypeOK, Rows
  <2> QED BY <1>4, <2>1 DEF AccountInv, RowsInv, RowsAgree
<1> QED BY <1>1, <1>2, <1>3, <1>4 DEF RowsAgree

LEMMA ProducingAccount ==
  ASSUME AccountInv, TypeInv', NEW p \in Procs, Producing(p)
  PROVE  AccountInv'
<1> USE AtWork
<1>1. CASE Scan(p)
  <2>1. run[p].pc # "idle" /\ UNCHANGED rows
    BY <1>1 DEF Scan
  <2>2. CASE Over(p)
    BY <2>1, <2>2, OverAccount
  <2>3. ASSUME NEW b \in Batches, Of(b) \cap used = {},
               run' = [run EXCEPT ![p].bat = b, ![p].todo = Of(b), ![p].pc = "spool"],
               UNCHANGED <<storage, owner>>
        PROVE  AccountInv'
    <3>1. run'[p] = [run[p] EXCEPT !.bat = b, !.todo = Of(b), !.pc = "spool"]
      BY <2>3
    <3>2. /\ run' = [run EXCEPT ![p] = run'[p]] /\ run'[p].pc = "spool"
          /\ run'[p].bat = b /\ run'[p].todo = Of(b)
      <4>1. run' = [run EXCEPT ![p] = run'[p]]
        BY <2>3, <3>1
      <4>2. run'[p].pc = "spool" /\ run'[p].bat = b /\ run'[p].todo = Of(b)
        BY <3>1 DEF Holdings
      <4> QED BY <4>1, <4>2
    <3>3. \A c \in Of(b) : ~row[c].tried
      <4>1. \A c \in Of(b) : row[c] = NoRow
        BY <2>3 DEF AccountInv, RowsInv, RowsAgree, Of
      <4>2. NoRow.tried = FALSE
        BY DEF NoRow
      <4> QED BY <4>1, <4>2
    <3>4. Hand(p)'
      BY <2>1, <2>3, <3>2, <3>3 DEF Hand, Making, MakingOne, rows
    <3>5. RowsInv'
      BY <2>1, <2>3, RowsStay DEF CommittedAt, storage
    <3> QED BY <2>1, <3>2, <3>4, <3>5, OneActs DEF AccountInv
  <2> QED BY <1>1, <2>2, <2>3 DEF Scan
<1>2. CASE Announce(p)
  <2>1. PICK c \in run[p].todo :
          /\ used' = used \cup {c}
          /\ row' = [row EXCEPT ![c] = [NoRow EXCEPT !.state = "spooling"]]
          /\ run' = [run EXCEPT ![p].at = c, ![p].pc = "write"]
    BY <1>2 DEF Announce
  <2>2. run[p].pc = "spool" /\ UNCHANGED <<chain, slots, spools, owner>>
    BY <1>2 DEF Announce, storage
  <2>3. run'[p] = [run[p] EXCEPT !.at = c, !.pc = "write"]
    BY <2>1
  <2>4. /\ run' = [run EXCEPT ![p] = run'[p]] /\ run'[p].pc = "write"
        /\ run'[p].at = c /\ run'[p].bat = run[p].bat /\ run'[p].todo = run[p].todo
    BY <2>1, <2>3 DEF Holdings
  <2>5. /\ c \in Of(run[p].bat) /\ run[p].todo \subseteq Of(run[p].bat)
        /\ \A d \in Of(run[p].bat) : ~row[d].tried
    BY <2>2 DEF Hand, Making
  <2>6. /\ c \in Containers /\ row'[c].state = "spooling" /\ row'[c].tried = FALSE
        /\ \A d \in Containers \ {c} : row'[d] = row[d]
    BY <2>1, <2>5 DEF Of, NoRow, AccountInv, TypeInv, TypeOK
  <2>7. /\ \A d \in Of(run[p].bat) : ~row'[d].tried
        /\ slots[run[p].bat] = {} /\ run[p].bat = BatchOf[c]
    BY <2>5, <2>6, DataAssumption DEF AccountInv, RowsInv, MarkedWithSlots, Of
  <2>8. RowsAgree'
    <3>1. \A d \in Containers : BatchOf[d] = BatchOf[c] => ~row[d].tried
      BY <2>5, <2>7 DEF Of
    <3> QED BY <2>1, <2>6, <3>1, OneRowAgrees
  <2>9. MarkedWithSlots'
    BY <2>2, <2>6, <2>7 DEF AccountInv, RowsInv, MarkedWithSlots, Of
  <2>10. SpoolsNamed'
    BY <2>2, <2>6 DEF AccountInv, TypeInv, TypeOK, RowsInv, SpoolsNamed, CommittedAt
  <2>11. Hand(p)'
    BY <2>1, <2>2, <2>4, <2>5, <2>6, <2>7 DEF Hand, Making, MakingOne, Of
  <2> QED BY <2>2, <2>4, <2>8, <2>9, <2>10, <2>11, OneActs DEF AccountInv, RowsInv
<1>3. CASE WriteSpool(p)
  <2>1. /\ run[p].pc = "write" /\ spools' = spools \cup {run[p].at}
        /\ run' = [run EXCEPT ![p].pc = "whole"]
        /\ UNCHANGED <<chain, row, slots, used, owner>>
    BY <1>3 DEF WriteSpool, storage
  <2>2. /\ run' = [run EXCEPT ![p] = run'[p]] /\ run'[p].pc = "whole"
        /\ run'[p].at = run[p].at /\ run'[p].bat = run[p].bat
        /\ run'[p].todo = run[p].todo
    BY <2>1 DEF Holdings
  <2>3. RowsAgree' /\ MarkedWithSlots'
    BY <2>1 DEF AccountInv, RowsInv, RowsAgree, MarkedWithSlots, NoRow, NoObject, Of
  <2>4. SpoolsNamed'
    BY <2>1 DEF AccountInv, RowsInv, SpoolsNamed, Hand, CommittedAt
  <2>5. Hand(p)'
    BY <2>1, <2>2 DEF Hand, Making, MakingOne, Of
  <2> QED BY <2>1, <2>2, <2>3, <2>4, <2>5, OneActs DEF AccountInv, RowsInv
<1>4. CASE MarkSpooled(p)
  <2> DEFINE at == run[p].at
  <2>1. /\ run[p].pc = "whole" /\ at \in Of(run[p].bat) /\ at \in Containers
        /\ UNCHANGED <<chain, slots, spools, used, owner>>
    BY <1>4 DEF MarkSpooled, storage, Hand, MakingOne, Of
  <2>2. /\ row'[at].state # "none" /\ row[at].state # "none"
        /\ row'[at].tried = row[at].tried
        /\ \A d \in Containers \ {at} : row'[d] = row[d]
    <3> DEFINE r == [row[at] EXCEPT !.state = IF @ = "spooling" THEN "spooled" ELSE @]
    <3>1. row' = [row EXCEPT ![at] = r]
      BY <1>4 DEF MarkSpooled
    <3>2. row \in [Containers -> Rows] /\ row[at].state # "none"
      BY <2>1 DEF AccountInv, TypeInv, TypeOK, Hand
    <3>3. r.state # "none" /\ r.tried = row[at].tried
      BY <2>1, <3>2 DEF Rows
    <3> QED BY <2>1, <3>1, <3>2, <3>3
  <2>3. /\ run' = [run EXCEPT ![p] = run'[p]] /\ run'[p].pc = "spool"
        /\ run'[p].bat = run[p].bat /\ run'[p].todo = run[p].todo \ {at}
    BY <1>4 DEF MarkSpooled, Holdings
  <2>4. RowsAgree'
    <3>1. \A d \in Containers : BatchOf[d] = BatchOf[at] => ~row[d].tried
      BY <2>1, DataAssumption DEF Hand, Making, Of
    <3>2. at \in used' /\ used' = used
      BY <2>1 DEF Hand
    <3> QED BY <2>1, <2>2, <3>1, <3>2, OneRowAgrees
  <2>5. MarkedWithSlots'
    BY <2>1, <2>2 DEF AccountInv, RowsInv, MarkedWithSlots, Of
  <2>6. SpoolsNamed'
    BY <2>1, <2>2 DEF AccountInv, TypeInv, TypeOK, RowsInv, SpoolsNamed, CommittedAt
  <2>7. Hand(p)'
    BY <2>1, <2>2, <2>3 DEF Hand, Making, MakingOne, Of
  <2> QED BY <2>1, <2>3, <2>4, <2>5, <2>6, <2>7, OneActs DEF AccountInv, RowsInv
<1>5. CASE AllSpooled(p)
  <2>1. /\ run[p].pc = "spool" /\ run[p].todo = {} /\ UNCHANGED <<chain, rows, owner>>
        /\ run' = [run EXCEPT ![p].todo = Of(run[p].bat), ![p].pc = "upload"]
    BY <1>5 DEF AllSpooled, storage
  <2>2. run'[p] = [run[p] EXCEPT !.todo = Of(run[p].bat), !.pc = "upload"]
    BY <2>1
  <2>3. /\ run' = [run EXCEPT ![p] = run'[p]] /\ run'[p].pc = "upload"
        /\ run'[p].bat = run[p].bat /\ run'[p].todo = Of(run[p].bat)
    BY <2>1, <2>2 DEF Holdings
  <2>4. Hand(p)'
    BY <2>1, <2>3 DEF Hand, Making, MakingOne, rows, Of
  <2>5. RowsInv'
    BY <2>1, RowsStay DEF CommittedAt
  <2> QED BY <2>1, <2>3, <2>4, <2>5, OneActs DEF AccountInv
<1>6. CASE Put(p)
  <2>1. PICK c \in run[p].todo :
          run' = [run EXCEPT ![p].at = c, ![p].obj = <<c, 1>>, ![p].pc = "putting"]
    BY <1>6 DEF Put
  <2>2. run[p].pc = "upload" /\ UNCHANGED <<chain, rows, owner>>
    BY <1>6 DEF Put
  <2>3. run'[p] = [run[p] EXCEPT !.at = c, !.obj = <<c, 1>>, !.pc = "putting"]
    BY <2>1
  <2>4. /\ run' = [run EXCEPT ![p] = run'[p]] /\ run'[p].pc = "putting"
        /\ run'[p].at = c /\ run'[p].bat = run[p].bat /\ run'[p].todo = run[p].todo
    <3>1. run' = [run EXCEPT ![p] = run'[p]]
      BY <2>1, <2>3
    <3>2. /\ run'[p].pc = "putting" /\ run'[p].at = c
          /\ run'[p].bat = run[p].bat /\ run'[p].todo = run[p].todo
      BY <2>3 DEF Holdings
    <3> QED BY <3>1, <3>2
  <2>5. Hand(p)'
    BY <2>2, <2>4 DEF Hand, Making, MakingOne, rows, Of
  <2>6. RowsInv'
    BY <2>2, RowsStay DEF CommittedAt
  <2> QED BY <2>2, <2>4, <2>5, <2>6, OneActs DEF AccountInv
<1>7. CASE PutAgain(p) \/ PutAnswered(p)
  <2>1. /\ run[p].pc = "putting" /\ UNCHANGED <<chain, rows, owner>>
        /\ run' = [run EXCEPT ![p] = run'[p]]
    BY <1>7 DEF PutAgain, PutAnswered, storage
  <2>2. /\ run'[p].pc \in {"putting", "handle"} /\ run'[p].at = run[p].at
        /\ run'[p].bat = run[p].bat /\ run'[p].todo = run[p].todo
    <3>1. CASE PutAgain(p)
      <4> DEFINE o == <<run[p].at, run[p].obj[2] + 1>>
      <4>1. run' = [run EXCEPT ![p].obj = o]
        BY <3>1 DEF PutAgain
      <4> HIDE DEF o
      <4>2. run'[p] = [run[p] EXCEPT !.obj = o]
        BY <4>1
      <4> QED BY <2>1, <4>2 DEF Holdings
    <3>2. CASE PutAnswered(p)
      <4>1. run'[p] = [run[p] EXCEPT !.obj = StoredAs(run[p].obj), !.pc = "handle"]
        BY <3>2 DEF PutAnswered
      <4> QED BY <4>1 DEF Holdings
    <3> QED BY <1>7, <3>1, <3>2
  <2>3. Hand(p)'
    BY <2>1, <2>2 DEF Hand, Making, MakingOne, rows
  <2>4. RowsInv'
    BY <2>1, RowsStay DEF CommittedAt
  <2> QED BY <2>1, <2>3, <2>4, OneActs DEF AccountInv
<1>8. CASE RecordHandle(p)
  <2> DEFINE at == run[p].at
  <2>1. /\ run[p].pc = "handle" /\ at \in Of(run[p].bat) /\ at \in Containers
        /\ UNCHANGED <<chain, slots, spools, used, owner>>
    BY <1>8 DEF RecordHandle, storage, Hand, MakingOne, Of
  <2>2. /\ row'[at].state = "uploaded" /\ row'[at].tried = FALSE
        /\ \A d \in Containers \ {at} : row'[d] = row[d]
    BY <1>8, <2>1 DEF RecordHandle, AccountInv, TypeInv, TypeOK
  <2>3. /\ run' = [run EXCEPT ![p] = run'[p]] /\ run'[p].pc = "upload"
        /\ run'[p].bat = run[p].bat /\ run'[p].todo = run[p].todo \ {at}
    BY <1>8 DEF RecordHandle, Holdings
  <2>4. /\ run[p].todo \subseteq Of(run[p].bat)
        /\ \A d \in Of(run[p].bat) : ~row[d].tried
    BY <2>1 DEF Hand, Making
  <2>5. RowsAgree'
    <3>1. \A d \in Containers : BatchOf[d] = BatchOf[at] => ~row[d].tried
      BY <2>1, <2>4, DataAssumption DEF Of
    <3>2. at \in used' /\ used' = used
      BY <2>1 DEF Hand
    <3> QED BY <2>2, <2>1, <3>1, <3>2, OneRowAgrees
  <2>6. MarkedWithSlots'
    BY <2>1, <2>2, <2>4 DEF AccountInv, RowsInv, MarkedWithSlots, Of
  <2>7. SpoolsNamed'
    BY <2>1, <2>2 DEF AccountInv, TypeInv, TypeOK, RowsInv, SpoolsNamed, CommittedAt
  <2>8. Hand(p)'
    BY <2>1, <2>2, <2>3, <2>4 DEF Hand, Making, MakingOne, Of
  <2> QED BY <2>1, <2>3, <2>5, <2>6, <2>7, <2>8, OneActs DEF AccountInv, RowsInv
<1>9. CASE AllUploaded(p)
  <2>1. /\ run[p].pc = "upload" /\ run' = [run EXCEPT ![p] = run'[p]]
        /\ run'[p].pc = "list" /\ UNCHANGED <<chain, rows, owner>>
    BY <1>9 DEF AllUploaded, storage, Holdings
  <2>2. "list" \in Plain
    BY DEF Plain, Calls, Making
  <2> QED BY <2>1, <2>2, PlainAccount
<1> QED BY <1>1, <1>2, <1>3, <1>4, <1>5, <1>6, <1>7, <1>8, <1>9 DEF Producing

LEMMA CommittingAccount ==
  ASSUME AccountInv, TypeInv', NEW p \in Procs, Committing(p)
  PROVE  AccountInv'
<1> USE AtWork
<1>1. CASE Aim(p)
  <2>1. run[p].pc = "aim" /\ UNCHANGED rows
    BY <1>1 DEF Aim
  <2>2. CASE Over(p)
    BY <2>1, <2>2, OverAccount
  <2>3. CASE Retry(p, run[p].tries + 1)
    <3>1. run[p].tries + 1 \in Nat
      BY DataAssumption DEF Holdings
    <3> QED BY <2>1, <2>3, <3>1, RetryAccount
  <2>4. CASE /\ run' = [run EXCEPT ![p].slot = idx + 1, ![p].tries = @ + 1,
                                   ![p].pc = "attempt"]
             /\ UNCHANGED <<storage, owner>>
    <3>1. run'[p] = [run[p] EXCEPT !.slot = idx + 1, !.tries = run[p].tries + 1,
                                   !.pc = "attempt"]
      BY <2>4
    <3>2. run' = [run EXCEPT ![p] = run'[p]] /\ run'[p].pc = "attempt"
      BY <2>4, <3>1 DEF Holdings
    <3>3. "attempt" \in Plain
      BY DEF Plain, Calls, Making
    <3> QED BY <2>1, <2>4, <3>2, <3>3, PlainAccount DEF storage
  <2> QED BY <1>1, <2>2, <2>3, <2>4 DEF Aim
<1>2. CASE MarkAttempt(p)
  <2> DEFINE b == run[p].bat
  <2>1. /\ run[p].pc = "attempt" /\ Marked(p) /\ b \in Batches
        /\ UNCHANGED <<chain, spools, used, owner>>
    BY <1>2 DEF MarkAttempt, storage, AccountInv, TypeInv, Ready
  <2>2. run' = [run EXCEPT ![p] = run'[p]] /\ run'[p].pc = "send"
    BY <1>2 DEF MarkAttempt, Holdings
  <2>3. /\ \A c \in Containers : row'[c].state = row[c].state
        /\ \A c \in Of(b) : row[c].state # "none" => row'[c].tried = TRUE
        /\ \A c \in Of(b) : row[c].state = "none" => row'[c] = row[c]
        /\ \A c \in Containers \ Of(b) : row'[c] = row[c]
    BY <2>1 DEF Marked, AccountInv, TypeInv, TypeOK, Rows, Of
  <2>4. RowsAgree'
    <3>1. \A c \in Containers \ used : row'[c] = NoRow /\ NoRow' = NoRow
      <4>1. NoRow.state = "none" /\ NoRow' = NoRow
        BY DEF NoRow, NoObject
      <4>2. \A c \in Containers \ used : row[c] = NoRow
        BY DEF AccountInv, RowsInv, RowsAgree
      <4>3. \A c \in Containers : row[c].state = "none" => row'[c] = row[c]
        BY <2>3
      <4> QED BY <4>1, <4>2, <4>3
    <3>2. \A c \in Containers : row'[c].tried => row'[c].state # "none"
      BY <2>3 DEF AccountInv, RowsInv, RowsAgree, Of
    <3>3. ASSUME NEW c \in Containers, NEW d \in Containers, BatchOf[c] = BatchOf[d],
                 row'[c].state # "none", row'[d].state # "none"
          PROVE  row'[c].tried = row'[d].tried
      <4>1. row[c].state # "none" /\ row[d].state # "none"
        BY <2>3, <3>3
      <4>2. CASE c \in Of(b)
        <5>1. d \in Of(b)
          BY <3>3, <4>2 DEF Of
        <5> QED BY <2>3, <4>1, <4>2, <5>1
      <4>3. CASE c \notin Of(b)
        <5>1. d \notin Of(b)
          BY <3>3, <4>3 DEF Of
        <5>2. row'[c] = row[c] /\ row'[d] = row[d]
          BY <2>3, <4>3, <5>1
        <5> QED BY <3>3, <4>1, <5>2 DEF AccountInv, RowsInv, RowsAgree
      <4> QED BY <4>2, <4>3
    <3> QED BY <2>1, <3>1, <3>2, <3>3 DEF RowsAgree
  <2>5. MarkedWithSlots'
    <3>1. /\ \A x \in Batches \ {b} : slots'[x] = slots[x]
          /\ (\E c \in Of(b) : row[c].state # "none") => slots'[b] # {}
          /\ (\A c \in Of(b) : row[c].state = "none") => slots'[b] = slots[b]
      BY <2>1 DEF Marked, AccountInv, TypeInv, TypeOK, Of
    <3>2. ASSUME NEW c \in Containers, row'[c].tried PROVE slots'[BatchOf[c]] # {}
      <4>1. CASE c \in Of(b)
        <5>1. row[c].state # "none"
          BY <2>3, <3>2, <4>1 DEF AccountInv, RowsInv, RowsAgree
        <5> QED BY <3>1, <4>1, <5>1 DEF Of
      <4>2. CASE c \notin Of(b)
        BY <2>3, <3>1, <3>2, <4>2, DataAssumption
        DEF AccountInv, RowsInv, MarkedWithSlots, Of
      <4> QED BY <4>1, <4>2
    <3>3. ASSUME NEW x \in Batches, slots'[x] # {} PROVE \E c \in Of(x) : row'[c].tried
      <4>1. CASE x = b
        <5>1. CASE \E c \in Of(b) : row[c].state # "none"
          BY <2>3, <4>1, <5>1
        <5>2. CASE \A c \in Of(b) : row[c].state = "none"
          BY <3>1, <3>3, <4>1, <5>2
          DEF AccountInv, RowsInv, RowsAgree, MarkedWithSlots, Of
        <5> QED BY <5>1, <5>2
      <4>2. CASE x # b
        BY <2>3, <3>1, <3>3, <4>2 DEF AccountInv, RowsInv, MarkedWithSlots, Of
      <4> QED BY <4>1, <4>2
    <3> QED BY <3>2, <3>3 DEF MarkedWithSlots, Of
  <2>6. SpoolsNamed'
    BY <2>1, <2>3 DEF AccountInv, TypeInv, TypeOK, RowsInv, SpoolsNamed, CommittedAt
  <2>7. Hand(p)'
    BY <2>1, <2>2 DEF Hand, Making, MakingOne
  <2> QED BY <2>1, <2>2, <2>4, <2>5, <2>6, <2>7, OneActs DEF AccountInv, RowsInv
<1>3. CASE Send(p) \/ Created(p) \/ Refused(p) \/ ReadBackOwn(p)
  <2>1. PICK l \in {"await", "refresh", "readback"} :
          /\ run[p].pc # "idle" /\ run' = [run EXCEPT ![p].pc = l]
          /\ UNCHANGED <<chain, rows, owner>>
    BY <1>3 DEF Send, Created, Refused, ReadBackOwn, storage
  <2>2. run' = [run EXCEPT ![p] = run'[p]] /\ run'[p].pc = l
    BY <2>1 DEF Holdings
  <2>3. l \in Plain
    BY DEF Plain, Calls, Making
  <2> QED BY <2>1, <2>2, <2>3, PlainAccount
<1>4. CASE ReadBackOther(p)
  <2>1. run[p].tries \in Nat
    BY DataAssumption DEF Holdings
  <2> QED BY <1>4, <2>1, RetryAccount DEF ReadBackOther
<1>5. CASE Refresh(p)
  <2> DEFINE S == Of(run[p].bat)
  <2>1. /\ run[p].pc = "refresh" /\ Clear(S) /\ S \in SUBSET Containers
        /\ UNCHANGED <<chain, spools, used, owner>>
        /\ run' = [run EXCEPT ![p].todo = S, ![p].pc = "discard"]
    BY <1>5 DEF Refresh, storage, Of
  <2>2. \A c \in S : CommittedAt(c) # {}
    BY <2>1 DEF AccountInv, TypeInv, Ready, CommittedAt, Of
  <2>3. RowsAgree' /\ MarkedWithSlots'
    BY <2>1, ClearAgrees
  <2>4. SpoolsNamed'
    BY <2>1, <2>2 DEF Clear, AccountInv, TypeInv, TypeOK, RowsInv, SpoolsNamed, CommittedAt
  <2> HIDE DEF S
  <2>5. run'[p] = [run[p] EXCEPT !.todo = S, !.pc = "discard"]
    BY <2>1
  <2>6. run' = [run EXCEPT ![p] = run'[p]] /\ run'[p].pc = "discard"
    BY <2>1, <2>5 DEF Holdings
  <2>7. Hand(p)'
    BY <2>1, <2>6 DEF Hand, Making, MakingOne
  <2> QED BY <2>1, <2>3, <2>4, <2>6, <2>7, OneActs DEF AccountInv, RowsInv
<1>6. CASE DiscardSpool(p)
  <2>1. PICK c \in run[p].todo :
          /\ spools' \subseteq spools
          /\ run' = [run EXCEPT ![p].todo = @ \ {c}]
    BY <1>6 DEF DiscardSpool
  <2>2. run[p].pc = "discard" /\ UNCHANGED <<chain, row, slots, used, owner>>
    BY <1>6 DEF DiscardSpool, storage
  <2>3. run' = [run EXCEPT ![p] = run'[p]] /\ run'[p].pc = "discard"
    BY <2>1, <2>2 DEF Holdings
  <2>4. RowsAgree' /\ MarkedWithSlots'
    BY <2>2 DEF AccountInv, RowsInv, RowsAgree, MarkedWithSlots, NoRow, NoObject, Of
  <2>5. SpoolsNamed'
    BY <2>1, <2>2 DEF AccountInv, RowsInv, SpoolsNamed, CommittedAt
  <2>6. Hand(p)'
    BY <2>2, <2>3 DEF Hand, Making, MakingOne
  <2> QED BY <2>2, <2>3, <2>4, <2>5, <2>6, OneActs DEF AccountInv, RowsInv
<1>7. CASE Committed(p)
  BY <1>7, OverAccount DEF Committed
<1> QED BY <1>1, <1>2, <1>3, <1>4, <1>5, <1>6, <1>7 DEF Committing

LEMMA NextAccount == ASSUME AccountInv, [Next]_vars PROVE AccountInv'
<1>1. TypeInv'
  BY NextTypeInv DEF AccountInv
\* What Storage and the other devices do leaves rows and processes alone.
<1>2. ASSUME UNCHANGED <<rows, owner, run>>,
             \A c \in Containers : CommittedAt(c) # {} => CommittedAt(c)' # {}
      PROVE  AccountInv'
  <2>1. RowsInv'
    BY <1>2, RowsStay
  <2>2. \A p \in Procs : Hand(p)'
    BY <1>2 DEF AccountInv, Hand, rows, Of, Making, MakingOne
  <2> QED BY <1>1, <2>1, <2>2 DEF AccountInv
<1>3. CASE UNCHANGED vars
  BY <1>2, <1>3 DEF vars, storage, CommittedAt
<1>4. ASSUME NEW r, chain' = Append(chain, r), UNCHANGED <<rows, owner, run>>
      PROVE  AccountInv'
  <2>1. /\ Len(chain') = Len(chain) + 1 /\ Len(chain) \in Nat
        /\ \A g \in 1 .. Len(chain) : chain'[g] = chain[g]
    BY <1>4 DEF AccountInv, TypeInv, TypeOK
  <2>2. \A c \in Containers : CommittedAt(c) # {} => CommittedAt(c)' # {}
    BY <2>1 DEF CommittedAt
  <2> QED BY <1>2, <1>4, <2>2
<1>5. ASSUME NEW r \in sent, Land(r) PROVE AccountInv'
  BY <1>4, <1>5 DEF Land
<1>6. ASSUME NEW gone \in SUBSET Containers, RivalCommit(gone) PROVE AccountInv'
  BY <1>4, <1>6 DEF RivalCommit
<1>7. ASSUME NEW o \in putting, LandPut(o) PROVE AccountInv'
  BY <1>2, <1>7 DEF LandPut, CommittedAt
<1>8. ASSUME NEW g \in live, RivalPrune(g) PROVE AccountInv'
  BY <1>2, <1>8 DEF RivalPrune, CommittedAt
<1>9. CASE Replay
  BY <1>2, <1>9 DEF Replay, storage, CommittedAt
<1>10. ASSUME NEW p \in Procs, NEW flow \in {"sync", "completion"}, Open(p, flow)
       PROVE  AccountInv'
  <2>1. PICK l \in {"list", "rows"} : run' = [run EXCEPT ![p].flow = flow, ![p].pc = l]
    BY <1>10 DEF Open
  <2>2. owner = NoProc /\ owner' = p /\ UNCHANGED <<chain, rows>>
    BY <1>10 DEF Open, Free, storage
  <2>3. run' = [run EXCEPT ![p] = run'[p]] /\ run'[p].pc = l
    BY <2>1, AtWork DEF Holdings
  <2>4. l \in Plain
    BY DEF Plain, Calls, Making
  <2> QED BY <1>1, <2>2, <2>3, <2>4, PlainAccount
<1>11. ASSUME NEW p \in Procs, Kill(p) PROVE AccountInv'
  BY <1>1, <1>11, OverAccount DEF Kill
<1> QED
  BY <1>1, <1>3, <1>5, <1>6, <1>7, <1>8, <1>9, <1>10, <1>11, SettlingAccount,
     ProducingAccount, CommittingAccount
  DEF Next, Step

\* However runs are killed and rows settled one at a time, a row is marked
\* exactly while its batch has slots on record, so every row left can still be
\* judged (clear_pending_row, mark_commit_attempted).
THEOREM RowsGoWithSlots == Spec => []MarkedWithSlots
<1>1. Init => AccountInv
  BY InitAccount
<1>2. AccountInv /\ [Next]_vars => AccountInv'
  BY NextAccount
<1>3. AccountInv => MarkedWithSlots
  BY DEF AccountInv, RowsInv
<1> QED BY <1>1, <1>2, <1>3, PTL DEF Spec

\* Wherever a run is interrupted, every spool file is named by a row or its
\* Container is committed (sync/spool.rs, settle/dispose.rs).
THEOREM NoSpoolForgotten == Spec => []SpoolsNamed
<1>1. Init => AccountInv
  BY InitAccount
<1>2. AccountInv /\ [Next]_vars => AccountInv'
  BY NextAccount
<1>3. AccountInv => SpoolsNamed
  BY DEF AccountInv, RowsInv
<1> QED BY <1>1, <1>2, <1>3, PTL DEF Spec
=============================================================================
