-------------------------- MODULE PendingSettlement --------------------------
(***************************************************************************)
(* How a device accounts for the Containers it is about to commit: a       *)
(* pending row for each, its spool file, its object on Storage, the commit *)
(* slots its batch attempted, and the settlement that judges what an       *)
(* interrupted run left behind.                                            *)
(*                                                                         *)
(* The commit itself is CommitProtocol's.  Here the Journal is the one     *)
(* chain that module establishes: a head has one successor, so the slot a  *)
(* create aims at is a generation, free until a record stands there, and   *)
(* the Index shows a prefix of the chain that only grows.                  *)
(*                                                                         *)
(* Every producer has the same life here: a sync settles, spools a batch,  *)
(* uploads it and commits it.  Local files and Entries are not here.       *)
(***************************************************************************)
EXTENDS Integers, Sequences, FiniteSets

CONSTANTS
  Procs,        \* the processes of the device
  NoProc,       \* nobody
  Containers,   \* the Container IDs they may draw
  NoContainer,  \* no Container
  Batches,      \* the batches they may make
  NoBatch,      \* no batch: a record of another device
  BatchOf,      \* the batch a Container belongs to
  Rivals,       \* how many batches other devices commit (bound)
  Attempts,     \* CommitPolicy::attempts
  Setups        \* the settings of the instance; one is in force

\* A batch that adds no Container has no rows to settle, and is none of these.
ASSUME DataAssumption ==
  /\ BatchOf \in [Containers -> Batches]
  /\ \A b \in Batches : \E c \in Containers : BatchOf[c] = b
  /\ NoBatch \notin Batches /\ NoProc \notin Procs
  /\ NoContainer \notin Containers
  /\ Rivals \in Nat /\ Attempts \in Nat \ {0}

\* procs: the processes at work.  minting: every put makes an object of its
\* own; otherwise one per name.  unreliable: answers are lost, reads and
\* removals fail.  latePuts: a put may reach Storage after the run that sent it
\* ended.  pruning: another device prunes the Journal.  rivalsRemove: other
\* devices' batches may remove a Container of this one.  puts: how often one put
\* is sent; kills: how often a run is killed, or ends on an error (bounds).
ASSUME SetupAssumption ==
  /\ Setups \subseteq [procs : SUBSET Procs, minting : BOOLEAN, unreliable : BOOLEAN,
                       latePuts : BOOLEAN, pruning : BOOLEAN, rivalsRemove : BOOLEAN,
                       puts : Nat \ {0}, kills : Nat]
  \* Where prune frees a slot again the chain is not one (CommitProofs).
  /\ \A s \in Setups : s.minting \/ ~s.pruning

VARIABLES
  setup,    \* the setting, chosen once
  chain,    \* the Journal records after head-0, by generation
  live,     \* the generations whose record Storage lists
  sent,     \* the conditional creates on their way
  putting,  \* the Container puts on their way
  stored,   \* the Container objects on Storage, trashed ones left out
  idx,      \* the generation the device's Index stands at
  row,      \* the pending row of each Container
  slots,    \* the commit slots each batch with pending rows attempted
  spools,   \* the Containers with a spool file
  used,     \* the Container IDs drawn so far
  owner,    \* who owns the pending rows
  kills,    \* the runs killed so far
  run       \* what each process holds in memory

storage == <<setup, chain, live, sent, putting, stored>>
rows == <<row, slots, spools, used>>
vars == <<storage, idx, rows, owner, kills, run>>

-----------------------------------------------------------------------------
(* Values *)

Of(b) == {c \in Containers : BatchOf[c] = b}

\* The n-th object put for a Container, and the one it becomes on Storage.
Objects == Containers \X (1 .. setup.puts)
NoObject == <<NoContainer, 0>>
StoredAs(o) == IF setup.minting THEN o ELSE <<o[1], 1>>
ObjectsOf(c, S) == {o \in S : o[1] = c}

Rows == [state : {"none", "spooling", "spooled", "uploaded"},
         obj : Objects \cup {NoObject}, tried : BOOLEAN]
NoRow == [state |-> "none", obj |-> NoObject, tried |-> FALSE]

NoRun == [pc |-> "idle", flow |-> "none", recs |-> {}, objs |-> {}, seen |-> {},
          proof |-> {}, todo |-> {}, at |-> NoContainer, bat |-> NoBatch,
          obj |-> NoObject, got |-> {}, slot |-> 0, tries |-> 0]

Largest(S) == CHOOSE n \in S : \A m \in S : m <= n

\* The Containers of this device current after the first n records.
Current(n) ==
  {c \in Containers : \E g \in 1 .. n :
     chain[g].batch = BatchOf[c] /\ \A h \in g + 1 .. n : c \notin chain[h].rm}

\* The head a listing shows, 0 for head-0.
ListedHead(p) == Largest({0} \cup run[p].recs)

-----------------------------------------------------------------------------
(* Storage and the other devices *)

\* A create reaches Storage while the slot it consumes is free.
Land(r) ==
  /\ r \in sent /\ r.gen = Len(chain) + 1
  /\ chain' = Append(chain, [batch |-> r.batch, rm |-> {}, refs |-> r.refs])
  /\ live' = live \cup {r.gen}
  /\ UNCHANGED <<setup, sent, putting, stored, idx, rows, owner, kills, run>>

LandPut(o) ==
  /\ o \in putting
  /\ putting' = putting \ {o}
  /\ stored' = stored \cup {StoredAs(o)}
  /\ UNCHANGED <<setup, chain, live, sent, idx, rows, owner, kills, run>>

RivalCommit(gone) ==
  /\ Cardinality({g \in 1 .. Len(chain) : chain[g].batch = NoBatch}) < Rivals
  /\ gone \subseteq IF setup.rivalsRemove THEN Current(Len(chain)) ELSE {}
  /\ Cardinality(gone) <= 1
  /\ chain' = Append(chain, [batch |-> NoBatch, rm |-> gone, refs |-> {}])
  /\ live' = live \cup {Len(chain) + 1}
  /\ UNCHANGED <<setup, sent, putting, stored, idx, rows, owner, kills, run>>

RivalPrune(g) ==
  /\ setup.pruning
  /\ g \in live /\ g < Len(chain)
  /\ live' = live \ {g}
  /\ UNCHANGED <<setup, chain, sent, putting, stored, idx, rows, owner, kills, run>>

\* A catch-up of any process of the device takes their Index further.
Replay ==
  /\ \E n \in idx + 1 .. Len(chain) : idx' = n
  /\ UNCHANGED <<storage, rows, owner, kills, run>>

-----------------------------------------------------------------------------
(* Beginning and ending a run *)

\* A bug: the rows are read without owning them.
Unguarded(p) == TRUE

\* own_pending_rows: refused while another run owns them.
Free(p) == owner = NoProc

\* A sync takes the rows before it catches up; the completion that follows a
\* catch-up takes them where nobody has them.
Open(p, flow) ==
  /\ p \in setup.procs /\ run[p].pc = "idle" /\ Free(p)
  /\ owner' = p
  /\ run' = [run EXCEPT ![p].flow = flow,
                        ![p].pc = IF flow = "sync" THEN "list" ELSE "rows"]
  /\ UNCHANGED <<storage, idx, rows, kills>>

\* The run is over and the guard dropped; its puts end with it, unless one may
\* reach Storage late.
Over(p) ==
  /\ run' = [run EXCEPT ![p] = NoRun]
  /\ owner' = IF owner = p THEN NoProc ELSE owner
  /\ putting' = IF setup.latePuts THEN putting ELSE {}
  /\ UNCHANGED <<setup, chain, live, sent, stored>>

Kill(p) ==
  /\ run[p].pc # "idle"
  /\ kills < setup.kills /\ kills' = kills + 1
  /\ Over(p)
  /\ UNCHANGED <<idx, rows>>

\* A bug: a batch's slots go with the first of its rows.
ClearEagerly(S) ==
  /\ row' = [c \in Containers |-> IF c \in S THEN NoRow ELSE row[c]]
  /\ slots' = [b \in Batches |-> IF Of(b) \cap S # {} THEN {} ELSE slots[b]]

\* Takes the rows of S away, and the slots of a batch with its last row.
Clear(S) ==
  /\ row' = [c \in Containers |-> IF c \in S THEN NoRow ELSE row[c]]
  /\ slots' = [b \in Batches |->
                 IF \E c \in Of(b) \ S : row[c].state # "none" THEN slots[b] ELSE {}]

-----------------------------------------------------------------------------
(* Catching up, for a settlement and for each attempt of a commit *)

List(p) ==
  /\ run[p].pc = "list"
  /\ run' = [run EXCEPT ![p].recs = live, ![p].objs = stored, ![p].pc = "catchup"]
  /\ UNCHANGED <<storage, idx, rows, owner, kills>>

CatchUp(p) ==
  /\ run[p].pc = "catchup"
  /\ idx' = Largest({idx, ListedHead(p)})
  /\ run' = [run EXCEPT ![p].pc = IF run[p].bat = NoBatch THEN "rows" ELSE "aim"]
  /\ UNCHANGED <<storage, rows, owner, kills>>

-----------------------------------------------------------------------------
(* settle, and complete_after_catch_up *)

\* The slots a batch attempted that the listing vouches for.
Held(p) == {s \in Batches \X run[p].recs : s[2] \in slots[s[1]]}

\* The rows, the Containers current in the Index, and what the attempted slots
\* hold, once per batch; a slot whose record is gone, or whose read fails,
\* proves nothing.
ReadRows(p) ==
  /\ run[p].pc = "rows"
  /\ \E read \in SUBSET Held(p) :
       /\ setup.unreliable \/ {s \in Held(p) : s[2] \in live} \subseteq read
       /\ run' = [run EXCEPT ![p].todo = {c \in Containers : row[c].state # "none"},
                             ![p].seen = Current(idx), ![p].proof = read,
                             ![p].pc = "settle"]
  /\ UNCHANGED <<storage, idx, rows, owner, kills>>

Completes(p, c) == row[c].state \in {"spooled", "uploaded"} /\ c \in run[p].seen

\* The slots of the row's batch that read back, by what they hold.
Names(p, c) ==
  {g \in slots[BatchOf[c]] :
     <<BatchOf[c], g>> \in run[p].proof /\ chain[g].batch = BatchOf[c]}
Excludes(p, c) ==
  {g \in slots[BatchOf[c]] :
     <<BatchOf[c], g>> \in run[p].proof /\ chain[g].batch # BatchOf[c]}

\* Bugs the verdict could have: a slot that shows nothing is proof, nothing
\* ever is.
LostNever(p, c) == FALSE

\* judge: lost where every slot it attempted holds another's record.
Lost(p, c) ==
  /\ slots[BatchOf[c]] # {}
  /\ Excludes(p, c) = slots[BatchOf[c]]

\* Completion: the spool goes, then the row.
Complete(p) ==
  /\ run[p].pc = "settle"
  /\ \E c \in run[p].todo :
       /\ \/ Completes(p, c)
          \/ run[p].flow = "sync" /\ row[c].tried /\ Names(p, c) # {}
       /\ spools' = spools \ {c}
       /\ run' = [run EXCEPT ![p].at = c, ![p].pc = "clear"]
  /\ UNCHANGED <<storage, idx, row, slots, used, owner, kills>>

\* A bug: an attempted row is disposed of like any other.
DisposableUntried(p, c) == TRUE

Disposable(p, c) == row[c].tried => Lost(p, c)

\* Disposal: the spool goes, then the object, then the row.
Dispose(p) ==
  /\ run[p].pc = "settle" /\ run[p].flow = "sync"
  /\ \E c \in run[p].todo :
       /\ ~Completes(p, c) /\ Disposable(p, c)
       /\ spools' = spools \ {c}
       /\ run' = [run EXCEPT ![p].at = c, ![p].pc = "trash"]
  /\ UNCHANGED <<storage, idx, row, slots, used, owner, kills>>

\* The row stays: nothing is proven, or only completion runs here.
Retain(p) ==
  /\ run[p].pc = "settle"
  /\ \E c \in run[p].todo :
       /\ ~Completes(p, c)
       /\ run[p].flow = "sync" => row[c].tried /\ Names(p, c) = {} /\ ~Lost(p, c)
       /\ run' = [run EXCEPT ![p].todo = @ \ {c}]
  /\ UNCHANGED <<storage, idx, rows, owner, kills>>

\* A bug: a row without a handle is taken to have no object.
HandleOnly(p, c) == IF row[c].state = "uploaded" THEN {row[c].obj} ELSE {}

\* on_storage: the recorded handle, or the object the listing has under the
\* Container's name.
OnStorage(p, c) ==
  CASE row[c].state = "uploaded" -> {row[c].obj}
    [] row[c].state = "spooled"  -> ObjectsOf(c, run[p].objs)
    [] OTHER                     -> {}

\* Trashing what is gone succeeds where objects are identified, and is
\* NotFound where they are named.
Trashes(o) == setup.minting \/ o \in stored

Trash(p) ==
  /\ run[p].pc = "trash"
  /\ \/ OnStorage(p, run[p].at) = {} /\ UNCHANGED storage
     \/ \E o \in OnStorage(p, run[p].at) :
          /\ Trashes(o)
          /\ stored' = stored \ {o}
          /\ UNCHANGED <<setup, chain, live, sent, putting>>
  /\ run' = [run EXCEPT ![p].pc = "clear"]
  /\ UNCHANGED <<idx, rows, owner, kills>>

\* LeftInStorage: the row stays.  A trash whose answer is lost may have happened.
TrashFails(p) ==
  /\ run[p].pc = "trash"
  /\ \E o \in OnStorage(p, run[p].at) :
       /\ setup.unreliable \/ ~Trashes(o)
       /\ \/ UNCHANGED storage
          \/ /\ setup.unreliable
             /\ stored' = stored \ {o}
             /\ UNCHANGED <<setup, chain, live, sent, putting>>
  /\ run' = [run EXCEPT ![p].todo = @ \ {run[p].at}, ![p].pc = "settle"]
  /\ UNCHANGED <<idx, rows, owner, kills>>

ClearRow(p) ==
  /\ run[p].pc = "clear"
  /\ Clear({run[p].at})
  /\ run' = [run EXCEPT ![p].todo = @ \ {run[p].at}, ![p].pc = "settle"]
  /\ UNCHANGED <<storage, idx, spools, used, owner, kills>>

Settled(p) ==
  /\ run[p].pc = "settle" /\ run[p].todo = {}
  /\ IF run[p].flow = "sync"
     THEN /\ run' = [run EXCEPT ![p] = [NoRun EXCEPT !.flow = "sync", !.pc = "scan"]]
          /\ UNCHANGED <<storage, owner>>
     ELSE Over(p)
  /\ UNCHANGED <<idx, rows, kills>>

-----------------------------------------------------------------------------
(* Spooling and uploading a batch *)

Scan(p) ==
  /\ run[p].pc = "scan"
  /\ \/ \E b \in Batches :
          /\ Of(b) \cap used = {}
          /\ run' = [run EXCEPT ![p].bat = b, ![p].todo = Of(b), ![p].pc = "spool"]
          /\ UNCHANGED <<storage, owner>>
     \/ Over(p)
  /\ UNCHANGED <<idx, rows, kills>>

\* A bug: the spool file is written with no row to name it.
AnnounceSilently(p) ==
  /\ run[p].pc = "spool"
  /\ \E c \in run[p].todo :
       /\ used' = used \cup {c}
       /\ run' = [run EXCEPT ![p].at = c, ![p].pc = "write"]
  /\ UNCHANGED <<storage, idx, row, slots, spools, owner, kills>>

\* The row is written before the spool file it names.
Announce(p) ==
  /\ run[p].pc = "spool"
  /\ \E c \in run[p].todo :
       /\ used' = used \cup {c}
       /\ row' = [row EXCEPT ![c] = [NoRow EXCEPT !.state = "spooling"]]
       /\ run' = [run EXCEPT ![p].at = c, ![p].pc = "write"]
  /\ UNCHANGED <<storage, idx, slots, spools, owner, kills>>

WriteSpool(p) ==
  /\ run[p].pc = "write"
  /\ spools' = spools \cup {run[p].at}
  /\ run' = [run EXCEPT ![p].pc = "whole"]
  /\ UNCHANGED <<storage, idx, row, slots, used, owner, kills>>

MarkSpooled(p) ==
  /\ run[p].pc = "whole"
  /\ row' = [row EXCEPT ![run[p].at].state = IF @ = "spooling" THEN "spooled" ELSE @]
  /\ run' = [run EXCEPT ![p].todo = @ \ {run[p].at}, ![p].pc = "spool"]
  /\ UNCHANGED <<storage, idx, slots, spools, used, owner, kills>>

AllSpooled(p) ==
  /\ run[p].pc = "spool" /\ run[p].todo = {}
  /\ run' = [run EXCEPT ![p].todo = Of(run[p].bat), ![p].pc = "upload"]
  /\ UNCHANGED <<storage, idx, rows, owner, kills>>

\* put sends the spool; one whose answer does not come is sent again.
Put(p) ==
  /\ run[p].pc = "upload"
  /\ \E c \in run[p].todo :
       /\ putting' = putting \cup {<<c, 1>>}
       /\ run' = [run EXCEPT ![p].at = c, ![p].obj = <<c, 1>>, ![p].pc = "putting"]
  /\ UNCHANGED <<setup, chain, live, sent, stored, idx, rows, owner, kills>>

PutAgain(p) ==
  /\ run[p].pc = "putting" /\ setup.unreliable
  /\ run[p].obj[2] < setup.puts
  /\ LET o == <<run[p].at, run[p].obj[2] + 1>> IN
       /\ putting' = putting \cup {o}
       /\ run' = [run EXCEPT ![p].obj = o]
  /\ UNCHANGED <<setup, chain, live, sent, stored, idx, rows, owner, kills>>

PutAnswered(p) ==
  /\ run[p].pc = "putting"
  /\ run[p].obj \notin putting /\ StoredAs(run[p].obj) \in stored
  /\ run' = [run EXCEPT ![p].obj = StoredAs(@), ![p].pc = "handle"]
  /\ UNCHANGED <<storage, idx, rows, owner, kills>>

RecordHandle(p) ==
  /\ run[p].pc = "handle"
  /\ row' = [row EXCEPT ![run[p].at] =
               [state |-> "uploaded", obj |-> run[p].obj, tried |-> FALSE]]
  /\ run' = [run EXCEPT ![p].got = @ \cup {run[p].obj},
                        ![p].todo = @ \ {run[p].at}, ![p].pc = "upload"]
  /\ UNCHANGED <<storage, idx, slots, spools, used, owner, kills>>

AllUploaded(p) ==
  /\ run[p].pc = "upload" /\ run[p].todo = {}
  /\ run' = [run EXCEPT ![p].pc = "list"]
  /\ UNCHANGED <<storage, idx, rows, owner, kills>>

-----------------------------------------------------------------------------
(* Committing it: commit_batch, as far as the rows can tell *)

\* A bug: attempts without a limit.
RetryForever(p, n) ==
  run' = [run EXCEPT ![p].tries = n, ![p].pc = "list"] /\ UNCHANGED <<storage, owner>>

\* The next attempt catches up afresh, within the limit.
Retry(p, n) ==
  \/ n < Attempts /\ run' = [run EXCEPT ![p].tries = n, ![p].pc = "list"]
                  /\ UNCHANGED <<storage, owner>>
  \/ n >= Attempts /\ Over(p)

\* The batch is refused where a Container of its own is current; the slot is
\* the one after the head the Index holds, if that is the head just read.
Aim(p) ==
  /\ run[p].pc = "aim"
  /\ \/ Of(run[p].bat) \cap Current(idx) # {} /\ Over(p)
     \/ /\ Of(run[p].bat) \cap Current(idx) = {}
        /\ IF idx = ListedHead(p)
           THEN /\ run' = [run EXCEPT ![p].slot = idx + 1, ![p].tries = @ + 1,
                                      ![p].pc = "attempt"]
                /\ UNCHANGED <<storage, owner>>
           ELSE Retry(p, run[p].tries + 1)
  /\ UNCHANGED <<idx, rows, kills>>

\* A bug: the create is sent with nothing on disk that says so.
Unmarked(p) == UNCHANGED <<row, slots>>

\* mark_commit_attempted: the rows of the batch and the slot, in one write.
Marked(p) ==
  LET S == {c \in Of(run[p].bat) : row[c].state # "none"} IN
    /\ row' = [c \in Containers |->
                 IF c \in S THEN [row[c] EXCEPT !.tried = TRUE] ELSE row[c]]
    /\ slots' = [slots EXCEPT ![run[p].bat] =
                   IF S = {} THEN @ ELSE @ \cup {run[p].slot}]

MarkAttempt(p) ==
  /\ run[p].pc = "attempt"
  /\ Marked(p)
  /\ run' = [run EXCEPT ![p].pc = "send"]
  /\ UNCHANGED <<storage, idx, spools, used, owner, kills>>

Send(p) ==
  /\ run[p].pc = "send"
  /\ sent' = sent \cup {[gen |-> run[p].slot, batch |-> run[p].bat, refs |-> run[p].got]}
  /\ run' = [run EXCEPT ![p].pc = "await"]
  /\ UNCHANGED <<setup, chain, live, putting, stored, idx, rows, owner, kills>>

Taken(p) == run[p].slot <= Len(chain)
Own(p) == Taken(p) /\ chain[run[p].slot].batch = run[p].bat

Created(p) ==
  /\ run[p].pc = "await" /\ Own(p)
  /\ run' = [run EXCEPT ![p].pc = "refresh"]
  /\ UNCHANGED <<storage, idx, rows, owner, kills>>

Refused(p) ==
  /\ run[p].pc = "await" /\ (Taken(p) \/ setup.unreliable)
  /\ run' = [run EXCEPT ![p].pc = "readback"]
  /\ UNCHANGED <<storage, idx, rows, owner, kills>>

ReadBackOwn(p) ==
  /\ run[p].pc = "readback" /\ Own(p) /\ run[p].slot \in live
  /\ run' = [run EXCEPT ![p].pc = "refresh"]
  /\ UNCHANGED <<storage, idx, rows, owner, kills>>

ReadBackOther(p) ==
  /\ run[p].pc = "readback"
  /\ setup.unreliable \/ ~(Own(p) /\ run[p].slot \in live)
  /\ Retry(p, run[p].tries)
  /\ UNCHANGED <<idx, rows, kills>>

\* refresh, or complete_applied: the record and the end of the batch's rows.
Refresh(p) ==
  /\ run[p].pc = "refresh"
  /\ idx' = Largest({idx, run[p].slot})
  /\ Clear(Of(run[p].bat))
  /\ run' = [run EXCEPT ![p].todo = Of(run[p].bat), ![p].pc = "discard"]
  /\ UNCHANGED <<storage, spools, used, owner, kills>>

\* The spools of a committed batch go, or are left to be found.
DiscardSpool(p) ==
  /\ run[p].pc = "discard"
  /\ \E c \in run[p].todo :
       /\ \/ spools' = spools \ {c}
          \/ setup.unreliable /\ UNCHANGED spools
       /\ run' = [run EXCEPT ![p].todo = @ \ {c}]
  /\ UNCHANGED <<storage, idx, row, slots, used, owner, kills>>

Committed(p) ==
  /\ run[p].pc = "discard" /\ run[p].todo = {}
  /\ Over(p)
  /\ UNCHANGED <<idx, rows, kills>>

-----------------------------------------------------------------------------
Init ==
  /\ setup \in Setups
  /\ chain = <<>> /\ live = {} /\ sent = {}
  /\ putting = {} /\ stored = {}
  /\ idx = 0
  /\ row = [c \in Containers |-> NoRow]
  /\ slots = [b \in Batches |-> {}]
  /\ spools = {} /\ used = {}
  /\ owner = NoProc /\ kills = 0
  /\ run = [p \in Procs |-> NoRun]

Settling(p) ==
  \/ List(p) \/ CatchUp(p) \/ ReadRows(p) \/ Complete(p) \/ Dispose(p)
  \/ Retain(p) \/ Trash(p) \/ TrashFails(p) \/ ClearRow(p) \/ Settled(p)

Producing(p) ==
  \/ Scan(p) \/ Announce(p) \/ WriteSpool(p) \/ MarkSpooled(p) \/ AllSpooled(p)
  \/ Put(p) \/ PutAgain(p) \/ PutAnswered(p) \/ RecordHandle(p) \/ AllUploaded(p)

Committing(p) ==
  \/ Aim(p) \/ MarkAttempt(p) \/ Send(p) \/ Created(p) \/ Refused(p)
  \/ ReadBackOwn(p) \/ ReadBackOther(p) \/ Refresh(p)
  \/ DiscardSpool(p) \/ Committed(p)

Step(p) == Settling(p) \/ Producing(p) \/ Committing(p)

Next ==
  \/ \E r \in sent : Land(r)
  \/ \E o \in putting : LandPut(o)
  \/ \E gone \in SUBSET Containers : RivalCommit(gone)
  \/ \E g \in live : RivalPrune(g)
  \/ Replay
  \/ \E p \in Procs :
       \/ \E flow \in {"sync", "completion"} : Open(p, flow)
       \/ Kill(p)
       \/ Step(p)

Spec == Init /\ [][Next]_vars

\* A running process goes on to its next call, Storage answers what it was
\* sent, and the device syncs again and again.
Fairness ==
  /\ \A p \in Procs : WF_vars(Step(p))
  /\ WF_vars(\E r \in sent : Land(r))
  /\ WF_vars(\E o \in putting : LandPut(o))
  /\ SF_vars(\E p \in Procs : Open(p, "sync"))

FairSpec == Spec /\ Fairness
=============================================================================
