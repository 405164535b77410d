------------------------- MODULE SettlementProperties -------------------------
(***************************************************************************)
(* What pending rows and their settlement are for, stated over the steps   *)
(* of PendingSettlement: nothing committed is ever disposed of, and        *)
(* nothing a run leaves behind is forgotten.                               *)
(***************************************************************************)
EXTENDS PendingSettlement

\* Where a process may be between two calls.
Calls ==
  {"idle", "list", "catchup", "rows", "settle", "trash", "clear", "scan",
   "spool", "write", "whole", "upload", "putting", "handle", "aim", "attempt",
   "send", "await", "readback", "refresh", "discard"}

\* What a process may hold between two calls.
Holdings ==
  [pc : Calls, flow : {"none", "sync", "completion"}, recs : SUBSET Nat,
   objs : SUBSET Objects, seen : SUBSET Containers,
   proof : SUBSET (Batches \X Nat), todo : SUBSET Containers,
   at : Containers \cup {NoContainer}, bat : Batches \cup {NoBatch},
   obj : Objects \cup {NoObject}, got : SUBSET Objects, slot : Nat,
   tries : 0 .. Attempts]

\* Every variable keeps its shape, and the Index stands at a record.
TypeOK ==
  /\ chain \in Seq([batch : Batches \cup {NoBatch}, rm : SUBSET Containers,
                    refs : SUBSET Objects])
  /\ live \subseteq 1 .. Len(chain) /\ idx \in 0 .. Len(chain)
  /\ sent \subseteq [gen : Nat, batch : Batches, refs : SUBSET Objects]
  /\ putting \cup stored \subseteq Objects
  /\ row \in [Containers -> Rows]
  /\ slots \in [Batches -> SUBSET Nat]
  /\ spools \cup used \subseteq Containers
  /\ owner \in Procs \cup {NoProc} /\ kills \in 0 .. setup.kills
  /\ run \in [Procs -> Holdings]

-----------------------------------------------------------------------------
(* What is committed *)

CommittedAt(c) == {g \in 1 .. Len(chain) : chain[g].batch = BatchOf[c]}

\* Every object a record of this device names is on Storage: no settlement,
\* completion or later run disposes of a Container whose create landed, or of
\* one whose create lands afterwards (settle/mod.rs, OC-2, OC-3).
CommittedKept ==
  \A g \in 1 .. Len(chain) : chain[g].batch # NoBatch =>
    /\ chain[g].refs \subseteq stored
    /\ \A c \in Of(chain[g].batch) : ObjectsOf(c, chain[g].refs) # {}

\* While a create may still land, every Container of its batch keeps its spool
\* and its row, the row says a commit was attempted, and the batch has the
\* slot on record (pending_provenance.rs, OC-2).
UncertainKept ==
  \A r \in sent : r.gen = Len(chain) + 1 =>
    /\ r.gen \in slots[r.batch]
    /\ \A c \in Of(r.batch) : row[c].tried /\ c \in spools

\* A row is marked exactly while its batch has slots on record: whichever rows
\* of a batch were settled first, those left can still be judged
\* (clear_pending_row, OC-2).
MarkedWithSlots ==
  /\ \A c \in Containers : row[c].tried => slots[BatchOf[c]] # {}
  /\ \A b \in Batches : slots[b] # {} => \E c \in Of(b) : row[c].tried

-----------------------------------------------------------------------------
(* What is left behind *)

\* Every spool file is named by a row, unless its Container is committed: an
\* interruption leaves no ciphertext nobody accounts for (sync/spool.rs, OC-2).
SpoolsNamed ==
  \A c \in spools : row[c].state # "none" \/ CommittedAt(c) # {}

\* Whether a settlement could tell what became of a row.
Decided(c) ==
  \/ ~row[c].tried
  \/ slots[BatchOf[c]] \subseteq live

\* A row whose outcome can be told does not stay: some later sync completes or
\* disposes of it, and the ciphertext it kept goes (settle/mod.rs, OC-2, OC-3).
RowsSettle ==
  \A c \in Containers : []<>(row[c].state = "none" \/ ~Decided(c))

\* It does where every put makes an object of its own, whose trash may be asked
\* for again once it is gone (dispose.rs, OC-2).
RowsSettleMinted == setup.minting => RowsSettle

-----------------------------------------------------------------------------
(* The Containers as the Library and the person see them *)

FateOf ==
  [c \in Containers |->
     IF CommittedAt(c) # {} THEN "committed"
     ELSE IF row[c].state # "none" THEN "pending"
     ELSE IF c \in used THEN "reclaimed" ELSE "none"]

\* A row goes only once nothing of its Container can be on Storage: one that
\* was disposed of leaves no object behind, then or later, where no put reaches
\* Storage after its run (dispose.rs, OC-2).
ReclaimedGone ==
  ~setup.latePuts =>
    \A c \in Containers : FateOf[c] = "reclaimed" => ObjectsOf(c, stored) = {}

Fate == INSTANCE ContainerFate WITH fate <- FateOf

\* Every step of every process takes a Container from pending to committed,
\* with its whole batch, or to reclaimed, and never back or across.
ImplementsFate == Fate!Spec
=============================================================================
