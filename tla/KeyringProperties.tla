------------------------- MODULE KeyringProperties -------------------------
(***************************************************************************)
(* What the replicas of the Keyring, and the memory of them, promise.      *)
(***************************************************************************)
EXTENDS FetchMemory

KeyringTypeOK ==
  /\ chain \in Seq(Procs \cup {Genesis}) /\ Len(chain) \in 1 .. MaxHeads
  /\ live \subseteq 1 .. Newest /\ Newest \in live
  /\ bad \subseteq stored /\ gone \subseteq stored
  /\ \A c \in stored : c.set.gen <= Newest + 1
  /\ \A d \in Devices : idx[d] \in 1 .. Newest
  /\ \A p \in Procs :
       /\ verd[p] \in [Positions -> Verdicts] /\ tries[p] <= Attempts
       /\ waits[p] # p => pc[p] = "waiting"

Lost(p) == {<<com[p].gen, i>> : i \in {j \in Positions : verd[p][j] = "lost"}}

\* A run whose commitment is the one its listing shows reports a position as
\* lost only if it was lost while the run was under way, whatever others
\* repaired, committed or disposed of meanwhile (keyring/mod.rs read_position,
\* KL-15).  Where a put mints a name of its own, two repairs and two faults may
\* still make it report what another copy kept valid.
LossReal ==
  \A p \in Procs :
    Role(p) # "fetcher" /\ com[p].gen = lst[p].head => Lost(p) \subseteq struck[p]

\* A commit selects its candidate, and a prune removes, only after every
\* position of the committed set has been valid at some time since the run
\* listed Storage (examined.rs, completeness.rs, KL-11, CK-5).
Shown == {"create", "records", "replicas"}
GateHolds ==
  \A p \in Procs : pc[p] \in Shown =>
    \A i \in Positions : <<com[p].gen, i>> \notin through[p]

\* Whatever the runs write, repair and dispose of, the generation a standing
\* record selects loses a replica to Storage alone (prune/run.rs
\* superseded_below, replicate.rs, KL-2, KL-18).
SelectedSafe ==
  \A g \in live : \A i \in Positions : Valid(Sel(g), i) \/ <<Sel(g), i>> \in hit

\* A fetch reports a position as lost only if it has been lost since the
\* memory was last told to forget, or while the fetch was under way
\* (fetch_memory/key_table.rs, KL-15).
FindingsTrue ==
  \A p \in Procs : pc[p] = "told" => Lost(p) \subseteq struck[p]

\* The runs end, all of them: no fetch waits for ever on a read that was
\* dropped, no commit retries for ever (flights.rs, commit/run.rs).
Quiet == \A p \in Procs : pc[p] = "idle"
RunsComplete == ~Quiet ~> Quiet
=============================================================================
