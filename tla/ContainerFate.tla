---------------------------- MODULE ContainerFate ----------------------------
(***************************************************************************)
(* What becomes of the Containers a device makes, with rows, spools and    *)
(* commit slots out of sight: each is pending from before it exists, then  *)
(* committed, together with its whole batch, or reclaimed, and neither is  *)
(* ever undone.                                                            *)
(***************************************************************************)
CONSTANTS
  Containers,   \* the Containers
  Batches,      \* the batches they are committed in
  BatchOf       \* the batch of each

VARIABLES
  fate          \* what became of each: none, pending, committed, reclaimed

Of(b) == {c \in Containers : BatchOf[c] = b}

Announce(c) ==
  /\ fate[c] = "none"
  /\ fate' = [fate EXCEPT ![c] = "pending"]

\* A batch is committed whole, while none of it is reclaimed.
Commit(b) ==
  /\ \A c \in Of(b) : fate[c] = "pending"
  /\ fate' = [c \in Containers |-> IF c \in Of(b) THEN "committed" ELSE fate[c]]

Reclaim(c) ==
  /\ fate[c] = "pending"
  /\ fate' = [fate EXCEPT ![c] = "reclaimed"]

Init == fate = [c \in Containers |-> "none"]

Next ==
  \/ \E c \in Containers : Announce(c) \/ Reclaim(c)
  \/ \E b \in Batches : Commit(b)

Spec == Init /\ [][Next]_fate
=============================================================================
