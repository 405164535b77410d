---------------------------- MODULE MCSettlement ----------------------------
(***************************************************************************)
(* Instances of PendingSettlement for TLC: which Containers make a batch,  *)
(* and the settings.                                                       *)
(***************************************************************************)
EXTENDS SettlementProperties, TLC

CONSTANTS a, b, i, j, k, first, second

\* A batch of two Containers, and one of one.
TwoThenOne == i :> first @@ j :> first @@ k :> second

\* Two batches of one Container each.
OneEach == i :> first @@ j :> second

\* Two processes beside a rival that removes and prunes; one is killed.
Crashing ==
  [procs |-> {a, b}, minting |-> TRUE, unreliable |-> FALSE, latePuts |-> TRUE,
   pruning |-> TRUE, rivalsRemove |-> TRUE, puts |-> 1, kills |-> 1]
\* One process, killed twice.
KilledTwice == [Crashing EXCEPT !.procs = {a}, !.kills = 2]
\* A Storage that keys by name, and fails.
Named ==
  [procs |-> {a}, minting |-> FALSE, unreliable |-> TRUE, latePuts |-> FALSE,
   pruning |-> FALSE, rivalsRemove |-> FALSE, puts |-> 2, kills |-> 1]

Settings == {Crashing, KilledTwice, Named}
NamedAndKilled ==
  {[Named EXCEPT !.unreliable = FALSE, !.rivalsRemove = TRUE, !.puts = 1, !.kills = 2]}
=============================================================================
