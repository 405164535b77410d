----------------------------- MODULE MCKeyring -----------------------------
(***************************************************************************)
(* Casts of KeyringLifecycle and FetchMemory for TLC.                      *)
(***************************************************************************)
EXTENDS KeyringProperties, TLC

CONSTANTS a, b, c, phone, laptop, desk

Cast(ra, rb, rc, runs, dev, served, killed, minting, losing, flaky) ==
  [role |-> a :> ra @@ b :> rb @@ c :> rc, dev |-> dev, served |-> served, runs |-> runs,
   killed |-> killed, minting |-> minting, losing |-> losing, flaky |-> flaky]

Apart == a :> phone @@ b :> laptop @@ c :> desk
Together == a :> phone @@ b :> phone @@ c :> phone
ServerAndOther == a :> phone @@ b :> phone @@ c :> laptop
Runs(m, n, k) == a :> m @@ b :> n @@ c :> k

\* Two commits at once; a commit against a prune, and against a reader too.
Rivals == Cast("writer", "writer", "none", Runs(1, 1, 0), Apart, {}, {a}, TRUE, TRUE, FALSE)
Pruned == Cast("writer", "pruner", "none", Runs(2, 1, 0), Apart, {}, {}, TRUE, TRUE, FALSE)
PrunedFlaky == Cast("writer", "pruner", "none", Runs(1, 1, 0), Apart, {}, {}, FALSE, FALSE, TRUE)
ReadAlong == Cast("writer", "pruner", "reader", Runs(1, 1, 1), Apart, {}, {}, FALSE, FALSE, FALSE)
\* Two commits over one Index.
Sharing == Cast("writer", "writer", "none", Runs(1, 1, 0), Together, {}, {}, FALSE, FALSE, FALSE)
Casts == {Rivals, Pruned, PrunedFlaky, ReadAlong, Sharing}

\* Fetches of a server that commits, or that catches up on others.
Serving == Cast("fetcher", "fetcher", "writer", Runs(2, 1, 1), Together, {a, b, c}, {}, FALSE, FALSE, FALSE)
Catching == Cast("fetcher", "refresher", "writer", Runs(2, 1, 1), ServerAndOther, {a, b}, {}, FALSE, FALSE, FALSE)
FetchingFlaky == Cast("fetcher", "fetcher", "refresher", Runs(1, 1, 1), Together, {a, b, c}, {}, FALSE, FALSE, TRUE)

AllCasts == Casts \cup {Serving, Catching, FetchingFlaky}

\* A terminal reads while the server commits over the same Index.
SharedIndex == {Cast("writer", "none", "reader", Runs(1, 0, 1), Together, {}, {}, FALSE, FALSE, FALSE)}

\* A read across the repairs of two commits; with two faults, and on a Storage that
\* mints identifiers.
ReadAcrossRepairs == {Cast("writer", "writer", "reader", Runs(1, 1, 1), Apart, {}, {}, TRUE, FALSE, FALSE)}

\* A repair whose run then failed, on a Storage that mints identifiers.
RepairedAndFailed == {Cast("fetcher", "writer", "none", Runs(2, 1, 0), Together, {a, b}, {}, TRUE, FALSE, TRUE)}

\* A catch-up of the server while it commits.
CaughtUpMidCommit == {Cast("fetcher", "refresher", "writer", Runs(1, 1, 1), Together, {a, b, c}, {}, FALSE, FALSE, FALSE)}
=============================================================================
