------------------------------- MODULE MCServer -------------------------------
(***************************************************************************)
(* Casts of ServerWork for TLC, each of a few drops and a few presses.     *)
(***************************************************************************)
EXTENDS ServerProperties, TLC

CONSTANTS song, film, home, away

Quiet ==
  [drops |-> {}, packed |-> {}, unkept |-> {}, folder |-> [z \in Adds |-> home],
   packs |-> {}, queues |-> {}, asks |-> 0, syncs |-> 0, stops |-> 0, locks |-> 0,
   panics |-> 0, flaky |-> FALSE]

\* Two drops, for the sync, one of each, or for the freeze.
Apart == song :> home @@ film :> away
Both(packed) == [Quiet EXCEPT !.drops = {song, film}, !.packed = packed]

TwoSyncs == [Both({}) EXCEPT !.folder = Apart, !.syncs = 1, !.stops = 1]
Mixed == [Both({film}) EXCEPT !.queues = {home}, !.syncs = 1, !.stops = 1]
TwoBooks == [Both({song, film}) EXCEPT !.packs = {home}, !.asks = 1, !.stops = 1]
Queued == [Both({song, film}) EXCEPT !.folder = Apart, !.packs = {away}, !.asks = 1,
                               !.queues = {home, away}, !.stops = 1]
OneBook == [Quiet EXCEPT !.drops = {song}, !.packed = {song}, !.packs = {home}, !.asks = 1,
                         !.queues = {home}, !.stops = 2]
AskedTwice == [OneBook EXCEPT !.asks = 2, !.stops = 1]
Flaky == [Both({film}) EXCEPT !.stops = 1, !.flaky = TRUE]
FlakyBooks == [Both({song, film}) EXCEPT !.folder = Apart, !.packs = {home}, !.asks = 1,
                                   !.flaky = TRUE]
Locking == [Quiet EXCEPT !.drops = {film}, !.packed = {film}, !.packs = {home}, !.asks = 1,
                         !.stops = 1, !.locks = 1]
Panicking == [Both({film}) EXCEPT !.packs = {home}, !.asks = 1, !.syncs = 1,
                              !.panics = 1]
Unkept == [Quiet EXCEPT !.drops = {song}, !.unkept = {song}, !.syncs = 1, !.stops = 1]

AllCasts == {TwoSyncs, Mixed, TwoBooks, Queued, OneBook, AskedTwice, Flaky,
             FlakyBooks, Locking, Panicking, Unkept}

\* A second drop joins the book whose stop is being answered.
NextDrop == {[Both({song, film}) EXCEPT !.packs = {away}, !.asks = 1, !.queues = {home}, !.stops = 1]}
\* A run ends, and a book asked for since becomes the run on record.
NextBook == {[Both({song}) EXCEPT !.drops = {song}, !.packs = {away}, !.asks = 1, !.stops = 1]}
=============================================================================
