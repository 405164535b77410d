--------------------------- MODULE ServerProperties ---------------------------
(***************************************************************************)
(* What one server at work promises.                                       *)
(***************************************************************************)
EXTENDS ServerWork

\* What the flows hold agrees with where their workers stand.
ServerTypeOK ==
  /\ reg \in [Adds -> {"none", "receiving", "armed", "ended"}]
  /\ stopping \subseteq {x \in Adds : Listed(x)}
  /\ syncs.working <=> syncer.at # "off"
  /\ freezes.working <=> freezer.at # "off"
  /\ \A i, j \in 1 .. Len(freezes.waiting) :
       i # j => freezes.waiting[i].folder # freezes.waiting[j].folder

\* A file taken away from under a stopped add is in no commit, by whichever
\* run and through whichever scope (adds/undo.rs, stop_receiving.rs, LA-36).
UndoneNotCarried == \A x \in carried : file[x] # "taken"

\* A run that says it is committing is never cut short, so what is reported as
\* cancelled has committed nothing (stopping/stop.rs, LA-35).
CommittingNotCut ==
  [][/\ syncer.at = "committing" => syncer'.at # "cut"
     /\ freezer.at = "committing" => freezer'.at # "cut"]_vars

\* What is armed has a worker to take it up (sync and freeze progress.rs).
ArmedTakenUp ==
  /\ syncs.armed \/ syncs.pending # {} => syncer.at # "off"
  /\ freezes.waiting # <<>> => freezer.at # "off"

\* Every add past its request is carried: by what is armed, by the run under
\* way, or by a book still owed (LA-34).
Books == {freezes.waiting[i] : i \in 1 .. Len(freezes.waiting)} \cup freezes.discarded
         \cup {freezer.book, freezer.rest}
Carriers == syncs.pending \cup syncer.adds \cup UNION {b.adds : b \in Books}
AddsCarried ==
  setup.panics = 0 => \A x \in Adds : reg[x] = "armed" /\ up[x] = "done" => x \in Carriers

\* A run that may still commit a stopped add's file has been asked, or the ask
\* is on its way (routes/stop.rs, finish_drop.rs, LA-35).
Asking(l) == stop.step \in l \/ (stop.step = "mark" /\ stop.then \in l)
StopReaches ==
  /\ \A x \in syncer.adds \cap stopping :
       syncer.at \in {"walk", "walked"} =>
         syncs.record.stop = "asked" \/ Asking({"ask sync"}) \/ up[x] = "ask"
  /\ \A x \in freezer.book.adds \cap stopping :
       freezer.at \in {"walk", "walked"} =>
         \/ freezes.record.stop = "asked"
         \/ Asking({"carries", "ask freeze", "ask whole", "stop queued"})

\* A stop takes away only what it named: the request of a book it named, and
\* of a book's adds the files of those it marked (LA-35, LA-36).
Selects(b, x) == b.whole \/ x \in b.only
StopsTakeTheirs ==
  \A b \in {freezes.current} \cup Books :
    /\ b.withdrawn => b.folder \in named
    /\ \A x \in b.adds \ stopping : file[x] = "here" => Selects(b, x)

\* Every add handed to a run ends, and everybody who asked for a folder to be
\* packed reads in the log what became of it (LA-12, LA-34).
AddsEnd ==
  \A x \in Adds : setup.panics = 0 /\ reg[x] = "armed" ~> reg[x] = "ended"
RequestsAnswered == \A f \in Folders : f \in owed ~> f \notin owed
=============================================================================
