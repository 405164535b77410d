------------------------------ MODULE ServerSync ------------------------------
(***************************************************************************)
(* The server's syncs: what is armed, the run on record, and the one       *)
(* worker that takes them up.  Each action is one hold of the lock on what *)
(* is armed, or one stretch between two of the run's awaits.               *)
(***************************************************************************)
EXTENDS ServerAdds

VARIABLES
  syncs,    \* Syncs' Progress
  syncer    \* the worker: where it is, and the run it is building

syncing == <<syncs, syncer>>

\* fresh: announced by an arming and not taken up yet.
NoSync == [adds |-> {}, requested |-> FALSE, status |-> "none", stop |-> "open", fresh |-> FALSE]
NoSyncer == [at |-> "off", adds |-> {}, requested |-> FALSE, scope |-> {}, read |-> {},
             status |-> "none", undo |-> {}]
SyncRun(adds, requested, status) ==
  [NoSync EXCEPT !.adds = adds, !.requested = requested, !.status = status]

\* Arming is a request of everything armed since the last run began, and starts
\* a worker where none is.
ArmSync(X, asked) ==
  LET armed == [syncs EXCEPT !.working = TRUE, !.armed = TRUE,
                             !.pending = @ \cup X, !.requested = @ \/ asked]
  IN /\ syncs' = IF syncs.working THEN armed
                 ELSE [armed EXCEPT !.record =
                        [SyncRun(armed.pending, armed.requested, "syncing") EXCEPT !.fresh = TRUE]]
     /\ syncer' = IF syncs.working THEN syncer ELSE [NoSyncer EXCEPT !.at = "next"]

AskSync ==
  syncs' = IF syncs.record.status = "syncing"
           THEN [syncs EXCEPT !.record.stop = Ask(@)] ELSE syncs

\* A run that carries a stopped add is asked to stop.
AskNone == UNCHANGED syncs   \* a bug: nobody looks
AskIfStopped == IF StoppingOf(syncer.adds) # {} THEN AskSync ELSE UNCHANGED syncs

At(l) == syncer.at = l
Go(l) == syncer' = [syncer EXCEPT !.at = l]
EndsAs(status) == syncer' = [syncer EXCEPT !.at = "ending", !.status = status]

\* What is armed becomes the run on record, and keeps the ask its announcement
\* was given; with nothing armed the worker leaves.
TakeNextSync ==
  /\ At("next")
  /\ IF syncs.armed
     THEN LET taken == SyncRun(syncs.pending, syncs.requested, "syncing")
              asked == syncs.record.fresh /\ syncs.record.stop = "asked"
          IN /\ syncs' = [syncs EXCEPT !.armed = FALSE, !.pending = {}, !.requested = FALSE,
                            !.record = IF asked THEN [taken EXCEPT !.stop = "asked"] ELSE taken]
             /\ syncer' = [NoSyncer EXCEPT !.at = "start", !.adds = taken.adds,
                                           !.requested = taken.requested]
     ELSE syncs' = [syncs EXCEPT !.working = FALSE] /\ syncer' = NoSyncer
  /\ UNCHANGED shared

StartSync ==
  /\ At("start")
  /\ AskIfStopped
  /\ Queue("sync") /\ Go("turn")
  /\ UNCHANGED <<setup, left, reg, stopping, unkept, up, file, carried, resv, keys>>

\* What was armed while the run waited is taken into it: it has walked nothing.
\* A bug: the run on record keeps the adds it had.
AbsorbedBare(p) == [p EXCEPT !.armed = FALSE, !.pending = {}, !.requested = FALSE]
Absorbed(p) ==
  [p EXCEPT !.record.adds = @ \cup p.pending, !.record.requested = @ \/ p.requested,
            !.armed = FALSE, !.pending = {}, !.requested = FALSE]
TurnOfSync ==
  /\ At("turn") /\ HasTurn("sync")
  /\ syncs' = IF syncs.armed THEN Absorbed(syncs) ELSE syncs
  /\ syncer' = [syncer EXCEPT !.at = "absorbed", !.adds = syncs'.record.adds,
                              !.requested = syncs'.record.requested]
  /\ UNCHANGED shared

\* An add taken in may have been stopped meanwhile.  Then the scope and the keys.
KeysOfSync ==
  /\ At("absorbed")
  /\ AskIfStopped
  /\ LET wrote == {x \in syncer.adds : Listed(x) /\ file[x] # "none"}
         scope == IF syncer.requested THEN Folders ELSE {setup.folder[x] : x \in wrote}
     IN syncer' = IF keys = "locked" THEN [syncer EXCEPT !.at = "ending", !.status = "stopped"]
                  ELSE [syncer EXCEPT !.scope = scope,
                          !.at = IF syncs'.record.stop = "asked" THEN "cut" ELSE "walk"]
  /\ UNCHANGED shared

\* The walk leaves every reserved file to its freeze.
WalkSync ==
  /\ At("walk") /\ syncs.record.stop # "asked"
  /\ LET read == {x \in Adds : /\ file[x] = "here" /\ x \notin carried
                               /\ resv[x] = "none" /\ setup.folder[x] \in syncer.scope}
     IN syncer' = [syncer EXCEPT !.at = "walked", !.read = read]
  /\ UNCHANGED <<shared, syncs>>

\* A run with nothing to commit is done; another says that it is committing.
BeginCommitOfSync ==
  /\ At("walked")
  /\ IF syncer.read = {} THEN EndsAs("done") /\ UNCHANGED syncs
     ELSE /\ syncs' = [syncs EXCEPT !.record.stop = Hear(@)]
          /\ Go("committing")
  /\ UNCHANGED shared

CommitSync ==
  /\ At("committing")
  /\ carried' = carried \cup syncer.read
  /\ \/ EndsAs("done")
     \/ setup.flaky /\ EndsAs("stopped")
  /\ UNCHANGED <<setup, left, reg, stopping, unkept, up, file, resv, keys, turn, syncs>>

FailSync ==
  /\ setup.flaky /\ syncer.at \in {"walk", "walked", "committing"}
  /\ EndsAs("stopped")
  /\ UNCHANGED <<shared, syncs>>

\* The flow is raced against the ask.
CutSync ==
  /\ syncer.at \in {"walk", "walked", "committing"}
  /\ syncs.record.stop = "asked"
  /\ syncer' = [syncer EXCEPT !.at = "cut", !.read = {}]
  /\ UNCHANGED <<shared, syncs>>

\* The adds of a run that ended are over; the run is then published.
EndSync ==
  /\ At("ending")
  /\ EndAdds(syncer.adds)
  /\ Go("publish")
  /\ UNCHANGED <<setup, left, up, file, carried, resv, keys, turn, syncs>>

PublishSync ==
  /\ At("publish")
  /\ syncs' = [syncs EXCEPT !.record = SyncRun(syncer.adds, syncer.requested, syncer.status)]
  /\ IF syncer.status = "cancelled" THEN Go("rearm") /\ UNCHANGED turn
     ELSE syncer' = [NoSyncer EXCEPT !.at = "next"] /\ GiveUpTurn("sync")
  /\ UNCHANGED <<setup, left, reg, stopping, unkept, up, file, carried, resv, keys>>

\* Under the turn, every add a person stopped is undone, and the rest armed
\* again once the run is published as cancelled.
StoppedOfSync ==
  /\ At("cut")
  /\ syncer' = [syncer EXCEPT !.at = "undo", !.undo = StoppingOf(syncer.adds)]
  /\ UNCHANGED <<shared, syncs>>

UndoOfSync ==
  /\ At("undo")
  /\ \/ \E x \in syncer.undo :
          /\ Undo(x)
          /\ syncer' = [syncer EXCEPT !.undo = @ \ {x}, !.adds = @ \ {x}]
     \/ /\ syncer.undo = {}
        /\ syncer' = [syncer EXCEPT !.at = "publish", !.status = "cancelled"]
        /\ UNCHANGED <<reg, stopping, unkept, file, resv>>
  /\ UNCHANGED <<setup, left, up, carried, keys, turn, syncs>>

RearmSync ==
  /\ At("rearm")
  /\ syncs' = IF syncer.adds = {} /\ ~syncer.requested THEN syncs
              ELSE [syncs EXCEPT !.armed = TRUE, !.pending = @ \cup syncer.adds,
                                 !.requested = @ \/ syncer.requested]
  /\ syncer' = [NoSyncer EXCEPT !.at = "next"]
  /\ GiveUpTurn("sync")
  /\ UNCHANGED <<setup, left, reg, stopping, unkept, up, file, carried, resv, keys>>

SyncStep ==
  \/ TakeNextSync \/ StartSync \/ TurnOfSync \/ KeysOfSync \/ WalkSync
  \/ BeginCommitOfSync \/ CommitSync \/ FailSync \/ CutSync
  \/ EndSync \/ PublishSync \/ StoppedOfSync \/ UndoOfSync \/ RearmSync

\* A worker that panics puts back what it left set, and drops what was armed.
\* A bug: what was armed is left to a worker that never comes.
AbandonedArmed(p) ==
  [p EXCEPT !.working = FALSE, !.record.status = IF @ = "syncing" THEN "stopped" ELSE @]
Abandoned(p) ==
  [p EXCEPT !.working = FALSE, !.armed = FALSE, !.pending = {}, !.requested = FALSE,
            !.record.status = IF @ = "syncing" THEN "stopped" ELSE @]
PanicSync ==
  /\ left.panics > 0 /\ syncer.at \notin {"off", "next"}
  /\ left' = [left EXCEPT !.panics = @ - 1]
  /\ syncs' = Abandoned(syncs)
  /\ syncer' = NoSyncer
  /\ GiveUpTurn("sync")
  /\ UNCHANGED <<setup, reg, stopping, unkept, up, file, carried, resv, keys>>
=============================================================================
