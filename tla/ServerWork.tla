------------------------------ MODULE ServerWork ------------------------------
(***************************************************************************)
(* One server at work: the requests of its adds, the syncs and freezes that *)
(* carry them in, the stops a person asks for, and the lock.  The server    *)
(* runs its tasks on several threads, so the handlers interleave wherever   *)
(* they let go of a lock.                                                   *)
(***************************************************************************)
EXTENDS ServerAdds

VARIABLES
  syncs, syncer, freezes, freezer, owed, named,
  stop,     \* the stop request being answered, and the step it is at (one at a time)
  resume    \* the reservations an unlock found received, not yet taken up

Sync == INSTANCE ServerSync
Freeze == INSTANCE ServerFreeze

synced == <<syncs, syncer>>
frozen == <<freezes, freezer, owed, named>>
vars == <<shared, synced, frozen, stop, resume>>

Requests == UNCHANGED <<setup, left, reg, stopping, unkept, up, file, carried, resv, keys, turn>>

-----------------------------------------------------------------------------
(* The last steps of an add's request: arming its run *)

HandOver(x) ==
  /\ up[x] \in {"hand over", "hand over stopped"}
  /\ IF Packed(x)
     THEN Freeze!Arm(Freeze!Dropped(x, {x}), FALSE) /\ UNCHANGED synced
     ELSE Sync!ArmSync({x}, FALSE) /\ UNCHANGED <<freezes, freezer>>
  /\ Up(x, IF up[x] = "hand over stopped" THEN "ask" ELSE "done")
  /\ UNCHANGED <<setup, left, reg, stopping, unkept, file, carried, resv, keys, turn,
                 owed, named, stop, resume>>

\* The sync under way may be about to read what is being taken away.
AskForStopped(x) ==
  /\ up[x] = "ask"
  /\ Sync!AskSync
  /\ Up(x, "done")
  /\ UpOnly /\ UNCHANGED <<reg, stopping, unkept, syncer, frozen, stop, resume>>

RequestSync ==
  /\ left.syncs > 0 /\ keys # "locked"
  /\ left' = [left EXCEPT !.syncs = @ - 1]
  /\ Sync!ArmSync({}, TRUE)
  /\ UNCHANGED <<setup, reg, stopping, unkept, up, file, carried, resv, keys, turn,
                 frozen, stop, resume>>

-----------------------------------------------------------------------------
(* POST /api/stop *)

NoStop == [step |-> "none", then |-> "none", adds |-> {}, folder |-> NoFolder]
StopsAt(l) == stop.step = l
Stopping(then, adds, f) == stop' = [step |-> "mark", then |-> then, adds |-> adds, folder |-> f]

BeginStop ==
  /\ StopsAt("none") /\ left.stops > 0 /\ keys # "locked"
  /\ left' = [left EXCEPT !.stops = @ - 1]
  /\ UNCHANGED <<setup, reg, unkept, up, file, carried, resv, keys, turn, synced,
                 freezes, freezer, owed, resume>>

\* One add: which flow is to answer is read as it is marked.
StopAdd(x) ==
  /\ BeginStop /\ Listed(x)
  /\ IF Refused({x}) THEN UNCHANGED <<stopping, stop>>
     ELSE /\ MarkStopping({x})
          /\ stop' = [NoStop EXCEPT !.adds = {x},
                        !.step = IF ~Packed(x) THEN "ask sync"
                                 ELSE IF reg[x] = "armed" THEN "carries" ELSE "none"]
  /\ UNCHANGED named

\* A run: its adds are read, and marked, and the run is asked.
StopSync ==
  /\ BeginStop
  /\ syncs.record.status = "syncing" /\ syncs.record.adds # {}
  /\ Stopping("ask sync", syncs.record.adds, NoFolder)
  /\ UNCHANGED <<stopping, named>>

StopFreeze ==
  /\ BeginStop
  /\ Freeze!Freezing(freezes)
  /\ Stopping("ask whole", freezes.record.book.adds, freezes.record.book.folder)
  /\ named' = named \cup {freezes.record.book.folder}
  /\ UNCHANGED stopping

\* A book that waits behind the one on record.
Waits(f) ==
  {i \in Freeze!WaitingAt(freezes, f) : freezes.current # Freeze!NoBook \/ i > 1}
StopQueued(f) ==
  /\ BeginStop /\ f \in setup.queues /\ Waits(f) # {}
  /\ LET b == freezes.waiting[CHOOSE i \in Waits(f) : TRUE]
     IN IF b.adds = {} THEN stop' = [NoStop EXCEPT !.step = "cancel", !.folder = f]
        ELSE Stopping("stop queued", b.adds, f)
  /\ named' = named \cup {f}
  /\ UNCHANGED stopping

StopMarks ==
  /\ StopsAt("mark")
  /\ IF Refused(stop.adds) THEN stop' = NoStop /\ UNCHANGED stopping
     ELSE MarkStopping(stop.adds) /\ stop' = [stop EXCEPT !.step = stop.then]
  /\ UNCHANGED <<setup, left, reg, unkept, up, file, carried, resv, keys, turn,
                 synced, frozen, resume>>

StopCarries ==
  /\ StopsAt("carries")
  /\ stop' = IF Freeze!Freezing(freezes) /\ stop.adds \cap freezes.record.book.adds # {}
             THEN [stop EXCEPT !.step = "ask freeze"] ELSE NoStop
  /\ Requests /\ UNCHANGED <<synced, frozen, resume>>

\* The ask, of whichever run is on record by now.
StopAsks ==
  /\ \/ StopsAt("ask sync") /\ Sync!AskSync /\ UNCHANGED freezes
     \/ StopsAt("ask freeze") /\ freezes' = Freeze!Asked(freezes) /\ UNCHANGED syncs
     \/ StopsAt("ask whole") /\ freezes' = Freeze!AskedWhole(freezes) /\ UNCHANGED syncs
  /\ stop' = NoStop
  /\ Requests /\ UNCHANGED <<syncer, freezer, owed, named, resume>>

\* The book still waits, with nothing else of it to pack then, or the run on
\* record carries its adds by now and is asked as a stop on its own line asks.
StopBook ==
  /\ StopsAt("stop queued")
  /\ LET at == {i \in Waits(stop.folder) : freezes.waiting[i].adds # {}}
     IN freezes' =
          IF at # {}
          THEN [freezes EXCEPT !.waiting[CHOOSE i \in at : TRUE] =
                  [Freeze!Withdrawn(@) EXCEPT !.whole = FALSE, !.only = {}]]
          ELSE IF Freeze!Freezing(freezes) /\ stop.adds \cap freezes.record.book.adds # {}
          THEN Freeze!AskedWhole(freezes) ELSE freezes
  /\ stop' = NoStop
  /\ Requests /\ UNCHANGED <<synced, freezer, owed, named, resume>>

\* A book without adds leaves the queue, and is logged.
StopCancels ==
  /\ StopsAt("cancel")
  /\ LET at == {i \in Waits(stop.folder) : freezes.waiting[i].adds = {}}
     IN IF at = {} THEN UNCHANGED <<freezes, owed>>
        ELSE LET i == CHOOSE i \in at : TRUE
             IN /\ freezes' = [freezes EXCEPT !.waiting = RemoveAt(@, i)]
                /\ owed' = owed \ Freeze!Answers(freezes.waiting[i])
  /\ stop' = NoStop
  /\ Requests /\ UNCHANGED <<synced, freezer, named, resume>>

StopStep == StopMarks \/ StopCarries \/ StopAsks \/ StopBook \/ StopCancels

-----------------------------------------------------------------------------
(* The lock *)

\* A request holds the keys from its start, and a run from its turn.
HoldsKeys ==
  \/ \E x \in Adds : up[x] \notin {"none", "done"}
  \/ syncer.at \in {"walk", "walked", "committing", "cut", "undo", "publish", "rearm", "ending"}
  \/ freezer.at \in {"walk", "walked", "committing", "cut", "undo", "publish", "rearm", "ending"}

\* The quiet is read, and only then are the keys let go of.
FindQuiet ==
  /\ left.locks > 0 /\ keys = "open" /\ ~HoldsKeys
  /\ left' = [left EXCEPT !.locks = @ - 1]
  /\ keys' = "quiet"
  /\ UNCHANGED <<setup, reg, stopping, unkept, up, file, carried, resv, turn, resume>>

Lock ==
  /\ keys = "quiet" /\ keys' = "locked"
  /\ UNCHANGED <<setup, left, reg, stopping, unkept, up, file, carried, resv, turn, resume>>

\* An unlock reads the reservations waiting for their Pack, and arms a run for
\* each.
Unlock ==
  /\ keys = "locked" /\ keys' = "open"
  /\ resume' = {x \in Adds : resv[x] = "received"}
  /\ UNCHANGED <<setup, left, reg, stopping, unkept, up, file, carried, resv, turn>>

Resume(x) ==
  /\ x \in resume
  /\ resume' = resume \ {x}
  /\ Freeze!Arm(Freeze!Dropped(x, {}), TRUE)
  /\ Requests /\ UNCHANGED <<owed, named>>

-----------------------------------------------------------------------------
Init ==
  /\ setup \in Setups
  /\ left = [stops |-> setup.stops, panics |-> setup.panics, locks |-> setup.locks,
             syncs |-> setup.syncs, asks |-> setup.asks]
  /\ reg = [x \in Adds |-> "none"] /\ up = [x \in Adds |-> "none"]
  /\ stopping = {} /\ unkept = {} /\ carried = {}
  /\ file = [x \in Adds |-> "none"] /\ resv = [x \in Adds |-> "none"]
  /\ keys = "open" /\ turn = <<>>
  /\ syncs = [working |-> FALSE, armed |-> FALSE, pending |-> {}, requested |-> FALSE,
              record |-> Sync!NoSync]
  /\ syncer = Sync!NoSyncer
  /\ freezes = [working |-> FALSE, current |-> Freeze!NoBook, waiting |-> <<>>,
                discarded |-> {}, displaced |-> {}, record |-> Freeze!NoFreeze]
  /\ freezer = Freeze!NoFreezer
  /\ owed = {} /\ named = {}
  /\ stop = NoStop /\ resume = {}

Elsewhere == UNCHANGED <<synced, frozen, stop, resume>>

\* What the server goes on with on its own.
Serve ==
  \/ Sync!SyncStep /\ UNCHANGED <<frozen, stop, resume>>
  \/ Freeze!FreezeStep /\ UNCHANGED <<synced, stop, resume>>
  \/ \E x \in Adds : (AddStep(x) /\ Elsewhere) \/ HandOver(x) \/ AskForStopped(x)
  \/ StopStep
  \/ \E x \in Adds : Resume(x) /\ UNCHANGED <<synced, stop>>

\* What the person, the browser or the clock do.
Comes ==
  \/ \E x \in Adds :
       \/ (BeginAdd(x) \/ WriteUnkept(x) \/ Land(x) \/ Received(x) \/ Break(x)) /\ Elsewhere
       \/ StopAdd(x)
  \/ RequestSync
  \/ \E f \in Folders : (Freeze!AskPack(f) /\ UNCHANGED <<synced, stop, resume>>) \/ StopQueued(f)
  \/ StopSync \/ StopFreeze
  \/ (FindQuiet \/ Lock) /\ UNCHANGED <<synced, frozen, stop>>
  \/ Unlock /\ UNCHANGED <<synced, frozen, stop>>
  \/ Sync!PanicSync /\ UNCHANGED <<frozen, stop, resume>>
  \/ Freeze!PanicFreeze /\ UNCHANGED <<synced, stop, resume>>

Next == Serve \/ Comes
Spec == Init /\ [][Next]_vars

Fairness ==
  /\ WF_vars(Sync!SyncStep /\ UNCHANGED <<frozen, stop, resume>>)
  /\ WF_vars(Freeze!FreezeStep /\ UNCHANGED <<synced, stop, resume>>)
  /\ \A x \in Adds :
       /\ WF_vars((AddStep(x) /\ Elsewhere) \/ HandOver(x) \/ AskForStopped(x))
       /\ WF_vars(Resume(x) /\ UNCHANGED <<synced, stop>>)
  /\ WF_vars(StopStep)
FairSpec == Spec /\ Fairness
=============================================================================
