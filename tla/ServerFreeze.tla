----------------------------- MODULE ServerFreeze -----------------------------
(***************************************************************************)
(* The server's freezes: the books waiting their turn, the run on record,  *)
(* the books still owed after a run of them stopped, and the one worker    *)
(* that packs a book at a time.                                            *)
(*                                                                         *)
(* A book's selection is the adds whose files it names, or the whole       *)
(* folder.  The list of books shown as stopping is left out: it decides    *)
(* nothing.                                                                *)
(***************************************************************************)
EXTENDS ServerAdds

VARIABLES
  freezes,   \* Freezes' Progress
  freezer,   \* the worker: where it is, and the run it is building
  owed,      \* history: the folders somebody asked to have packed, unanswered
  named      \* history: the folders whose book a stop named

freezing == <<freezes, freezer, owed, named>>

NoBook == [folder |-> NoFolder, whole |-> FALSE, only |-> {}, adds |-> {},
           requested |-> FALSE, withdrawn |-> FALSE]
Whole(f) == [NoBook EXCEPT !.folder = f, !.whole = TRUE, !.requested = TRUE]
Dropped(x, adds) == [NoBook EXCEPT !.folder = setup.folder[x], !.only = {x}, !.adds = adds]

NoFreeze == [book |-> NoBook, status |-> "none", stop |-> "open", fresh |-> FALSE]
FreezeRun(b, status) == [NoFreeze EXCEPT !.book = b, !.status = status]
NoFreezer == [at |-> "off", book |-> NoBook, read |-> {}, status |-> "none",
              undo |-> {}, rest |-> NoBook]

\* A selection holds another's where it is the whole folder's or has its files.
Covers(b, c) == b.folder = c.folder /\ (b.whole \/ (~c.whole /\ c.only \subseteq b.only))

\* Books of one folder as one.
Joined(B) ==
  LET whole == \E b \in B : b.whole
  IN [folder |-> (CHOOSE b \in B : TRUE).folder, whole |-> whole,
      only |-> IF whole THEN {} ELSE UNION {b.only : b \in B},
      adds |-> UNION {b.adds : b \in B},
      requested |-> \E b \in B : b.requested, withdrawn |-> \E b \in B : b.withdrawn]

\* A stopped run's book is owed its files; its adds ended with it.
OwedBy(b) == [b EXCEPT !.adds = {}, !.requested = TRUE, !.withdrawn = FALSE]
Stopped(p) == p.record.status = "stopped"
Freezing(p) == p.record.status = "freezing"

\* Every book of a folder still owed a pack.
Kept(p, f) ==
  {b \in (IF Stopped(p) THEN {OwedBy(p.record.book)} ELSE {})
         \cup p.displaced \cup p.discarded : b.folder = f}

\* A stopped run a book of another folder takes the record from is kept.
Displaced(p, f) ==
  IF Stopped(p) /\ p.record.book.folder # f
  THEN p.displaced \cup {OwedBy(p.record.book)} ELSE p.displaced

At(l) == freezer.at = l
Go(l) == freezer' = [freezer EXCEPT !.at = l]
EndsAs(status) == freezer' = [freezer EXCEPT !.at = "ending", !.status = status]

\* The run under way packs it all, and nobody asked that run to stop.
Pending(p, b) ==
  p.current # NoBook /\ Covers(p.current, b) /\ Freezing(p) /\ p.record.stop # "asked"

WaitingAt(p, f) == {i \in 1 .. Len(p.waiting) : p.waiting[i].folder = f}

\* What is asked for takes up whatever of its folder is still owed.  It joins
\* the book of its folder that waits, which the run on record may announce, or
\* waits itself and starts a worker where none is.
Arm(asked, joinsRunning) ==
  LET f == asked.folder
      b == Joined({asked} \cup Kept(freezes, f))
      p == [freezes EXCEPT !.discarded = {c \in @ : c.folder # f},
                           !.displaced = {c \in @ : c.folder # f}]
  IN IF joinsRunning /\ Pending(p, b) THEN freezes' = p /\ UNCHANGED freezer
     ELSE IF WaitingAt(p, f) # {}
     THEN LET i == CHOOSE i \in WaitingAt(p, f) : TRUE
              q == [p EXCEPT !.waiting[i] = Joined({@, b})]
          IN /\ freezes' = IF p.current = NoBook /\ Freezing(p) /\ p.record.book.folder = f
                           THEN [q EXCEPT !.record.book = q.waiting[1]] ELSE q
             /\ UNCHANGED freezer
     ELSE LET q == [p EXCEPT !.waiting = Append(@, b), !.working = TRUE]
          IN IF p.working THEN freezes' = q /\ UNCHANGED freezer
             ELSE /\ freezes' = [q EXCEPT !.displaced = Displaced(p, f),
                                   !.record = [FreezeRun(b, "freezing") EXCEPT !.fresh = TRUE]]
                  /\ freezer' = [NoFreezer EXCEPT !.at = "next"]

\* Somebody asks to have a folder packed, or packed again.
AskPack(f) ==
  /\ f \in setup.packs /\ left.asks > 0 /\ keys # "locked"
  /\ left' = [left EXCEPT !.asks = @ - 1]
  /\ LET kept == Kept(freezes, f)
     IN Arm(IF kept = {} THEN Whole(f) ELSE Joined(kept), TRUE)
  /\ owed' = owed \cup {f}
  /\ UNCHANGED <<setup, reg, stopping, unkept, up, file, carried, resv, keys, turn, named>>

\* The ask, and the withdrawal of the book's own request along with it.
Asked(p) == IF Freezing(p) THEN [p EXCEPT !.record.stop = Ask(@)] ELSE p
Withdrawn(b) == [b EXCEPT !.withdrawn = @ \/ b.requested, !.requested = FALSE]
AskedWhole(p) ==
  IF ~Freezing(p) \/ p.record.stop = "committing" THEN p
  ELSE IF p.current # NoBook THEN [Asked(p) EXCEPT !.current = Withdrawn(@)]
  ELSE IF p.waiting # <<>> /\ p.waiting[1].folder = p.record.book.folder
  THEN [Asked(p) EXCEPT !.waiting[1] = Withdrawn(@)] ELSE Asked(p)

-----------------------------------------------------------------------------
(* The worker *)

TakeNextFreeze ==
  /\ At("next")
  /\ IF freezes.waiting # <<>>
     THEN LET b == Head(freezes.waiting)
              asked == freezes.record.fresh /\ freezes.record.stop = "asked"
              taken == FreezeRun(b, "freezing")
          IN /\ freezes' = [freezes EXCEPT !.waiting = Tail(@), !.current = b,
                              !.displaced = Displaced(freezes, b.folder),
                              !.record = IF asked THEN [taken EXCEPT !.stop = "asked"] ELSE taken]
             /\ freezer' = [NoFreezer EXCEPT !.at = "start", !.book = b]
     ELSE /\ freezes' = [freezes EXCEPT !.current = NoBook, !.working = FALSE]
          /\ freezer' = NoFreezer
  /\ UNCHANGED <<shared, owed, named>>

StartFreeze ==
  /\ At("start")
  /\ freezes' = IF StoppingOf(freezer.book.adds) # {} THEN Asked(freezes) ELSE freezes
  /\ Queue("freeze") /\ Go("turn")
  /\ UNCHANGED <<setup, left, reg, stopping, unkept, up, file, carried, resv, keys, owed, named>>

KeysOfFreeze ==
  /\ At("turn") /\ HasTurn("freeze")
  /\ IF keys = "locked" THEN EndsAs("stopped")
     ELSE Go(IF freezes.record.stop = "asked" THEN "cut" ELSE "walk")
  /\ UNCHANGED <<shared, freezes, owed, named>>

\* The walk spares the reservations of drops that are still receiving.
WalkFreeze ==
  /\ At("walk") /\ freezes.record.stop # "asked"
  /\ LET b == freezer.book
         read == {x \in Adds : /\ file[x] = "here" /\ x \notin carried /\ resv[x] # "live"
                               /\ setup.folder[x] = b.folder /\ (b.whole \/ x \in b.only)}
     IN freezer' = [freezer EXCEPT !.at = "walked", !.read = read]
  /\ UNCHANGED <<shared, freezes, owed, named>>

BeginCommitOfFreeze ==
  /\ At("walked")
  /\ IF freezer.read = {} THEN EndsAs("done") /\ UNCHANGED freezes
     ELSE /\ freezes' = [freezes EXCEPT !.record.stop = Hear(@)]
          /\ Go("committing")
  /\ UNCHANGED <<shared, owed, named>>

\* The commit releases the reservations it packs.
CommitFreeze ==
  /\ At("committing")
  /\ carried' = carried \cup freezer.read
  /\ resv' = [x \in Adds |-> IF x \in freezer.read THEN "none" ELSE resv[x]]
  /\ \/ EndsAs("done")
     \/ setup.flaky /\ EndsAs("stopped")
  /\ UNCHANGED <<setup, left, reg, stopping, unkept, up, file, keys, turn, freezes, owed, named>>

FailFreeze ==
  /\ setup.flaky /\ freezer.at \in {"walk", "walked", "committing"}
  /\ EndsAs("stopped")
  /\ UNCHANGED <<shared, freezes, owed, named>>

CutFreeze ==
  /\ freezer.at \in {"walk", "walked", "committing"}
  /\ freezes.record.stop = "asked"
  /\ freezer' = [freezer EXCEPT !.at = "cut", !.read = {}]
  /\ UNCHANGED <<shared, freezes, owed, named>>

EndFreeze ==
  /\ At("ending")
  /\ EndAdds(freezer.book.adds)
  /\ Go("publish")
  /\ UNCHANGED <<setup, left, up, file, carried, resv, keys, turn, freezes, owed, named>>

\* A bug: no cancelled run is logged but one that carried nothing.
LoggedBare(status) == status # "cancelled" \/ freezer.book.adds = {}

\* A run stopped through its adds is logged as those adds, unless the stop took
\* a request of its book's own away too.
Logged(status) ==
  status # "cancelled" \/ freezer.book.adds = {}
    \/ (freezes.current.withdrawn /\ ~freezes.current.requested)
\* The requests a log entry of the run under way answers.
Answers(b) == IF b.requested \/ b.withdrawn \/ b.whole THEN {b.folder} ELSE {}

PublishFreeze ==
  /\ At("publish")
  /\ freezes' = [freezes EXCEPT !.record = FreezeRun(freezer.book, freezer.status)]
  /\ owed' = IF Logged(freezer.status) THEN owed \ Answers(freezes.current) ELSE owed
  /\ IF freezer.status = "cancelled" THEN Go("rearm") /\ UNCHANGED turn
     ELSE freezer' = [NoFreezer EXCEPT !.at = "next"] /\ GiveUpTurn("freeze")
  /\ UNCHANGED <<setup, left, reg, stopping, unkept, up, file, carried, resv, keys, named>>

StoppedOfFreeze ==
  /\ At("cut")
  /\ freezer' = [freezer EXCEPT !.at = "undo", !.undo = StoppingOf(freezer.book.adds),
                   !.rest = [freezer.book EXCEPT !.adds = @ \ StoppingOf(@)]]
  /\ UNCHANGED <<shared, freezes, owed, named>>

\* What is left of the book: what nobody stopped, and its own request as it
\* stands once the undoing is over.
UndoOfFreeze ==
  /\ At("undo")
  /\ \/ \E x \in freezer.undo :
          /\ Undo(x)
          /\ freezer' = [freezer EXCEPT !.undo = @ \ {x}, !.rest.only = @ \ {x}]
     \/ /\ freezer.undo = {}
        /\ freezer' = [freezer EXCEPT !.at = "publish", !.status = "cancelled",
                         !.rest.requested = freezes.current.requested,
                         !.rest.withdrawn = FALSE]
        /\ UNCHANGED <<reg, stopping, unkept, file, resv>>
  /\ UNCHANGED <<setup, left, up, carried, keys, turn, freezes, owed, named>>

\* A bug: a book that was only its adds is not armed again for those left.
ForgotAdds(b) == ~b.requested
\* A book that was only its adds, every one of them stopped, is not armed again.
OwesNothing(b) == b.adds = {} /\ ~b.requested

\* The worker is running, so arming starts no other.
RearmFreeze ==
  /\ At("rearm")
  /\ LET b == freezer.rest
         p == freezes
         kept == Joined({b} \cup Kept(p, b.folder))
         q == [p EXCEPT !.discarded = {c \in @ : c.folder # b.folder},
                        !.displaced = {c \in @ : c.folder # b.folder}]
     IN freezes' =
          IF OwesNothing(b) THEN p
          ELSE IF WaitingAt(q, b.folder) # {}
          THEN [q EXCEPT !.waiting[CHOOSE i \in WaitingAt(q, b.folder) : TRUE] = Joined({@, kept})]
          ELSE [q EXCEPT !.waiting = Append(@, kept)]
  /\ freezer' = [NoFreezer EXCEPT !.at = "next"]
  /\ GiveUpTurn("freeze")
  /\ UNCHANGED <<setup, left, reg, stopping, unkept, up, file, carried, resv, keys, owed, named>>

FreezeStep ==
  \/ TakeNextFreeze \/ StartFreeze \/ KeysOfFreeze \/ WalkFreeze
  \/ BeginCommitOfFreeze \/ CommitFreeze \/ FailFreeze \/ CutFreeze
  \/ EndFreeze \/ PublishFreeze \/ StoppedOfFreeze \/ UndoOfFreeze \/ RearmFreeze

\* A worker that panics puts back what it left set; the books that waited come
\* off the queue, and are kept and logged as thrown away.
PanicFreeze ==
  /\ left.panics > 0 /\ freezer.at \notin {"off", "next"}
  /\ left' = [left EXCEPT !.panics = @ - 1]
  /\ LET waited == {freezes.waiting[i] : i \in 1 .. Len(freezes.waiting)}
         all == freezes.discarded \cup waited
     IN /\ freezes' = [freezes EXCEPT !.working = FALSE, !.current = NoBook, !.waiting = <<>>,
                         !.discarded = {Joined({b \in all : b.folder = c.folder}) : c \in all},
                         !.record.status = IF @ = "freezing" THEN "stopped" ELSE @]
        /\ owed' = (IF Freezing(freezes) THEN owed \ Answers(freezes.current) ELSE owed)
                     \ UNION {Answers(b) : b \in waited}
  /\ freezer' = NoFreezer
  /\ GiveUpTurn("freeze")
  /\ UNCHANGED <<setup, reg, stopping, unkept, up, file, carried, resv, keys, named>>
=============================================================================
