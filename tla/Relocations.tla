------------------------------ MODULE Relocations ------------------------------
(***************************************************************************)
(* The relocating of the files a device placed to follow the renames of    *)
(* their Entries: what a sync and a folder fetch do first.  Every waiting  *)
(* file is looked at, what a killed run left between a rename on disk and  *)
(* its record is finished, each record is decided in path order, and the   *)
(* files move, one rename on disk and then one re-keying at a time.        *)
(*                                                                         *)
(* Abstractions.  The roots of the mapped paths are there and on one       *)
(* filesystem, and no name is reserved or reached through a link: the      *)
(* refusals those give leave file and record as an edited file's does.  A  *)
(* path no root reaches is the case of a file that cannot follow.          *)
(***************************************************************************)
EXTENDS LocalIndex

VARIABLES
  cat,      \* the Entries the Index holds current: number -> path and content
  rec,      \* the materialization records: path -> Entry and last observation
  disk,     \* the content standing at each path
  run,      \* the run in progress, and what it holds in memory
  own,      \* the paths whose file the device put there (ghost)
  calm      \* nobody touched the disk since the run looked at it (ghost)

fileVars == <<cat, rec, disk, run, own, calm>>

Idle == [phase |-> "idle"]
NothingOwed == [forget |-> {}, rekey |-> <<>>, seen |-> {}]

\* A rename on disk is followed by its write to the Index, and a run makes no
\* other step in between.
Free(phase) == run.phase = phase /\ run.owed = NothingOwed

Least(S) == CHOOSE p \in S : \A q \in S : p <= q

\* What a look reads for every waiting record.
Looks ==
  [p \in {q \in Mapped : Waits(cat, rec, q)} |->
     LET to == WaitsFor(cat, rec, p)
     IN [to |-> to, entry |-> rec[p].entry, data |-> rec[p].data, source |-> disk[p],
         target |-> IF to \in Mapped THEN disk[to] ELSE NoFile]]

Relocating(kind, looks) ==
  [phase |-> "finish", kind |-> kind, looks |-> looks, todo |-> DOMAIN looks,
   touched |-> {}, pending |-> <<>>, cycle |-> <<>>, gone |-> {},
   owed |-> NothingOwed, changed |-> FALSE]

\* The records change and no file does.
Keep(records) == rec' = records /\ UNCHANGED own

-----------------------------------------------------------------------------
\* finish_interrupted

Holds(data, seen, p) == seen = data /\ disk[p] = data

\* The rename was made and the record did not follow.
MovedAlready(p) ==
  LET one == run.looks[p]
  IN one.source = NoFile /\ rec[one.to] = NoRecord

\* Two files were exchanged and their records were not.
ExchangedAlready(p) ==
  LET one == run.looks[p]
  IN /\ one.source # NoFile
     /\ Waits(cat, rec, one.to)
     /\ Holds(rec[one.to].data, one.source, p)
     /\ ~Holds(one.data, one.source, p)

Untouched(p) ==
  LET one == run.looks[p]
  IN /\ one.to \in Mapped /\ {p, one.to} \cap run.touched = {}
     /\ one.target # NoFile /\ Holds(one.data, one.target, one.to)

FinishNext ==
  /\ Free("finish") /\ run.todo # {}
  /\ LET p == Least(run.todo)
         to == run.looks[p].to
         moves == IF MovedAlready(p) THEN Only(p, to) ELSE Exchange(p, to)
     IN IF Untouched(p) /\ (MovedAlready(p) \/ ExchangedAlready(p))
          THEN /\ Keep(Rekeyed(cat, rec, moves))
               /\ run' = [run EXCEPT !.todo = @ \ {p}, !.touched = @ \cup {p, to},
                                     !.changed = TRUE]
          ELSE run' = [run EXCEPT !.todo = @ \ {p}] /\ UNCHANGED <<rec, own>>
  /\ UNCHANGED <<cat, disk, calm>>

FinishDone ==
  /\ Free("finish") /\ run.todo = {}
  /\ LET looks == IF run.touched = {} THEN run.looks ELSE Looks
     IN run' = [run EXCEPT !.phase = "decide", !.looks = looks, !.todo = DOMAIN looks]
  /\ calm' = (calm \/ run.touched # {})
  /\ UNCHANGED <<cat, rec, disk, own>>

-----------------------------------------------------------------------------
\* decide

\* A file still the one the record describes goes to the desktop's trash.
Discarded(p) ==
  IF disk[p] = NoFile
    THEN UNCHANGED <<disk, own>> /\ run' = [run EXCEPT !.todo = @ \ {p}]
    ELSE /\ disk' = [disk EXCEPT ![p] = NoFile]
         /\ own' = own \ {p}
         /\ run' = [run EXCEPT !.todo = @ \ {p}, !.owed.forget = {p}, !.changed = TRUE]

\* This device's own copy of the same Entry already stands where it goes.
Redundant(p) ==
  LET one == run.looks[p]
  IN rec[one.to] = [entry |-> one.entry, data |-> one.target] /\ ~Waits(cat, rec, one.to)

\* A bug: a file whose place another waiting file holds is refused.
DecisionAlone(p) ==
  LET one == run.looks[p]
  IN IF one.source # one.data THEN (IF one.source = NoFile THEN "gone" ELSE "refuse")
     ELSE IF one.to \notin Mapped THEN "discard"
     ELSE IF one.target = NoFile THEN "move"
     ELSE IF Redundant(p) THEN "discard" ELSE "refuse"

\* What becomes of a waiting file: a file that is gone has its record follow or
\* forgotten, an edited one is left, one that cannot follow goes to the trash.
Decision(p) ==
  LET one == run.looks[p]
  IN IF one.to \notin Mapped /\ one.source = NoFile THEN "forget"
     ELSE IF one.source = NoFile THEN "gone"
     ELSE IF one.source # one.data THEN "refuse"
     ELSE IF one.to \notin Mapped THEN "discard"
     ELSE IF one.target = NoFile THEN "move"
     ELSE IF Redundant(p) THEN "discard"
     ELSE IF Waits(cat, rec, one.to) THEN "move"
     ELSE "refuse"

DecideNext ==
  /\ Free("decide") /\ run.todo # {}
  /\ LET p == Least(run.todo)
         decided == [run EXCEPT !.todo = @ \ {p}]
     IN CASE Decision(p) = "discard" -> Discarded(p) /\ UNCHANGED rec
          [] Decision(p) = "forget" ->
               /\ rec' = Forgotten(rec, {p})
               /\ run' = [decided EXCEPT !.changed = TRUE]
               /\ UNCHANGED <<disk, own>>
          [] Decision(p) = "gone" ->
               run' = [decided EXCEPT !.gone = @ \cup {p}] /\ UNCHANGED <<rec, disk, own>>
          [] Decision(p) = "move" ->
               /\ run' = [decided EXCEPT !.pending = [q \in DOMAIN @ \cup {p} |-> run.looks[q].to]]
               /\ UNCHANGED <<rec, disk, own>>
          [] OTHER -> run' = decided /\ UNCHANGED <<rec, disk, own>>
  /\ UNCHANGED <<cat, calm>>

DecideDone ==
  /\ Free("decide") /\ run.todo = {}
  /\ run' = [run EXCEPT !.phase = "move"]
  /\ UNCHANGED <<cat, rec, disk, own, calm>>

-----------------------------------------------------------------------------
\* relocate_ready and exchange_cycle

Without(f, p) == [q \in DOMAIN f \ {p} |-> f[q]]

Ready == {p \in DOMAIN run.pending : run.pending[p] \notin DOMAIN run.pending}

\* The device's files change places; what the person put anywhere stays theirs.
Carried(p, q) ==
  (own \ {p, q}) \cup (IF p \in own THEN {q} ELSE {}) \cup (IF q \in own THEN {p} ELSE {})

MoveOne(p) ==
  /\ Free("move") /\ run.cycle = <<>> /\ p \in Ready
  /\ LET to == run.pending[p]
         left == [run EXCEPT !.pending = Without(@, p)]
     IN IF disk[p] # NoFile /\ disk[to] = NoFile
          THEN /\ disk' = [disk EXCEPT ![to] = disk[p], ![p] = NoFile]
               /\ own' = Carried(p, to)
               /\ run' = [left EXCEPT !.owed.rekey = Only(p, to), !.changed = TRUE]
          ELSE run' = left /\ UNCHANGED <<disk, own>>
  /\ UNCHANGED <<cat, rec, calm>>

\* The walk from the first pending file comes back on the members of a cycle.
CycleOf(pending) ==
  LET visit[n \in 0..Cardinality(Paths)] ==
        IF n = 0 THEN Least(DOMAIN pending) ELSE pending[visit[n - 1]]
      back == Least({n \in DOMAIN visit : \E m \in DOMAIN visit : m > n /\ visit[m] = visit[n]})
      again == Least({m \in DOMAIN visit : m > back /\ visit[m] = visit[back]})
  IN [i \in 1..(again - back) |-> visit[back + i - 1]]

BeginCycle ==
  /\ Free("move") /\ run.cycle = <<>> /\ Ready = {} /\ run.pending # <<>>
  /\ LET members == CycleOf(run.pending)
     IN run' = [run EXCEPT !.cycle = members,
                           !.pending = [p \in DOMAIN run.pending \ Range(members) |-> run.pending[p]]]
  /\ UNCHANGED <<cat, rec, disk, own, calm>>

\* The first member's place is exchanged with each other member's in turn; an
\* exchange that is refused refuses the rest.
ExchangeNext ==
  /\ Free("move") /\ run.cycle # <<>>
  /\ IF Len(run.cycle) = 1 \/ disk[run.cycle[1]] = NoFile \/ disk[run.cycle[2]] = NoFile
       THEN run' = [run EXCEPT !.cycle = <<>>] /\ UNCHANGED <<disk, own>>
       ELSE LET p == run.cycle[1]
                q == run.cycle[2]
            IN /\ disk' = [disk EXCEPT ![p] = disk[q], ![q] = disk[p]]
               /\ own' = Carried(p, q)
               /\ run' = [run EXCEPT !.cycle = <<p>> \o SubSeq(@, 3, Len(@)), !.changed = TRUE,
                                     !.owed.rekey = Exchange(p, q)]
  /\ UNCHANGED <<cat, rec, calm>>

MovesDone ==
  /\ Free("move") /\ run.cycle = <<>> /\ run.pending = <<>>
  /\ run' = [run EXCEPT !.phase = "gone"]
  /\ UNCHANGED <<cat, rec, disk, own, calm>>

\* The index write that follows a change of the disk.
RecordIt ==
  /\ run.phase # "idle" /\ run.owed # NothingOwed
  /\ Keep(Marked(cat, Forgotten(Rekeyed(cat, rec, run.owed.rekey), run.owed.forget), run.owed.seen))
  /\ run' = IF run.phase = "end" THEN Idle ELSE [run EXCEPT !.owed = NothingOwed]
  /\ UNCHANGED <<cat, disk, calm>>

-----------------------------------------------------------------------------
\* follow_gone: the record of a vanished file follows its Entry to a vacant
\* path, and is forgotten otherwise.
FollowNext ==
  /\ Free("gone") /\ run.gone # {}
  /\ LET p == Least(run.gone)
         one == run.looks[p]
     IN Keep(IF one.target = NoFile /\ rec[one.to] = NoRecord
               THEN Rekeyed(cat, rec, Only(p, one.to)) ELSE Forgotten(rec, {p}))
  /\ run' = [run EXCEPT !.gone = @ \ {Least(run.gone)}, !.changed = TRUE]
  /\ UNCHANGED <<cat, disk, calm>>

FollowDone ==
  /\ Free("gone") /\ run.gone = {}
  /\ run' = [run EXCEPT !.phase = "relocated"]
  /\ UNCHANGED <<cat, rec, disk, own, calm>>

RelocationStep ==
  \/ FinishNext \/ FinishDone \/ DecideNext \/ DecideDone
  \/ (\E p \in Paths : MoveOne(p)) \/ BeginCycle \/ ExchangeNext \/ MovesDone
  \/ RecordIt \/ FollowNext \/ FollowDone
=============================================================================
