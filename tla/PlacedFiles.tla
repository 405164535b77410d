------------------------------ MODULE PlacedFiles ------------------------------
(***************************************************************************)
(* One device's mapped folders over the runs that keep them: a sync, which *)
(* relocates, scans, discards what departed and commits what the person    *)
(* did, and a folder fetch, which relocates and places.  The person edits, *)
(* removes, moves and copies files, other devices commit to the Library,   *)
(* and a run may be killed at any step.                                    *)
(*                                                                         *)
(* Abstractions.  Runs of the device take turns, and cover every mapping.  *)
(* A scan reads the folders at one instant, and so does a fetch's          *)
(* selection; what either does later meets the disk as it is then.  What a *)
(* packed file is recorded as is what was read of it then, its time        *)
(* included.  Every Entry is a Container of its own, nothing is reserved   *)
(* for a Pack, and a commit is the landing of its Journal record:          *)
(* CommitProtocol and PendingSettlement have how it lands and what becomes *)
(* of its uploads.                                                         *)
(***************************************************************************)
EXTENDS Relocations

CONSTANTS
  PersonActs,   \* what the person does to the folders (bound)
  OtherActs,    \* the Journal records of other devices (bound)
  Kills         \* the runs that are killed (bound)

ASSUME BoundAssumption == PersonActs \in Nat /\ OtherActs \in Nat /\ Kills \in Nat

VARIABLES
  journal,   \* the committed Journal records the Index has not replayed
  rows,      \* the pending rows: what a commit carried in, until recorded
  held,      \* every content a committed record has held (ghost)
  born,      \* the Entries numbered so far (ghost)
  made,      \* the contents made so far (ghost)
  torn,      \* how runs left files that no later look tells (ghost)
  left       \* the acts and kills still allowed

libraryVars == <<journal, held, born, made>>
vars == <<fileVars, libraryVars, rows, torn, left>>

\* Every mapped path but the last holds an Entry, each fetched but the last;
\* the last is free.
Init ==
  LET last == CHOOSE p \in Mapped : \A q \in Mapped : q <= p
      first == Mapped \ {last}
      placed == first \ {CHOOSE p \in first : \A q \in first : q <= p}
  IN /\ cat = [p \in first |-> [path |-> p, data |-> p]]
     /\ rec = [p \in Paths |-> IF p \in placed THEN [entry |-> p, data |-> p] ELSE NoRecord]
     /\ disk = [p \in Paths |-> IF p \in placed THEN p ELSE NoFile]
     /\ own = placed /\ held = first
     /\ born = Cardinality(Paths) /\ made = Cardinality(Paths)
     /\ run = Idle /\ journal = <<>> /\ rows = {}
     /\ calm = TRUE /\ torn = {}
     /\ left = [person |-> PersonActs, others |-> OtherActs, kills |-> Kills]

-----------------------------------------------------------------------------
\* Other devices.

Record(removed, renamed, put) == [removed |-> removed, renamed |-> renamed, put |-> put]
Library == ApplyAll(cat, rec, journal).cat

Committed(record) ==
  /\ left.others > 0 /\ left' = [left EXCEPT !.others = @ - 1]
  /\ journal' = Append(journal, record)
  /\ held' = held \cup {record.put[e].data : e \in DOMAIN record.put}
  /\ UNCHANGED <<fileVars, rows, torn>>

OtherRename ==
  \E e \in DOMAIN Library, p \in Paths \ PathsOf(Library) :
    Committed(Record({}, Only(e, p), <<>>)) /\ UNCHANGED <<born, made>>

OtherSwap ==
  \E e, f \in DOMAIN Library :
    /\ e < f
    /\ Committed(Record({}, [g \in {e, f} |-> Library[IF g = e THEN f ELSE e].path], <<>>))
    /\ UNCHANGED <<born, made>>

OtherRemove ==
  \E e \in DOMAIN Library : Committed(Record({e}, <<>>, <<>>)) /\ UNCHANGED <<born, made>>

OtherUpdate ==
  \E e \in DOMAIN Library :
    /\ Committed(Record({}, <<>>, Only(e, [path |-> Library[e].path, data |-> made + 1])))
    /\ made' = made + 1 /\ UNCHANGED born

OtherAdd ==
  \E p \in Paths \ PathsOf(Library) :
    /\ Committed(Record({}, <<>>, Only(born + 1, [path |-> p, data |-> made + 1])))
    /\ made' = made + 1 /\ born' = born + 1

Others == OtherRename \/ OtherSwap \/ OtherRemove \/ OtherUpdate \/ OtherAdd

-----------------------------------------------------------------------------
\* The person.

Touch(files, theirs) ==
  /\ left.person > 0 /\ left' = [left EXCEPT !.person = @ - 1]
  /\ disk' = files /\ own' = own \ theirs
  /\ calm' = (run = Idle /\ calm)
  /\ UNCHANGED <<cat, rec, run, journal, rows, held, born, torn>>

Write(p) ==
  Touch([disk EXCEPT ![p] = made + 1], {p}) /\ made' = made + 1

TakeAway(p) ==
  disk[p] # NoFile /\ Touch([disk EXCEPT ![p] = NoFile], {p}) /\ UNCHANGED made

Move(p, q) ==
  /\ disk[p] # NoFile /\ disk[q] = NoFile
  /\ Touch([disk EXCEPT ![q] = disk[p], ![p] = NoFile], {p}) /\ UNCHANGED made

Copy(p, q) ==
  /\ disk[p] # NoFile /\ disk[q] = NoFile
  /\ Touch([disk EXCEPT ![q] = disk[p]], {}) /\ UNCHANGED made

Person ==
  \E p \in Mapped :
    Write(p) \/ TakeAway(p) \/ \E q \in Mapped : Move(p, q) \/ Copy(p, q)

-----------------------------------------------------------------------------
\* A run begins: the catch-up, and the pending rows of a commit whose Index
\* refresh was lost, completed where their Container is current.

\* Records are replayed over a file the device put at a path and has not
\* recorded there.
TornBy(records) ==
  IF records # <<>> /\ \E p \in own : disk[p] # rec[p].data THEN {"replayed"} ELSE {}

\* Another Entry than e stands at a path, or a record to be replayed puts one there.
Comes(p, e) ==
  \/ \E f \in DOMAIN cat \ {e} : cat[f].path = p
  \/ \E r \in Range(journal) :
       \/ \E f \in DOMAIN r.put \ {e} : r.put[f].path = p
       \/ \E f \in DOMAIN r.renamed \ {e} : r.renamed[f] = p

\* The paths whose records a replay forgets because another Entry stood there.
Surrendered(records) ==
  {p \in Paths : rec[p] # NoRecord /\ records[p] = NoRecord /\ Comes(p, rec[p].entry)}

Completes(catalog, o) == o.entry \in DOMAIN catalog /\ catalog[o.entry].data = o.data

Start(kind) ==
  /\ run = Idle
  /\ LET caught == ApplyAll(cat, rec, journal)
         done == {o \in rows : Completes(caught.cat, o)}
     IN /\ cat' = caught.cat
        /\ rec' = Marked(caught.cat, caught.rec, done)
        /\ own' = own \ Surrendered(caught.rec)
        /\ run' = [phase |-> "look", kind |-> kind, owed |-> NothingOwed]
  /\ journal' = <<>> /\ rows' = {}
  /\ torn' = torn \cup TornBy(journal)
  /\ UNCHANGED <<disk, calm, held, born, made, left>>

Look ==
  /\ Free("look")
  /\ run' = Relocating(run.kind, Looks)
  /\ calm' = TRUE
  /\ UNCHANGED <<cat, rec, disk, own, libraryVars, rows, torn, left>>

\* The record of a gone file follows its Entry to a path where nothing was seen
\* and the device has moved a file since.
FollowedOver ==
  /\ run.phase = "gone" /\ run.gone # {}
  /\ LET one == run.looks[Least(run.gone)]
     IN one.target = NoFile /\ rec[one.to] = NoRecord /\ one.to \in own

Relocate ==
  /\ RelocationStep
  /\ torn' = torn \cup (IF FollowedOver THEN {"followed"} ELSE {})
  /\ UNCHANGED <<libraryVars, rows, left>>

-----------------------------------------------------------------------------
\* The scan of a sync.

EntryAt(p) == p \in PathsOf(cat)
Considered == {p \in Mapped : ~Waits(cat, rec, p)}
Standing == {p \in Considered : disk[p] # NoFile}

\* without_entry: a file where the Library holds no Entry.
NewFiles == {p \in Standing : ~EntryAt(p) /\ rec[p] = NoRecord}

\* A bug: a departed file is not compared with its record.
DepartedUnasked == {p \in Standing : ~EntryAt(p) /\ rec[p] # NoRecord}

Departed == {p \in Standing : ~EntryAt(p) /\ rec[p] # NoRecord /\ disk[p] = rec[p].data}

\* A file that differs from the record of the Entry at its path.
Changed ==
  {p \in Standing : /\ EntryAt(p) /\ rec[p].entry = HolderOf(cat, p)
                    /\ disk[p] # rec[p].data}
Refreshed == {p \in Changed : disk[p] = cat[rec[p].entry].data}

\* deletions: the records whose file the walk did not find.
Gone == {p \in Considered : disk[p] = NoFile /\ rec[p] # NoRecord}
DeletedLocally == {p \in Gone : EntryAt(p)}

\* pair_renames: one gone file and one appeared file of a content, and no
\* file of the device's still standing with it.
GoneWith(d) ==
  {p \in DeletedLocally : rec[p].entry = HolderOf(cat, p) /\ cat[rec[p].entry].data = d}
AppearedWith(d) == {p \in NewFiles : disk[p] = d}
StandingWith(d) == {p \in Standing : rec[p].data = d}

Pairs ==
  {pair \in DeletedLocally \X NewFiles :
     LET d == disk[pair[2]] IN
     GoneWith(d) = {pair[1]} /\ AppearedWith(d) = {pair[2]} /\ StandingWith(d) = {}}

Scan ==
  /\ Free("relocated") /\ run.kind = "sync"
  /\ run' = [phase |-> "depart", owed |-> NothingOwed,
             departed |-> Departed, forgotten |-> Gone \ DeletedLocally,
             refreshed |-> {[path |-> p, entry |-> rec[p].entry, data |-> disk[p]] : p \in Refreshed},
             adds |-> NewFiles \ {pair[2] : pair \in Pairs},
             updates |-> {[path |-> p, entry |-> rec[p].entry] : p \in Changed \ Refreshed},
             renames |-> {[entry |-> rec[pair[1]].entry, from |-> pair[1], to |-> pair[2]] : pair \in Pairs}]
  /\ calm' = TRUE
  /\ UNCHANGED <<cat, rec, disk, own, libraryVars, rows, torn, left>>

\* The rows of files that are gone with their Entries, then the departed files.
Forget ==
  /\ Free("depart") /\ run.forgotten # {}
  /\ Keep(Forgotten(rec, run.forgotten))
  /\ run' = [run EXCEPT !.forgotten = {}]
  /\ UNCHANGED <<cat, disk, calm, libraryVars, rows, torn, left>>

DiscardDeparted(p) ==
  /\ Free("depart") /\ run.forgotten = {} /\ p \in run.departed
  /\ IF disk[p] = NoFile
       THEN UNCHANGED <<disk, own>> /\ run' = [run EXCEPT !.departed = @ \ {p}]
       ELSE /\ disk' = [disk EXCEPT ![p] = NoFile]
            /\ own' = own \ {p}
            /\ run' = [run EXCEPT !.departed = @ \ {p}, !.owed.forget = {p}]
  /\ UNCHANGED <<cat, rec, calm, libraryVars, rows, torn, left>>

\* The candidates are read again as they are packed; a file that is gone by
\* then fails the run.  What was refreshed is recorded after the uploads.
Carrying == run.adds \cup {u.path : u \in run.updates}

Pack ==
  /\ Free("depart") /\ run.forgotten = {} /\ run.departed = {}
  /\ IF \E p \in Carrying : disk[p] = NoFile
       THEN run' = Idle /\ UNCHANGED <<rec, own>>
       ELSE /\ Keep(Marked(cat, rec, run.refreshed))
            /\ run' = IF Carrying = {} /\ run.renames = {} THEN Idle
                      ELSE [phase |-> "commit", owed |-> NothingOwed,
                            adds |-> {[path |-> p, data |-> disk[p]] : p \in run.adds},
                            updates |-> {[path |-> u.path, entry |-> u.entry, data |-> disk[u.path]] :
                                           u \in run.updates},
                            renames |-> run.renames]
  /\ UNCHANGED <<cat, disk, calm, libraryVars, rows, torn, left>>

-----------------------------------------------------------------------------
\* The commit: a batch other devices' records went past is rebased or refused.

Renamed(e) == \E r \in Range(journal) : e \in DOMAIN r.renamed
Replaced(e) == \E r \in Range(journal) : e \in DOMAIN r.put

\* A bug: the paths of the additions are not checked again.
AdmitsAnyPath(catalog) ==
  \A u \in run.updates : u.entry \in DOMAIN catalog /\ ~Replaced(u.entry)

Admits(catalog) ==
  /\ \A a \in run.adds : a.path \notin PathsOf(catalog)
  /\ \A u \in run.updates : u.entry \in DOMAIN catalog /\ ~Replaced(u.entry)
  /\ \A m \in run.renames :
       m.entry \in DOMAIN catalog /\ ~Renamed(m.entry) /\ m.to \notin PathsOf(catalog)

\* The additions are numbered in path order; an update takes over at the path
\* its Entry has by now.
Numbered == [a \in run.adds |-> born + Cardinality({b \in run.adds : b.path <= a.path})]

Put(catalog) ==
  [e \in Range(Numbered) \cup {u.entry : u \in run.updates} |->
     IF e > born
       THEN CHOOSE a \in run.adds : Numbered[a] = e
       ELSE [path |-> catalog[e].path, data |-> (CHOOSE u \in run.updates : u.entry = e).data]]

Commit ==
  /\ Free("commit")
  /\ LET caught == ApplyAll(cat, rec, journal)
         put == Put(caught.cat)
     IN /\ cat' = caught.cat /\ rec' = caught.rec
        /\ own' = own \ Surrendered(caught.rec)
        /\ IF Admits(caught.cat)
             THEN /\ journal' = <<Record({}, [e \in {m.entry : m \in run.renames} |->
                                    (CHOOSE m \in run.renames : m.entry = e).to], put)>>
                  /\ rows' = {[path |-> a.path, entry |-> Numbered[a], data |-> a.data] : a \in run.adds}
                             \cup run.updates
                  /\ held' = held \cup {put[e].data : e \in DOMAIN put}
                  /\ born' = born + Cardinality(run.adds)
                  /\ run' = [phase |-> "refresh", owed |-> NothingOwed, renames |-> run.renames]
             ELSE run' = Idle /\ journal' = <<>> /\ UNCHANGED <<rows, held, born>>
  /\ torn' = torn \cup TornBy(journal)
  /\ UNCHANGED <<disk, calm, made, left>>

\* One transaction applies the record and marks what it carried; the renamed
\* files' rows follow in another.
Refresh ==
  /\ Free("refresh")
  /\ LET caught == Apply([cat |-> cat, rec |-> rec], Head(journal))
         records == Marked(caught.cat, caught.rec, rows)
     IN /\ cat' = caught.cat
        /\ rec' = records
        /\ own' = (own \ Surrendered(records))
                  \cup {o.path : o \in {o \in rows : disk[o.path] = o.data}}
  /\ rows' = {} /\ journal' = Tail(journal)
  /\ run' = IF run.renames = {} THEN Idle
            ELSE [phase |-> "end", owed |-> [NothingOwed EXCEPT
                    !.rekey = [p \in {m.from : m \in run.renames} |->
                                 (CHOOSE m \in run.renames : m.from = p).to]]]
  /\ UNCHANGED <<disk, calm, held, born, made, torn, left>>

-----------------------------------------------------------------------------
\* The fetch: an Entry is wanted where nothing stands and no record is of it.

Wanted ==
  {e \in DOMAIN cat : /\ cat[e].path \in Mapped /\ disk[cat[e].path] = NoFile
                      /\ ~IsCopy(rec, cat, e)}

\* A file the device placed and finds as it recorded it is left as it is.
Skipped ==
  {e \in DOMAIN cat : LET p == cat[e].path IN
     p \in Mapped /\ disk[p] # NoFile /\ IsCopy(rec, cat, e) /\ rec[p].data = disk[p]}

Select ==
  /\ Free("relocated") /\ run.kind = "fetch"
  /\ run' = [phase |-> "place", owed |-> NothingOwed, wanted |-> Wanted]
  /\ calm' = TRUE
  /\ UNCHANGED <<cat, rec, disk, own, libraryVars, rows, torn, left>>

\* The verified scratch is renamed onto the path, whatever stands there now.
Publish(e) ==
  /\ Free("place") /\ e \in run.wanted
  /\ LET p == cat[e].path
     IN /\ disk' = [disk EXCEPT ![p] = cat[e].data]
        /\ own' = own \cup {p}
        /\ run' = [run EXCEPT !.wanted = @ \ {e},
                              !.owed.seen = {[path |-> p, entry |-> e, data |-> cat[e].data]}]
  /\ UNCHANGED <<cat, rec, calm, libraryVars, rows, torn, left>>

PublishDone ==
  /\ Free("place") /\ run.wanted = {} /\ run' = Idle
  /\ UNCHANGED <<cat, rec, disk, own, calm, libraryVars, rows, torn, left>>

-----------------------------------------------------------------------------
\* A file was moved to a path where a record of its Entry stands already.
Overlaid ==
  \E p \in DOMAIN run.owed.rekey :
    LET to == run.owed.rekey[p] IN rec[to] # NoRecord /\ rec[to].entry = rec[p].entry

Kill ==
  /\ run # Idle /\ left.kills > 0
  /\ torn' = torn \cup (IF Overlaid THEN {"overlaid"} ELSE {})
  /\ left' = [left EXCEPT !.kills = @ - 1]
  /\ run' = Idle
  /\ UNCHANGED <<cat, rec, disk, own, calm, libraryVars, rows>>

SyncStep ==
  Scan \/ Forget \/ (\E p \in Paths : DiscardDeparted(p)) \/ Pack \/ Commit \/ Refresh

FetchStep == Select \/ (\E e \in DOMAIN cat : Publish(e)) \/ PublishDone

Next ==
  \/ Others \/ Person \/ Kill
  \/ Start("sync") \/ Start("fetch") \/ Look \/ Relocate \/ SyncStep \/ FetchStep

Spec == Init /\ [][Next]_vars
=============================================================================
