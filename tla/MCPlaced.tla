------------------------------- MODULE MCPlaced -------------------------------
(***************************************************************************)
(* PlacedProperties for TLC.  Beside the runs it defines OneFile and       *)
(* TwoCopies: the long behaviours about the path an Entry is renamed to,   *)
(* which are lost among all of them.                                       *)
(***************************************************************************)
EXTENDS PlacedProperties

Entry == 1    \* the Entry other devices rename and update
Place == 3    \* the path the person writes at and clears

\* Others commit about the Entry, between the runs of the device.
OthersMeet ==
  left'.others # left.others =>
    LET record == Last(journal')
    IN run = Idle /\ record.removed \cup DOMAIN record.renamed \cup DOMAIN record.put = {Entry}

PersonMeets ==
  left'.person # left.person => \A p \in Mapped \ {Place} : disk'[p] = disk[p]

OneFile == Init /\ [][Next /\ OthersMeet /\ PersonMeets]_vars

\* A file a killed run had moved to its Entry's new path is not taken for an edit
\* of the person's: "the next run re-keys the record without renaming anything"
\* (docs/spec/entry-path/README.md:297, EP-10).  OneFile violates it with three
\* acts of the person.
MovedIsRekeyed == "replayed" \notin torn => Carries \cap own = {}

\* Others rename Entry 2 and update it, then give its old path, by way of it, to
\* Entry 1 and Entry 1's to it, and update it again; the person writes and removes
\* files at the two paths.
Records(n, r) ==
  CASE n = 5 -> r.removed = {} /\ r.renamed = Only(2, 4)
    [] n \in {4, 1} -> DOMAIN r.put = {2}
    [] n = 3 -> r.renamed = Only(1, 2)
    [] n = 2 -> r.renamed = Only(2, 1)

OthersFollow ==
  left'.others # left.others => run = Idle /\ Records(left.others, Last(journal'))

PersonFollows ==
  left'.person # left.person =>
    /\ run = Idle /\ \A p \in Mapped \ {1, 2} : disk'[p] = disk[p]
    /\ (left.person = 3) = (disk'[2] = made + 1) /\ disk'[1] \in {1, NoFile}

TwoCopies == Init /\ [][Next /\ OthersFollow /\ PersonFollows]_vars

\* A record is not re-keyed onto a file the run moved to its path: "A record never
\* points at a path its file was not relocated to" (relocate/mod.rs:57-58).
\* TwoCopies violates it with no kill.
FollowedIsVacant == torn \subseteq {"followed"} => Carries \cap own = {}
===============================================================================
