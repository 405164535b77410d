----------------------------- MODULE LibraryLog -----------------------------
(***************************************************************************)
(* What a coffret Library promises the devices that share it, with Storage *)
(* and processes out of sight: one log of committed batches, each removing *)
(* only what is current and entering the log once, and on every device an  *)
(* Index that shows what a prefix of that log leaves and never goes back.  *)
(***************************************************************************)
EXTENDS Integers, Sequences

CONSTANTS
  Devices,    \* the devices
  Batches,    \* the batches; a batch names the Container it adds
  Deletes     \* the batches that add nothing

VARIABLES
  log,    \* the batches committed on top of the empty first head
  view    \* what each device's Index shows: a prefix of the log, its Containers

Adds(b) == {b} \ Deletes

\* The Containers current after the first n batches of the log: what each of
\* them added, less what a later one removed.
CurrentAt(n) ==
  UNION {Adds(log[i].batch) \ UNION {log[j].rm : j \in i + 1 .. n} : i \in 1 .. n}

Committed == {log[i].batch : i \in 1 .. Len(log)}

\* A batch that removes what is current becomes the log's next one.
Commit(b) ==
  /\ b \notin Committed
  /\ \E gone \in SUBSET CurrentAt(Len(log)) :
       log' = Append(log, [batch |-> b, rm |-> gone])
  /\ UNCHANGED view

\* A device learns of a longer prefix of the log.
Learn(d) ==
  /\ \E n \in view[d].upto + 1 .. Len(log) :
       view' = [view EXCEPT ![d] = [upto |-> n, cur |-> CurrentAt(n)]]
  /\ UNCHANGED log

\* A device opens its Index before it has read the Library, or just after it
\* was created.
Init ==
  /\ log = <<>>
  /\ view \in [Devices -> {[upto |-> n, cur |-> {}] : n \in {-1, 0}}]

Next ==
  \/ \E d \in Devices : Learn(d)
  \/ \E b \in Batches : Commit(b)

Spec == Init /\ [][Next]_<<log, view>>
=============================================================================
