------------------------------ MODULE ServerAdds ------------------------------
(***************************************************************************)
(* What the flows of one server share: the adds it is carrying in, the     *)
(* files they wrote on this device with the reservations of those that     *)
(* asked for a Pack, this device's turn at its pending rows, and the keys. *)
(*                                                                         *)
(* Abstractions.  An add writes one file, which stands for all of its      *)
(* files, and has its name.  What a commit does in the Library is          *)
(* CommitProtocol's; here a batch lands or the run stops.  Drops cut off by *)
(* the end of a server, and deletions and moves, which take the same turn  *)
(* and carry no add, are left out.                                         *)
(***************************************************************************)
EXTENDS Integers, FiniteSets, Sequences, SequencesExt

CONSTANTS
  Adds,      \* the drops made in the life of the server
  Folders,   \* the folders they are made onto
  NoFolder,
  Setups     \* the casts of the instance; one is in force

\* packed: the adds that asked for a Pack.  unkept: those that write over a
\* file this device cannot keep aside.  packs: the folders somebody asks to
\* have packed; queues: those whose book somebody may stop as it waits.
\* asks, syncs, stops, locks, panics: how often each may come (bounds).
\* flaky: a flow or a request may fail.
ASSUME SetupAssumption ==
  Setups \subseteq [drops : SUBSET Adds, packed : SUBSET Adds, unkept : SUBSET Adds,
                    folder : [Adds -> Folders],
                    packs : SUBSET Folders, queues : SUBSET Folders,
                    asks : Nat, syncs : Nat, stops : Nat, locks : Nat, panics : Nat,
                    flaky : BOOLEAN]
ASSUME NoFolderAssumption == NoFolder \notin Folders

VARIABLES
  setup,     \* the cast, chosen once
  left,      \* what of it is still to come
  reg,       \* each add in the registry
  stopping,  \* the adds a person asked to stop
  unkept,    \* those that are writing over a file they could not keep aside
  up,        \* where the request of each add stands
  file,      \* its file: in the folder, or taken away by an undo
  carried,   \* the files a run committed
  resv,      \* its reservation
  keys,      \* open, open and found quiet, or locked
  turn       \* who holds the pending rows, and who waits behind it, in order

shared == <<setup, left, reg, stopping, unkept, up, file, carried, resv, keys, turn>>

Listed(x) == reg[x] \in {"receiving", "armed"}
Packed(x) == x \in setup.packed

-----------------------------------------------------------------------------
(* The stop of a run *)

\* An ask is turned away once the run says it is committing, and saying so
\* takes back an ask that came a moment before.
AskLate(s) == "asked"   \* a bug: one that has begun committing is asked all the same
Ask(s) == IF s = "committing" THEN s ELSE "asked"
Hear(s) == "committing"

-----------------------------------------------------------------------------
(* The registry *)

StoppingOf(X) == X \cap stopping

\* A bug: an add that ended stays marked stopped.
EndUnmarked(X) ==
  /\ reg' = [x \in Adds |-> IF x \in X THEN "ended" ELSE reg[x]]
  /\ unkept' = unkept \ X
  /\ UNCHANGED stopping

\* Adds::end and end_all.
EndAdds(X) ==
  /\ reg' = [x \in Adds |-> IF x \in X THEN "ended" ELSE reg[x]]
  /\ stopping' = stopping \ X
  /\ unkept' = unkept \ X

\* Adds::ask_stop_all marks every add still listed, or none where one of them
\* could not be undone.
Refused(X) == X \cap unkept # {}
MarkStopping(X) == stopping' = stopping \cup {x \in X : Listed(x)}

-----------------------------------------------------------------------------
(* The undo of one add, by whoever carries it *)

\* A bug: what a run committed meanwhile is taken away too.
TakeCarried(x) ==
  \/ file[x] = "here" /\ file' = [file EXCEPT ![x] = "taken"]
  \/ file[x] # "here" /\ UNCHANGED file

\* A file some run committed is the Library's.  One the device cannot remove is
\* left where it is.
TakeAway(x) ==
  \/ file[x] = "here" /\ x \notin carried /\ file' = [file EXCEPT ![x] = "taken"]
  \/ (file[x] # "here" \/ x \in carried \/ setup.flaky) /\ UNCHANGED file

Undo(x) ==
  /\ TakeAway(x)
  /\ resv' = [resv EXCEPT ![x] = "none"]
  /\ EndAdds({x})

-----------------------------------------------------------------------------
(* The turn, which is fair *)

Queue(t) == turn' = Append(turn, t)
HasTurn(t) == turn # <<>> /\ Head(turn) = t
GiveUpTurn(t) == turn' = RemoveFirst(turn, t)

-----------------------------------------------------------------------------
(* The request of an add *)

Up(x, l) == up' = [up EXCEPT ![x] = l]
UpOnly == UNCHANGED <<setup, left, file, carried, resv, keys, turn>>

\* A drop that asked for a Pack holds its reservation before its first file.
BeginAdd(x) ==
  /\ x \in setup.drops /\ up[x] = "none" /\ keys # "locked"
  /\ reg' = [reg EXCEPT ![x] = "receiving"]
  /\ resv' = [resv EXCEPT ![x] = IF Packed(x) THEN "live" ELSE @]
  /\ Up(x, "receiving")
  /\ UNCHANGED <<setup, left, stopping, unkept, file, carried, keys, turn>>

\* An add does not write over what it cannot keep aside once it is stopped.
WriteUnkept(x) ==
  /\ up[x] = "receiving" /\ file[x] = "none" /\ x \in setup.unkept \ unkept
  /\ IF x \in stopping THEN Up(x, "stopped") /\ UNCHANGED unkept
     ELSE unkept' = unkept \cup {x} /\ UNCHANGED up
  /\ UpOnly /\ UNCHANGED <<reg, stopping>>

\* The last bytes of a file land whether or not a stop came since the first.
Land(x) ==
  /\ up[x] = "receiving" /\ file[x] = "none" /\ x \notin setup.unkept \ unkept
  /\ file' = [file EXCEPT ![x] = "here"]
  /\ UNCHANGED <<setup, left, reg, stopping, unkept, up, carried, resv, keys, turn>>

\* Between two files the request looks for a stop, and then for another file.
SeeStop(x) ==
  /\ up[x] = "receiving" /\ x \in stopping
  /\ Up(x, "stopped")
  /\ UpOnly /\ UNCHANGED <<reg, stopping, unkept>>

\* A stop that comes as the last file lands is left to the run.
Received(x) ==
  /\ up[x] = "receiving"
  /\ IF file[x] = "none"
     THEN EndAdds({x}) /\ resv' = [resv EXCEPT ![x] = "none"] /\ Up(x, "done")
     ELSE /\ Up(x, IF Packed(x) THEN "release" ELSE "arm")
          /\ UNCHANGED <<reg, stopping, unkept, resv>>
  /\ UNCHANGED <<setup, left, file, carried, keys, turn>>

\* A broken stream leaves what landed in the folder, and the add is over.
Break(x) ==
  /\ setup.flaky /\ up[x] = "receiving"
  /\ IF x \in stopping
     THEN Up(x, "stopped") /\ UNCHANGED <<reg, stopping, unkept, resv>>
     ELSE EndAdds({x}) /\ resv' = [resv EXCEPT ![x] = "none"] /\ Up(x, "done")
  /\ UNCHANGED <<setup, left, file, carried, keys, turn>>

\* Marked received while held live, and only then let go of.
ReleaseLive(x) ==
  /\ up[x] = "release"
  /\ resv' = [resv EXCEPT ![x] = "received"]
  /\ Up(x, "arm")
  /\ UNCHANGED <<setup, left, reg, stopping, unkept, file, carried, keys, turn>>

\* The add is its run's from here on; one for a sync looks for a stop once more.
ArmAdd(x) ==
  /\ up[x] = "arm"
  /\ reg' = [reg EXCEPT ![x] = "armed"]
  /\ Up(x, IF ~Packed(x) /\ x \in stopping THEN "hand over stopped" ELSE "hand over")
  /\ UpOnly /\ UNCHANGED <<stopping, unkept>>

\* A stopped add that wrote for a sync is the sync's to undo, since a sync under
\* way may be about to read its file; a stopped drop for a Pack undoes itself,
\* its live reservation keeping every run off its file.
StopReceiving(x) ==
  /\ up[x] = "stopped"
  /\ IF ~Packed(x) /\ file[x] # "none"
     THEN /\ reg' = [reg EXCEPT ![x] = "armed"]
          /\ Up(x, "hand over stopped")
          /\ UNCHANGED <<stopping, unkept, file, resv>>
     ELSE /\ TakeAway(x) /\ Up(x, "undone")
          /\ UNCHANGED <<reg, stopping, unkept, resv>>
  /\ UNCHANGED <<setup, left, carried, keys, turn>>

Undone(x) ==
  /\ up[x] = "undone"
  /\ resv' = [resv EXCEPT ![x] = "none"]
  /\ EndAdds({x})
  /\ Up(x, "done")
  /\ UNCHANGED <<setup, left, file, carried, keys, turn>>

\* The steps of the request that need nothing more of the person.
AddStep(x) == SeeStop(x) \/ ReleaseLive(x) \/ ArmAdd(x) \/ StopReceiving(x) \/ Undone(x)
=============================================================================
