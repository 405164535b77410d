----------------------------- MODULE FateProofs -----------------------------
(***************************************************************************)
(* What becomes of the Containers a device makes: that nothing a record    *)
(* names is disposed of, before the record lands or after; that a row      *)
(* whose create may still land stands with its spool; that nothing         *)
(* reclaimed leaves an object behind; and that every step is one of        *)
(* ContainerFate or none.                                                  *)
(***************************************************************************)
EXTENDS SettlementProofs

-----------------------------------------------------------------------------
(* The invariant *)

\* Reads fail, and other devices remove what this one committed; and that no
\* setting has both.
Both == setup.unreliable /\ setup.rivalsRemove
OneTrouble == \A s \in Setups : ~(s.unreliable /\ s.rivalsRemove)

\* The records of a batch; that it is in one, and may come to be in another; that
\* no create of it may land any more, except so.
OwnAt(b) == {g \in 1 .. Len(chain) : chain[g].batch = b}
Again(b) == Both /\ OwnAt(b) # {}
Safe(b) == Again(b) \/ \A r \in sent : r.batch = b => r.gen <= Len(chain)
Closed(g) == Safe(chain[g].batch)

\* What a batch already added was removed again, and the records are pruned, as
\* far as reads that do not fail can tell.
Bygone(b) ==
  \/ Both
  \/ \A g \in OwnAt(b) :
       g \notin live /\ \A c \in Of(b) : \E h \in g + 1 .. idx : c \in chain[h].rm

\* A record names an object of each Container of its batch, and no other.
Whole(refs, b) ==
  /\ \A o \in refs : o[1] \in Of(b)
  /\ \A c \in Of(b) : ObjectsOf(c, refs) # {}

Sends ==
  \A r \in sent :
    /\ r.gen <= idx + 1 /\ Of(r.batch) \subseteq used /\ Whole(r.refs, r.batch)
    /\ r.gen = Len(chain) + 1 =>
         /\ Bygone(r.batch) /\ r.refs \subseteq stored
         /\ \A c \in Of(r.batch) :
              row[c].state # "none" => row[c].tried /\ r.gen \in slots[r.batch]
         /\ Again(r.batch) \/ \A c \in Of(r.batch) : row[c].tried /\ c \in spools

Records ==
  /\ \A g \in 1 .. Len(chain) : chain[g].batch # NoBatch =>
       /\ Of(chain[g].batch) \subseteq used
       /\ Whole(chain[g].refs, chain[g].batch) /\ chain[g].refs \subseteq stored
  /\ ~setup.rivalsRemove => \A g \in 1 .. Len(chain) : chain[g].rm = {}

\* A row whose Container is committed can be told to be.
Tells ==
  \A c \in Containers :
    /\ row[c].state = "uploaded" => row[c].obj[1] = c
    /\ row[c].state # "none" =>
         \A g \in OwnAt(BatchOf[c]) : row[c].tried /\ g \in slots[BatchOf[c]]

\* A batch that is being made is in no record, and what was made of it stands.
Stands(c) == row[c].state \in {"spooled", "uploaded"} /\ c \in spools
Makes(h) ==
  /\ h.pc \in Making =>
       /\ h.bat \in Batches /\ OwnAt(h.bat) = {}
       /\ \A r \in sent : r.batch # h.bat
  /\ h.pc \in {"scan", "spool", "write", "whole"} => h.got = {}
  /\ h.pc \in {"spool", "write", "whole"} =>
       \A c \in Of(h.bat) \ h.todo : Stands(c)
  /\ h.pc = "spool" => h.todo \cap used = {}
  /\ h.pc \in {"write", "whole"} =>
       h.at \in h.todo /\ h.todo \cap used \subseteq {h.at}
  /\ h.pc = "whole" => h.at \in spools
  /\ h.pc \in {"upload", "putting", "handle"} =>
       /\ \A c \in Of(h.bat) : Stands(c)
       /\ h.got \subseteq stored /\ \A o \in h.got : o[1] \in Of(h.bat)
       /\ \A c \in Of(h.bat) \ h.todo : ObjectsOf(c, h.got) # {}
  /\ h.pc \in {"putting", "handle"} => h.obj[1] = h.at
  /\ h.pc = "handle" => h.obj \in stored

\* The calls of a commit: what it found of its own batch before it aimed.
Trying == {"list", "catchup", "aim", "attempt", "send", "await", "readback"}
Tries(h) ==
  /\ h.pc \in Trying /\ h.bat # NoBatch =>
       /\ \A c \in Of(h.bat) : Stands(c)
       /\ h.got \subseteq stored /\ Whole(h.got, h.bat)
       /\ Of(h.bat) \subseteq used
  /\ h.pc \in {"list", "catchup", "aim", "attempt", "send"} /\ h.bat # NoBatch
     /\ ~setup.unreliable
     => Safe(h.bat) /\ \A g \in OwnAt(h.bat) : g \notin live
  /\ h.pc \in {"await", "readback"} /\ ~setup.unreliable =>
       /\ \A r \in sent : r.batch = h.bat => r.gen <= Len(chain) \/ r.gen = h.slot
       /\ \A g \in OwnAt(h.bat) : g = h.slot \/ g \notin live
       /\ h.pc = "readback" => h.slot <= Len(chain)
  /\ h.pc \in {"attempt", "send", "await", "readback"} =>
       h.slot <= idx + 1 /\ \A r \in sent : r.batch = h.bat => r.gen <= h.slot
  /\ h.pc \in {"attempt", "send"} /\ h.slot = Len(chain) + 1 => Bygone(h.bat)
  /\ h.pc = "send" =>
       h.slot \in slots[h.bat] /\ \A c \in Of(h.bat) : row[c].tried
  /\ h.pc \in {"refresh", "discard"} => Safe(h.bat) /\ OwnAt(h.bat) # {}
  /\ h.pc = "discard" => h.todo \subseteq Of(h.bat)

\* The calls of a settlement: what it has read of a batch leaves no create of
\* it to land.
Judges(h) ==
  /\ h.pc = "idle" => h = NoRun
  /\ h.pc \in {"rows", "settle", "trash", "clear", "scan"} => h.bat = NoBatch
  /\ h.pc \in {"catchup", "rows"} /\ h.bat = NoBatch =>
       \A g \in h.recs : Closed(g)
  /\ h.pc \in {"settle", "trash", "clear"} =>
       /\ \A c \in h.seen : Safe(BatchOf[c]) /\ OwnAt(BatchOf[c]) # {}
       /\ \A s \in h.proof : s[2] \in 1 .. Len(chain) /\ Closed(s[2])
       /\ \A c \in h.todo : row[c].state # "none"
  /\ h.pc \in {"trash", "clear"} =>
       h.at \in h.todo /\ Safe(BatchOf[h.at])
  /\ h.pc = "trash" => OwnAt(BatchOf[h.at]) = {}

\* What the processes hold.
InHand == {run[p] : p \in Procs}

FateInv ==
  /\ AccountInv /\ Sends /\ Records /\ Tells
  /\ \A h \in InHand : Makes(h) /\ Tries(h) /\ Judges(h)


\* No two puts of a Container make two objects, or one may land late anyway.
OneObject == \A s \in Setups : s.latePuts \/ ~s.minting \/ s.puts = 1

\* Where no put outlives its run, what is on Storage, or on its way there, is of
\* a record or of a row that a settlement would look for it by.
Ends(c) == OwnAt(BatchOf[c]) # {} \/ row[c].state \in {"spooled", "uploaded"}
Stocked == \A o \in stored : o[2] = 1 /\ Ends(o[1])
Coming ==
  \A o \in putting :
    Ends(o[1]) /\ \E h \in InHand : h.pc # "idle" /\ h.bat = BatchOf[o[1]]
Handled == \A c \in Containers : row[c].state = "uploaded" => row[c].obj[2] = 1

\* A sync judges with all of Storage listed; the row it takes away next has no
\* object, or a record.
Lists(h) ==
  /\ \A o \in h.objs : o[2] = 1
  /\ h.pc \in {"catchup", "rows", "settle", "trash", "clear"} /\ h.flow = "sync" /\ h.bat = NoBatch
       => stored \subseteq h.objs
  /\ h.pc = "trash" => h.flow = "sync"
  /\ h.pc = "clear" => OwnAt(BatchOf[h.at]) # {} \/ ObjectsOf(h.at, stored) = {}

GoneInv ==
  ~setup.latePuts => Stocked /\ Coming /\ Handled /\ \A h \in InHand : Lists(h)
-----------------------------------------------------------------------------
(* What stays when a step is not about it *)

\* What a step finds in the variables.
LEMMA Found ==
  ASSUME TypeInv
  PROVE  /\ Len(chain) \in Nat /\ idx \in 0 .. Len(chain) /\ live \subseteq 1 .. Len(chain)
         /\ \A r \in sent : r.gen \in Nat /\ r.batch \in Batches
         /\ \A p \in Procs : run[p].recs \subseteq 1 .. Len(chain) /\ run[p].slot \in Nat
         /\ \A b \in Batches : Of(b) # {} /\ b # NoBatch
         /\ \A c \in Containers : BatchOf[c] \in Batches /\ c \in Of(BatchOf[c])
<1>1. \A p \in Procs : run[p] \in Holdings /\ run[p].recs \subseteq 1 .. Len(chain)
  BY DEF TypeInv, TypeOK, Ready
<1>2. \A p \in Procs : run[p].slot \in Nat
  BY <1>1 DEF Holdings
<1>3. /\ \A b \in Batches : Of(b) # {} /\ b # NoBatch
      /\ \A c \in Containers : BatchOf[c] \in Batches /\ c \in Of(BatchOf[c])
  BY DataAssumption DEF Of
<1> QED BY <1>1, <1>2, <1>3 DEF TypeInv, TypeOK

\* The records of a batch, and whether creates of it may land, are of the chain.
LEMMA ChainStays ==
  ASSUME UNCHANGED <<setup, chain, sent>>
  PROVE  /\ \A b : OwnAt(b)' = OwnAt(b) /\ Safe(b)' = Safe(b)
         /\ \A g : Closed(g)' = Closed(g)
BY DEF OwnAt, Safe, Closed, Again, Both

LEMMA BygoneStays ==
  ASSUME TypeInv, TypeInv', UNCHANGED <<setup, chain>>, live' \subseteq live, idx <= idx'
  PROVE  \A b : Bygone(b) => Bygone(b)'
<1> SUFFICES ASSUME NEW b, Bygone(b), ~Both PROVE Bygone(b)'
  BY DEF Bygone, Both
<1>1. idx \in Nat /\ idx' \in Nat
  BY DEF TypeInv, TypeOK
<1>2. ASSUME NEW g \in OwnAt(b)
      PROVE  g \notin live' /\ \A c \in Of(b) : \E h \in g + 1 .. idx' : c \in chain[h].rm
  <2>1. g \notin live /\ \A c \in Of(b) : \E h \in g + 1 .. idx : c \in chain[h].rm
    BY <1>2 DEF Bygone
  <2>2. g + 1 .. idx \subseteq g + 1 .. idx'
    BY <1>1, <1>2 DEF OwnAt
  <2> QED BY <2>1, <2>2
<1>3. OwnAt(b)' = OwnAt(b)
  BY DEF OwnAt
<1> QED BY <1>2, <1>3 DEF Bygone

\* What no create of may land may lose its spool, what is in no record either
\* its object.
Discards ==
  /\ \A o \in stored \ stored' : OwnAt(BatchOf[o[1]]) = {} /\ Safe(BatchOf[o[1]])
  /\ \A c \in spools \ spools' : Safe(BatchOf[c])

Globals == Sends /\ Records /\ Tells

LEMMA QuietGlobal ==
  ASSUME FateInv, TypeInv', UNCHANGED <<setup, chain, sent, row, slots>>,
         live' \subseteq live, idx <= idx', used \subseteq used', Discards
  PROVE  Globals'
<1>1. TypeInv
  BY DEF FateInv, AccountInv
<1>2. Sends'
  <2> SUFFICES ASSUME NEW r \in sent
               PROVE  /\ r.gen <= idx' + 1 /\ Of(r.batch) \subseteq used'
                      /\ Whole(r.refs, r.batch)
                      /\ r.gen = Len(chain) + 1 =>
                           /\ Bygone(r.batch)' /\ r.refs \subseteq stored'
                           /\ \A c \in Of(r.batch) :
                                row[c].state # "none" => row[c].tried /\ r.gen \in slots[r.batch]
                           /\ \/ Again(r.batch)
                              \/ \A c \in Of(r.batch) : row[c].tried /\ c \in spools'
    BY DEF Sends, Again, Both, OwnAt
  <2>1. r.gen <= idx + 1 /\ Of(r.batch) \subseteq used /\ Whole(r.refs, r.batch)
    BY DEF FateInv, Sends
  <2>2. r.gen \in Nat /\ idx \in Nat /\ idx' \in Nat /\ Len(chain) \in Nat
    BY <1>1, Found DEF TypeInv, TypeOK
  <2>3. ASSUME r.gen = Len(chain) + 1
        PROVE  /\ Bygone(r.batch)' /\ r.refs \subseteq stored'
               /\ \A c \in Of(r.batch) :
                    row[c].state # "none" => row[c].tried /\ r.gen \in slots[r.batch]
               /\ Again(r.batch) \/ \A c \in Of(r.batch) : row[c].tried /\ c \in spools'
    <3>1. /\ Bygone(r.batch) /\ r.refs \subseteq stored
          /\ \A c \in Of(r.batch) :
               row[c].state # "none" => row[c].tried /\ r.gen \in slots[r.batch]
          /\ Again(r.batch) \/ \A c \in Of(r.batch) : row[c].tried /\ c \in spools
      BY <2>3 DEF FateInv, Sends
    <3>2. Safe(r.batch) => Again(r.batch) /\ OwnAt(r.batch) # {}
      BY <2>2, <2>3 DEF Safe, Again
    <3>3. Bygone(r.batch)'
      BY <1>1, <3>1, BygoneStays
    <3>4. \A o \in r.refs : BatchOf[o[1]] = r.batch
      BY <2>1 DEF Whole, Of
    <3>5. r.refs \subseteq stored'
      BY <3>1, <3>2, <3>4 DEF Discards
    <3>6. Again(r.batch) \/ \A c \in Of(r.batch) : c \in spools'
      BY <3>1, <3>2 DEF Discards, Of
    <3> QED BY <3>1, <3>3, <3>5, <3>6
  <2> QED BY <2>1, <2>2, <2>3
<1>3. Records'
  <2>1. ASSUME NEW g \in 1 .. Len(chain), chain[g].batch # NoBatch
        PROVE  /\ Of(chain[g].batch) \subseteq used' /\ Whole(chain[g].refs, chain[g].batch)
               /\ chain[g].refs \subseteq stored'
    <3>1. /\ Of(chain[g].batch) \subseteq used /\ Whole(chain[g].refs, chain[g].batch)
          /\ chain[g].refs \subseteq stored
      BY <2>1 DEF FateInv, Records
    <3>2. g \in OwnAt(chain[g].batch)
      BY DEF OwnAt
    <3>3. \A o \in chain[g].refs : BatchOf[o[1]] = chain[g].batch
      BY <3>1 DEF Whole, Of
    <3> QED BY <3>1, <3>2, <3>3 DEF Discards
  <2> QED BY <2>1 DEF FateInv, Records
<1>4. Tells'
  BY ChainStays DEF FateInv, Tells
<1> QED BY <1>2, <1>3, <1>4 DEF Globals

\* Rows may be taken away whose batch is not to be decided any more.
LEMMA ClearGlobal ==
  ASSUME FateInv, TypeInv', UNCHANGED <<setup, chain, sent, live, stored, spools, used>>,
         idx <= idx', NEW S \in SUBSET Containers, Clear(S), \A c \in S : Safe(BatchOf[c])
  PROVE  Globals'
<1>1. TypeInv
  BY DEF FateInv, AccountInv
<1>2. \A c \in Containers : row'[c] = IF c \in S THEN NoRow ELSE row[c]
  BY DEF Clear
<1>3. \A c \in Containers \ S : row[c].state # "none" => slots'[BatchOf[c]] = slots[BatchOf[c]]
  BY <1>1, Found DEF Clear
<1>4. Sends'
  <2> SUFFICES ASSUME NEW r \in sent
               PROVE  /\ r.gen <= idx' + 1 /\ Of(r.batch) \subseteq used
                      /\ Whole(r.refs, r.batch)
                      /\ r.gen = Len(chain) + 1 =>
                           /\ Bygone(r.batch)' /\ r.refs \subseteq stored
                           /\ \A c \in Of(r.batch) :
                                row'[c].state # "none" =>
                                  row'[c].tried /\ r.gen \in slots'[r.batch]
                           /\ \/ Again(r.batch)
                              \/ \A c \in Of(r.batch) : row'[c].tried /\ c \in spools
    BY DEF Sends, Again, Both, OwnAt
  <2>1. r.gen <= idx + 1 /\ Of(r.batch) \subseteq used /\ Whole(r.refs, r.batch)
    BY DEF FateInv, Sends
  <2>2. r.gen \in Nat /\ idx \in Nat /\ idx' \in Nat /\ Len(chain) \in Nat /\ r.batch \in Batches
    BY <1>1, Found DEF TypeInv, TypeOK
  <2>3. ASSUME r.gen = Len(chain) + 1
        PROVE  /\ Bygone(r.batch)' /\ r.refs \subseteq stored
               /\ \A c \in Of(r.batch) :
                    row'[c].state # "none" => row'[c].tried /\ r.gen \in slots'[r.batch]
               /\ Again(r.batch) \/ \A c \in Of(r.batch) : row'[c].tried /\ c \in spools
    <3>1. /\ Bygone(r.batch) /\ r.refs \subseteq stored
          /\ \A c \in Of(r.batch) :
               row[c].state # "none" => row[c].tried /\ r.gen \in slots[r.batch]
          /\ Again(r.batch) \/ \A c \in Of(r.batch) : row[c].tried /\ c \in spools
      BY <2>3 DEF FateInv, Sends
    <3>2. Safe(r.batch) => Again(r.batch)
      BY <2>2, <2>3 DEF Safe
    <3>3. Bygone(r.batch)'
      BY <1>1, <3>1, BygoneStays
    <3>4. \A c \in Of(r.batch) : c \in Containers /\ BatchOf[c] = r.batch
      BY DEF Of
    <3>5. ASSUME ~Again(r.batch) PROVE \A c \in Of(r.batch) : row'[c] = row[c]
      BY <1>2, <3>2, <3>4, <3>5
    <3>6. ASSUME NEW c \in Of(r.batch), row'[c].state # "none"
          PROVE  row'[c].tried /\ r.gen \in slots'[r.batch]
      <4>1. NoRow.state = "none"
        BY DEF NoRow
      <4>2. c \notin S /\ row'[c] = row[c]
        BY <1>2, <3>4, <3>6, <4>1
      <4> QED BY <1>3, <3>1, <3>4, <3>6, <4>2
    <3> QED BY <3>1, <3>3, <3>5, <3>6
  <2> QED BY <2>1, <2>2, <2>3
<1>5. Records'
  BY DEF FateInv, Records
<1>6. Tells'
  <2> SUFFICES ASSUME NEW c \in Containers, row'[c].state # "none"
               PROVE  /\ row'[c].state = "uploaded" => row'[c].obj[1] = c
                      /\ \A g \in OwnAt(BatchOf[c]) : row'[c].tried /\ g \in slots'[BatchOf[c]]
    BY ChainStays DEF Tells
  <2>1. c \notin S /\ row'[c] = row[c]
    <3>1. NoRow.state = "none"
      BY DEF NoRow
    <3> QED BY <1>2, <3>1
  <2> QED BY <1>3, <2>1 DEF FateInv, Tells
<1> QED BY <1>4, <1>5, <1>6 DEF Globals

\* So may the row of a Container whose batch is in no record and no create change.
LEMMA MakeGlobal ==
  ASSUME FateInv, TypeInv', UNCHANGED <<setup, chain, sent, live, stored, spools, idx, slots>>,
         used \subseteq used', NEW c \in Containers, OwnAt(BatchOf[c]) = {},
         \A r \in sent : r.batch # BatchOf[c], \A d \in Containers \ {c} : row'[d] = row[d],
         row'[c].state = "uploaded" => row'[c].obj[1] = c
  PROVE  Globals'
<1>1. TypeInv
  BY DEF FateInv, AccountInv
<1>2. Sends'
  <2>1. \A r \in sent : \A d \in Of(r.batch) : row'[d] = row[d]
    BY DEF Of
  <2>2. \A b : Bygone(b) => Bygone(b)'
    BY <1>1, BygoneStays DEF TypeInv, TypeOK
  <2> QED BY <2>1, <2>2, ChainStays DEF FateInv, Sends, Again, Both
<1>3. Records'
  BY DEF FateInv, Records
<1>4. Tells'
  BY ChainStays DEF FateInv, Tells
<1> QED BY <1>2, <1>3, <1>4 DEF Globals

\* A process that holds nothing has nothing to account for.
LEMMA NothingHeld ==
  ASSUME NEW h, h = NoRun
  PROVE  Makes(h)' /\ Tries(h)' /\ Judges(h)'
<1>1. h.pc = "idle"
  BY NoRunReady
<1> QED BY <1>1 DEF Makes, Tries, Judges, Making, Trying

\* A step of the one process at work is about what that one holds.
LEMMA OneHolds ==
  ASSUME FateInv, AccountInv', NEW p \in Procs, run[p].pc # "idle" \/ owner = NoProc,
         NEW n, run' = [run EXCEPT ![p] = n],
         Globals', Makes(n)' /\ Tries(n)' /\ Judges(n)'
  PROVE  FateInv'
<1>1. ASSUME NEW q \in Procs, q # p PROVE run'[q] = NoRun
  <2>1. run[q].pc = "idle"
    BY <1>1, AtWork, DataAssumption DEF FateInv
  <2>2. Judges(run[q])
    BY DEF FateInv, InHand
  <2>3. run[q] = NoRun
    BY <2>1, <2>2 DEF Judges
  <2> QED BY <1>1, <2>3, AtWork DEF FateInv
<1>2. run'[p] = n
  BY AtWork DEF FateInv
<1>3. ASSUME NEW h \in InHand' PROVE h = n \/ h = NoRun
  BY <1>1, <1>2 DEF InHand
<1>4. \A h \in InHand' : Makes(h)' /\ Tries(h)' /\ Judges(h)'
  BY <1>3, NothingHeld
<1> QED BY <1>4 DEF FateInv, Globals

\* What the process at work holds.
LEMMA AtHand ==
  ASSUME FateInv, NEW p \in Procs
  PROVE  /\ \E h : h = run[p]
         /\ \A h : h = run[p] =>
              /\ h \in Holdings /\ Ready(p) /\ Hand(p)
              /\ Makes(h) /\ Tries(h) /\ Judges(h)
         /\ AccountInv /\ TypeInv /\ run \in [Procs -> Holdings]
         /\ Sends /\ Records /\ Tells
<1>1. \A h : h = run[p] => Makes(h) /\ Tries(h) /\ Judges(h)
  BY DEF FateInv, InHand
<1> QED BY <1>1, AtWork, Typed DEF FateInv, AccountInv

\* What Storage and the other devices do, where the chain does not grow.
LEMMA AroundHolds ==
  ASSUME FateInv, AccountInv', UNCHANGED <<setup, chain, sent, rows, run>>,
         live' \subseteq live, idx <= idx', stored \subseteq stored'
  PROVE  FateInv'
<1>1. TypeInv /\ TypeInv' /\ UNCHANGED <<row, slots, spools, used>>
  BY DEF FateInv, AccountInv, rows
<1>2. Globals'
  BY <1>1, QuietGlobal DEF Discards
<1>3. ASSUME NEW h \in InHand PROVE Makes(h)' /\ Tries(h)' /\ Judges(h)'
  <2>1. Makes(h) /\ Tries(h) /\ Judges(h)
    BY DEF FateInv
  <2>2. /\ \A b : OwnAt(b)' = OwnAt(b) /\ Safe(b)' = Safe(b)
        /\ \A g : Closed(g)' = Closed(g)
    BY ChainStays
  <2>3. \A b : Bygone(b) => Bygone(b)'
    BY <1>1, BygoneStays
  <2>4. \A c : Stands(c)' = Stands(c)
    BY <1>1 DEF Stands
  <2>5. Makes(h)'
    BY <1>1, <2>1, <2>2, <2>4 DEF Makes
  <2>6. \A p \in Procs : run[p].slot \in Nat
    BY <1>1, Found
  <2>7. h.slot \in Nat /\ idx \in Nat /\ idx' \in Nat
    BY <1>1, <2>6 DEF InHand, TypeInv, TypeOK
  <2>8. Tries(h)'
    BY <1>1, <2>1, <2>2, <2>3, <2>4, <2>7 DEF Tries
  <2>9. Judges(h)'
    BY <1>1, <2>1, <2>2 DEF Judges
  <2> QED BY <2>5, <2>8, <2>9
<1>4. InHand' = InHand
  BY DEF InHand
<1> QED BY <1>2, <1>3, <1>4 DEF FateInv, Globals

\* A record lands that was sent for the slot, or is of another device.
LEMMA ChainHolds ==
  ASSUME FateInv, AccountInv', UNCHANGED <<setup, sent, stored, idx, rows, run>>,
         NEW r, chain' = Append(chain, r), live' = live \cup {Len(chain) + 1},
         ~setup.rivalsRemove => r.rm = {},
         r.batch # NoBatch =>
           \E s \in sent : s.gen = Len(chain) + 1 /\ s.batch = r.batch /\ s.refs = r.refs
  PROVE  FateInv'
<1> DEFINE k == Len(chain)
<1>1. TypeInv /\ TypeInv' /\ UNCHANGED <<row, slots, spools, used>>
  BY DEF FateInv, AccountInv, rows
<1>2. k \in Nat /\ idx \in 0 .. k /\ Sends /\ Records /\ Tells
  BY <1>1, Found DEF FateInv
<1>3. Len(chain') = k + 1 /\ chain'[k + 1] = r /\ \A g \in 1 .. k : chain'[g] = chain[g]
  BY <1>1 DEF TypeInv, TypeOK
<1> HIDE DEF k
<1>4. \A b : OwnAt(b)' = IF r.batch = b THEN OwnAt(b) \cup {k + 1} ELSE OwnAt(b)
  BY <1>2, <1>3 DEF OwnAt, k
<1>5. \A s \in sent : s.gen \in Nat /\ s.gen <= k + 1 /\ s.batch \in Batches /\ s.batch # NoBatch
  BY <1>1, <1>2, Found DEF Sends
<1>6. \A b : Safe(b) =>
        /\ Safe(b)'
        /\ b # NoBatch /\ (OwnAt(b) = {} \/ ~setup.unreliable) => r.batch # b
  <2>1. \A b : Again(b) => Again(b)' /\ OwnAt(b) # {} /\ setup.unreliable
    BY <1>4 DEF Again, Both
  <2> QED BY <1>2, <1>3, <1>5, <2>1 DEF Safe, k
<1>7. Sends'
  BY <1>1, <1>2, <1>3, <1>5 DEF Sends, k
<1>8. Records'
  <2>1. ASSUME NEW g \in 1 .. k + 1, chain'[g].batch # NoBatch
        PROVE  /\ Of(chain'[g].batch) \subseteq used
               /\ Whole(chain'[g].refs, chain'[g].batch) /\ chain'[g].refs \subseteq stored
    <3>1. CASE g \in 1 .. k
      BY <1>2, <1>3, <2>1, <3>1 DEF Records, k
    <3>2. CASE g = k + 1
      BY <1>2, <1>3, <2>1, <3>2 DEF Sends, k
    <3>3. g \in 1 .. k \/ g = k + 1
      BY <1>2
    <3> QED BY <3>1, <3>2, <3>3
  <2>2. ASSUME ~setup.rivalsRemove, NEW g \in 1 .. k + 1 PROVE chain'[g].rm = {}
    BY <1>2, <1>3, <2>2 DEF Records, k
  <2> QED BY <1>1, <1>3, <2>1, <2>2 DEF Records
<1>9. Tells'
  <2>1. ASSUME NEW c \in Containers, row[c].state # "none", r.batch = BatchOf[c]
        PROVE  row[c].tried /\ k + 1 \in slots[BatchOf[c]]
    <3>1. BatchOf[c] # NoBatch /\ c \in Of(BatchOf[c])
      BY <1>1, Found
    <3> QED BY <1>2, <2>1, <3>1 DEF Sends, k
  <2> QED BY <1>1, <1>2, <1>4, <2>1 DEF Tells
<1>10. ASSUME NEW h \in InHand PROVE Makes(h)' /\ Tries(h)' /\ Judges(h)'
  <2>1. Makes(h) /\ Tries(h) /\ Judges(h)
    BY DEF FateInv
  <2>2. PICK p \in Procs : h = run[p]
    BY DEF InHand
  <2>3. /\ h.slot \in Nat /\ h.recs \subseteq 1 .. k
        /\ h.pc \in {"await", "readback"} => h.bat \in Batches
    BY <1>1, <2>2, Typed, Found DEF Ready, k
  <2>4. \A c : Stands(c)' = Stands(c)
    BY <1>1 DEF Stands
  <2>5. \A b \in Batches : b # NoBatch
    BY DataAssumption
  <2>6. \A b \in Batches : (\A s \in sent : s.batch # b) => r.batch # b
    BY <2>5
  <2>7. Makes(h)'
    BY <1>1, <1>4, <2>1, <2>4, <2>6 DEF Makes
  <2>8. Tries(h)'
    <3>1. /\ h.pc \in Trying /\ h.bat # NoBatch =>
               /\ \A c \in Of(h.bat) : Stands(c)'
               /\ h.got \subseteq stored /\ Whole(h.got, h.bat)
               /\ Of(h.bat) \subseteq used
          /\ h.pc = "send" => h.slot \in slots[h.bat] /\ \A c \in Of(h.bat) : row[c].tried
          /\ h.pc \in {"attempt", "send", "await", "readback"} =>
               h.slot <= idx + 1 /\ \A s \in sent : s.batch = h.bat => s.gen <= h.slot
          /\ h.pc = "discard" => h.todo \subseteq Of(h.bat)
      BY <2>1, <2>4 DEF Tries
    <3>2. h.pc \in {"attempt", "send"} => h.slot # Len(chain') + 1
      BY <1>2, <1>3, <2>3, <3>1
    <3>3. ASSUME h.pc \in {"list", "catchup", "aim", "attempt", "send"}, h.bat # NoBatch,
                 ~setup.unreliable
          PROVE  Safe(h.bat)' /\ \A g \in OwnAt(h.bat)' : g \notin live'
      <4>1. Safe(h.bat) /\ \A g \in OwnAt(h.bat) : g \notin live
        BY <2>1, <3>3 DEF Tries
      <4>2. OwnAt(h.bat)' = OwnAt(h.bat) /\ Safe(h.bat)'
        BY <1>4, <1>6, <3>3, <4>1
      <4>3. \A g \in OwnAt(h.bat) : g # k + 1
        BY <1>2 DEF OwnAt, k
      <4> QED BY <4>1, <4>2, <4>3 DEF k
    <3>4. ASSUME h.pc \in {"await", "readback"}, ~setup.unreliable
          PROVE  /\ \A s \in sent : s.batch = h.bat => s.gen <= Len(chain') \/ s.gen = h.slot
                 /\ \A g \in OwnAt(h.bat)' : g = h.slot \/ g \notin live'
                 /\ h.pc = "readback" => h.slot <= Len(chain')
      <4>1. /\ \A s \in sent : s.batch = h.bat => s.gen <= k \/ s.gen = h.slot
            /\ \A g \in OwnAt(h.bat) : g = h.slot \/ g \notin live
            /\ h.pc = "readback" => h.slot <= k
        BY <2>1, <3>4 DEF Tries, k
      <4>2. r.batch = h.bat => k + 1 = h.slot
        BY <1>2, <2>3, <2>5, <3>4, <4>1 DEF k
      <4>3. \A g \in OwnAt(h.bat) : g # k + 1
        BY <1>2 DEF OwnAt, k
      <4>4. \A g \in OwnAt(h.bat)' : g = h.slot \/ g \notin live'
        BY <1>4, <4>1, <4>2, <4>3 DEF k
      <4>5. \A s \in sent : s.gen <= k => s.gen <= k + 1
        BY <1>2, <1>5
      <4> QED BY <1>2, <1>3, <2>3, <4>1, <4>4, <4>5
    <3>5. ASSUME h.pc \in {"refresh", "discard"} PROVE Safe(h.bat)' /\ OwnAt(h.bat)' # {}
      BY <1>4, <1>6, <2>1, <3>5 DEF Tries
    <3> QED BY <1>1, <3>1, <3>2, <3>3, <3>4, <3>5 DEF Tries
  <2>9. Judges(h)'
    <3>1. \A g \in 1 .. k : Closed(g) => Closed(g)'
      BY <1>3, <1>6 DEF Closed
    <3>2. ASSUME h.pc \in {"catchup", "rows"}, h.bat = NoBatch, NEW g \in h.recs
          PROVE  Closed(g)'
      BY <2>1, <2>3, <3>1, <3>2 DEF Judges
    <3>3. ASSUME h.pc \in {"settle", "trash", "clear"}
          PROVE  /\ \A c \in h.seen : Safe(BatchOf[c])' /\ OwnAt(BatchOf[c])' # {}
                 /\ \A s \in h.proof : s[2] \in 1 .. Len(chain') /\ Closed(s[2])'
                 /\ \A c \in h.todo : row[c].state # "none"
      <4>1. /\ \A c \in h.seen : Safe(BatchOf[c]) /\ OwnAt(BatchOf[c]) # {}
            /\ \A s \in h.proof : s[2] \in 1 .. k /\ Closed(s[2])
            /\ \A c \in h.todo : row[c].state # "none"
        BY <2>1, <3>3 DEF Judges, k
      <4>2. \A g \in 1 .. k : g \in 1 .. Len(chain')
        BY <1>2, <1>3
      <4> QED BY <1>4, <1>6, <3>1, <4>1, <4>2
    <3>4. ASSUME h.pc \in {"trash", "clear"}
          PROVE  /\ h.at \in h.todo /\ Safe(BatchOf[h.at])'
                 /\ h.pc = "trash" => OwnAt(BatchOf[h.at])' = {}
      <4>1. /\ h.at \in h.todo /\ Safe(BatchOf[h.at])
            /\ h.pc = "trash" => OwnAt(BatchOf[h.at]) = {}
        BY <2>1, <3>4 DEF Judges
      <4>2. BatchOf[h.at] # NoBatch
        <5>1. h \in Holdings
          BY <1>1, <2>2, Typed
        <5> QED BY <1>1, <4>1, <5>1, Found DEF Holdings
      <4> QED BY <1>4, <1>6, <4>1, <4>2
    <3> QED BY <1>1, <2>1, <3>2, <3>3, <3>4 DEF Judges
  <2> QED BY <2>7, <2>8, <2>9
<1>11. InHand' = InHand
  BY DEF InHand
<1> QED BY <1>7, <1>8, <1>9, <1>10, <1>11 DEF FateInv

LEMMA AroundSteps ==
  ASSUME FateInv, AccountInv',
         \/ \E r \in sent : Land(r)
         \/ \E o \in putting : LandPut(o)
         \/ \E gone \in SUBSET Containers : RivalCommit(gone)
         \/ \E g \in live : RivalPrune(g)
         \/ Replay
  PROVE  FateInv'
<1>1. TypeInv /\ idx \in Nat
  BY DEF FateInv, AccountInv, TypeInv, TypeOK
<1>2. ASSUME NEW r \in sent, Land(r) PROVE FateInv'
  <2>1. PICK x : x = [batch |-> r.batch, rm |-> {}, refs |-> r.refs]
    OBVIOUS
  <2>2. x.batch = r.batch /\ x.rm = {} /\ x.refs = r.refs
    BY <2>1
  <2>3. chain' = Append(chain, x) /\ live' = live \cup {Len(chain) + 1} /\ r.gen = Len(chain) + 1
    BY <1>2, <2>1 DEF Land
  <2>4. UNCHANGED <<setup, sent, stored, idx, rows, run>>
    BY <1>2 DEF Land
  <2> QED BY <2>2, <2>3, <2>4, ChainHolds
<1>3. ASSUME NEW o \in putting, LandPut(o) PROVE FateInv'
  <2>1. /\ UNCHANGED <<setup, chain, sent, rows, run, live, idx>>
        /\ stored \subseteq stored'
    BY <1>3 DEF LandPut
  <2> QED BY <1>1, <2>1, AroundHolds
<1>4. ASSUME NEW gone \in SUBSET Containers, RivalCommit(gone) PROVE FateInv'
  <2>1. PICK x : x = [batch |-> NoBatch, rm |-> gone, refs |-> {}]
    OBVIOUS
  <2>2. x.batch = NoBatch /\ x.rm = gone
    BY <2>1
  <2>3. chain' = Append(chain, x) /\ live' = live \cup {Len(chain) + 1}
    BY <1>4, <2>1 DEF RivalCommit
  <2>4. UNCHANGED <<setup, sent, stored, idx, rows, run>> /\ (~setup.rivalsRemove => gone = {})
    BY <1>4 DEF RivalCommit
  <2> QED BY <2>2, <2>3, <2>4, ChainHolds
<1>5. ASSUME NEW g \in live, RivalPrune(g) PROVE FateInv'
  <2>1. /\ UNCHANGED <<setup, chain, sent, rows, run, stored, idx>>
        /\ live' \subseteq live
    BY <1>5 DEF RivalPrune
  <2> QED BY <1>1, <2>1, AroundHolds
<1>6. CASE Replay
  <2>1. UNCHANGED <<setup, chain, live, sent, stored, rows, run>>
    BY <1>6 DEF Replay, storage
  <2>2. idx <= idx'
    BY <1>1, <1>6 DEF Replay, TypeInv, TypeOK
  <2> QED BY <1>1, <2>1, <2>2, AroundHolds
<1> QED BY <1>2, <1>3, <1>4, <1>5, <1>6

-----------------------------------------------------------------------------
(* The calls of a settlement *)

\* What a process is not about to do needs nothing.
LEMMA NotMaking ==
  ASSUME NEW n, n.pc \notin Making \cup {"scan"}
  PROVE  Makes(n)'
BY DEF Makes, Making

LEMMA NotTrying ==
  ASSUME NEW n,
         n.pc \in Trying \cup {"refresh", "discard"}
           => n.pc \in {"list", "catchup"} /\ n.bat = NoBatch
  PROVE  Tries(n)'
BY DEF Tries, Trying

LEMMA NotJudging ==
  ASSUME NEW n, n.pc \notin {"idle", "rows", "settle", "trash", "clear", "scan"},
         n.pc = "catchup" => n.bat # NoBatch
  PROVE  Judges(n)'
BY DEF Judges

\* A call that reads, or only drops a spool, leaves the rows and records so.
LEMMA CallGlobal ==
  ASSUME FateInv, AccountInv', UNCHANGED <<setup, chain, live, sent, stored, row, slots, used>>,
         idx <= idx', \A c \in spools \ spools' : Safe(BatchOf[c])
  PROVE  Globals'
<1>1. TypeInv' /\ live' \subseteq live /\ used \subseteq used'
  BY DEF AccountInv
<1>2. Discards
  BY DEF Discards
<1> QED BY <1>1, <1>2, QuietGlobal

LEMMA OverHolds ==
  ASSUME FateInv, AccountInv', NEW p \in Procs, run[p].pc # "idle", Over(p),
         UNCHANGED <<idx, rows>>
  PROVE  FateInv'
<1>1. PICK n : n = NoRun
  OBVIOUS
<1>2. /\ UNCHANGED <<setup, chain, live, sent, stored, row, slots, spools, used, idx>>
      /\ run' = [run EXCEPT ![p] = n]
  BY <1>1 DEF Over, rows
<1>3. idx \in Nat
  BY DEF FateInv, AccountInv, TypeInv, TypeOK
<1>4. Globals'
  BY <1>2, <1>3, CallGlobal
<1>5. Makes(n)' /\ Tries(n)' /\ Judges(n)'
  BY <1>1, NothingHeld
<1> QED BY <1>2, <1>4, <1>5, OneHolds

LEMMA OpenHolds ==
  ASSUME FateInv, AccountInv', NEW p \in Procs, NEW flow, Open(p, flow)
  PROVE  FateInv'
<1>1. PICK h : h = run[p]
  OBVIOUS
<1>2. PICK l \in {"list", "rows"} : run' = [run EXCEPT ![p].flow = flow, ![p].pc = l]
  BY DEF Open
<1>3. PICK n : n = [h EXCEPT !.flow = flow, !.pc = l]
  OBVIOUS
<1>4. run' = [run EXCEPT ![p] = n]
  BY <1>1, <1>2, <1>3
<1>5. h = NoRun
  BY <1>1, AtHand DEF Open, Judges
<1>6. n.pc = l /\ n.bat = NoBatch /\ n.recs = {}
  BY <1>3, <1>5 DEF NoRun
<1>7. /\ UNCHANGED <<setup, chain, live, sent, stored, row, slots, spools, used, idx>>
      /\ owner = NoProc
  BY DEF Open, Free, storage, rows
<1>8. idx \in Nat
  BY DEF FateInv, AccountInv, TypeInv, TypeOK
<1>9. Globals'
  BY <1>7, <1>8, CallGlobal
<1>10. Makes(n)' /\ Tries(n)'
  <2>1. n.pc \in {"list", "rows"}
    BY <1>6
  <2> QED BY <1>6, <2>1, NotMaking, NotTrying DEF Making, Trying
<1>11. Judges(n)'
  <2>1. n.pc \in {"list", "rows"}
    BY <1>6
  <2> QED BY <1>6, <2>1 DEF Judges
<1> QED BY <1>4, <1>7, <1>9, <1>10, <1>11, OneHolds

\* No create may land of a batch whose record a listing shows, or one of whose
\* Containers is current.
LEMMA ListedClosed ==
  ASSUME TypeInv, Sends, NEW g \in live
  PROVE  Closed(g)
<1> SUFFICES ASSUME NEW r \in sent, r.batch = chain[g].batch, ~Again(r.batch)
             PROVE  r.gen <= Len(chain)
  BY DEF Closed, Safe
<1>1. g \in OwnAt(r.batch)
  BY Found DEF OwnAt
<1>2. r.gen # Len(chain) + 1
  BY <1>1 DEF Sends, Bygone, Again
<1> QED BY <1>2, Found DEF Sends

LEMMA CurrentSafe ==
  ASSUME TypeInv, Sends, NEW c \in Current(idx)
  PROVE  Safe(BatchOf[c]) /\ OwnAt(BatchOf[c]) # {}
<1>1. PICK g \in 1 .. idx : /\ chain[g].batch = BatchOf[c]
                            /\ \A h \in g + 1 .. idx : c \notin chain[h].rm
  BY DEF Current
<1>2. g \in OwnAt(BatchOf[c]) /\ c \in Of(BatchOf[c])
  BY <1>1, Found DEF OwnAt, Of, Current
<1>3. Bygone(BatchOf[c]) => Again(BatchOf[c])
  BY <1>1, <1>2 DEF Bygone, Again
<1>4. Safe(BatchOf[c])
  BY <1>3, Found DEF Safe, Sends
<1> QED BY <1>2, <1>4

LEMMA ListHolds ==
  ASSUME FateInv, AccountInv', NEW p \in Procs, List(p)
  PROVE  FateInv'
<1>1. PICK h : h = run[p]
  OBVIOUS
<1>2. PICK n : n = [h EXCEPT !.recs = live, !.objs = stored, !.pc = "catchup"]
  OBVIOUS
<1>3. /\ h \in Holdings /\ Tries(h) /\ TypeInv /\ Sends /\ idx \in Nat
      /\ h.pc = "list" /\ run' = [run EXCEPT ![p] = n]
  <2>1. h \in Holdings /\ Tries(h) /\ TypeInv /\ Sends /\ run \in [Procs -> Holdings]
    BY <1>1, AtHand
  <2>2. idx \in Nat
    BY <2>1 DEF TypeInv, TypeOK
  <2> QED BY <1>1, <1>2, <2>1, <2>2 DEF List
<1>4. n.pc = "catchup" /\ n.recs = live /\ n.bat = h.bat /\ n.got = h.got /\ n.slot = h.slot
  BY <1>2, <1>3 DEF Holdings
<1>5. UNCHANGED <<setup, chain, live, sent, stored, row, slots, spools, used, idx>>
  BY DEF List, storage, rows
<1>6. Globals'
  BY <1>3, <1>5, CallGlobal
<1>7. /\ \A b : OwnAt(b)' = OwnAt(b) /\ Safe(b)' = Safe(b)
      /\ \A g : Closed(g)' = Closed(g)
  BY <1>5, ChainStays
<1>8. \A c : Stands(c)' = Stands(c)
  BY <1>5 DEF Stands
<1>9. Tries(n)'
  BY <1>3, <1>4, <1>5, <1>7, <1>8 DEF Tries, Trying
<1>10. Judges(n)'
  BY <1>3, <1>4, <1>7, ListedClosed DEF Judges
<1>11. Makes(n)'
  BY <1>4, NotMaking DEF Making
<1> QED BY <1>1, <1>3, <1>6, <1>9, <1>10, <1>11, OneHolds

LEMMA CatchUpHolds ==
  ASSUME FateInv, AccountInv', NEW p \in Procs, CatchUp(p)
  PROVE  FateInv'
<1>1. PICK h : h = run[p]
  OBVIOUS
<1>2. PICK l, n : /\ l = IF h.bat = NoBatch THEN "rows" ELSE "aim"
                  /\ n = [h EXCEPT !.pc = l]
  OBVIOUS
<1>3. /\ h \in Holdings /\ Tries(h) /\ Judges(h) /\ TypeInv /\ Sends
      /\ h.pc = "catchup" /\ run' = [run EXCEPT ![p] = n]
  BY <1>1, <1>2, AtHand DEF CatchUp
<1>4. /\ n.pc = IF h.bat = NoBatch THEN "rows" ELSE "aim"
      /\ n.recs = h.recs /\ n.bat = h.bat /\ n.got = h.got
  BY <1>2, <1>3 DEF Holdings
<1>5. UNCHANGED <<setup, chain, live, sent, stored, row, slots, spools, used>>
  BY DEF CatchUp, storage, rows
<1>6. idx <= idx'
  <2>1. {idx, ListedHead(p)} \subseteq 0 .. Len(chain) /\ Len(chain) \in Nat
    BY <1>3, ListedHeadIsRecord, Found
  <2> QED BY <2>1, LargestIsOne DEF CatchUp
<1>7. Globals'
  BY <1>5, <1>6, CallGlobal
<1>8. /\ \A b : OwnAt(b)' = OwnAt(b) /\ Safe(b)' = Safe(b)
      /\ \A g : Closed(g)' = Closed(g)
  BY <1>5, ChainStays
<1>9. \A c : Stands(c)' = Stands(c)
  BY <1>5 DEF Stands
<1>10. Tries(n)'
  <2>1. CASE h.bat = NoBatch
    BY <1>4, <2>1, NotTrying DEF Trying
  <2>2. CASE h.bat # NoBatch
    <3>1. n.pc = "aim"
      BY <1>4, <2>2
    <3> QED BY <1>3, <1>4, <1>5, <1>8, <1>9, <2>2, <3>1 DEF Tries, Trying
  <2> QED BY <2>1, <2>2
<1>11. Judges(n)'
  <2>1. CASE h.bat = NoBatch
    <3>1. n.pc = "rows"
      BY <1>4, <2>1
    <3> QED BY <1>3, <1>4, <1>8, <2>1, <3>1 DEF Judges
  <2>2. CASE h.bat # NoBatch
    BY <1>4, <2>2, NotJudging
  <2> QED BY <2>1, <2>2
<1>12. Makes(n)'
  BY <1>4, NotMaking DEF Making
<1> QED BY <1>1, <1>3, <1>7, <1>10, <1>11, <1>12, OneHolds

LEMMA ReadRowsHolds ==
  ASSUME FateInv, AccountInv', NEW p \in Procs, ReadRows(p)
  PROVE  FateInv'
<1>1. PICK h : h = run[p]
  OBVIOUS
<1>2. PICK S, shown : S = {c \in Containers : row[c].state # "none"} /\ shown = Current(idx)
  OBVIOUS
<1>3. PICK read, n :
        /\ read \in SUBSET Held(p)
        /\ n = [h EXCEPT !.todo = S, !.seen = shown, !.proof = read, !.pc = "settle"]
        /\ run' = [run EXCEPT ![p] = n]
  <2>1. PICK read \in SUBSET Held(p) :
          run' = [run EXCEPT ![p].todo = S, ![p].seen = shown, ![p].proof = read,
                             ![p].pc = "settle"]
    BY <1>2 DEF ReadRows
  <2> QED BY <1>1, <2>1
<1>4. /\ h \in Holdings /\ Judges(h) /\ TypeInv /\ Sends /\ idx \in Nat
      /\ h.pc = "rows" /\ h.recs \subseteq 1 .. Len(chain)
  <2>1. h \in Holdings /\ Judges(h) /\ TypeInv /\ Sends
    BY <1>1, AtHand
  <2>2. idx \in Nat
    BY <2>1 DEF TypeInv, TypeOK
  <2>3. h.pc = "rows"
    BY <1>1 DEF ReadRows
  <2> QED BY <1>1, <2>1, <2>2, <2>3, Found
<1>5. /\ n.pc = "settle" /\ n.bat = h.bat
      /\ n.todo = S /\ n.seen = shown /\ n.proof = read
  BY <1>3, <1>4 DEF Holdings
<1>6. UNCHANGED <<setup, chain, live, sent, stored, row, slots, spools, used, idx>>
  BY DEF ReadRows, storage, rows
<1>7. Globals'
  BY <1>4, <1>6, CallGlobal
<1>8. /\ \A b : OwnAt(b)' = OwnAt(b) /\ Safe(b)' = Safe(b)
      /\ \A g : Closed(g)' = Closed(g)
  BY <1>6, ChainStays
<1>9. h.bat = NoBatch /\ \A g \in h.recs : Closed(g)
  BY <1>4 DEF Judges
<1>10. \A c \in shown : Safe(BatchOf[c]) /\ OwnAt(BatchOf[c]) # {}
  BY <1>2, <1>4, CurrentSafe
<1>11. \A s \in read : s[2] \in h.recs
  BY <1>1, <1>3 DEF Held
<1>12. \A s \in read : s[2] \in 1 .. Len(chain) /\ Closed(s[2])
  BY <1>4, <1>9, <1>11
<1>13. \A c \in S : row'[c].state # "none"
  BY <1>2, <1>6
<1>14. Judges(n)'
  BY <1>5, <1>6, <1>8, <1>9, <1>10, <1>12, <1>13 DEF Judges
<1>15. Makes(n)' /\ Tries(n)'
  BY <1>5, NotMaking, NotTrying DEF Making, Trying
<1> QED BY <1>1, <1>3, <1>4, <1>7, <1>14, <1>15, OneHolds

\* From verdict to verdict a settlement keeps what it read.
LEMMA VerdictHolds ==
  ASSUME FateInv, AccountInv', NEW p \in Procs, NEW h, h = run[p],
         h.pc \in {"settle", "trash", "clear"},
         NEW n, run' = [run EXCEPT ![p] = n], n.pc \in {"settle", "trash", "clear"},
         n.bat = h.bat, n.seen = h.seen, n.proof = h.proof, n.todo \subseteq h.todo,
         UNCHANGED <<setup, chain, sent>>, Globals', \A c \in n.todo : row'[c].state # "none",
         n.pc \in {"trash", "clear"} => n.at \in n.todo /\ Safe(BatchOf[n.at]),
         n.pc = "trash" => OwnAt(BatchOf[n.at]) = {}
  PROVE  FateInv'
<1>1. Judges(h)
  BY AtHand
<1>2. /\ \A b : OwnAt(b)' = OwnAt(b) /\ Safe(b)' = Safe(b)
      /\ \A g : Closed(g)' = Closed(g)
  BY ChainStays
<1>3. Judges(n)'
  BY <1>1, <1>2 DEF Judges
<1>4. Makes(n)' /\ Tries(n)'
  BY NotMaking, NotTrying DEF Making, Trying
<1> QED BY <1>3, <1>4, OneHolds

\* What a settlement at a verdict has in hand.
LEMMA AtVerdict ==
  ASSUME FateInv, NEW p \in Procs, NEW h, h = run[p], h.pc \in {"settle", "trash", "clear"}
  PROVE  /\ h \in Holdings /\ h.todo \subseteq Containers /\ TypeInv /\ idx \in Nat
         /\ \A c \in h.todo : row[c].state # "none"
         /\ \A c \in h.seen : Safe(BatchOf[c]) /\ OwnAt(BatchOf[c]) # {}
         /\ \A s \in h.proof : s[2] \in 1 .. Len(chain) /\ Closed(s[2])
         /\ h.pc \in {"trash", "clear"} => h.at \in h.todo /\ Safe(BatchOf[h.at])
         /\ h.pc = "trash" => OwnAt(BatchOf[h.at]) = {}
<1>1. h \in Holdings /\ Judges(h) /\ TypeInv
  BY AtHand
<1>2. h.todo \subseteq Containers
  BY <1>1 DEF Holdings
<1>3. idx \in Nat
  BY <1>1 DEF TypeInv, TypeOK
<1> QED BY <1>1, <1>2, <1>3 DEF Judges

\* A Container that completes is in a record, or in no create that may land;
\* one that is disposed of is in neither.
LEMMA CompletesSafe ==
  ASSUME FateInv, NEW p \in Procs, run[p].pc = "settle", NEW c \in run[p].todo,
         Completes(p, c) \/ Names(p, c) # {}
  PROVE  Safe(BatchOf[c])
<1>1. PICK h : h = run[p]
  OBVIOUS
<1>2. CASE c \in h.seen
  BY <1>1, <1>2, AtVerdict
<1>3. ASSUME NEW g, <<BatchOf[c], g>> \in h.proof, chain[g].batch = BatchOf[c]
      PROVE  Safe(BatchOf[c])
  <2>1. Closed(g)
    BY <1>1, <1>3, AtVerdict
  <2> QED BY <1>3, <2>1 DEF Closed, Safe
<1> QED BY <1>1, <1>2, <1>3 DEF Completes, Names

LEMMA DisposedSafe ==
  ASSUME FateInv, NEW p \in Procs, run[p].pc = "settle", NEW c \in run[p].todo,
         Disposable(p, c)
  PROVE  Safe(BatchOf[c]) /\ OwnAt(BatchOf[c]) = {}
<1>1. PICK h : h = run[p]
  OBVIOUS
<1>2. PICK b : b = BatchOf[c]
  OBVIOUS
<1>3. /\ c \in Containers /\ row[c].state # "none" /\ TypeInv
      /\ \A s \in h.proof : s[2] \in 1 .. Len(chain)
  BY <1>1, AtVerdict
<1>4. Sends /\ Tells /\ c \in Of(b)
  BY <1>2, <1>3, AtHand DEF Of
<1>5. /\ \A g \in OwnAt(b) : row[c].tried /\ g \in slots[b]
      /\ \A r \in sent : r.batch = b /\ r.gen = Len(chain) + 1 =>
           row[c].tried /\ r.gen \in slots[b]
  BY <1>2, <1>3, <1>4 DEF Sends, Tells
<1>6. /\ Len(chain) \in Nat /\ idx \in 0 .. Len(chain)
      /\ \A r \in sent : r.gen \in Nat /\ r.gen <= idx + 1
  BY <1>3, <1>4, Found DEF Sends
<1>7. CASE ~row[c].tried
  BY <1>2, <1>5, <1>6, <1>7 DEF Safe
<1>8. CASE Lost(p, c)
  <2>1. \A g \in slots[b] : <<b, g>> \in h.proof /\ chain[g].batch # b
    BY <1>1, <1>2, <1>8 DEF Lost, Excludes
  <2>2. \A g \in slots[b] : g \in 1 .. Len(chain)
    BY <1>3, <2>1
  <2>3. OwnAt(b) = {}
    BY <1>5, <2>1 DEF OwnAt
  <2>4. Safe(b)
    BY <1>5, <1>6, <2>2 DEF Safe
  <2> QED BY <1>2, <2>3, <2>4
<1> QED BY <1>7, <1>8 DEF Disposable

LEMMA CompleteHolds ==
  ASSUME FateInv, AccountInv', NEW p \in Procs, Complete(p) \/ Dispose(p)
  PROVE  FateInv'
<1>1. PICK h : h = run[p]
  OBVIOUS
<1>2. PICK c \in h.todo, l \in {"clear", "trash"} :
        /\ run' = [run EXCEPT ![p].at = c, ![p].pc = l]
        /\ spools' = spools \ {c} /\ Safe(BatchOf[c])
        /\ l = "trash" => OwnAt(BatchOf[c]) = {}
  <2>1. CASE Complete(p)
    <3>1. PICK c \in run[p].todo :
            /\ run[p].pc = "settle" /\ (Completes(p, c) \/ Names(p, c) # {})
            /\ spools' = spools \ {c} /\ run' = [run EXCEPT ![p].at = c, ![p].pc = "clear"]
      BY <2>1 DEF Complete
    <3>2. Safe(BatchOf[c])
      BY <3>1, CompletesSafe
    <3> QED BY <1>1, <3>1, <3>2
  <2>2. CASE Dispose(p)
    <3>1. PICK c \in run[p].todo :
            /\ run[p].pc = "settle" /\ Disposable(p, c)
            /\ spools' = spools \ {c} /\ run' = [run EXCEPT ![p].at = c, ![p].pc = "trash"]
      BY <2>2 DEF Dispose
    <3>2. Safe(BatchOf[c]) /\ OwnAt(BatchOf[c]) = {}
      BY <3>1, DisposedSafe
    <3> QED BY <1>1, <3>1, <3>2
  <2> QED BY <2>1, <2>2
<1>3. PICK n : n = [h EXCEPT !.at = c, !.pc = l]
  OBVIOUS
<1>4. run' = [run EXCEPT ![p] = n]
  BY <1>1, <1>2, <1>3
<1>5. /\ UNCHANGED <<setup, chain, live, sent, stored, row, slots, used, idx>>
      /\ h.pc = "settle"
  BY <1>1 DEF Complete, Dispose, storage
<1>6. h \in Holdings /\ idx \in Nat /\ \A x \in h.todo : row[x].state # "none"
  BY <1>1, <1>5, AtVerdict
<1>7. /\ n.pc = l /\ n.at = c /\ n.bat = h.bat /\ n.seen = h.seen
      /\ n.proof = h.proof /\ n.todo = h.todo
  BY <1>3, <1>6 DEF Holdings
<1>8. Globals'
  BY <1>2, <1>5, <1>6, CallGlobal
<1>9. \A x \in n.todo : row'[x].state # "none"
  BY <1>5, <1>6, <1>7
<1>10. /\ n.at \in n.todo /\ Safe(BatchOf[n.at])
       /\ n.pc = "trash" => OwnAt(BatchOf[n.at]) = {}
       /\ n.pc \in {"settle", "trash", "clear"} /\ n.todo \subseteq h.todo
  BY <1>2, <1>7
<1> QED BY <1>1, <1>5, <1>7, <1>8, <1>9, <1>4, <1>10, VerdictHolds

LEMMA RetainHolds ==
  ASSUME FateInv, AccountInv', NEW p \in Procs, Retain(p)
  PROVE  FateInv'
<1>1. PICK h : h = run[p]
  OBVIOUS
<1>2. PICK S \in SUBSET h.todo : run' = [run EXCEPT ![p].todo = S]
  BY <1>1 DEF Retain
<1>3. PICK n : n = [h EXCEPT !.todo = S]
  OBVIOUS
<1>4. run' = [run EXCEPT ![p] = n]
  BY <1>1, <1>2, <1>3
<1>5. /\ UNCHANGED <<setup, chain, live, sent, stored, row, slots, spools, used, idx>>
      /\ h.pc = "settle"
  BY <1>1 DEF Retain, storage, rows
<1>6. h \in Holdings /\ idx \in Nat /\ \A x \in h.todo : row[x].state # "none"
  BY <1>1, <1>5, AtVerdict
<1>7. n.pc = h.pc /\ n.bat = h.bat /\ n.seen = h.seen /\ n.proof = h.proof /\ n.todo = S
  BY <1>3, <1>6 DEF Holdings
<1>8. Globals'
  BY <1>5, <1>6, CallGlobal
<1>9. \A x \in n.todo : row'[x].state # "none"
  BY <1>2, <1>5, <1>6, <1>7
<1>10. n.pc = "settle" /\ n.todo \subseteq h.todo
  BY <1>2, <1>5, <1>7
<1> QED BY <1>1, <1>4, <1>5, <1>7, <1>8, <1>9, <1>10, VerdictHolds

\* What a disposal trashes is an object of the Container it disposes of.
LEMMA TrashHolds ==
  ASSUME FateInv, AccountInv', NEW p \in Procs, Trash(p) \/ TrashFails(p)
  PROVE  FateInv'
<1>1. PICK h : h = run[p]
  OBVIOUS
<1>2. /\ h.pc = "trash" /\ UNCHANGED <<setup, chain, live, sent, row, slots, spools, used, idx>>
      /\ \A o \in stored \ stored' : o \in OnStorage(p, h.at)
  BY <1>1 DEF Trash, TrashFails, storage, rows
<1>3. PICK n : /\ run' = [run EXCEPT ![p] = n]
               /\ \/ n = [h EXCEPT !.pc = "clear"]
                  \/ n = [h EXCEPT !.todo = h.todo \ {h.at}, !.pc = "settle"]
  <2>1. CASE Trash(p)
    <3>1. PICK n : n = [h EXCEPT !.pc = "clear"]
      OBVIOUS
    <3>2. run' = [run EXCEPT ![p] = n]
      BY <1>1, <2>1, <3>1 DEF Trash
    <3> QED BY <3>1, <3>2
  <2>2. CASE TrashFails(p)
    <3>1. PICK n : n = [h EXCEPT !.todo = h.todo \ {h.at}, !.pc = "settle"]
      OBVIOUS
    <3>2. run' = [run EXCEPT ![p].todo = run[p].todo \ {run[p].at}, ![p].pc = "settle"]
      BY <2>2 DEF TrashFails
    <3>3. run' = [run EXCEPT ![p] = n]
      BY <1>1, <3>1, <3>2
    <3> QED BY <3>1, <3>3
  <2> QED BY <2>1, <2>2
<1>4. /\ h \in Holdings /\ h.at \in h.todo /\ h.todo \subseteq Containers /\ idx \in Nat
      /\ Safe(BatchOf[h.at]) /\ OwnAt(BatchOf[h.at]) = {}
      /\ \A x \in h.todo : row[x].state # "none"
  BY <1>1, <1>2, AtVerdict
<1>5. /\ n.pc \in {"clear", "settle"} /\ n.at = h.at /\ n.bat = h.bat /\ n.seen = h.seen
      /\ n.proof = h.proof /\ n.todo \subseteq h.todo
      /\ n.pc = "clear" => n.todo = h.todo
  <2>1. CASE n = [h EXCEPT !.pc = "clear"]
    BY <1>4, <2>1 DEF Holdings
  <2>2. CASE n = [h EXCEPT !.todo = h.todo \ {h.at}, !.pc = "settle"]
    BY <1>4, <2>2 DEF Holdings
  <2> QED BY <1>3, <2>1, <2>2
<1>6. Discards
  <2>1. \A o \in OnStorage(p, h.at) : o[1] = h.at
    <3>1. row[h.at].state = "uploaded" => row[h.at].obj[1] = h.at
      BY <1>4, AtHand DEF Tells
    <3> QED BY <3>1 DEF OnStorage, ObjectsOf
  <2> QED BY <1>2, <1>4, <2>1 DEF Discards
<1>7. Globals'
  BY <1>2, <1>4, <1>6, QuietGlobal DEF AccountInv
<1>8. \A x \in n.todo : row'[x].state # "none"
  BY <1>2, <1>4, <1>5
<1> QED BY <1>1, <1>2, <1>3, <1>4, <1>5, <1>7, <1>8, VerdictHolds

LEMMA ClearRowHolds ==
  ASSUME FateInv, AccountInv', NEW p \in Procs, ClearRow(p)
  PROVE  FateInv'
<1>1. PICK h : h = run[p]
  OBVIOUS
<1>2. PICK S : S = {h.at}
  OBVIOUS
<1>3. PICK n : n = [h EXCEPT !.todo = @ \ S, !.pc = "settle"]
  OBVIOUS
<1>4. /\ h.pc = "clear" /\ UNCHANGED <<setup, chain, live, sent, stored, spools, used, idx>>
      /\ run' = [run EXCEPT ![p] = n] /\ Clear(S)
  BY <1>1, <1>2, <1>3 DEF ClearRow, storage
<1>5. /\ h \in Holdings /\ h.at \in Containers /\ h.todo \subseteq Containers /\ idx \in Nat
      /\ Safe(BatchOf[h.at]) /\ \A x \in h.todo : row[x].state # "none"
  BY <1>1, <1>4, AtVerdict
<1>6. /\ n.pc = "settle" /\ n.bat = h.bat /\ n.seen = h.seen
      /\ n.proof = h.proof /\ n.todo = h.todo \ S
  BY <1>3, <1>5 DEF Holdings
<1>7. Globals'
  BY <1>2, <1>4, <1>5, ClearGlobal DEF AccountInv
<1>8. \A x \in n.todo : row'[x].state # "none"
  BY <1>4, <1>5, <1>6 DEF Clear
<1> QED BY <1>1, <1>4, <1>6, <1>7, <1>8, VerdictHolds

LEMMA SettledHolds ==
  ASSUME FateInv, AccountInv', NEW p \in Procs, Settled(p)
  PROVE  FateInv'
<1>1. run[p].pc # "idle" /\ UNCHANGED <<idx, rows>>
  BY DEF Settled
<1>2. CASE Over(p)
  BY <1>1, <1>2, OverHolds
<1>3. PICK n : n = [NoRun EXCEPT !.flow = "sync", !.pc = "scan"]
  OBVIOUS
<1>4. CASE run' = [run EXCEPT ![p] = n] /\ UNCHANGED storage
  <2>1. n.pc = "scan" /\ n.bat = NoBatch /\ n.got = {}
    BY <1>3 DEF NoRun
  <2>2. UNCHANGED <<setup, chain, live, sent, stored, row, slots, spools, used, idx>>
    BY <1>1, <1>4 DEF storage, rows
  <2>3. idx \in Nat
    BY DEF FateInv, AccountInv, TypeInv, TypeOK
  <2>4. Globals'
    BY <2>2, <2>3, CallGlobal
  <2>5. Makes(n)' /\ Tries(n)' /\ Judges(n)'
    BY <2>1, NotTrying DEF Makes, Making, Judges, Trying
  <2> QED BY <1>1, <1>4, <2>4, <2>5, OneHolds
<1> QED BY <1>2, <1>3, <1>4 DEF Settled

-----------------------------------------------------------------------------
(* The calls that make a batch *)

LEMMA MakingHolds ==
  ASSUME FateInv, AccountInv', NEW p \in Procs, run[p].pc # "idle",
         NEW n, run' = [run EXCEPT ![p] = n], n.pc \in Making, Globals', Makes(n)'
  PROVE  FateInv'
<1>1. Tries(n)' /\ Judges(n)'
  BY NotTrying, NotJudging DEF Making, Trying
<1> QED BY <1>1, OneHolds

\* What a process that makes a batch has in hand.
LEMMA AtMaking ==
  ASSUME FateInv, NEW p \in Procs, NEW h, h = run[p], h.pc \in Making
  PROVE  /\ h \in Holdings /\ Makes(h) /\ TypeInv /\ idx \in Nat /\ Tells
         /\ h.bat \in Batches /\ h.todo \subseteq Of(h.bat) /\ OwnAt(h.bat) = {}
         /\ \A r \in sent : r.batch # h.bat
         /\ \A c \in Of(h.bat) : c \in Containers /\ BatchOf[c] = h.bat
         /\ h.pc \in MakingOne => h.at \in Of(h.bat)
         /\ h.pc \in {"write", "whole"} => row[h.at].state # "none"
         /\ h.pc \in {"upload", "putting", "handle"} => Of(h.bat) \subseteq used
<1>1. h \in Holdings /\ Makes(h) /\ TypeInv /\ Tells
  BY AtHand
<1>2. idx \in Nat
  BY <1>1 DEF TypeInv, TypeOK
<1>3. /\ h.todo \subseteq Of(h.bat)
      /\ h.pc \in MakingOne => h.at \in Of(h.bat)
      /\ h.pc \in {"write", "whole"} => row[h.at].state # "none"
      /\ h.pc \in {"upload", "putting", "handle"} => Of(h.bat) \subseteq used
  BY AtHand DEF Hand
<1> QED BY <1>1, <1>2, <1>3 DEF Makes, Of

LEMMA ScanHolds ==
  ASSUME FateInv, AccountInv', NEW p \in Procs, Scan(p)
  PROVE  FateInv'
<1>1. PICK h : h = run[p]
  OBVIOUS
<1>2. h.pc = "scan" /\ UNCHANGED <<idx, rows>>
  BY <1>1 DEF Scan
<1>3. CASE Over(p)
  BY <1>1, <1>2, <1>3, OverHolds
<1>4. ASSUME NEW b \in Batches, Of(b) \cap used = {}, UNCHANGED storage,
             run' = [run EXCEPT ![p].bat = b, ![p].todo = Of(b), ![p].pc = "spool"]
      PROVE  FateInv'
  <2>1. PICK S : S = Of(b)
    OBVIOUS
  <2>2. PICK n : n = [h EXCEPT !.bat = b, !.todo = S, !.pc = "spool"]
    OBVIOUS
  <2>3. run' = [run EXCEPT ![p] = n]
    BY <1>1, <1>4, <2>1, <2>2
  <2>4. /\ h \in Holdings /\ Makes(h) /\ TypeInv /\ Sends /\ Records
    BY <1>1, AtHand
  <2>5. idx \in Nat
    BY <2>4 DEF TypeInv, TypeOK
  <2>6. n.pc = "spool" /\ n.bat = b /\ n.todo = S /\ n.got = h.got
    BY <2>2, <2>4 DEF Holdings
  <2>7. UNCHANGED <<setup, chain, live, sent, stored, row, slots, spools, used, idx>>
    BY <1>2, <1>4 DEF storage, rows
  <2>8. Globals'
    BY <2>5, <2>7, CallGlobal
  <2>9. h.got = {}
    BY <1>2, <2>4 DEF Makes
  <2>10. ~(Of(b) \subseteq used) /\ b # NoBatch
    BY <1>4, <2>4, Found
  <2>11. OwnAt(b) = {}
    BY <2>4, <2>10 DEF Records, OwnAt
  <2>12. \A r \in sent : r.batch # b
    BY <2>4, <2>10 DEF Sends
  <2>13. OwnAt(b)' = {}
    BY <2>7, <2>11, ChainStays
  <2>14. Makes(n)'
    BY <1>4, <2>1, <2>6, <2>7, <2>9, <2>12, <2>13 DEF Makes, Making
  <2> QED BY <1>1, <1>2, <2>3, <2>6, <2>8, <2>14, MakingHolds DEF Making
<1> QED BY <1>3, <1>4 DEF Scan

LEMMA AnnounceHolds ==
  ASSUME FateInv, AccountInv', NEW p \in Procs, Announce(p)
  PROVE  FateInv'
<1>1. PICK h : h = run[p]
  OBVIOUS
<1>2. h.pc = "spool" /\ UNCHANGED <<setup, chain, live, sent, stored, slots, spools, idx>>
  BY <1>1 DEF Announce, storage
<1>3. PICK c \in h.todo :
        /\ used' = used \cup {c}
        /\ row' = [row EXCEPT ![c] = [NoRow EXCEPT !.state = "spooling"]]
        /\ run' = [run EXCEPT ![p].at = c, ![p].pc = "write"]
  BY <1>1 DEF Announce
<1>4. PICK n : n = [h EXCEPT !.at = c, !.pc = "write"]
  OBVIOUS
<1>5. run' = [run EXCEPT ![p] = n]
  BY <1>1, <1>3, <1>4
<1>6. /\ h \in Holdings /\ Makes(h) /\ TypeInv
      /\ h.bat \in Batches /\ h.todo \subseteq Of(h.bat) /\ OwnAt(h.bat) = {}
      /\ \A r \in sent : r.batch # h.bat
      /\ \A d \in Of(h.bat) : d \in Containers /\ BatchOf[d] = h.bat
  BY <1>1, <1>2, AtMaking DEF Making
<1>7. /\ n.pc = "write" /\ n.at = c /\ n.bat = h.bat /\ n.todo = h.todo
      /\ n.got = h.got
  BY <1>4, <1>6 DEF Holdings
<1>8. /\ c \in Containers /\ BatchOf[c] = h.bat
      /\ row'[c].state = "spooling" /\ \A d \in Containers \ {c} : row'[d] = row[d]
  BY <1>3, <1>6 DEF TypeInv, TypeOK, NoRow
<1>9. Globals'
  BY <1>2, <1>3, <1>6, <1>8, MakeGlobal DEF AccountInv
<1>10. OwnAt(h.bat)' = {}
  BY <1>2, <1>6, ChainStays
<1>11. \A d \in Of(h.bat) \ h.todo : Stands(d)'
  BY <1>2, <1>3, <1>6, <1>8 DEF Makes, Stands
<1>12. h.got = {} /\ h.todo \cap used = {}
  BY <1>2, <1>6 DEF Makes
<1>13. Makes(n)'
  BY <1>2, <1>3, <1>6, <1>7, <1>10, <1>11, <1>12 DEF Makes, Making
<1> QED BY <1>1, <1>2, <1>5, <1>7, <1>9, <1>13, MakingHolds DEF Making

LEMMA WriteSpoolHolds ==
  ASSUME FateInv, AccountInv', NEW p \in Procs, WriteSpool(p)
  PROVE  FateInv'
<1>1. PICK h : h = run[p]
  OBVIOUS
<1>2. PICK n : n = [h EXCEPT !.pc = "whole"]
  OBVIOUS
<1>3. /\ h.pc = "write" /\ UNCHANGED <<setup, chain, live, sent, stored, row, slots, used, idx>>
      /\ spools' = spools \cup {h.at} /\ run' = [run EXCEPT ![p] = n]
  BY <1>1, <1>2 DEF WriteSpool, storage
<1>4. h \in Holdings /\ Makes(h) /\ idx \in Nat
  BY <1>1, <1>3, AtMaking DEF Making
<1>5. /\ n.pc = "whole" /\ n.at = h.at /\ n.bat = h.bat /\ n.todo = h.todo
      /\ n.got = h.got
  BY <1>2, <1>4 DEF Holdings
<1>6. Globals'
  BY <1>3, <1>4, CallGlobal
<1>7. OwnAt(h.bat)' = OwnAt(h.bat)
  BY <1>3, ChainStays
<1>8. \A c : Stands(c) => Stands(c)'
  BY <1>3 DEF Stands
<1>9. Makes(n)'
  BY <1>3, <1>4, <1>5, <1>7, <1>8 DEF Makes, Making
<1> QED BY <1>1, <1>3, <1>5, <1>6, <1>9, MakingHolds DEF Making

LEMMA MarkSpooledHolds ==
  ASSUME FateInv, AccountInv', NEW p \in Procs, MarkSpooled(p)
  PROVE  FateInv'
<1>1. PICK h : h = run[p]
  OBVIOUS
<1>2. PICK n : n = [h EXCEPT !.todo = h.todo \ {h.at}, !.pc = "spool"]
  OBVIOUS
<1>3. /\ h.pc = "whole"
      /\ UNCHANGED <<setup, chain, live, sent, stored, slots, spools, used, idx>>
      /\ row' = [row EXCEPT ![h.at].state = IF @ = "spooling" THEN "spooled" ELSE @]
  BY <1>1 DEF MarkSpooled, storage
<1>4. run' = [run EXCEPT ![p] = n]
  BY <1>1, <1>2 DEF MarkSpooled
<1>5. /\ h \in Holdings /\ Makes(h) /\ TypeInv /\ Tells
      /\ h.bat \in Batches /\ h.todo \subseteq Of(h.bat) /\ OwnAt(h.bat) = {}
      /\ \A r \in sent : r.batch # h.bat
      /\ \A d \in Of(h.bat) : d \in Containers /\ BatchOf[d] = h.bat
      /\ h.at \in Of(h.bat) /\ row[h.at].state # "none"
  BY <1>1, <1>3, AtMaking DEF Making, MakingOne
<1>6. /\ n.pc = "spool" /\ n.bat = h.bat /\ n.todo = h.todo \ {h.at}
      /\ n.got = h.got
  BY <1>2, <1>5 DEF Holdings
<1>7. /\ \A d \in Containers \ {h.at} : row'[d] = row[d]
      /\ row'[h.at].state \in {"spooled", row[h.at].state} /\ row'[h.at].obj = row[h.at].obj
      /\ row'[h.at].state \in {"spooled", "uploaded"}
  BY <1>3, <1>5 DEF TypeInv, TypeOK, Rows
<1>8. row'[h.at].state = "uploaded" => row'[h.at].obj[1] = h.at
  BY <1>5, <1>7 DEF Tells
<1>9. Globals'
  BY <1>3, <1>5, <1>7, <1>8, MakeGlobal DEF AccountInv
<1>10. OwnAt(h.bat)' = {}
  BY <1>3, <1>5, ChainStays
<1>11. \A d \in Of(h.bat) \ h.todo : Stands(d)
  BY <1>3, <1>5 DEF Makes
<1>12. h.at \in spools /\ h.at \in h.todo /\ h.todo \cap used \subseteq {h.at} /\ h.got = {}
  BY <1>3, <1>5 DEF Makes
<1>13. \A d \in Of(h.bat) \ n.todo : Stands(d)'
  <2>1. Stands(h.at)'
    BY <1>3, <1>5, <1>7, <1>12 DEF Stands
  <2>2. \A d \in Of(h.bat) \ h.todo : Stands(d)'
    BY <1>3, <1>5, <1>7, <1>11, <1>12 DEF Stands
  <2> QED BY <1>6, <2>1, <2>2
<1>14. Makes(n)'
  BY <1>3, <1>5, <1>6, <1>10, <1>12, <1>13 DEF Makes, Making
<1> QED BY <1>1, <1>3, <1>4, <1>6, <1>9, <1>14, MakingHolds DEF Making

\* While a batch is uploaded, what a call finds of it stands.
LEMMA UploadHolds ==
  ASSUME FateInv, AccountInv', NEW p \in Procs, NEW h, h = run[p],
         h.pc \in Making, NEW n, run' = [run EXCEPT ![p] = n],
         UNCHANGED <<setup, chain, live, sent, stored, row, slots, spools, used, idx>>,
         n.pc \in {"upload", "putting", "handle"}, n.bat = h.bat, n.got = h.got,
         \A c \in Of(h.bat) : Stands(c), \A o \in h.got : o[1] \in Of(h.bat),
         h.got \subseteq stored,
         \A c \in Of(h.bat) \ n.todo : ObjectsOf(c, h.got) # {},
         n.pc \in {"putting", "handle"} => n.obj[1] = n.at,
         n.pc = "handle" => n.obj \in stored
  PROVE  FateInv'
<1>1. /\ h \in Holdings /\ idx \in Nat /\ h.bat \in Batches /\ OwnAt(h.bat) = {}
      /\ \A r \in sent : r.batch # h.bat
  BY AtMaking
<1>2. Globals'
  BY <1>1, CallGlobal
<1>3. OwnAt(h.bat)' = {}
  BY <1>1, ChainStays
<1>4. \A c : Stands(c) => Stands(c)'
  BY DEF Stands
<1>5. Makes(n)'
  BY <1>1, <1>3, <1>4 DEF Makes, Making
<1> QED BY <1>2, <1>5, MakingHolds DEF Making

\* What it found of it so far.
LEMMA AtUpload ==
  ASSUME FateInv, NEW p \in Procs, NEW h, h = run[p],
         h.pc \in {"upload", "putting", "handle"}
  PROVE  /\ h \in Holdings /\ \A c \in Of(h.bat) : Stands(c)
         /\ \A o \in h.got : o[1] \in Of(h.bat)
         /\ h.got \subseteq stored
         /\ \A c \in Of(h.bat) \ h.todo : ObjectsOf(c, h.got) # {}
         /\ h.pc \in {"putting", "handle"} => h.obj[1] = h.at
         /\ h.pc = "handle" => h.obj \in stored
         /\ OwnAt(h.bat) = {} /\ \A r \in sent : r.batch # h.bat
<1>1. h.pc \in Making
  BY DEF Making
<1> QED BY <1>1, AtMaking DEF Makes

LEMMA AllSpooledHolds ==
  ASSUME FateInv, AccountInv', NEW p \in Procs, AllSpooled(p)
  PROVE  FateInv'
<1>1. PICK h : h = run[p]
  OBVIOUS
<1>2. PICK S : S = Of(h.bat)
  OBVIOUS
<1>3. PICK n : n = [h EXCEPT !.todo = S, !.pc = "upload"]
  OBVIOUS
<1>4. /\ h.pc = "spool" /\ h.todo = {} /\ run' = [run EXCEPT ![p] = n]
      /\ UNCHANGED <<setup, chain, live, sent, stored, row, slots, spools, used, idx>>
  BY <1>1, <1>2, <1>3 DEF AllSpooled, storage, rows
<1>5. h \in Holdings /\ Makes(h) /\ h.pc \in Making
  BY <1>1, <1>4, AtMaking DEF Making
<1>6. n.pc = "upload" /\ n.bat = h.bat /\ n.todo = S /\ n.got = h.got
  BY <1>3, <1>5 DEF Holdings
<1>7. h.got = {} /\ \A c \in Of(h.bat) : Stands(c)
  BY <1>4, <1>5 DEF Makes
<1> QED BY <1>1, <1>2, <1>4, <1>5, <1>6, <1>7, UploadHolds

LEMMA PutHolds ==
  ASSUME FateInv, AccountInv', NEW p \in Procs, Put(p)
  PROVE  FateInv'
<1>1. PICK h : h = run[p]
  OBVIOUS
<1>2. /\ h.pc = "upload"
      /\ UNCHANGED <<setup, chain, live, sent, stored, row, slots, spools, used, idx>>
  BY <1>1 DEF Put, rows
<1>3. PICK c \in h.todo : run' = [run EXCEPT ![p].at = c, ![p].obj = <<c, 1>>, ![p].pc = "putting"]
  BY <1>1 DEF Put
<1>4. PICK n : n = [h EXCEPT !.at = c, !.obj = <<c, 1>>, !.pc = "putting"]
  OBVIOUS
<1>5. run' = [run EXCEPT ![p] = n]
  BY <1>1, <1>3, <1>4
<1>6. /\ h \in Holdings /\ \A x \in Of(h.bat) : Stands(x)
      /\ \A o \in h.got : o[1] \in Of(h.bat)
      /\ h.got \subseteq stored
      /\ \A x \in Of(h.bat) \ h.todo : ObjectsOf(x, h.got) # {}
  BY <1>1, <1>2, AtUpload
<1>7. /\ n.pc = "putting" /\ n.bat = h.bat /\ n.got = h.got /\ n.todo = h.todo
      /\ n.at = c /\ n.obj = <<c, 1>>
  BY <1>4, <1>6 DEF Holdings
<1>8. n.obj[1] = n.at /\ h.pc \in Making
  BY <1>2, <1>7 DEF Making
<1> QED BY <1>1, <1>2, <1>5, <1>6, <1>7, <1>8, UploadHolds

LEMMA PutAgainHolds ==
  ASSUME FateInv, AccountInv', NEW p \in Procs, PutAgain(p)
  PROVE  FateInv'
<1>1. PICK h : h = run[p]
  OBVIOUS
<1>2. /\ h.pc = "putting"
      /\ UNCHANGED <<setup, chain, live, sent, stored, row, slots, spools, used, idx>>
  BY <1>1 DEF PutAgain, rows
<1>3. PICK k : k = <<h.at, h.obj[2] + 1>>
  OBVIOUS
<1>4. PICK n : n = [h EXCEPT !.obj = k]
  OBVIOUS
<1>5. run' = [run EXCEPT ![p] = n]
  BY <1>1, <1>3, <1>4 DEF PutAgain
<1>6. /\ h \in Holdings /\ \A x \in Of(h.bat) : Stands(x)
      /\ \A o \in h.got : o[1] \in Of(h.bat)
      /\ h.got \subseteq stored
      /\ \A x \in Of(h.bat) \ h.todo : ObjectsOf(x, h.got) # {}
  BY <1>1, <1>2, AtUpload
<1>7. /\ n.pc = h.pc /\ n.bat = h.bat /\ n.got = h.got /\ n.todo = h.todo
      /\ n.at = h.at /\ n.obj = k
  BY <1>4, <1>6 DEF Holdings
<1>8. n.obj[1] = n.at /\ h.pc \in Making
  BY <1>2, <1>3, <1>7 DEF Making
<1> QED BY <1>1, <1>2, <1>5, <1>6, <1>7, <1>8, UploadHolds

LEMMA PutAnsweredHolds ==
  ASSUME FateInv, AccountInv', NEW p \in Procs, PutAnswered(p)
  PROVE  FateInv'
<1>1. PICK h : h = run[p]
  OBVIOUS
<1>2. PICK k : k = StoredAs(h.obj)
  OBVIOUS
<1>3. PICK n : n = [h EXCEPT !.obj = k, !.pc = "handle"]
  OBVIOUS
<1>4. /\ h.pc = "putting" /\ k \in stored
      /\ UNCHANGED <<setup, chain, live, sent, stored, row, slots, spools, used, idx>>
  BY <1>1, <1>2 DEF PutAnswered, storage, rows
<1>5. run' = [run EXCEPT ![p] = n]
  BY <1>1, <1>2, <1>3 DEF PutAnswered
<1>6. /\ h \in Holdings /\ \A x \in Of(h.bat) : Stands(x)
      /\ \A o \in h.got : o[1] \in Of(h.bat)
      /\ h.got \subseteq stored /\ h.obj[1] = h.at
      /\ \A x \in Of(h.bat) \ h.todo : ObjectsOf(x, h.got) # {}
  BY <1>1, <1>4, AtUpload
<1>7. /\ n.pc = "handle" /\ n.bat = h.bat /\ n.got = h.got /\ n.todo = h.todo
      /\ n.at = h.at /\ n.obj = k
  BY <1>3, <1>6 DEF Holdings
<1>8. n.obj[1] = n.at /\ n.obj \in stored /\ h.pc \in Making
  BY <1>2, <1>4, <1>6, <1>7 DEF Making, StoredAs
<1> QED BY <1>1, <1>4, <1>5, <1>6, <1>7, <1>8, UploadHolds

LEMMA RecordHandleHolds ==
  ASSUME FateInv, AccountInv', NEW p \in Procs, RecordHandle(p)
  PROVE  FateInv'
<1>1. PICK h : h = run[p]
  OBVIOUS
<1>2. PICK n : n = [h EXCEPT !.got = h.got \cup {h.obj}, !.todo = h.todo \ {h.at}, !.pc = "upload"]
  OBVIOUS
<1>3. /\ h.pc = "handle"
      /\ UNCHANGED <<setup, chain, live, sent, stored, slots, spools, used, idx>>
      /\ row' = [row EXCEPT ![h.at] = [state |-> "uploaded", obj |-> h.obj, tried |-> FALSE]]
  BY <1>1 DEF RecordHandle, storage
<1>4. run' = [run EXCEPT ![p] = n]
  BY <1>1, <1>2 DEF RecordHandle
<1>5. /\ h \in Holdings /\ TypeInv /\ h.bat \in Batches
      /\ \A d \in Of(h.bat) : d \in Containers /\ BatchOf[d] = h.bat
      /\ h.at \in Of(h.bat)
  BY <1>1, <1>3, AtMaking DEF Making, MakingOne
<1>6. /\ \A x \in Of(h.bat) : Stands(x)
      /\ \A o \in h.got : o[1] \in Of(h.bat)
      /\ h.got \subseteq stored /\ h.obj[1] = h.at /\ h.obj \in stored
      /\ \A x \in Of(h.bat) \ h.todo : ObjectsOf(x, h.got) # {}
      /\ OwnAt(h.bat) = {} /\ \A r \in sent : r.batch # h.bat
  BY <1>1, <1>3, AtUpload
<1>7. /\ n.pc = "upload" /\ n.bat = h.bat /\ n.got = h.got \cup {h.obj}
      /\ n.todo = h.todo \ {h.at}
  BY <1>2, <1>5 DEF Holdings
<1>8. /\ \A d \in Containers \ {h.at} : row'[d] = row[d]
      /\ row'[h.at].state = "uploaded" /\ row'[h.at].obj = h.obj
  BY <1>3, <1>5 DEF TypeInv, TypeOK
<1>9. Globals'
  BY <1>3, <1>5, <1>6, <1>8, MakeGlobal DEF AccountInv
<1>10. OwnAt(h.bat)' = {}
  BY <1>3, <1>6, ChainStays
<1>11. \A x \in Of(h.bat) : Stands(x)'
  BY <1>3, <1>5, <1>6, <1>8 DEF Stands
<1>12. \A x \in Of(h.bat) \ n.todo : ObjectsOf(x, n.got) # {}
  BY <1>6, <1>7 DEF ObjectsOf
<1>13. n.got \subseteq stored /\ \A o \in n.got : o[1] \in Of(h.bat)
  BY <1>5, <1>6, <1>7
<1>14. Makes(n)'
  BY <1>3, <1>5, <1>6, <1>7, <1>10, <1>11, <1>12, <1>13 DEF Makes, Making
<1> QED BY <1>1, <1>3, <1>4, <1>7, <1>9, <1>14, MakingHolds DEF Making

LEMMA AllUploadedHolds ==
  ASSUME FateInv, AccountInv', NEW p \in Procs, AllUploaded(p)
  PROVE  FateInv'
<1>1. PICK h : h = run[p]
  OBVIOUS
<1>2. PICK n : n = [h EXCEPT !.pc = "list"]
  OBVIOUS
<1>3. /\ h.pc = "upload" /\ h.todo = {} /\ run' = [run EXCEPT ![p] = n]
      /\ UNCHANGED <<setup, chain, live, sent, stored, row, slots, spools, used, idx>>
  BY <1>1, <1>2 DEF AllUploaded, storage, rows
<1>4. h \in Holdings /\ h.bat \in Batches /\ idx \in Nat /\ Of(h.bat) \subseteq used
  BY <1>1, <1>3, AtMaking DEF Making
<1>5. /\ \A x \in Of(h.bat) : Stands(x)
      /\ \A o \in h.got : o[1] \in Of(h.bat)
      /\ h.got \subseteq stored
      /\ \A x \in Of(h.bat) \ h.todo : ObjectsOf(x, h.got) # {}
      /\ OwnAt(h.bat) = {} /\ \A r \in sent : r.batch # h.bat
  BY <1>1, <1>3, AtUpload
<1>6. n.pc = "list" /\ n.bat = h.bat /\ n.got = h.got
  BY <1>2, <1>4 DEF Holdings
<1>7. Globals'
  BY <1>3, <1>4, CallGlobal
<1>8. OwnAt(h.bat)' = {} /\ Safe(h.bat)'
  BY <1>3, <1>5, ChainStays DEF Safe
<1>9. Whole(h.got, h.bat)
  BY <1>3, <1>5 DEF Whole
<1>10. \A x \in Of(h.bat) : Stands(x)'
  BY <1>3, <1>5 DEF Stands
<1>11. Tries(n)'
  BY <1>3, <1>4, <1>5, <1>6, <1>8, <1>9, <1>10 DEF Tries, Trying
<1>12. Makes(n)' /\ Judges(n)'
  BY <1>6, NotMaking, NotJudging DEF Making
<1> QED BY <1>1, <1>3, <1>7, <1>11, <1>12, OneHolds

-----------------------------------------------------------------------------
(* The calls that commit it *)

\* What a process that commits a batch has in hand.
LEMMA AtCommit ==
  ASSUME FateInv, NEW p \in Procs, NEW h, h = run[p],
         h.pc \in {"aim", "attempt", "send", "await", "readback", "refresh", "discard"}
  PROVE  /\ h \in Holdings /\ Tries(h) /\ TypeInv /\ Sends
         /\ idx \in 0 .. Len(chain) /\ Len(chain) \in Nat
         /\ h.bat \in Batches /\ h.bat # NoBatch /\ Of(h.bat) # {} /\ h.slot \in Nat
         /\ h.pc \in {"attempt", "send", "await", "readback"} => h.slot # 0
         /\ \A c \in Of(h.bat) : c \in Containers /\ BatchOf[c] = h.bat
         /\ h.pc \in {"aim", "attempt", "send", "await", "readback"} =>
              /\ \A c \in Of(h.bat) : Stands(c)
              /\ h.got \subseteq stored /\ Whole(h.got, h.bat)
              /\ Of(h.bat) \subseteq used
<1>1. h \in Holdings /\ Tries(h) /\ TypeInv /\ Sends /\ Ready(p)
  BY AtHand
<1>2. /\ h.bat \in Batches
      /\ h.pc \in {"attempt", "send", "await", "readback"} => h.slot # 0
  BY <1>1 DEF Ready
<1>3. idx \in 0 .. Len(chain) /\ Len(chain) \in Nat /\ h.bat # NoBatch /\ Of(h.bat) # {}
  BY <1>1, <1>2, Found
<1>4. h.slot \in Nat
  BY <1>1 DEF Holdings
<1>5. h.pc \in {"aim", "attempt", "send", "await", "readback"} =>
        /\ \A c \in Of(h.bat) : Stands(c)
        /\ h.got \subseteq stored /\ Whole(h.got, h.bat)
        /\ Of(h.bat) \subseteq used
  BY <1>1, <1>3 DEF Tries, Trying
<1>6. \A c \in Of(h.bat) : c \in Containers /\ BatchOf[c] = h.bat
  BY DEF Of
<1> QED BY <1>1, <1>2, <1>3, <1>4, <1>5, <1>6

LEMMA RetryHolds ==
  ASSUME FateInv, AccountInv', NEW p \in Procs, NEW h, h = run[p],
         h.pc \in {"aim", "readback"}, NEW k, Retry(p, k), UNCHANGED <<idx, rows>>,
         ~setup.unreliable => Safe(h.bat) /\ \A g \in OwnAt(h.bat) : g \notin live
  PROVE  FateInv'
<1>1. CASE Over(p)
  BY <1>1, OverHolds
<1>2. PICK n : n = [h EXCEPT !.tries = k, !.pc = "list"]
  OBVIOUS
<1>3. CASE run' = [run EXCEPT ![p] = n] /\ UNCHANGED storage
  <2>1. UNCHANGED <<setup, chain, live, sent, stored, row, slots, spools, used, idx>>
    BY <1>3 DEF storage, rows
  <2>2. /\ h \in Holdings /\ idx \in Nat /\ h.bat # NoBatch
        /\ \A c \in Of(h.bat) : Stands(c)
        /\ h.got \subseteq stored /\ Whole(h.got, h.bat)
        /\ Of(h.bat) \subseteq used
    BY AtCommit
  <2>3. n.pc = "list" /\ n.bat = h.bat /\ n.got = h.got
    BY <1>2, <2>2 DEF Holdings
  <2>4. Globals'
    BY <2>1, <2>2, CallGlobal
  <2>5. \A b : OwnAt(b)' = OwnAt(b) /\ Safe(b)' = Safe(b)
    BY <2>1, ChainStays
  <2>6. \A c : Stands(c)' = Stands(c)
    BY <2>1 DEF Stands
  <2>7. Tries(n)'
    BY <2>1, <2>2, <2>3, <2>5, <2>6 DEF Tries, Trying
  <2>8. Makes(n)' /\ Judges(n)'
    BY <2>2, <2>3, NotMaking, NotJudging DEF Making
  <2> QED BY <1>3, <2>4, <2>7, <2>8, OneHolds
<1>4. \/ run' = [run EXCEPT ![p].tries = k, ![p].pc = "list"] /\ UNCHANGED storage
      \/ Over(p)
  BY DEF Retry
<1> QED BY <1>1, <1>2, <1>3, <1>4

\* The slot after all that a device has seen is free, if at all, where what the
\* batch added before is gone again.
LEMMA AimedBygone ==
  ASSUME FateInv, NEW p \in Procs, NEW h, h = run[p], h.pc = "aim",
         Of(h.bat) \cap Current(idx) = {}, idx = Len(chain)
  PROVE  Bygone(h.bat)
<1>1. /\ Tries(h) /\ TypeInv /\ Of(h.bat) # {} /\ h.bat # NoBatch /\ Len(chain) \in Nat
      /\ \A c \in Of(h.bat) : c \in Containers /\ BatchOf[c] = h.bat
  BY AtCommit
<1>2. ASSUME NEW g \in OwnAt(h.bat), NEW c \in Of(h.bat)
      PROVE  \E x \in g + 1 .. idx : c \in chain[x].rm
  <2>1. c \notin Current(idx) /\ c \in Containers /\ BatchOf[c] = h.bat
    BY <1>1, <1>2
  <2>2. g \in 1 .. idx /\ chain[g].batch = BatchOf[c]
    BY <2>1 DEF OwnAt
  <2> QED BY <2>1, <2>2 DEF Current
<1>3. ASSUME ~Both, NEW g \in OwnAt(h.bat) PROVE g \notin live
  <2>1. CASE ~setup.unreliable
    BY <1>1, <1>3, <2>1 DEF Tries
  <2>2. CASE setup.unreliable
    <3>1. ~setup.rivalsRemove
      BY <1>3, <2>2 DEF Both
    <3>2. \A x \in 1 .. Len(chain) : chain[x].rm = {}
      BY <3>1, AtHand DEF Records
    <3>3. PICK c \in Of(h.bat) : TRUE
      BY <1>1
    <3>4. PICK x \in g + 1 .. idx : c \in chain[x].rm
      BY <1>2, <3>3
    <3>5. x \in 1 .. Len(chain)
      BY <1>1 DEF OwnAt
    <3> QED BY <3>2, <3>4, <3>5
  <2> QED BY <2>1, <2>2
<1> QED BY <1>2, <1>3 DEF Bygone

LEMMA AimHolds ==
  ASSUME FateInv, AccountInv', NEW p \in Procs, Aim(p)
  PROVE  FateInv'
<1>1. PICK h : h = run[p]
  OBVIOUS
<1>2. h.pc = "aim" /\ UNCHANGED <<idx, rows>>
  BY <1>1 DEF Aim
<1>3. /\ h \in Holdings /\ Tries(h) /\ TypeInv /\ Sends
      /\ idx \in 0 .. Len(chain) /\ Len(chain) \in Nat
      /\ h.bat \in Batches /\ h.bat # NoBatch
      /\ \A c \in Of(h.bat) : Stands(c)
      /\ h.got \subseteq stored /\ Whole(h.got, h.bat)
      /\ Of(h.bat) \subseteq used
  BY <1>1, <1>2, AtCommit
<1>4. ~setup.unreliable => Safe(h.bat) /\ \A g \in OwnAt(h.bat) : g \notin live
  BY <1>2, <1>3 DEF Tries
<1>5. CASE Over(p)
  BY <1>1, <1>2, <1>5, OverHolds
<1>6. CASE Retry(p, run[p].tries + 1)
  BY <1>1, <1>2, <1>4, <1>6, RetryHolds
<1>7. ASSUME Of(h.bat) \cap Current(idx) = {}, UNCHANGED <<storage, owner>>,
             run' = [run EXCEPT ![p].slot = idx + 1, ![p].tries = @ + 1,
                                ![p].pc = "attempt"]
      PROVE  FateInv'
  <2>1. PICK k : k = idx + 1
    OBVIOUS
  <2>2. PICK n : n = [h EXCEPT !.slot = k, !.tries = @ + 1, !.pc = "attempt"]
    OBVIOUS
  <2>3. run' = [run EXCEPT ![p] = n]
    BY <1>1, <1>7, <2>1, <2>2
  <2>4. n.pc = "attempt" /\ n.slot = k /\ n.bat = h.bat /\ n.got = h.got
    BY <1>3, <2>2 DEF Holdings
  <2>5. UNCHANGED <<setup, chain, live, sent, stored, row, slots, spools, used, idx>>
    BY <1>2, <1>7 DEF storage, rows
  <2>6. Globals'
    BY <1>3, <2>5, CallGlobal
  <2>7. \A b : OwnAt(b)' = OwnAt(b) /\ Safe(b)' = Safe(b)
    BY <2>5, ChainStays
  <2>8. \A c : Stands(c)' = Stands(c)
    BY <2>5 DEF Stands
  <2>9. k = Len(chain) + 1 => Bygone(h.bat)
    BY <1>1, <1>2, <1>3, <1>7, <2>1, AimedBygone
  <2>10. TypeInv'
    BY DEF AccountInv
  <2>11. \A b : Bygone(b) => Bygone(b)'
    BY <1>3, <2>5, <2>10, BygoneStays
  <2>12. k <= idx + 1 /\ \A r \in sent : r.gen <= k
    BY <1>3, <2>1 DEF Sends
  <2>13. Tries(n)'
    BY <1>3, <1>4, <2>4, <2>5, <2>7, <2>8, <2>9, <2>11, <2>12 DEF Tries, Trying
  <2>14. Makes(n)' /\ Judges(n)'
    BY <2>4, NotMaking, NotJudging DEF Making
  <2> QED BY <1>1, <1>2, <2>3, <2>6, <2>13, <2>14, OneHolds
<1> QED BY <1>1, <1>5, <1>6, <1>7 DEF Aim

\* Marking an attempt only adds to what a row and its batch's slots say.
LEMMA MarkGlobal ==
  ASSUME FateInv, TypeInv',
         UNCHANGED <<setup, chain, sent, live, stored, spools, used, idx>>,
         \A c \in Containers : /\ row'[c].state = row[c].state /\ row'[c].obj = row[c].obj
                               /\ row[c].tried => row'[c].tried,
         \A b \in Batches : slots[b] \subseteq slots'[b]
  PROVE  Globals'
<1>1. TypeInv /\ idx \in Nat /\ Sends /\ Tells
  BY DEF FateInv, AccountInv, TypeInv, TypeOK
<1>2. \A b : Bygone(b) => Bygone(b)'
  BY <1>1, BygoneStays
<1>3. \A r \in sent : r.batch \in Batches /\ \A c \in Of(r.batch) : c \in Containers
  BY <1>1, Found DEF Of
<1>4. Sends'
  <2>1. \A b : Again(b)' = Again(b)
    BY ChainStays DEF Again, Both
  <2> QED BY <1>1, <1>2, <1>3, <2>1 DEF Sends
<1>5. Records'
  BY DEF FateInv, Records
<1>6. \A c \in Containers : BatchOf[c] \in Batches
  BY DataAssumption
<1>7. Tells'
  BY <1>1, <1>6, ChainStays DEF Tells
<1> QED BY <1>4, <1>5, <1>7 DEF Globals

LEMMA MarkAttemptHolds ==
  ASSUME FateInv, AccountInv', NEW p \in Procs, MarkAttempt(p)
  PROVE  FateInv'
<1>1. PICK h : h = run[p]
  OBVIOUS
<1>2. PICK n : n = [h EXCEPT !.pc = "send"]
  OBVIOUS
<1>3. /\ h.pc = "attempt" /\ run' = [run EXCEPT ![p] = n] /\ Marked(p)
      /\ UNCHANGED <<setup, chain, live, sent, stored, spools, used, idx>>
  BY <1>1, <1>2 DEF MarkAttempt, storage
<1>4. /\ h \in Holdings /\ Tries(h) /\ TypeInv
      /\ h.bat \in Batches /\ h.bat # NoBatch /\ Of(h.bat) # {}
      /\ \A c \in Of(h.bat) : c \in Containers /\ Stands(c)
      /\ h.got \subseteq stored /\ Whole(h.got, h.bat)
      /\ Of(h.bat) \subseteq used
  BY <1>1, <1>3, AtCommit
<1>5. n.pc = "send" /\ n.slot = h.slot /\ n.bat = h.bat /\ n.got = h.got
  BY <1>2, <1>4 DEF Holdings
<1>6. {c \in Of(h.bat) : row[c].state # "none"} = Of(h.bat)
  BY <1>4 DEF Stands
<1>7. /\ row' = [c \in Containers |->
                   IF c \in Of(h.bat) THEN [row[c] EXCEPT !.tried = TRUE] ELSE row[c]]
      /\ slots' = [slots EXCEPT ![h.bat] = slots[h.bat] \cup {h.slot}]
  BY <1>1, <1>3, <1>4, <1>6 DEF Marked
<1>8. \A c \in Containers : /\ row'[c].state = row[c].state /\ row'[c].obj = row[c].obj
                            /\ (row[c].tried \/ c \in Of(h.bat)) => row'[c].tried
  BY <1>4, <1>7 DEF TypeInv, TypeOK, Rows
<1>9. (\A b \in Batches : slots[b] \subseteq slots'[b]) /\ h.slot \in slots'[h.bat]
  BY <1>4, <1>7 DEF TypeInv, TypeOK
<1>10. TypeInv'
  BY DEF AccountInv
<1>11. Globals'
  BY <1>3, <1>8, <1>9, <1>10, MarkGlobal
<1>12. \A b : OwnAt(b)' = OwnAt(b) /\ Safe(b)' = Safe(b)
  BY <1>3, ChainStays
<1>13. idx \in Nat
  BY <1>4 DEF TypeInv, TypeOK
<1>14. \A b : Bygone(b) => Bygone(b)'
  BY <1>3, <1>4, <1>10, <1>13, BygoneStays
<1>15. \A c \in Of(h.bat) : Stands(c)' /\ row'[c].tried
  BY <1>3, <1>4, <1>8 DEF Stands
<1>16. Tries(n)'
  BY <1>3, <1>4, <1>5, <1>9, <1>12, <1>14, <1>15 DEF Tries, Trying
<1>17. Makes(n)' /\ Judges(n)'
  BY <1>5, NotMaking, NotJudging DEF Making
<1> QED BY <1>1, <1>3, <1>11, <1>16, <1>17, OneHolds

LEMMA SendHolds ==
  ASSUME FateInv, AccountInv', NEW p \in Procs, Send(p)
  PROVE  FateInv'
<1>1. PICK h : h = run[p]
  OBVIOUS
<1>2. PICK n : n = [h EXCEPT !.pc = "await"]
  OBVIOUS
<1>3. PICK x : x = [gen |-> h.slot, batch |-> h.bat, refs |-> h.got]
  OBVIOUS
<1>4. /\ h.pc = "send" /\ run' = [run EXCEPT ![p] = n] /\ sent' = sent \cup {x}
      /\ UNCHANGED <<setup, chain, live, stored, row, slots, spools, used, idx>>
  BY <1>1, <1>2, <1>3 DEF Send, rows
<1>5. /\ h \in Holdings /\ Tries(h) /\ TypeInv /\ Sends /\ idx \in 0 .. Len(chain)
      /\ Len(chain) \in Nat /\ h.bat \in Batches /\ h.bat # NoBatch /\ h.slot \in Nat
      /\ \A c \in Of(h.bat) : Stands(c)
      /\ h.got \subseteq stored /\ Whole(h.got, h.bat)
      /\ Of(h.bat) \subseteq used
  BY <1>1, <1>4, AtCommit
<1>6. n.pc = "await" /\ n.slot = h.slot /\ n.bat = h.bat /\ n.got = h.got
  BY <1>2, <1>5 DEF Holdings
<1>7. x.gen = h.slot /\ x.batch = h.bat /\ x.refs = h.got
  BY <1>3
<1>8. /\ h.slot <= idx + 1 /\ \A r \in sent : r.batch = h.bat => r.gen <= h.slot
      /\ h.slot = Len(chain) + 1 => Bygone(h.bat)
      /\ h.slot \in slots[h.bat] /\ \A c \in Of(h.bat) : row[c].tried
  BY <1>4, <1>5 DEF Tries
<1>9. \A b : OwnAt(b)' = OwnAt(b)
  BY <1>4 DEF OwnAt
<1>10. \A b : Bygone(b)' = Bygone(b)
  BY <1>4, <1>9 DEF Bygone, Both
<1>11. Sends'
  <2>1. ASSUME NEW r \in sent'
        PROVE  /\ r.gen <= idx + 1 /\ Of(r.batch) \subseteq used /\ Whole(r.refs, r.batch)
               /\ r.gen = Len(chain) + 1 =>
                    /\ Bygone(r.batch) /\ r.refs \subseteq stored
                    /\ \A c \in Of(r.batch) :
                         row[c].state # "none" => row[c].tried /\ r.gen \in slots[r.batch]
                    /\ Again(r.batch) \/ \A c \in Of(r.batch) : row[c].tried /\ c \in spools
    <3>1. CASE r \in sent
      BY <1>5, <3>1 DEF Sends
    <3>2. CASE r = x
      BY <1>5, <1>7, <1>8, <3>2 DEF Stands
    <3> QED BY <1>4, <2>1, <3>1, <3>2
  <2>2. \A b : Again(b)' = Again(b)
    BY <1>4, <1>9 DEF Again, Both
  <2> QED BY <1>4, <1>10, <2>1, <2>2 DEF Sends
<1>12. Records' /\ Tells'
  BY <1>4, <1>9 DEF FateInv, Records, Tells
<1>13. \A c : Stands(c)' = Stands(c)
  BY <1>4 DEF Stands
<1>14. ASSUME ~setup.unreliable
       PROVE  /\ \A r \in sent' : r.batch = h.bat => r.gen <= Len(chain) \/ r.gen = h.slot
              /\ \A g \in OwnAt(h.bat)' : g = h.slot \/ g \notin live
  <2>1. Safe(h.bat) /\ \A g \in OwnAt(h.bat) : g \notin live
    BY <1>4, <1>5, <1>14 DEF Tries
  <2>2. ~Again(h.bat)
    BY <1>14 DEF Again, Both
  <2> QED BY <1>4, <1>7, <1>9, <2>1, <2>2 DEF Safe
<1>15. \A r \in sent' : r.batch = h.bat => r.gen <= h.slot
  BY <1>4, <1>5, <1>7, <1>8
<1>16. Tries(n)'
  BY <1>4, <1>5, <1>6, <1>8, <1>13, <1>14, <1>15 DEF Tries, Trying
<1>17. Makes(n)' /\ Judges(n)'
  BY <1>6, NotMaking, NotJudging DEF Making
<1> QED BY <1>1, <1>4, <1>11, <1>12, <1>16, <1>17, OneHolds DEF Globals

\* An answer, or a slot read back, says the record is the batch's own.
LEMMA CreatedHolds ==
  ASSUME FateInv, AccountInv', NEW p \in Procs, Created(p) \/ ReadBackOwn(p)
  PROVE  FateInv'
<1>1. PICK h : h = run[p]
  OBVIOUS
<1>2. PICK n : n = [h EXCEPT !.pc = "refresh"]
  OBVIOUS
<1>3. /\ h.pc \in {"await", "readback"} /\ run' = [run EXCEPT ![p] = n]
      /\ h.slot <= Len(chain) /\ chain[h.slot].batch = h.bat
      /\ UNCHANGED <<setup, chain, live, sent, stored, row, slots, spools, used, idx>>
  BY <1>1, <1>2 DEF Created, ReadBackOwn, Own, Taken, storage, rows
<1>4. /\ h \in Holdings /\ Tries(h) /\ TypeInv /\ idx \in 0 .. Len(chain)
      /\ Len(chain) \in Nat /\ h.bat \in Batches /\ h.slot \in Nat /\ h.slot # 0
  BY <1>1, <1>3, AtCommit
<1>5. n.pc = "refresh" /\ n.bat = h.bat
  BY <1>2, <1>4 DEF Holdings
<1>6. Globals'
  BY <1>3, <1>4, CallGlobal
<1>7. Safe(h.bat)
  <2>1. \A r \in sent : r.batch = h.bat => r.gen <= h.slot
    BY <1>3, <1>4 DEF Tries
  <2>2. \A r \in sent : r.gen \in Nat
    BY <1>4, Found
  <2> QED BY <1>3, <1>4, <2>1, <2>2 DEF Safe
<1>8. h.slot \in OwnAt(h.bat)
  BY <1>3, <1>4 DEF OwnAt
<1>9. OwnAt(h.bat)' # {} /\ Safe(h.bat)'
  BY <1>3, <1>7, <1>8, ChainStays
<1>10. Tries(n)'
  BY <1>5, <1>9 DEF Tries, Trying
<1>11. Makes(n)' /\ Judges(n)'
  BY <1>5, NotMaking, NotJudging DEF Making
<1> QED BY <1>1, <1>3, <1>6, <1>10, <1>11, OneHolds

LEMMA RefusedHolds ==
  ASSUME FateInv, AccountInv', NEW p \in Procs, Refused(p)
  PROVE  FateInv'
<1>1. PICK h : h = run[p]
  OBVIOUS
<1>2. PICK n : n = [h EXCEPT !.pc = "readback"]
  OBVIOUS
<1>3. /\ h.pc = "await" /\ run' = [run EXCEPT ![p] = n]
      /\ h.slot <= Len(chain) \/ setup.unreliable
      /\ UNCHANGED <<setup, chain, live, sent, stored, row, slots, spools, used, idx>>
  BY <1>1, <1>2 DEF Refused, Taken, storage, rows
<1>4. /\ h \in Holdings /\ Tries(h) /\ idx \in 0 .. Len(chain)
      /\ h.bat \in Batches /\ h.bat # NoBatch
      /\ \A c \in Of(h.bat) : Stands(c)
      /\ h.got \subseteq stored /\ Whole(h.got, h.bat)
      /\ Of(h.bat) \subseteq used
  BY <1>1, <1>3, AtCommit
<1>5. n.pc = "readback" /\ n.bat = h.bat /\ n.got = h.got /\ n.slot = h.slot
  BY <1>2, <1>4 DEF Holdings
<1>6. Globals'
  BY <1>3, <1>4, CallGlobal
<1>7. \A b : OwnAt(b)' = OwnAt(b)
  BY <1>3, ChainStays
<1>8. \A c : Stands(c)' = Stands(c)
  BY <1>3 DEF Stands
<1>9. Tries(n)'
  BY <1>3, <1>4, <1>5, <1>7, <1>8 DEF Tries, Trying
<1>10. Makes(n)' /\ Judges(n)'
  BY <1>5, NotMaking, NotJudging DEF Making
<1> QED BY <1>1, <1>3, <1>6, <1>9, <1>10, OneHolds

LEMMA ReadBackOtherHolds ==
  ASSUME FateInv, AccountInv', NEW p \in Procs, ReadBackOther(p)
  PROVE  FateInv'
<1>1. PICK h : h = run[p]
  OBVIOUS
<1>2. /\ h.pc = "readback" /\ Retry(p, h.tries) /\ UNCHANGED <<idx, rows>>
      /\ ~setup.unreliable =>
           ~(h.slot <= Len(chain) /\ chain[h.slot].batch = h.bat /\ h.slot \in live)
  BY <1>1 DEF ReadBackOther, Own, Taken
<1>3. Tries(h)
  BY <1>1, AtHand
<1>4. ASSUME ~setup.unreliable
      PROVE  Safe(h.bat) /\ \A g \in OwnAt(h.bat) : g \notin live
  <2>1. /\ \A r \in sent : r.batch = h.bat => r.gen <= Len(chain) \/ r.gen = h.slot
        /\ \A g \in OwnAt(h.bat) : g = h.slot \/ g \notin live
        /\ h.slot <= Len(chain)
    BY <1>2, <1>3, <1>4 DEF Tries
  <2>2. Safe(h.bat)
    BY <2>1 DEF Safe
  <2>3. \A g \in OwnAt(h.bat) : chain[g].batch = h.bat
    BY DEF OwnAt
  <2> QED BY <1>2, <1>4, <2>1, <2>2, <2>3
<1> QED BY <1>1, <1>2, <1>4, RetryHolds

LEMMA RefreshHolds ==
  ASSUME FateInv, AccountInv', NEW p \in Procs, Refresh(p)
  PROVE  FateInv'
<1>1. PICK h : h = run[p]
  OBVIOUS
<1>2. PICK S : S = Of(h.bat)
  OBVIOUS
<1>3. PICK n : n = [h EXCEPT !.todo = S, !.pc = "discard"]
  OBVIOUS
<1>4. /\ h.pc = "refresh" /\ run' = [run EXCEPT ![p] = n] /\ Clear(S)
      /\ idx' = Largest({idx, h.slot})
      /\ UNCHANGED <<setup, chain, live, sent, stored, spools, used>>
  BY <1>1, <1>2, <1>3 DEF Refresh, storage
<1>5. /\ h \in Holdings /\ Tries(h) /\ TypeInv /\ idx \in 0 .. Len(chain)
      /\ Len(chain) \in Nat /\ Ready(p)
      /\ \A c \in S : c \in Containers /\ BatchOf[c] = h.bat
  BY <1>1, <1>2, <1>4, AtCommit, AtHand
<1>6. n.pc = "discard" /\ n.bat = h.bat /\ n.todo = S
  BY <1>3, <1>5 DEF Holdings
<1>7. Safe(h.bat) /\ OwnAt(h.bat) # {}
  BY <1>4, <1>5 DEF Tries
<1>8. idx <= idx'
  <2>1. h.slot \in 1 .. Len(chain)
    BY <1>1, <1>4, <1>5 DEF Ready
  <2>2. {idx, h.slot} \subseteq 0 .. Len(chain)
    BY <1>5, <2>1
  <2> QED BY <1>4, <1>5, <2>2, LargestIsOne
<1>9. Globals'
  <2>1. S \in SUBSET Containers /\ \A c \in S : Safe(BatchOf[c])
    BY <1>5, <1>7
  <2> QED BY <1>4, <1>8, <2>1, ClearGlobal DEF AccountInv
<1>10. OwnAt(h.bat)' # {} /\ Safe(h.bat)'
  BY <1>4, <1>7, ChainStays
<1>11. Tries(n)'
  BY <1>2, <1>6, <1>10 DEF Tries, Trying
<1>12. Makes(n)' /\ Judges(n)'
  BY <1>6, NotMaking, NotJudging DEF Making
<1> QED BY <1>1, <1>4, <1>9, <1>11, <1>12, OneHolds

LEMMA DiscardSpoolHolds ==
  ASSUME FateInv, AccountInv', NEW p \in Procs, DiscardSpool(p)
  PROVE  FateInv'
<1>1. PICK h : h = run[p]
  OBVIOUS
<1>2. /\ h.pc = "discard"
      /\ UNCHANGED <<setup, chain, live, sent, stored, row, slots, used, idx>>
  BY <1>1 DEF DiscardSpool, storage
<1>3. PICK c \in h.todo : /\ \A x \in spools \ spools' : x = c
                          /\ run' = [run EXCEPT ![p].todo = h.todo \ {c}]
  BY <1>1 DEF DiscardSpool
<1>4. PICK S : S = h.todo \ {c}
  OBVIOUS
<1>5. PICK n : n = [h EXCEPT !.todo = S]
  OBVIOUS
<1>6. run' = [run EXCEPT ![p] = n]
  BY <1>1, <1>3, <1>4, <1>5
<1>7. h \in Holdings /\ Tries(h) /\ idx \in 0 .. Len(chain) /\ Len(chain) \in Nat
  BY <1>1, <1>2, AtCommit
<1>8. n.pc = "discard" /\ n.bat = h.bat /\ n.todo = S
  BY <1>2, <1>5, <1>7 DEF Holdings
<1>9. Safe(h.bat) /\ OwnAt(h.bat) # {} /\ h.todo \subseteq Of(h.bat)
  BY <1>2, <1>7 DEF Tries
<1>10. \A x \in spools \ spools' : Safe(BatchOf[x])
  BY <1>3, <1>9 DEF Of
<1>11. Globals'
  BY <1>2, <1>7, <1>10, CallGlobal
<1>12. OwnAt(h.bat)' # {} /\ Safe(h.bat)'
  BY <1>2, <1>9, ChainStays
<1>13. Tries(n)'
  BY <1>4, <1>8, <1>9, <1>12 DEF Tries, Trying
<1>14. Makes(n)' /\ Judges(n)'
  BY <1>8, NotMaking, NotJudging DEF Making
<1> QED BY <1>1, <1>2, <1>6, <1>11, <1>13, <1>14, OneHolds

-----------------------------------------------------------------------------
(* Every step *)

LEMMA InitFate == ASSUME Init PROVE FateInv
<1>1. AccountInv
  BY InitAccount
<1>2. ASSUME NEW h \in InHand PROVE Makes(h) /\ Tries(h) /\ Judges(h)
  <2>1. h = NoRun
    BY <1>2 DEF Init, InHand
  <2>2. h.pc = "idle"
    BY <2>1, NoRunReady
  <2> QED BY <2>1, <2>2 DEF Makes, Tries, Judges, Making, Trying
<1>3. Len(chain) = 0 /\ sent = {} /\ NoRow.state = "none"
  BY DEF Init, NoRow
<1>4. Sends /\ Records
  BY <1>3 DEF Sends, Records
<1>5. \A c \in Containers : row[c].state = "none"
  BY <1>3 DEF Init
<1>6. Tells
  BY <1>5 DEF Tells
<1> QED BY <1>1, <1>2, <1>4, <1>6 DEF FateInv

LEMMA NextFate == ASSUME FateInv, [Next]_vars PROVE FateInv'
<1>1. AccountInv'
  BY NextAccount DEF FateInv
<1>2. CASE UNCHANGED vars
  <2>1. UNCHANGED <<setup, chain, sent, rows, run, live, idx, stored>>
    BY <1>2 DEF vars, storage
  <2>2. idx <= idx'
    BY <2>1 DEF FateInv, AccountInv, TypeInv, TypeOK
  <2> QED BY <1>1, <2>1, <2>2, AroundHolds
<1>3. ASSUME NEW p \in Procs, NEW flow \in {"sync", "completion"}, Open(p, flow)
      PROVE  FateInv'
  BY <1>1, <1>3, OpenHolds
<1>4. ASSUME NEW p \in Procs, Kill(p) PROVE FateInv'
  BY <1>1, <1>4, OverHolds DEF Kill
<1>5. ASSUME NEW p \in Procs, Settling(p) PROVE FateInv'
  BY <1>1, <1>5, ListHolds, CatchUpHolds, ReadRowsHolds, CompleteHolds, RetainHolds,
     TrashHolds, ClearRowHolds, SettledHolds
  DEF Settling
<1>6. ASSUME NEW p \in Procs, Producing(p) PROVE FateInv'
  BY <1>1, <1>6, ScanHolds, AnnounceHolds, WriteSpoolHolds, MarkSpooledHolds, AllSpooledHolds,
     PutHolds, PutAgainHolds, PutAnsweredHolds, RecordHandleHolds, AllUploadedHolds
  DEF Producing
<1>7. ASSUME NEW p \in Procs, Committing(p) PROVE FateInv'
  <2>1. CASE Committed(p)
    BY <1>1, <2>1, OverHolds DEF Committed
  <2> QED
    BY <1>1, <1>7, <2>1, AimHolds, MarkAttemptHolds, SendHolds, CreatedHolds, RefusedHolds,
       ReadBackOtherHolds, RefreshHolds, DiscardSpoolHolds
    DEF Committing
<1> QED BY <1>1, <1>2, <1>3, <1>4, <1>5, <1>6, <1>7, AroundSteps DEF Next, Step

-----------------------------------------------------------------------------
(* The Containers as the Library and the person see them *)

LEMMA FateStays ==
  ASSUME \A c \in Containers :
           /\ CommittedAt(c)' # {} <=> CommittedAt(c) # {}
           /\ CommittedAt(c) = {} =>
                /\ row'[c].state = "none" <=> row[c].state = "none"
                /\ c \in used' <=> c \in used
  PROVE  FateOf' = FateOf
BY DEF FateOf

LEMMA RowsFateStays ==
  ASSUME chain' = chain, used' = used, NEW S, \A c \in S : CommittedAt(c) # {},
         \A c \in Containers \ S : row'[c].state = "none" <=> row[c].state = "none"
  PROVE  FateOf' = FateOf
<1>1. \A c \in Containers : CommittedAt(c)' = CommittedAt(c)
  BY DEF CommittedAt
<1> QED BY <1>1, FateStays

\* What a Container is, read off the chain, its row and the IDs drawn.
LEMMA FateIs ==
  ASSUME NEW c \in Containers
  PROVE  FateOf[c] = IF OwnAt(BatchOf[c]) # {} THEN "committed"
                     ELSE IF row[c].state # "none" THEN "pending"
                     ELSE IF c \in used THEN "reclaimed" ELSE "none"
BY DEF FateOf, CommittedAt, OwnAt

LEMMA FateIsNext ==
  ASSUME NEW c \in Containers
  PROVE  FateOf'[c] = IF OwnAt(BatchOf[c])' # {} THEN "committed"
                      ELSE IF row'[c].state # "none" THEN "pending"
                      ELSE IF c \in used' THEN "reclaimed" ELSE "none"
BY DEF FateOf, CommittedAt, OwnAt

LEMMA FatesAreFunctions ==
  /\ FateOf = [c \in Containers |-> FateOf[c]]
  /\ FateOf' = [c \in Containers |-> FateOf'[c]]
BY DEF FateOf

\* A create that lands commits its batch whole.
LEMMA LandFate ==
  ASSUME FateInv, NEW r \in sent, Land(r)
  PROVE  Fate!Commit(r.batch) \/ FateOf' = FateOf
<1>1. TypeInv /\ Sends
  BY DEF FateInv, AccountInv
<1>2. /\ chain' = Append(chain, [batch |-> r.batch, rm |-> {}, refs |-> r.refs])
      /\ r.gen = Len(chain) + 1 /\ UNCHANGED <<row, used>>
  BY DEF Land, rows
<1>3. /\ Len(chain) \in Nat /\ Len(chain') = Len(chain) + 1
      /\ chain'[Len(chain) + 1].batch = r.batch
      /\ \A g \in 1 .. Len(chain) : chain'[g] = chain[g]
  BY <1>1, <1>2 DEF TypeInv, TypeOK
<1>4. \A b : OwnAt(b)' = IF r.batch = b THEN OwnAt(b) \cup {Len(chain) + 1} ELSE OwnAt(b)
  BY <1>3 DEF OwnAt
<1>5. CASE OwnAt(r.batch) # {}
  <2>1. \A b : OwnAt(b)' # {} <=> OwnAt(b) # {}
    BY <1>4, <1>5
  <2>2. \A c \in Containers : FateOf'[c] = FateOf[c]
    BY <1>2, <2>1, FateIs, FateIsNext
  <2> QED BY <2>2, FatesAreFunctions
<1>6. CASE OwnAt(r.batch) = {}
  <2>1. \A c \in Fate!Of(r.batch) : c \in Containers /\ BatchOf[c] = r.batch /\ row[c].tried
    BY <1>1, <1>2, <1>6 DEF Sends, Again, Of, Fate!Of
  <2>2. \A c \in Fate!Of(r.batch) : row[c].state # "none"
    BY <2>1 DEF FateInv, AccountInv, RowsInv, RowsAgree
  <2>3. \A c \in Fate!Of(r.batch) : FateOf[c] = "pending"
    BY <1>6, <2>1, <2>2, FateIs
  <2>4. \A c \in Containers : FateOf'[c] = IF c \in Fate!Of(r.batch) THEN "committed" ELSE FateOf[c]
    <3>1. ASSUME NEW c \in Containers, c \in Fate!Of(r.batch) PROVE FateOf'[c] = "committed"
      <4>1. OwnAt(BatchOf[c])' # {}
        BY <1>4, <2>1, <3>1
      <4> QED BY <4>1, FateIsNext
    <3>2. ASSUME NEW c \in Containers, c \notin Fate!Of(r.batch) PROVE FateOf'[c] = FateOf[c]
      <4>1. OwnAt(BatchOf[c])' = OwnAt(BatchOf[c])
        BY <1>4, <3>2 DEF Fate!Of
      <4> QED BY <1>2, <4>1, FateIs, FateIsNext
    <3> QED BY <3>1, <3>2
  <2>5. FateOf' = [c \in Containers |-> IF c \in Fate!Of(r.batch) THEN "committed" ELSE FateOf[c]]
    BY <2>4, FatesAreFunctions
  <2> QED BY <2>3, <2>5 DEF Fate!Commit
<1> QED BY <1>5, <1>6

\* A row is written for a Container nobody has seen.
LEMMA AnnounceFate ==
  ASSUME FateInv, NEW p \in Procs, Announce(p)
  PROVE  \E c \in Containers : Fate!Announce(c)
<1>1. PICK h : h = run[p]
  OBVIOUS
<1>2. h.pc = "spool" /\ UNCHANGED chain
  BY <1>1 DEF Announce, storage
<1>3. PICK c \in h.todo :
        /\ used' = used \cup {c}
        /\ row' = [row EXCEPT ![c] = [NoRow EXCEPT !.state = "spooling"]]
  BY <1>1 DEF Announce
<1>4. /\ Makes(h) /\ TypeInv
      /\ h.todo \subseteq Of(h.bat) /\ OwnAt(h.bat) = {}
      /\ \A d \in Of(h.bat) : d \in Containers /\ BatchOf[d] = h.bat
  BY <1>1, <1>2, AtMaking DEF Making
<1>5. c \in Containers /\ OwnAt(BatchOf[c]) = {} /\ c \notin used
  BY <1>2, <1>4 DEF Makes
<1>6. row[c].state = "none"
  BY <1>5 DEF FateInv, AccountInv, RowsInv, RowsAgree, NoRow
<1>7. row'[c].state = "spooling" /\ \A d \in Containers \ {c} : row'[d] = row[d]
  BY <1>3, <1>4, <1>5 DEF TypeInv, TypeOK, NoRow
<1>8. \A b : OwnAt(b)' = OwnAt(b)
  BY <1>2 DEF OwnAt
<1>9. FateOf[c] = "none" /\ FateOf'[c] = "pending"
  BY <1>5, <1>6, <1>7, <1>8, FateIs, FateIsNext
<1>10. \A d \in Containers \ {c} : FateOf'[d] = FateOf[d]
  BY <1>3, <1>7, <1>8, FateIs, FateIsNext
<1>11. FateOf' = [FateOf EXCEPT ![c] = "pending"]
  BY <1>5, <1>9, <1>10, FatesAreFunctions
<1> QED BY <1>5, <1>9, <1>11 DEF Fate!Announce

\* A settlement takes the row of a Container that is committed, or reclaims it.
LEMMA ClearRowFate ==
  ASSUME FateInv, NEW p \in Procs, ClearRow(p)
  PROVE  FateOf' = FateOf \/ \E c \in Containers : Fate!Reclaim(c)
<1>1. PICK h : h = run[p]
  OBVIOUS
<1>2. PICK c : c = h.at
  OBVIOUS
<1>3. h.pc = "clear" /\ UNCHANGED <<chain, used>> /\ Clear({c})
  BY <1>1, <1>2 DEF ClearRow, storage
<1>4. c \in Containers /\ row[c].state # "none"
  BY <1>1, <1>2, <1>3, AtVerdict
<1>5. c \in used
  BY <1>4 DEF FateInv, AccountInv, RowsInv, RowsAgree, NoRow
<1>6. row'[c].state = "none" /\ \A d \in Containers \ {c} : row'[d] = row[d]
  BY <1>3, <1>4 DEF Clear, NoRow
<1>7. \A b : OwnAt(b)' = OwnAt(b)
  BY <1>3 DEF OwnAt
<1>8. \A d \in Containers \ {c} : FateOf'[d] = FateOf[d]
  BY <1>3, <1>6, <1>7, FateIs, FateIsNext
<1>9. CASE OwnAt(BatchOf[c]) # {}
  <2>1. FateOf'[c] = FateOf[c]
    BY <1>4, <1>7, <1>9, FateIs, FateIsNext
  <2>2. \A d \in Containers : FateOf'[d] = FateOf[d]
    BY <1>8, <2>1
  <2> QED BY <2>2, FatesAreFunctions
<1>10. CASE OwnAt(BatchOf[c]) = {}
  <2>1. FateOf[c] = "pending" /\ FateOf'[c] = "reclaimed"
    BY <1>3, <1>4, <1>5, <1>6, <1>7, <1>10, FateIs, FateIsNext
  <2>2. FateOf' = [FateOf EXCEPT ![c] = "reclaimed"]
    BY <1>4, <1>8, <2>1, FatesAreFunctions
  <2> QED BY <1>4, <2>1, <2>2 DEF Fate!Reclaim
<1> QED BY <1>9, <1>10

\* Every other step leaves each Container what it was.
LEMMA RowStepsFate ==
  ASSUME FateInv, NEW p \in Procs,
         MarkSpooled(p) \/ RecordHandle(p) \/ MarkAttempt(p) \/ Refresh(p)
  PROVE  FateOf' = FateOf
<1>1. PICK h : h = run[p]
  OBVIOUS
<1>2. UNCHANGED <<chain, used>> /\ TypeInv
  BY AtHand DEF MarkSpooled, RecordHandle, MarkAttempt, Refresh, storage
<1>3. CASE MarkSpooled(p)
  <2>1. /\ h.pc = "whole"
        /\ row' = [row EXCEPT ![h.at].state = IF @ = "spooling" THEN "spooled" ELSE @]
    BY <1>1, <1>3 DEF MarkSpooled
  <2>2. h.at \in Of(h.bat) /\ \A d \in Of(h.bat) : d \in Containers
    BY <1>1, <2>1, AtMaking DEF Making, MakingOne
  <2>3. \A c \in Containers : row'[c].state = "none" <=> row[c].state = "none"
    BY <1>2, <2>1, <2>2 DEF TypeInv, TypeOK, Rows
  <2> QED BY <1>2, <2>3, RowsFateStays
<1>4. CASE RecordHandle(p)
  <2>1. /\ h.pc = "handle"
        /\ row' = [row EXCEPT ![h.at] = [state |-> "uploaded", obj |-> h.obj, tried |-> FALSE]]
    BY <1>1, <1>4 DEF RecordHandle
  <2>2. h.at \in Of(h.bat) /\ \A d \in Of(h.bat) : d \in Containers
    BY <1>1, <2>1, AtMaking DEF Making, MakingOne
  <2>3. row[h.at].state # "none"
    BY <1>1, <2>1, <2>2, AtUpload DEF Stands
  <2>4. row'[h.at].state # "none" /\ \A c \in Containers \ {h.at} : row'[c] = row[c]
    BY <1>2, <2>1, <2>2 DEF TypeInv, TypeOK
  <2>5. \A c \in Containers : row'[c].state = "none" <=> row[c].state = "none"
    BY <2>3, <2>4
  <2> QED BY <1>2, <2>5, RowsFateStays
<1>5. CASE MarkAttempt(p)
  <2>1. \A c \in Containers : row'[c].state = row[c].state
    BY <1>2, <1>5 DEF MarkAttempt, Marked, TypeInv, TypeOK, Rows
  <2> QED BY <1>2, <2>1, RowsFateStays
<1>6. CASE Refresh(p)
  <2>1. h.pc = "refresh" /\ Clear(Of(h.bat))
    BY <1>1, <1>6 DEF Refresh
  <2>2. OwnAt(h.bat) # {}
    BY <1>1, <2>1, AtCommit DEF Tries
  <2>3. \A c \in Of(h.bat) : CommittedAt(c) # {}
    BY <2>2 DEF Of, OwnAt, CommittedAt
  <2>4. \A c \in Containers \ Of(h.bat) : row'[c].state = "none" <=> row[c].state = "none"
    BY <2>1 DEF Clear
  <2> QED BY <1>2, <2>3, <2>4, RowsFateStays
<1> QED BY <1>3, <1>4, <1>5, <1>6

LEMMA NextIsFate ==
  ASSUME FateInv, [Next]_vars
  PROVE  [Fate!Next]_FateOf
<1>1. ASSUME UNCHANGED <<chain, row, used>> PROVE FateOf' = FateOf
  BY <1>1, RowsFateStays
<1>2. CASE UNCHANGED vars
  BY <1>1, <1>2 DEF vars, storage, rows
<1>3. ASSUME NEW r \in sent, Land(r) PROVE [Fate!Next]_FateOf
  <2>1. r.batch \in Batches
    BY Found DEF FateInv, AccountInv
  <2> QED BY <1>3, <2>1, LandFate DEF Fate!Next
<1>4. ASSUME NEW o \in putting, LandPut(o) PROVE FateOf' = FateOf
  BY <1>1, <1>4 DEF LandPut, rows
<1>5. ASSUME NEW gone \in SUBSET Containers, RivalCommit(gone) PROVE FateOf' = FateOf
  <2>1. /\ chain' = Append(chain, [batch |-> NoBatch, rm |-> gone, refs |-> {}])
        /\ UNCHANGED <<row, used>>
    BY <1>5 DEF RivalCommit, rows
  <2>2. /\ Len(chain) \in Nat /\ Len(chain') = Len(chain) + 1
        /\ chain'[Len(chain) + 1].batch = NoBatch
        /\ \A g \in 1 .. Len(chain) : chain'[g] = chain[g]
    BY <2>1 DEF FateInv, AccountInv, TypeInv, TypeOK
  <2>3. \A c \in Containers : BatchOf[c] # NoBatch
    BY DataAssumption
  <2>4. \A c \in Containers : CommittedAt(c)' = CommittedAt(c)
    BY <2>2, <2>3 DEF CommittedAt
  <2> QED BY <2>1, <2>4, FateStays
<1>6. ASSUME NEW g \in live, RivalPrune(g) PROVE FateOf' = FateOf
  BY <1>1, <1>6 DEF RivalPrune, rows
<1>7. CASE Replay
  BY <1>1, <1>7 DEF Replay, storage, rows
<1>8. ASSUME NEW p \in Procs, NEW flow \in {"sync", "completion"}, Open(p, flow)
      PROVE  FateOf' = FateOf
  BY <1>1, <1>8 DEF Open, storage, rows
<1>9. ASSUME NEW p \in Procs, Over(p), UNCHANGED rows PROVE FateOf' = FateOf
  BY <1>1, <1>9 DEF Over, rows
<1>10. ASSUME NEW p \in Procs, Kill(p) PROVE FateOf' = FateOf
  BY <1>9, <1>10 DEF Kill
<1>11. ASSUME NEW p \in Procs, Settling(p) PROVE [Fate!Next]_FateOf
  <2>1. CASE ClearRow(p)
    BY <2>1, ClearRowFate DEF Fate!Next
  <2>2. CASE \/ List(p) \/ CatchUp(p) \/ ReadRows(p) \/ Complete(p) \/ Dispose(p)
             \/ Retain(p) \/ Trash(p) \/ TrashFails(p)
    <3>1. UNCHANGED <<chain, row, used>>
      BY <2>2 DEF List, CatchUp, ReadRows, Complete, Dispose, Retain, Trash, TrashFails,
         storage, rows
    <3> QED BY <1>1, <3>1
  <2>3. CASE Settled(p)
    BY <1>1, <1>9, <2>3 DEF Settled, storage, rows
  <2> QED BY <1>11, <2>1, <2>2, <2>3 DEF Settling
<1>12. ASSUME NEW p \in Procs, Producing(p) PROVE [Fate!Next]_FateOf
  <2>1. CASE Announce(p)
    BY <2>1, AnnounceFate DEF Fate!Next
  <2>2. CASE MarkSpooled(p) \/ RecordHandle(p)
    BY <2>2, RowStepsFate
  <2>3. CASE \/ WriteSpool(p) \/ AllSpooled(p) \/ Put(p) \/ PutAgain(p) \/ PutAnswered(p)
             \/ AllUploaded(p)
    <3>1. UNCHANGED <<chain, row, used>>
      BY <2>3 DEF WriteSpool, AllSpooled, Put, PutAgain, PutAnswered, AllUploaded, storage, rows
    <3> QED BY <1>1, <3>1
  <2>4. CASE Scan(p)
    BY <1>1, <1>9, <2>4 DEF Scan, storage, rows
  <2> QED BY <1>12, <2>1, <2>2, <2>3, <2>4 DEF Producing
<1>13. ASSUME NEW p \in Procs, Committing(p) PROVE [Fate!Next]_FateOf
  <2>1. CASE MarkAttempt(p) \/ Refresh(p)
    BY <2>1, RowStepsFate
  <2>2. CASE Send(p) \/ Created(p) \/ Refused(p) \/ ReadBackOwn(p) \/ DiscardSpool(p)
    <3>1. UNCHANGED <<chain, row, used>>
      BY <2>2 DEF Send, Created, Refused, ReadBackOwn, DiscardSpool, storage, rows
    <3> QED BY <1>1, <3>1
  <2>3. CASE Aim(p) \/ ReadBackOther(p) \/ Committed(p)
    BY <1>1, <1>9, <2>3 DEF Aim, ReadBackOther, Committed, Retry, storage, rows
  <2> QED BY <1>13, <2>1, <2>2, <2>3 DEF Committing
<1> QED
  BY <1>2, <1>3, <1>4, <1>5, <1>6, <1>7, <1>8, <1>10, <1>11, <1>12, <1>13 DEF Next, Step

-----------------------------------------------------------------------------
(* The theorems *)

\* Every object a record of this device names stays on Storage: no settlement,
\* completion or later run disposes of it, whichever calls fail, whenever the
\* create lands and whatever other devices do (settle/mod.rs).
THEOREM CommittedStands == Spec => []CommittedKept
<1>1. Init => FateInv
  BY InitFate
<1>2. FateInv /\ [Next]_vars => FateInv'
  BY NextFate
<1>3. FateInv => CommittedKept
  BY DEF FateInv, Records, Whole, CommittedKept
<1> QED BY <1>1, <1>2, <1>3, PTL DEF Spec

\* While a create may still land, its batch's rows, spools and slot are there
\* to tell and to undo it with, but for a batch that was committed, removed and
\* sent again because its own record was not recognised (pending_provenance.rs).
THEOREM UncertainStands == ASSUME OneTrouble PROVE Spec => []UncertainKept
<1>1. Init => FateInv
  BY InitFate
<1>2. FateInv /\ [Next]_vars => FateInv'
  BY NextFate
<1>3. FateInv => UncertainKept
  <2> SUFFICES ASSUME FateInv, NEW r \in sent, r.gen = Len(chain) + 1
               PROVE  /\ r.gen \in slots[r.batch]
                      /\ \A c \in Of(r.batch) : row[c].tried /\ c \in spools
    BY DEF UncertainKept
  <2>1. TypeInv /\ Sends /\ setup \in Setups
    BY DEF FateInv, AccountInv, TypeInv
  <2>2. ~Again(r.batch)
    BY <2>1 DEF OneTrouble, Again, Both
  <2>3. \A c \in Of(r.batch) : row[c].tried /\ c \in spools
    BY <2>1, <2>2 DEF Sends
  <2>4. PICK c \in Of(r.batch) : row[c].tried
    BY <2>1, <2>3, Found
  <2>5. row[c].state # "none"
    BY <2>4 DEF FateInv, AccountInv, RowsInv, RowsAgree, Of
  <2> QED BY <2>1, <2>3, <2>5 DEF Sends
<1> QED BY <1>1, <1>2, <1>3, PTL DEF Spec

\* PendingSettlement implements ContainerFate: a batch is committed whole while
\* none of it is reclaimed, and neither fate is undone (settle/mod.rs,
\* sync/run.rs).
THEOREM FateImplemented == Spec => ImplementsFate
<1>1. Init => FateInv
  BY InitFate
<1>2. FateInv /\ [Next]_vars => FateInv'
  BY NextFate
<1>3. Init => Fate!Init
  <2> SUFFICES ASSUME Init PROVE Fate!Init
    OBVIOUS
  <2>1. Len(chain) = 0 /\ used = {} /\ \A c \in Containers : row[c].state = "none"
    BY DEF Init, NoRow
  <2>2. \A c \in Containers : OwnAt(BatchOf[c]) = {}
    BY <2>1 DEF OwnAt
  <2>3. \A c \in Containers : FateOf[c] = "none"
    BY <2>1, <2>2, FateIs
  <2> QED BY <2>3, FatesAreFunctions DEF Fate!Init
<1>4. FateInv /\ [Next]_vars => [Fate!Next]_FateOf
  BY NextIsFate
<1> QED BY <1>1, <1>2, <1>3, <1>4, PTL DEF Spec, ImplementsFate, Fate!Spec

-----------------------------------------------------------------------------
(* What is reclaimed is gone *)

LEMMA NothingListed ==
  ASSUME NEW h, h = NoRun
  PROVE  Lists(h)' /\ Lists(h)
<1>1. h.pc = "idle" /\ h.objs = {}
  BY NoRunReady DEF NoRun
<1> QED BY <1>1 DEF Lists

\* What is on its way to Storage is of the batch at work.
LEMMA ComingIsOwn ==
  ASSUME FateInv, Coming, NEW p \in Procs, run[p].pc # "idle", NEW o \in putting
  PROVE  BatchOf[o[1]] = run[p].bat
<1>1. PICK q \in Procs : run[q].pc # "idle" /\ run[q].bat = BatchOf[o[1]]
  BY DEF Coming, InHand
<1>2. owner = p /\ owner = q
  BY <1>1, AtHand DEF Hand
<1> QED BY <1>1, <1>2

LEMMA NothingComes ==
  ASSUME FateInv, Coming, NEW p \in Procs, run[p].pc # "idle", run[p].bat = NoBatch
  PROVE  putting = {}
<1>1. ASSUME NEW o \in putting PROVE FALSE
  <2>1. o[1] \in Containers
    BY DEF FateInv, AccountInv, TypeInv, TypeOK, Objects
  <2>2. BatchOf[o[1]] # NoBatch
    BY <2>1, DataAssumption
  <2> QED BY <2>2, ComingIsOwn
<1> QED BY <1>1

\* A step of the one process at work lists for that one only.
LEMMA OneLists ==
  ASSUME FateInv, GoneInv, UNCHANGED setup, NEW p \in Procs,
         run[p].pc # "idle" \/ owner = NoProc, NEW n, run' = [run EXCEPT ![p] = n],
         ~setup.latePuts => Stocked' /\ Coming' /\ Handled' /\ Lists(n)'
  PROVE  GoneInv'
<1>1. ASSUME NEW q \in Procs, q # p PROVE run'[q] = NoRun
  <2>1. run[q].pc = "idle"
    BY <1>1, AtWork, DataAssumption DEF FateInv
  <2>2. Judges(run[q])
    BY DEF FateInv, InHand
  <2>3. run[q] = NoRun
    BY <2>1, <2>2 DEF Judges
  <2> QED BY <1>1, <2>3, AtWork DEF FateInv
<1>2. run'[p] = n
  BY AtWork DEF FateInv
<1>3. ASSUME NEW h \in InHand' PROVE h = n \/ h = NoRun
  BY <1>1, <1>2 DEF InHand
<1>4. ASSUME ~setup.latePuts PROVE \A h \in InHand' : Lists(h)'
  BY <1>3, <1>4, NothingListed
<1> QED BY <1>4 DEF GoneInv

\* While a process is at work on the same batch, what comes is still its own.
LEMMA SameBatchGone ==
  ASSUME FateInv, GoneInv, UNCHANGED <<setup, putting>>, NEW p \in Procs,
         NEW h, h = run[p], h.pc # "idle",
         NEW n, run' = [run EXCEPT ![p] = n], n.pc # "idle", n.bat = h.bat,
         stored' \subseteq stored,
         ~setup.latePuts =>
           /\ \A c \in Containers : ObjectsOf(c, stored \cup putting) # {} /\ Ends(c) => Ends(c)'
           /\ Handled' /\ Lists(n)'
  PROVE  GoneInv'
<1> SUFFICES ASSUME ~setup.latePuts PROVE Stocked' /\ Coming' /\ Handled' /\ Lists(n)'
  BY OneLists
<1>1. Stocked /\ Coming
  BY DEF GoneInv
<1>2. \A o \in stored \cup putting : o[1] \in Containers
  BY DEF FateInv, AccountInv, TypeInv, TypeOK, Objects
<1>3. \A o \in stored \cup putting : o \in ObjectsOf(o[1], stored \cup putting)
  BY DEF ObjectsOf
<1>4. \A o \in stored \cup putting : Ends(o[1]) => Ends(o[1])'
  BY <1>2, <1>3
<1>5. Stocked'
  BY <1>1, <1>4 DEF Stocked
<1>6. \A o \in putting : BatchOf[o[1]] = n.bat
  BY <1>1, ComingIsOwn
<1>7. run'[p] = n
  BY AtHand
<1>8. Coming'
  BY <1>1, <1>4, <1>6, <1>7 DEF Coming, InHand
<1> QED BY <1>5, <1>8

\* So where rows and records stay as they are.
LEMMA CallGone ==
  ASSUME FateInv, GoneInv, UNCHANGED <<setup, chain, putting, row>>, NEW p \in Procs,
         NEW h, h = run[p], h.pc # "idle",
         NEW n, run' = [run EXCEPT ![p] = n], n.pc # "idle", n.bat = h.bat,
         stored' \subseteq stored, ~setup.latePuts => Lists(n)'
  PROVE  GoneInv'
<1>1. \A c \in Containers : Ends(c) => Ends(c)'
  BY DEF Ends, OwnAt
<1>2. ~setup.latePuts => Handled'
  BY DEF GoneInv, Handled
<1> QED BY <1>1, <1>2, SameBatchGone

LEMMA OverGone ==
  ASSUME FateInv, GoneInv, NEW p \in Procs, run[p].pc # "idle", Over(p), UNCHANGED rows
  PROVE  GoneInv'
<1>1. PICK n : n = NoRun
  OBVIOUS
<1>2. UNCHANGED <<setup, chain, stored, row>> /\ run' = [run EXCEPT ![p] = n]
  BY <1>1 DEF Over, rows
<1>3. ASSUME ~setup.latePuts PROVE Stocked' /\ Coming' /\ Handled' /\ Lists(n)'
  <2>1. putting' = {} /\ Stocked /\ Handled
    BY <1>3 DEF Over, GoneInv
  <2>2. Stocked' /\ Handled'
    BY <1>2, <2>1 DEF Stocked, Handled, Ends, OwnAt
  <2>3. Coming'
    BY <2>1 DEF Coming
  <2> QED BY <1>1, <2>2, <2>3, NothingListed
<1> QED BY <1>2, <1>3, OneLists

LEMMA OpenGone ==
  ASSUME FateInv, GoneInv, NEW p \in Procs, NEW flow \in {"sync", "completion"}, Open(p, flow)
  PROVE  GoneInv'
<1>1. PICK h : h = run[p]
  OBVIOUS
<1>2. PICK l : l = IF flow = "sync" THEN "list" ELSE "rows"
  OBVIOUS
<1>3. PICK n : n = [h EXCEPT !.flow = flow, !.pc = l]
  OBVIOUS
<1>4. h = NoRun /\ owner = NoProc
  BY <1>1, AtHand DEF Open, Judges, Free
<1>5. run' = [run EXCEPT ![p] = n]
  BY <1>1, <1>2, <1>3 DEF Open
<1>6. n.flow = flow /\ n.pc = l /\ n.objs = {}
  BY <1>3, <1>4 DEF NoRun
<1>7. UNCHANGED <<setup, chain, stored, putting, row>>
  BY DEF Open, storage, rows
<1>8. ASSUME ~setup.latePuts PROVE Stocked' /\ Coming' /\ Handled' /\ Lists(n)'
  <2>1. Stocked /\ Handled /\ Coming
    BY <1>8 DEF GoneInv
  <2>2. Stocked' /\ Handled'
    BY <1>7, <2>1 DEF Stocked, Handled, Ends, OwnAt
  <2>3. \A q \in Procs : run[q].pc = "idle"
    BY <1>4, AtHand, DataAssumption DEF Hand
  <2>4. putting = {}
    BY <2>1, <2>3 DEF Coming, InHand
  <2>5. Coming'
    BY <1>7, <2>4 DEF Coming
  <2>6. Lists(n)'
    BY <1>2, <1>6 DEF Lists
  <2> QED BY <2>2, <2>5, <2>6
<1> QED BY <1>4, <1>5, <1>7, <1>8, OneLists

\* What Storage and the other devices do.
LEMMA AroundGone ==
  ASSUME FateInv, GoneInv, OneObject,
         \/ \E r \in sent : Land(r)
         \/ \E o \in putting : LandPut(o)
         \/ \E gone \in SUBSET Containers : RivalCommit(gone)
         \/ \E g \in live : RivalPrune(g)
         \/ Replay
         \/ UNCHANGED vars
  PROVE  GoneInv'
<1>1. UNCHANGED <<setup, row, run>> /\ InHand' = InHand
  BY DEF Land, LandPut, RivalCommit, RivalPrune, Replay, vars, storage, rows, InHand
<1> SUFFICES ASSUME ~setup.latePuts
             PROVE  Stocked' /\ Coming' /\ Handled' /\ \A h \in InHand : Lists(h)'
  BY <1>1 DEF GoneInv
<1>2. /\ Stocked /\ Coming /\ Handled /\ TypeInv /\ setup \in Setups
      /\ \A h \in InHand : Lists(h)
  BY DEF GoneInv, FateInv, AccountInv, TypeInv
<1>3. ASSUME UNCHANGED <<stored, putting>>, \A b : OwnAt(b) # {} => OwnAt(b)' # {}
      PROVE  Stocked' /\ Coming' /\ Handled' /\ \A h \in InHand : Lists(h)'
  BY <1>1, <1>2, <1>3 DEF Stocked, Coming, Handled, Lists, Ends
<1>4. ASSUME NEW x, chain' = Append(chain, x), UNCHANGED <<stored, putting>>
      PROVE  Stocked' /\ Coming' /\ Handled' /\ \A h \in InHand : Lists(h)'
  <2>1. /\ Len(chain') = Len(chain) + 1 /\ Len(chain) \in Nat
        /\ \A g \in 1 .. Len(chain) : chain'[g] = chain[g]
    BY <1>2, <1>4 DEF TypeInv, TypeOK
  <2>2. \A b : OwnAt(b) # {} => OwnAt(b)' # {}
    BY <2>1 DEF OwnAt
  <2> QED BY <1>3, <1>4, <2>2
<1>5. ASSUME NEW r \in sent, Land(r)
      PROVE  Stocked' /\ Coming' /\ Handled' /\ \A h \in InHand : Lists(h)'
  BY <1>4, <1>5 DEF Land
<1>6. ASSUME NEW gone \in SUBSET Containers, RivalCommit(gone)
      PROVE  Stocked' /\ Coming' /\ Handled' /\ \A h \in InHand : Lists(h)'
  BY <1>4, <1>6 DEF RivalCommit
<1>7. CASE (\E g \in live : RivalPrune(g)) \/ Replay \/ UNCHANGED vars
  <2>1. UNCHANGED <<chain, stored, putting>>
    BY <1>7 DEF RivalPrune, Replay, vars, storage
  <2> QED BY <1>3, <2>1 DEF OwnAt
<1>8. ASSUME NEW o \in putting, LandPut(o)
      PROVE  Stocked' /\ Coming' /\ Handled' /\ \A h \in InHand : Lists(h)'
  <2>1. /\ putting' \subseteq putting /\ stored' = stored \cup {StoredAs(o)}
        /\ UNCHANGED chain
    BY <1>8 DEF LandPut
  <2>2. o \in Objects
    BY <1>2 DEF TypeInv, TypeOK
  <2>3. StoredAs(o)[1] = o[1] /\ StoredAs(o)[2] = 1
    <3>1. CASE setup.minting
      <4>1. setup.puts = 1
        BY <1>2, <3>1 DEF OneObject
      <4> QED BY <2>2, <3>1, <4>1 DEF StoredAs, Objects
    <3>2. CASE ~setup.minting
      BY <3>2 DEF StoredAs
    <3> QED BY <3>1, <3>2
  <2>4. \A c \in Containers : Ends(c)' = Ends(c)
    BY <1>1, <2>1 DEF Ends, OwnAt
  <2>5. \A x \in stored \cup putting : x[1] \in Containers
    BY <1>2 DEF TypeInv, TypeOK, Objects
  <2>6. Stocked'
    BY <1>2, <2>1, <2>3, <2>4, <2>5 DEF Stocked, Coming
  <2>7. Coming' /\ Handled'
    BY <1>1, <1>2, <2>1, <2>4, <2>5 DEF Coming, Handled
  <2>8. ASSUME NEW h \in InHand PROVE Lists(h)'
    <3>1. PICK p \in Procs : h = run[p]
      BY DEF InHand
    <3>2. Lists(h) /\ Judges(h)
      BY <1>2, <3>1, AtHand
    <3>3. CASE h.pc = "idle"
      BY <3>2, <3>3 DEF Lists
    <3>4. CASE h.pc # "idle"
      <4>1. h.bat = BatchOf[o[1]]
        BY <1>2, <3>1, <3>4, ComingIsOwn
      <4>2. h.bat # NoBatch
        BY <2>2, <4>1, DataAssumption DEF Objects
      <4>3. h.pc \notin {"trash", "clear"}
        BY <3>2, <4>2 DEF Judges
      <4> QED BY <3>2, <4>2, <4>3 DEF Lists
    <3> QED BY <3>3, <3>4
  <2> QED BY <2>6, <2>7, <2>8
<1> QED BY <1>5, <1>6, <1>7, <1>8

LEMMA ReadsGone ==
  ASSUME FateInv, GoneInv, NEW p \in Procs, List(p) \/ CatchUp(p) \/ ReadRows(p) \/ Retain(p)
  PROVE  GoneInv'
<1>1. PICK h : h = run[p]
  OBVIOUS
<1>2. PICK n : n = run'[p]
  OBVIOUS
<1>3. h \in Holdings /\ run \in [Procs -> Holdings] /\ Judges(h)
  BY <1>1, AtHand
<1>4. UNCHANGED <<setup, chain, putting, stored, row>> /\ h.pc # "idle"
  BY <1>1 DEF List, CatchUp, ReadRows, Retain, storage, rows
<1>5. /\ run' = [run EXCEPT ![p] = n] /\ n.pc \in {"catchup", "rows", "aim", "settle"}
      /\ n.bat = h.bat /\ n.flow = h.flow /\ n.objs \in {h.objs, stored}
      /\ n.pc # "catchup" /\ n.bat = NoBatch =>
           h.pc \in {"catchup", "rows", "settle"} /\ n.objs = h.objs
      /\ n.pc = "catchup" => n.objs = stored
  <2>1. CASE List(p)
    <3>1. run' = [run EXCEPT ![p].recs = live, ![p].objs = stored, ![p].pc = "catchup"]
      BY <2>1 DEF List
    <3>2. n = [h EXCEPT !.recs = live, !.objs = stored, !.pc = "catchup"]
      BY <1>1, <1>2, <1>3, <3>1
    <3>3. run' = [run EXCEPT ![p] = n]
      BY <1>1, <3>1, <3>2
    <3> QED BY <1>3, <3>2, <3>3 DEF Holdings
  <2>2. CASE CatchUp(p)
    <3>1. PICK l \in {"rows", "aim"} : run' = [run EXCEPT ![p].pc = l]
      BY <2>2 DEF CatchUp
    <3>2. n = [h EXCEPT !.pc = l] /\ h.pc = "catchup"
      BY <1>1, <1>2, <1>3, <2>2, <3>1 DEF CatchUp
    <3>3. run' = [run EXCEPT ![p] = n]
      BY <1>1, <3>1, <3>2
    <3> QED BY <1>3, <3>2, <3>3 DEF Holdings
  <2>3. CASE ReadRows(p)
    <3> DEFINE S == {c \in Containers : row[c].state # "none"}
    <3>1. PICK read \in SUBSET Held(p) :
            run' = [run EXCEPT ![p].todo = S, ![p].seen = Current(idx), ![p].proof = read,
                               ![p].pc = "settle"]
      BY <2>3 DEF ReadRows
    <3> HIDE DEF S
    <3>2. n = [h EXCEPT !.todo = S, !.seen = Current(idx), !.proof = read, !.pc = "settle"]
      BY <1>1, <1>2, <1>3, <3>1
    <3>3. run' = [run EXCEPT ![p] = n]
      BY <1>1, <3>1, <3>2
    <3>4. h.pc = "rows"
      BY <1>1, <2>3 DEF ReadRows
    <3> QED BY <1>3, <3>2, <3>3, <3>4 DEF Holdings
  <2>4. CASE Retain(p)
    <3>1. PICK S : run' = [run EXCEPT ![p].todo = S]
      BY <2>4 DEF Retain
    <3>2. n = [h EXCEPT !.todo = S] /\ h.pc = "settle"
      BY <1>1, <1>2, <1>3, <2>4, <3>1 DEF Retain
    <3>3. run' = [run EXCEPT ![p] = n]
      BY <1>1, <3>1, <3>2
    <3> QED BY <1>3, <3>2, <3>3 DEF Holdings
  <2> QED BY <2>1, <2>2, <2>3, <2>4
<1>6. ASSUME ~setup.latePuts PROVE Lists(n)'
  <2>1. Lists(h) /\ Stocked
    BY <1>1, <1>6 DEF GoneInv, InHand
  <2>2. \A o \in n.objs : o[2] = 1
    BY <1>5, <2>1 DEF Lists, Stocked
  <2>3. ASSUME n.flow = "sync", n.bat = NoBatch PROVE stored \subseteq n.objs
    BY <1>5, <2>1, <2>3 DEF Lists
  <2> QED BY <1>4, <1>5, <2>2, <2>3 DEF Lists
<1>7. n.pc # "idle" /\ stored' \subseteq stored
  BY <1>4, <1>5
<1> QED BY <1>1, <1>4, <1>5, <1>6, <1>7, CallGone

LEMMA CompleteGone ==
  ASSUME FateInv, GoneInv, NEW p \in Procs, Complete(p)
  PROVE  GoneInv'
<1>1. PICK h : h = run[p]
  OBVIOUS
<1>2. /\ h.pc = "settle" /\ UNCHANGED <<setup, chain, putting, stored, row>>
  BY <1>1 DEF Complete, storage
<1>3. PICK c \in run[p].todo :
        /\ Completes(p, c) \/ Names(p, c) # {}
        /\ run' = [run EXCEPT ![p].at = c, ![p].pc = "clear"]
  BY DEF Complete
<1>4. PICK n : n = [h EXCEPT !.at = c, !.pc = "clear"]
  OBVIOUS
<1>5. run' = [run EXCEPT ![p] = n]
  BY <1>1, <1>3, <1>4
<1>6. h \in Holdings
  BY <1>1, AtHand
<1>7. n.pc = "clear" /\ n.at = c /\ n.bat = h.bat /\ n.objs = h.objs /\ n.flow = h.flow
  BY <1>4, <1>6 DEF Holdings
<1>8. OwnAt(BatchOf[c]) # {}
  <2>1. CASE c \in h.seen
    BY <1>1, <1>2, <2>1, AtVerdict
  <2>2. ASSUME NEW g, <<BatchOf[c], g>> \in h.proof, chain[g].batch = BatchOf[c]
        PROVE  g \in OwnAt(BatchOf[c])
    <3>1. g \in 1 .. Len(chain)
      BY <1>1, <1>2, <2>2, AtVerdict
    <3> QED BY <2>2, <3>1 DEF OwnAt
  <2> QED BY <1>1, <1>3, <2>1, <2>2 DEF Completes, Names
<1>9. OwnAt(BatchOf[c])' # {}
  BY <1>2, <1>8 DEF OwnAt
<1>10. ASSUME ~setup.latePuts PROVE Lists(n)'
  <2>1. Lists(h)
    BY <1>1, <1>10 DEF GoneInv, InHand
  <2> QED BY <1>2, <1>7, <1>9, <2>1 DEF Lists
<1>11. n.pc # "idle" /\ h.pc # "idle" /\ stored' \subseteq stored
  BY <1>2, <1>7
<1> QED BY <1>1, <1>2, <1>5, <1>7, <1>10, <1>11, CallGone

LEMMA DisposeGone ==
  ASSUME FateInv, GoneInv, NEW p \in Procs, Dispose(p)
  PROVE  GoneInv'
<1>1. PICK h : h = run[p]
  OBVIOUS
<1>2. /\ h.pc = "settle" /\ h.flow = "sync"
      /\ UNCHANGED <<setup, chain, putting, stored, row>>
  BY <1>1 DEF Dispose, storage
<1>3. PICK c : run' = [run EXCEPT ![p].at = c, ![p].pc = "trash"]
  BY DEF Dispose
<1>4. PICK n : n = [h EXCEPT !.at = c, !.pc = "trash"]
  OBVIOUS
<1>5. run' = [run EXCEPT ![p] = n]
  BY <1>1, <1>3, <1>4
<1>6. h \in Holdings
  BY <1>1, AtHand
<1>7. n.pc = "trash" /\ n.bat = h.bat /\ n.objs = h.objs /\ n.flow = "sync"
  BY <1>2, <1>4, <1>6 DEF Holdings
<1>8. ASSUME ~setup.latePuts PROVE Lists(n)'
  <2>1. Lists(h)
    BY <1>1, <1>8 DEF GoneInv, InHand
  <2> QED BY <1>2, <1>7, <2>1 DEF Lists
<1>9. n.pc # "idle" /\ h.pc # "idle" /\ stored' \subseteq stored
  BY <1>2, <1>7
<1> QED BY <1>1, <1>2, <1>5, <1>7, <1>8, <1>9, CallGone

\* What a disposal finds to trash is all there is of the Container.
LEMMA TrashGone ==
  ASSUME FateInv, GoneInv, NEW p \in Procs, Trash(p)
  PROVE  GoneInv'
<1>1. PICK h : h = run[p]
  OBVIOUS
<1>2. PICK n : n = [h EXCEPT !.pc = "clear"]
  OBVIOUS
<1>3. /\ h.pc = "trash" /\ run' = [run EXCEPT ![p] = n]
      /\ UNCHANGED <<setup, chain, putting, row>>
      /\ stored' \subseteq stored
      /\ \/ OnStorage(p, h.at) = {} /\ stored' = stored
         \/ \E o \in OnStorage(p, h.at) : stored' = stored \ {o}
  BY <1>1, <1>2 DEF Trash, storage, rows
<1>4. /\ h \in Holdings /\ TypeInv /\ Judges(h) /\ Tells
  BY <1>1, AtHand
<1>5. /\ h.at \in Containers /\ OwnAt(BatchOf[h.at]) = {} /\ row[h.at].state # "none"
      /\ h.bat = NoBatch
  BY <1>1, <1>3, <1>4, AtVerdict DEF Judges
<1>6. /\ n.pc = "clear" /\ n.at = h.at /\ n.bat = h.bat /\ n.objs = h.objs
      /\ n.flow = h.flow
  BY <1>2, <1>4 DEF Holdings
<1>7. ASSUME ~setup.latePuts PROVE ObjectsOf(h.at, stored') = {}
  <2>1. Stocked /\ Handled /\ Lists(h)
    BY <1>1, <1>7 DEF GoneInv, InHand
  <2>2. stored \subseteq h.objs /\ \A o \in h.objs : o[2] = 1
    BY <1>3, <1>5, <2>1 DEF Lists
  <2>3. \A o \in stored : o[1] = h.at => row[h.at].state \in {"spooled", "uploaded"}
    BY <1>5, <2>1 DEF Stocked, Ends
  <2>4. CASE row[h.at].state = "uploaded"
    <3>1. OnStorage(p, h.at) = {row[h.at].obj}
      BY <2>4 DEF OnStorage
    <3>2. row[h.at].obj[1] = h.at /\ row[h.at].obj[2] = 1
      BY <1>4, <1>5, <2>1, <2>4 DEF Tells, Handled
    <3>3. row[h.at].obj \in Objects
      <4>1. row[h.at].obj \in Objects \cup {NoObject}
        BY <1>4, <1>5 DEF TypeInv, TypeOK, Rows
      <4>2. NoObject[1] = NoContainer
        BY DEF NoObject
      <4> QED BY <1>5, <3>2, <4>1, <4>2, DataAssumption
    <3>4. \A o \in stored : o[1] = h.at => o = row[h.at].obj
      <4>1. stored \subseteq Objects
        BY <1>4 DEF TypeInv, TypeOK
      <4> QED BY <2>1, <3>2, <3>3, <4>1 DEF Stocked, Objects
    <3>5. stored' = stored \ {row[h.at].obj}
      BY <1>3, <3>1
    <3> QED BY <3>4, <3>5 DEF ObjectsOf
  <2>5. CASE row[h.at].state = "spooled"
    <3>1. OnStorage(p, h.at) = ObjectsOf(h.at, h.objs)
      BY <1>1, <2>5 DEF OnStorage
    <3>2. CASE ObjectsOf(h.at, h.objs) = {} /\ stored' = stored
      BY <2>2, <3>2 DEF ObjectsOf
    <3>3. ASSUME NEW o \in ObjectsOf(h.at, h.objs), stored' = stored \ {o}
          PROVE  ObjectsOf(h.at, stored') = {}
      <4>1. o[1] = h.at /\ o[2] = 1 /\ o \in Objects
        BY <1>4, <2>2, <3>3 DEF ObjectsOf, Holdings
      <4>2. stored \subseteq Objects
        BY <1>4 DEF TypeInv, TypeOK
      <4>3. \A x \in stored : x[1] = h.at => x = o
        BY <2>1, <4>1, <4>2 DEF Stocked, Objects
      <4> QED BY <3>3, <4>3 DEF ObjectsOf
    <3> QED BY <1>3, <3>1, <3>2, <3>3
  <2>6. CASE row[h.at].state \notin {"spooled", "uploaded"}
    BY <1>3, <2>3, <2>6 DEF ObjectsOf
  <2> QED BY <2>4, <2>5, <2>6
<1>8. ASSUME ~setup.latePuts PROVE Lists(n)'
  <2>1. Lists(h)
    BY <1>1, <1>8 DEF GoneInv, InHand
  <2>2. ObjectsOf(n.at, stored)' = {}
    BY <1>6, <1>7, <1>8 DEF ObjectsOf
  <2> QED BY <1>3, <1>6, <2>1, <2>2 DEF Lists
<1>9. n.pc # "idle" /\ h.pc # "idle"
  BY <1>3, <1>6
<1> QED BY <1>1, <1>3, <1>6, <1>8, <1>9, CallGone

LEMMA TrashFailsGone ==
  ASSUME FateInv, GoneInv, NEW p \in Procs, TrashFails(p)
  PROVE  GoneInv'
<1>1. PICK h : h = run[p]
  OBVIOUS
<1>2. PICK n : n = [h EXCEPT !.todo = h.todo \ {h.at}, !.pc = "settle"]
  OBVIOUS
<1>3. /\ h.pc = "trash" /\ UNCHANGED <<setup, chain, putting, row>>
      /\ stored' \subseteq stored
  BY <1>1 DEF TrashFails, storage, rows
<1>4. run' = [run EXCEPT ![p] = n]
  BY <1>1, <1>2 DEF TrashFails
<1>5. h \in Holdings
  BY <1>1, AtHand
<1>6. n.pc = "settle" /\ n.bat = h.bat /\ n.objs = h.objs /\ n.flow = h.flow
  BY <1>2, <1>5 DEF Holdings
<1>7. ASSUME ~setup.latePuts PROVE Lists(n)'
  <2>1. Lists(h)
    BY <1>1, <1>7 DEF GoneInv, InHand
  <2> QED BY <1>3, <1>6, <2>1 DEF Lists
<1>8. n.pc # "idle" /\ h.pc # "idle"
  BY <1>3, <1>6
<1> QED BY <1>1, <1>3, <1>4, <1>6, <1>7, <1>8, CallGone

LEMMA ClearRowGone ==
  ASSUME FateInv, GoneInv, NEW p \in Procs, ClearRow(p)
  PROVE  GoneInv'
<1>1. PICK h : h = run[p]
  OBVIOUS
<1>2. PICK c : c = h.at
  OBVIOUS
<1>3. PICK n : n = [h EXCEPT !.todo = h.todo \ {c}, !.pc = "settle"]
  OBVIOUS
<1>4. /\ h.pc = "clear" /\ UNCHANGED <<setup, chain, putting, stored>> /\ Clear({c})
  BY <1>1, <1>2 DEF ClearRow, storage
<1>5. run' = [run EXCEPT ![p] = n]
  BY <1>1, <1>2, <1>3 DEF ClearRow
<1>6. h \in Holdings /\ Judges(h)
  BY <1>1, AtHand
<1>7. n.pc = "settle" /\ n.bat = h.bat /\ n.objs = h.objs /\ n.flow = h.flow
  BY <1>3, <1>6 DEF Holdings
<1>8. \A d \in Containers : row'[d] = IF d = c THEN NoRow ELSE row[d]
  BY <1>4 DEF Clear
<1>9. ASSUME ~setup.latePuts
      PROVE  /\ \A d \in Containers :
                  ObjectsOf(d, stored \cup putting) # {} /\ Ends(d) => Ends(d)'
             /\ Handled'
  <2>1. Coming /\ Handled /\ Lists(h)
    BY <1>1, <1>9 DEF GoneInv, InHand
  <2>2. putting = {}
    BY <1>1, <1>4, <1>6, <2>1, NothingComes DEF Judges
  <2>3. OwnAt(BatchOf[c]) # {} \/ ObjectsOf(c, stored) = {}
    BY <1>2, <1>4, <2>1 DEF Lists
  <2>4. \A d \in Containers : ObjectsOf(d, stored \cup putting) # {} /\ Ends(d) => Ends(d)'
    <3>1. stored \cup putting = stored
      BY <2>2
    <3>2. \A b : OwnAt(b)' = OwnAt(b)
      BY <1>4 DEF OwnAt
    <3> QED BY <1>8, <2>3, <3>1, <3>2 DEF Ends
  <2>5. Handled'
    <3>1. NoRow.state = "none"
      BY DEF NoRow
    <3> QED BY <1>8, <2>1, <3>1 DEF Handled
  <2> QED BY <2>4, <2>5
<1>10. ASSUME ~setup.latePuts PROVE Lists(n)'
  <2>1. Lists(h) /\ Coming
    BY <1>1, <1>10 DEF GoneInv, InHand
  <2>2. n.flow = "sync" => stored \subseteq n.objs
    <3> QED BY <1>1, <1>4, <1>6, <1>7, <2>1 DEF Lists, Judges
  <2> QED BY <1>4, <1>7, <2>1, <2>2 DEF Lists
<1>11. n.pc # "idle" /\ h.pc # "idle" /\ stored' \subseteq stored
  BY <1>4, <1>7
<1> QED BY <1>1, <1>4, <1>5, <1>7, <1>9, <1>10, <1>11, SameBatchGone

\* A call on the batch at work that looks at no listing: what is known of every
\* Container still is.
LEMMA WorkGone ==
  ASSUME FateInv, GoneInv, UNCHANGED <<setup, chain, putting, stored>>, NEW p \in Procs,
         NEW h, h = run[p], h.pc # "idle", NEW n, run' = [run EXCEPT ![p] = n],
         n.bat = h.bat, n.objs = h.objs, n.bat # NoBatch,
         n.pc \notin {"idle", "trash", "clear"},
         \/ UNCHANGED row
         \/ /\ \A c \in Containers : Ends(c) => Ends(c)'
            /\ ~setup.latePuts => Handled'
  PROVE  GoneInv'
<1>1. ASSUME ~setup.latePuts PROVE Lists(n)'
  <2>1. Lists(h)
    BY <1>1 DEF GoneInv, InHand
  <2> QED BY <2>1 DEF Lists
<1>2. CASE UNCHANGED row
  BY <1>1, <1>2, CallGone
<1>3. CASE (\A c \in Containers : Ends(c) => Ends(c)') /\ (~setup.latePuts => Handled')
  BY <1>1, <1>3, SameBatchGone
<1> QED BY <1>2, <1>3

LEMMA SettledGone ==
  ASSUME FateInv, GoneInv, NEW p \in Procs, Settled(p)
  PROVE  GoneInv'
<1>1. PICK h : h = run[p]
  OBVIOUS
<1>2. PICK n : n = [NoRun EXCEPT !.flow = "sync", !.pc = "scan"]
  OBVIOUS
<1>3. h.pc = "settle" /\ UNCHANGED rows
  BY <1>1 DEF Settled
<1>4. CASE Over(p)
  BY <1>1, <1>3, <1>4, OverGone
<1>5. CASE run' = [run EXCEPT ![p] = n] /\ UNCHANGED <<storage, owner>>
  <2>1. h.bat = NoBatch
    BY <1>1, <1>3, AtHand DEF Judges
  <2>2. n.pc = "scan" /\ n.bat = NoBatch /\ n.objs = {}
    BY <1>2 DEF NoRun
  <2>3. Lists(n)'
    BY <2>2 DEF Lists
  <2>4. UNCHANGED <<setup, chain, putting, stored, row>>
    BY <1>3, <1>5 DEF storage, rows
  <2> QED BY <1>1, <1>3, <1>5, <2>1, <2>2, <2>3, <2>4, CallGone
<1> QED BY <1>2, <1>4, <1>5 DEF Settled

\* A new batch is begun where nothing is on its way.
LEMMA ScanGone ==
  ASSUME FateInv, GoneInv, NEW p \in Procs, Scan(p)
  PROVE  GoneInv'
<1>1. PICK h : h = run[p]
  OBVIOUS
<1>2. h.pc = "scan" /\ UNCHANGED rows
  BY <1>1 DEF Scan
<1>3. CASE Over(p)
  BY <1>1, <1>2, <1>3, OverGone
<1>4. ASSUME NEW b \in Batches, UNCHANGED storage,
             run' = [run EXCEPT ![p].bat = b, ![p].todo = Of(b), ![p].pc = "spool"]
      PROVE  GoneInv'
  <2>1. PICK S : S = Of(b)
    OBVIOUS
  <2>2. PICK n : n = [h EXCEPT !.bat = b, !.todo = S, !.pc = "spool"]
    OBVIOUS
  <2>3. run' = [run EXCEPT ![p] = n]
    BY <1>1, <1>4, <2>1, <2>2
  <2>4. h \in Holdings /\ h.bat = NoBatch
    BY <1>1, <1>2, AtHand DEF Judges
  <2>5. n.pc = "spool" /\ n.objs = h.objs
    BY <2>2, <2>4 DEF Holdings
  <2>6. UNCHANGED <<setup, chain, putting, stored, row>>
    BY <1>2, <1>4 DEF storage, rows
  <2>7. ASSUME ~setup.latePuts PROVE Stocked' /\ Coming' /\ Handled' /\ Lists(n)'
    <3>1. Stocked /\ Coming /\ Handled /\ Lists(h)
      BY <1>1, <2>7 DEF GoneInv, InHand
    <3>2. putting = {}
      BY <1>1, <1>2, <2>4, <3>1, NothingComes
    <3>3. Stocked' /\ Handled'
      BY <2>6, <3>1 DEF Stocked, Handled, Ends, OwnAt
    <3>4. Coming'
      BY <2>6, <3>2 DEF Coming
    <3>5. Lists(n)'
      BY <2>5, <3>1 DEF Lists
    <3> QED BY <3>3, <3>4, <3>5
  <2> QED BY <1>1, <1>2, <2>3, <2>6, <2>7, OneLists
<1> QED BY <1>1, <1>3, <1>4 DEF Scan

\* A Container that is announced was in no record and had no object.
LEMMA AnnounceGone ==
  ASSUME FateInv, GoneInv, NEW p \in Procs, Announce(p)
  PROVE  GoneInv'
<1>1. PICK h : h = run[p]
  OBVIOUS
<1>2. h.pc = "spool" /\ UNCHANGED <<setup, chain, putting, stored>>
  BY <1>1 DEF Announce, storage
<1>3. PICK c \in h.todo :
        /\ row' = [row EXCEPT ![c] = [NoRow EXCEPT !.state = "spooling"]]
        /\ run' = [run EXCEPT ![p].at = c, ![p].pc = "write"]
  BY <1>1 DEF Announce
<1>4. PICK n : n = [h EXCEPT !.at = c, !.pc = "write"]
  OBVIOUS
<1>5. run' = [run EXCEPT ![p] = n]
  BY <1>1, <1>3, <1>4
<1>6. /\ h \in Holdings /\ Makes(h) /\ TypeInv /\ h.bat \in Batches
      /\ h.todo \subseteq Of(h.bat) /\ OwnAt(h.bat) = {}
      /\ \A d \in Of(h.bat) : d \in Containers /\ BatchOf[d] = h.bat
  BY <1>1, <1>2, AtMaking DEF Making
<1>7. n.pc = "write" /\ n.bat = h.bat /\ n.objs = h.objs
  BY <1>4, <1>6 DEF Holdings
<1>8. /\ c \in Containers /\ BatchOf[c] = h.bat
      /\ row'[c].state = "spooling" /\ \A d \in Containers \ {c} : row'[d] = row[d]
  BY <1>3, <1>6 DEF TypeInv, TypeOK, NoRow
<1>9. row[c].state = "none"
  <2>1. c \notin used
    BY <1>2, <1>3, <1>6 DEF Makes
  <2> QED BY <1>8, <2>1 DEF FateInv, AccountInv, RowsInv, RowsAgree, NoRow
<1>10. ~Ends(c)
  BY <1>6, <1>8, <1>9 DEF Ends
<1>11. \A d \in Containers : Ends(d) => Ends(d)'
  <2>1. ASSUME NEW d \in Containers, d # c, Ends(d) PROVE Ends(d)'
    BY <1>2, <1>8, <2>1 DEF Ends, OwnAt
  <2> QED BY <1>10, <2>1
<1>12. ASSUME ~setup.latePuts PROVE Handled'
  <2>1. Handled
    BY <1>12 DEF GoneInv
  <2>2. ASSUME NEW d \in Containers, row'[d].state = "uploaded" PROVE row'[d].obj[2] = 1
    BY <1>8, <2>1, <2>2 DEF Handled
  <2> QED BY <2>2 DEF Handled
<1>13. h.bat # NoBatch /\ h.pc # "idle" /\ n.pc \notin {"idle", "trash", "clear"}
  BY <1>2, <1>6, <1>7, DataAssumption
<1> QED BY <1>1, <1>2, <1>5, <1>7, <1>11, <1>12, <1>13, WorkGone

LEMMA MarkSpooledGone ==
  ASSUME FateInv, GoneInv, NEW p \in Procs, MarkSpooled(p)
  PROVE  GoneInv'
<1>1. PICK h : h = run[p]
  OBVIOUS
<1>2. PICK n : n = [h EXCEPT !.todo = h.todo \ {h.at}, !.pc = "spool"]
  OBVIOUS
<1>3. /\ h.pc = "whole" /\ UNCHANGED <<setup, chain, putting, stored>>
      /\ row' = [row EXCEPT ![h.at].state = IF @ = "spooling" THEN "spooled" ELSE @]
  BY <1>1 DEF MarkSpooled, storage
<1>4. run' = [run EXCEPT ![p] = n]
  BY <1>1, <1>2 DEF MarkSpooled
<1>5. h \in Holdings /\ TypeInv /\ h.bat \in Batches
  BY <1>1, <1>3, AtMaking DEF Making
<1>6. n.pc = "spool" /\ n.bat = h.bat /\ n.objs = h.objs
  BY <1>2, <1>5 DEF Holdings
<1>7. \A d \in Containers :
        /\ row'[d].obj = row[d].obj
        /\ row'[d].state \in {row[d].state, "spooled"}
  BY <1>3, <1>5 DEF TypeInv, TypeOK, Rows
<1>8. \A d \in Containers : Ends(d) => Ends(d)'
  BY <1>3, <1>7 DEF Ends, OwnAt
<1>9. ASSUME ~setup.latePuts PROVE Handled'
  BY <1>7, <1>9 DEF GoneInv, Handled
<1>10. h.bat # NoBatch /\ h.pc # "idle" /\ n.pc \notin {"idle", "trash", "clear"}
  BY <1>3, <1>5, <1>6, DataAssumption
<1> QED BY <1>1, <1>3, <1>4, <1>6, <1>8, <1>9, <1>10, WorkGone

\* The calls of a batch's making that leave its rows and its objects alone.
LEMMA MakingGone ==
  ASSUME FateInv, GoneInv, NEW p \in Procs,
         WriteSpool(p) \/ AllSpooled(p) \/ PutAnswered(p) \/ AllUploaded(p)
  PROVE  GoneInv'
<1>1. PICK h : h = run[p]
  OBVIOUS
<1>2. h.pc \in {"write", "spool", "putting", "upload"}
  BY <1>1 DEF WriteSpool, AllSpooled, PutAnswered, AllUploaded
<1>3. h \in Holdings /\ h.bat \in Batches
  BY <1>1, <1>2, AtMaking DEF Making
<1>4. \E n : /\ run' = [run EXCEPT ![p] = n] /\ n.bat = h.bat /\ n.objs = h.objs
             /\ n.pc \notin {"idle", "trash", "clear"}
  <2>1. CASE WriteSpool(p)
    <3>1. PICK n : n = [h EXCEPT !.pc = "whole"]
      OBVIOUS
    <3>2. run' = [run EXCEPT ![p] = n]
      BY <1>1, <2>1, <3>1 DEF WriteSpool
    <3>3. n.bat = h.bat /\ n.objs = h.objs /\ n.pc = "whole"
      BY <1>3, <3>1 DEF Holdings
    <3> QED BY <3>2, <3>3
  <2>2. CASE AllSpooled(p)
    <3>1. PICK S : S = Of(h.bat)
      OBVIOUS
    <3>2. PICK n : n = [h EXCEPT !.todo = S, !.pc = "upload"]
      OBVIOUS
    <3>3. run' = [run EXCEPT ![p] = n]
      BY <1>1, <2>2, <3>1, <3>2 DEF AllSpooled
    <3>4. n.bat = h.bat /\ n.objs = h.objs /\ n.pc = "upload"
      BY <1>3, <3>2 DEF Holdings
    <3> QED BY <3>3, <3>4
  <2>3. CASE PutAnswered(p)
    <3>1. PICK o : o = StoredAs(h.obj)
      OBVIOUS
    <3>2. PICK n : n = [h EXCEPT !.obj = o, !.pc = "handle"]
      OBVIOUS
    <3>3. run' = [run EXCEPT ![p] = n]
      BY <1>1, <2>3, <3>1, <3>2 DEF PutAnswered
    <3>4. n.bat = h.bat /\ n.objs = h.objs /\ n.pc = "handle"
      BY <1>3, <3>2 DEF Holdings
    <3> QED BY <3>3, <3>4
  <2>4. CASE AllUploaded(p)
    <3>1. PICK n : n = [h EXCEPT !.pc = "list"]
      OBVIOUS
    <3>2. run' = [run EXCEPT ![p] = n]
      BY <1>1, <2>4, <3>1 DEF AllUploaded
    <3>3. n.bat = h.bat /\ n.objs = h.objs /\ n.pc = "list"
      BY <1>3, <3>1 DEF Holdings
    <3> QED BY <3>2, <3>3
  <2> QED BY <2>1, <2>2, <2>3, <2>4
<1>5. UNCHANGED <<setup, chain, putting, stored, row>>
  BY DEF WriteSpool, AllSpooled, PutAnswered, AllUploaded, storage, rows
<1>6. h.bat # NoBatch /\ h.pc # "idle"
  BY <1>2, <1>3, DataAssumption
<1> QED BY <1>1, <1>4, <1>5, <1>6, WorkGone


\* What is sent is of the batch at work, whose rows all stand.
LEMMA SentGone ==
  ASSUME FateInv, GoneInv, UNCHANGED <<setup, chain, stored, row>>, NEW p \in Procs,
         NEW h, h = run[p], h.pc \in {"upload", "putting"}, NEW n, run' = [run EXCEPT ![p] = n],
         NEW o, o[1] \in Of(h.bat), putting' = putting \cup {o},
         n.pc = "putting", n.bat = h.bat, n.objs = h.objs
  PROVE  GoneInv'
<1>1. \A c \in Of(h.bat) : Stands(c)
  BY AtUpload
<1>2. \A c \in Of(h.bat) : BatchOf[c] = h.bat
  BY DEF Of
<1>3. Ends(o[1])
  BY <1>1 DEF Stands, Ends
<1>4. \A c : Ends(c)' = Ends(c)
  BY DEF Ends, OwnAt
<1>5. ASSUME ~setup.latePuts PROVE Stocked' /\ Coming' /\ Handled' /\ Lists(n)'
  <2>1. Stocked /\ Coming /\ Handled /\ Lists(h)
    BY <1>5 DEF GoneInv, InHand
  <2>2. Stocked' /\ Handled'
    BY <1>4, <2>1 DEF Stocked, Handled
  <2>3. \A x \in putting : BatchOf[x[1]] = n.bat
    BY <2>1, ComingIsOwn
  <2>4. BatchOf[o[1]] = n.bat
    BY <1>2
  <2>5. run'[p] = n
    BY AtHand
  <2>6. \A x \in putting' : Ends(x[1])' /\ BatchOf[x[1]] = n.bat
    BY <1>3, <1>4, <2>1, <2>3, <2>4 DEF Coming
  <2>7. Coming'
    BY <2>5, <2>6 DEF Coming, InHand
  <2>8. Lists(n)'
    BY <2>1 DEF Lists
  <2> QED BY <2>2, <2>7, <2>8
<1> QED BY <1>5, OneLists

LEMMA PutGone ==
  ASSUME FateInv, GoneInv, NEW p \in Procs, Put(p)
  PROVE  GoneInv'
<1>1. PICK h : h = run[p]
  OBVIOUS
<1>2. h.pc = "upload" /\ UNCHANGED <<setup, chain, stored, row>>
  BY <1>1 DEF Put, rows
<1>3. PICK c \in h.todo :
        /\ putting' = putting \cup {<<c, 1>>}
        /\ run' = [run EXCEPT ![p].at = c, ![p].obj = <<c, 1>>, ![p].pc = "putting"]
  BY <1>1 DEF Put
<1>4. PICK o : o = <<c, 1>>
  OBVIOUS
<1>5. PICK n : n = [h EXCEPT !.at = c, !.obj = o, !.pc = "putting"]
  OBVIOUS
<1>6. run' = [run EXCEPT ![p] = n]
  BY <1>1, <1>3, <1>4, <1>5
<1>7. h \in Holdings /\ h.todo \subseteq Of(h.bat)
  BY <1>1, <1>2, AtMaking DEF Making
<1>8. n.pc = "putting" /\ n.bat = h.bat /\ n.objs = h.objs
  BY <1>5, <1>7 DEF Holdings
<1>9. o[1] \in Of(h.bat)
  BY <1>3, <1>4, <1>7
<1> QED BY <1>1, <1>2, <1>3, <1>4, <1>6, <1>8, <1>9, SentGone

LEMMA PutAgainGone ==
  ASSUME FateInv, GoneInv, NEW p \in Procs, PutAgain(p)
  PROVE  GoneInv'
<1>1. PICK h : h = run[p]
  OBVIOUS
<1>2. h.pc = "putting" /\ UNCHANGED <<setup, chain, stored, row>>
  BY <1>1 DEF PutAgain, rows
<1>3. PICK o : o = <<h.at, h.obj[2] + 1>>
  OBVIOUS
<1>4. PICK n : n = [h EXCEPT !.obj = o]
  OBVIOUS
<1>5. run' = [run EXCEPT ![p] = n] /\ putting' = putting \cup {o}
  BY <1>1, <1>3, <1>4 DEF PutAgain
<1>6. h \in Holdings /\ h.at \in Of(h.bat)
  BY <1>1, <1>2, AtMaking DEF Making, MakingOne
<1>7. n.pc = "putting" /\ n.bat = h.bat /\ n.objs = h.objs
  BY <1>2, <1>4, <1>6 DEF Holdings
<1>8. o[1] \in Of(h.bat)
  BY <1>3, <1>6
<1> QED BY <1>1, <1>2, <1>5, <1>7, <1>8, SentGone

\* The handle a row records is of an object that is there.
LEMMA RecordHandleGone ==
  ASSUME FateInv, GoneInv, NEW p \in Procs, RecordHandle(p)
  PROVE  GoneInv'
<1>1. PICK h : h = run[p]
  OBVIOUS
<1>2. PICK n : n = [h EXCEPT !.got = h.got \cup {h.obj}, !.todo = h.todo \ {h.at},
                             !.pc = "upload"]
  OBVIOUS
<1>3. /\ h.pc = "handle" /\ UNCHANGED <<setup, chain, putting, stored>>
      /\ row' = [row EXCEPT ![h.at] = [state |-> "uploaded", obj |-> h.obj, tried |-> FALSE]]
  BY <1>1 DEF RecordHandle, storage
<1>4. run' = [run EXCEPT ![p] = n]
  BY <1>1, <1>2 DEF RecordHandle
<1>5. h \in Holdings /\ TypeInv /\ h.bat \in Batches
  BY <1>1, <1>3, AtMaking DEF Making
<1>6. h.obj \in stored
  BY <1>1, <1>3, AtUpload
<1>7. n.pc = "upload" /\ n.bat = h.bat /\ n.objs = h.objs
  BY <1>2, <1>5 DEF Holdings
<1>8. \A d \in Containers :
        \/ row'[d] = row[d]
        \/ row'[d].state = "uploaded" /\ row'[d].obj = h.obj
  BY <1>3, <1>5 DEF TypeInv, TypeOK
<1>9. \A d \in Containers : Ends(d) => Ends(d)'
  BY <1>3, <1>8 DEF Ends, OwnAt
<1>10. ASSUME ~setup.latePuts PROVE Handled'
  BY <1>6, <1>8, <1>10 DEF GoneInv, Handled, Stocked
<1>11. h.bat # NoBatch /\ h.pc # "idle" /\ n.pc \notin {"idle", "trash", "clear"}
  BY <1>3, <1>5, <1>7, DataAssumption
<1> QED BY <1>1, <1>3, <1>4, <1>7, <1>9, <1>10, <1>11, WorkGone

LEMMA MarkAttemptGone ==
  ASSUME FateInv, GoneInv, NEW p \in Procs, MarkAttempt(p)
  PROVE  GoneInv'
<1>1. PICK h : h = run[p]
  OBVIOUS
<1>2. PICK n : n = [h EXCEPT !.pc = "send"]
  OBVIOUS
<1>3. /\ h.pc = "attempt" /\ run' = [run EXCEPT ![p] = n] /\ Marked(p)
      /\ UNCHANGED <<setup, chain, putting, stored>>
  BY <1>1, <1>2 DEF MarkAttempt, storage
<1>4. h \in Holdings /\ TypeInv /\ h.bat # NoBatch
  BY <1>1, <1>3, AtCommit
<1>5. n.pc = "send" /\ n.bat = h.bat /\ n.objs = h.objs
  BY <1>2, <1>4 DEF Holdings
<1>6. \A c \in Containers : row'[c].state = row[c].state /\ row'[c].obj = row[c].obj
  BY <1>3, <1>4 DEF Marked, TypeInv, TypeOK, Rows
<1>7. \A c \in Containers : Ends(c) => Ends(c)'
  BY <1>3, <1>6 DEF Ends, OwnAt
<1>8. ASSUME ~setup.latePuts PROVE Handled'
  BY <1>6, <1>8 DEF GoneInv, Handled
<1>9. h.pc # "idle" /\ n.pc \notin {"idle", "trash", "clear"}
  BY <1>3, <1>5
<1> QED BY <1>1, <1>3, <1>4, <1>5, <1>7, <1>8, <1>9, WorkGone

\* The rows go, of a batch that is in a record.
LEMMA RefreshGone ==
  ASSUME FateInv, GoneInv, NEW p \in Procs, Refresh(p)
  PROVE  GoneInv'
<1>1. PICK h : h = run[p]
  OBVIOUS
<1>2. PICK S : S = Of(h.bat)
  OBVIOUS
<1>3. PICK n : n = [h EXCEPT !.todo = S, !.pc = "discard"]
  OBVIOUS
<1>4. h.pc = "refresh" /\ Clear(S) /\ UNCHANGED <<setup, chain, putting, stored>>
  BY <1>1, <1>2 DEF Refresh, storage
<1>5. run' = [run EXCEPT ![p] = n]
  BY <1>1, <1>2, <1>3 DEF Refresh
<1>6. h \in Holdings /\ h.bat # NoBatch /\ OwnAt(h.bat) # {}
  BY <1>1, <1>4, AtCommit DEF Tries
<1>7. n.pc = "discard" /\ n.bat = h.bat /\ n.objs = h.objs
  BY <1>3, <1>6 DEF Holdings
<1>8. \A d \in Containers : row'[d] = IF d \in S THEN NoRow ELSE row[d]
  BY <1>4 DEF Clear
<1>9. \A d \in Containers : Ends(d) => Ends(d)'
  <2>1. \A b : OwnAt(b)' = OwnAt(b)
    BY <1>4 DEF OwnAt
  <2>2. \A d \in S : BatchOf[d] = h.bat
    BY <1>2 DEF Of
  <2> QED BY <1>6, <1>8, <2>1, <2>2 DEF Ends
<1>10. ASSUME ~setup.latePuts PROVE Handled'
  <2>1. NoRow.state = "none"
    BY DEF NoRow
  <2> QED BY <1>8, <1>10, <2>1 DEF GoneInv, Handled
<1>11. h.pc # "idle" /\ n.pc \notin {"idle", "trash", "clear"}
  BY <1>4, <1>7
<1> QED BY <1>1, <1>4, <1>5, <1>6, <1>7, <1>9, <1>10, <1>11, WorkGone

LEMMA RetryGone ==
  ASSUME FateInv, GoneInv, UNCHANGED rows, NEW p \in Procs,
         NEW h, h = run[p], h.pc \in {"aim", "readback"}, NEW k, Retry(p, k)
  PROVE  GoneInv'
<1>1. CASE Over(p)
  BY <1>1, OverGone
<1>2. CASE run' = [run EXCEPT ![p].tries = k, ![p].pc = "list"] /\ UNCHANGED <<storage, owner>>
  <2>1. PICK n : n = [h EXCEPT !.tries = k, !.pc = "list"]
    OBVIOUS
  <2>2. run' = [run EXCEPT ![p] = n]
    BY <1>2, <2>1
  <2>3. h \in Holdings /\ h.bat # NoBatch
    BY AtCommit
  <2>4. n.pc = "list" /\ n.bat = h.bat /\ n.objs = h.objs
    BY <2>1, <2>3 DEF Holdings
  <2>5. UNCHANGED <<setup, chain, putting, stored, row>>
    BY <1>2 DEF storage, rows
  <2> QED BY <2>2, <2>3, <2>4, <2>5, WorkGone
<1> QED BY <1>1, <1>2 DEF Retry

LEMMA AimGone ==
  ASSUME FateInv, GoneInv, NEW p \in Procs, Aim(p)
  PROVE  GoneInv'
<1>1. PICK h : h = run[p]
  OBVIOUS
<1>2. h.pc = "aim" /\ UNCHANGED rows
  BY <1>1 DEF Aim
<1>3. CASE Over(p)
  BY <1>1, <1>2, <1>3, OverGone
<1>4. CASE Retry(p, run[p].tries + 1)
  BY <1>1, <1>2, <1>4, RetryGone
<1>5. CASE /\ run' = [run EXCEPT ![p].slot = idx + 1, ![p].tries = @ + 1, ![p].pc = "attempt"]
           /\ UNCHANGED <<storage, owner>>
  <2>1. PICK k : k = idx + 1
    OBVIOUS
  <2>2. PICK n : n = [h EXCEPT !.slot = k, !.tries = @ + 1, !.pc = "attempt"]
    OBVIOUS
  <2>3. run' = [run EXCEPT ![p] = n]
    BY <1>1, <1>5, <2>1, <2>2
  <2>4. h \in Holdings /\ h.bat # NoBatch
    BY <1>1, <1>2, AtCommit
  <2>5. n.pc = "attempt" /\ n.bat = h.bat /\ n.objs = h.objs
    BY <2>2, <2>4 DEF Holdings
  <2>6. UNCHANGED <<setup, chain, putting, stored, row>>
    BY <1>2, <1>5 DEF storage, rows
  <2> QED BY <1>1, <1>2, <2>3, <2>4, <2>5, <2>6, WorkGone
<1> QED BY <1>3, <1>4, <1>5 DEF Aim

\* The calls of a commit that leave rows and objects alone.
LEMMA CommittingGone ==
  ASSUME FateInv, GoneInv, NEW p \in Procs,
         Send(p) \/ Created(p) \/ Refused(p) \/ ReadBackOwn(p) \/ DiscardSpool(p)
  PROVE  GoneInv'
<1>1. PICK h : h = run[p]
  OBVIOUS
<1>2. h.pc \in {"send", "await", "readback", "discard"}
  BY <1>1 DEF Send, Created, Refused, ReadBackOwn, DiscardSpool
<1>3. h \in Holdings /\ h.bat # NoBatch
  BY <1>1, <1>2, AtCommit
<1>4. \E n : /\ run' = [run EXCEPT ![p] = n] /\ n.bat = h.bat /\ n.objs = h.objs
             /\ n.pc \notin {"idle", "trash", "clear"}
  <2>1. CASE Send(p) \/ Created(p) \/ Refused(p) \/ ReadBackOwn(p)
    <3>1. PICK l \in {"await", "refresh", "readback"} : run' = [run EXCEPT ![p].pc = l]
      BY <2>1 DEF Send, Created, Refused, ReadBackOwn
    <3>2. PICK n : n = [h EXCEPT !.pc = l]
      OBVIOUS
    <3>3. run' = [run EXCEPT ![p] = n]
      BY <1>1, <3>1, <3>2
    <3>4. n.bat = h.bat /\ n.objs = h.objs /\ n.pc = l
      BY <1>3, <3>2 DEF Holdings
    <3> QED BY <3>3, <3>4
  <2>2. CASE DiscardSpool(p)
    <3>1. PICK c : run' = [run EXCEPT ![p].todo = @ \ {c}]
      BY <2>2 DEF DiscardSpool
    <3>2. PICK n : n = [h EXCEPT !.todo = h.todo \ {c}]
      OBVIOUS
    <3>3. run' = [run EXCEPT ![p] = n]
      BY <1>1, <3>1, <3>2
    <3>4. n.bat = h.bat /\ n.objs = h.objs /\ n.pc = h.pc
      BY <1>3, <3>2 DEF Holdings
    <3> QED BY <1>2, <3>3, <3>4
  <2> QED BY <2>1, <2>2
<1>5. UNCHANGED <<setup, chain, putting, stored, row>>
  BY DEF Send, Created, Refused, ReadBackOwn, DiscardSpool, storage, rows
<1>6. h.pc # "idle"
  BY <1>2
<1> QED BY <1>1, <1>3, <1>4, <1>5, <1>6, WorkGone

LEMMA InitGone == ASSUME Init PROVE GoneInv
<1>1. stored = {} /\ putting = {} /\ NoRow.state = "none"
  BY DEF Init, NoRow
<1>2. \A c \in Containers : row[c].state = "none"
  BY <1>1 DEF Init
<1>3. \A h \in InHand : h = NoRun
  BY DEF Init, InHand
<1>4. \A h \in InHand : Lists(h)
  BY <1>3, NothingListed
<1> QED BY <1>1, <1>2, <1>4 DEF GoneInv, Stocked, Coming, Handled

LEMMA NextGone == ASSUME FateInv, GoneInv, OneObject, [Next]_vars PROVE GoneInv'
<1>1. ASSUME NEW p \in Procs, NEW flow \in {"sync", "completion"}, Open(p, flow)
      PROVE  GoneInv'
  BY <1>1, OpenGone
<1>2. ASSUME NEW p \in Procs, Kill(p) PROVE GoneInv'
  BY <1>2, OverGone DEF Kill
<1>3. ASSUME NEW p \in Procs, Settling(p) PROVE GoneInv'
  BY <1>3, ReadsGone, CompleteGone, DisposeGone, TrashGone, TrashFailsGone, ClearRowGone,
     SettledGone
  DEF Settling
<1>4. ASSUME NEW p \in Procs, Producing(p) PROVE GoneInv'
  BY <1>4, ScanGone, AnnounceGone, MarkSpooledGone, MakingGone, PutGone, PutAgainGone,
     RecordHandleGone
  DEF Producing
<1>5. ASSUME NEW p \in Procs, Committing(p) PROVE GoneInv'
  <2>1. CASE Committed(p)
    BY <2>1, OverGone DEF Committed
  <2>2. CASE ReadBackOther(p)
    <3>1. run[p].pc = "readback" /\ Retry(p, run[p].tries) /\ UNCHANGED rows
      BY <2>2 DEF ReadBackOther
    <3> QED BY <3>1, RetryGone
  <2> QED
    BY <1>5, <2>1, <2>2, AimGone, MarkAttemptGone, RefreshGone, CommittingGone DEF Committing
<1> QED BY <1>1, <1>2, <1>3, <1>4, <1>5, AroundGone DEF Next, Step

\* A Container that was reclaimed has no object left on Storage, then or later,
\* where no put reaches Storage after its run and every object of a Container
\* can be named (dispose.rs).
THEOREM ReclaimedStaysGone ==
  ASSUME OneObject PROVE Spec => []ReclaimedGone
<1>1. Init => FateInv /\ GoneInv
  BY InitFate, InitGone
<1>2. FateInv /\ GoneInv /\ [Next]_vars => (FateInv /\ GoneInv)'
  BY NextFate, NextGone
<1>3. FateInv /\ GoneInv => ReclaimedGone
  <2> SUFFICES ASSUME FateInv, GoneInv, ~setup.latePuts, NEW c \in Containers,
                      FateOf[c] = "reclaimed", NEW o \in ObjectsOf(c, stored)
               PROVE  FALSE
    BY DEF ReclaimedGone
  <2>1. Ends(c)
    BY DEF GoneInv, Stocked, ObjectsOf
  <2>2. OwnAt(BatchOf[c]) = {} /\ row[c].state = "none"
    BY FateIs
  <2> QED BY <2>1, <2>2 DEF Ends
<1> QED BY <1>1, <1>2, <1>3, PTL DEF Spec
=============================================================================
