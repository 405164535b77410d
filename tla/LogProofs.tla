----------------------------- MODULE LogProofs -----------------------------
(***************************************************************************)
(* One log: that a batch enters the chain once, that what left the chain   *)
(* never returns to it, and that the steps of all processes are together   *)
(* steps of LibraryLog, where Storage answers what it did and no Journal   *)
(* record is pruned.                                                       *)
(***************************************************************************)
EXTENDS CatalogProofs, FiniteSetTheorems, SequenceTheorems

-----------------------------------------------------------------------------
(* The invariant *)

\* A refused create found its slot taken, and a read-back finds what is there:
\* no answer is made up, and no record is pruned before it is read back.
AnswersHeard == ~Unreliable /\ Pruners = {}

\* The slot of a record went to another one.
Blocked(r) == \E q \in created : q.gen = r.gen /\ q # r

\* The records of a batch that are in the chain, or may yet be.
Standing(b) == {r \in created \cup sent : r.batch = b /\ ~Blocked(r)}

\* Nothing is pruned, one record is the newest, and each Container a Keyring
\* maps was added by a record; what one removed no later Keyring maps.
Stored ==
  /\ live = created
  /\ \E h \in created : \A r \in created : r.gen <= h.gen
  /\ \A r \in created : \A c \in r.maps : \E q \in created : q.batch = c
  /\ \A q, r \in created : q.gen <= r.gen => q.rm \cap r.maps = {}
  /\ \A c \in trash : \E r \in created : c \in r.rm

\* Whatever was sent is some run's, and of one batch one record at most stands.
Written ==
  /\ \A r \in created \cup sent :
       IF r.batch \in Batches THEN outcome[r.batch] # "none" ELSE r = FirstRecord
  /\ \A q, r \in created \cup sent : q.batch = r.batch => q = r \/ Blocked(q) \/ Blocked(r)
  /\ Deletes = {} => \A b \in Batches : outcome[b] = "refused" => Standing(b) = {}

\* A batch is one process's, from its preparation to its report.
OneOwner == \A p, q \in Procs : bat[p] = bat[q] /\ bat[p] # NoBatch => p = q

Owns(p) ==
  /\ pc[p] = "idle" => bat[p] = NoBatch
  /\ pc[p] \in {"standing", "replicate", "aim", "send", "await", "readback", "refresh",
                "clean"} => bat[p] # NoBatch
  /\ bat[p] # NoBatch =>
       /\ bat[p] \in Batches
       /\ outcome[bat[p]] = IF pc[p] \in {"clean", "snapshot", "put", "done"}
                            THEN "committed" ELSE "open"
       /\ bat[p] \in Removing => rm[p] # {}

\* Where its batch may already be in the chain a process knows nothing of it:
\* it is one that adds nothing, so that no read-back tells it from a rival's,
\* and what it removes is current no more.
Unknown(p) ==
  \A r \in Standing(bat[p]) :
    /\ r \in created /\ r.rm = rm[p] /\ rm[p] # {} /\ bat[p] \in Deletes
    /\ pc[p] # "list" => r.gen <= ListedHead(p)

Tried(p) ==
  /\ /\ bat[p] # NoBatch
     /\ pc[p] \in {"list", "held", "walk", "restore", "fetch", "apply", "caught"}
     => Unknown(p)
  /\ pc[p] \in {"standing", "replicate", "aim", "send"} => Standing(bat[p]) = {}
  /\ pc[p] \in {"aim", "send", "await", "readback"} => rec[p].rm = rm[p]
  /\ pc[p] \in {"await", "readback"} => Standing(bat[p]) \subseteq {rec[p]}
  /\ pc[p] = "readback" => Blocked(rec[p]) \/ rec[p] \in created
  /\ pc[p] = "clean" => rec[p] \in created

LogInv == Stored /\ Written /\ OneOwner /\ \A p \in Procs : Owns(p) /\ Tried(p)

-----------------------------------------------------------------------------
(* What the processes that did not move know *)

\* What a process that moves may send is of its own batch.
SendsOwn(p) == sent' \subseteq sent \/ (sent' = sent \cup {rec[p]} /\ rec[p].batch = bat[p])

LEMMA StandingShrinks ==
  ASSUME created \subseteq created', created' \subseteq created \cup sent, NEW b,
         \A r \in sent' \ sent : r.batch # b
  PROVE  Standing(b)' \subseteq Standing(b)
<1> SUFFICES ASSUME NEW r \in Standing(b)' PROVE r \in Standing(b)
  OBVIOUS
<1>1. r \in created' \cup sent' /\ r.batch = b /\ \A q \in created' : ~(q.gen = r.gen /\ q # r)
  BY DEF Standing, Blocked
<1>2. r \in created \cup sent
  BY <1>1
<1> QED BY <1>1, <1>2 DEF Standing, Blocked

\* A process that did not move tries what it tried.
LEMMA OthersTry ==
  ASSUME created \subseteq created', sent \subseteq sent', NEW q \in Procs, Same(q), Tried(q),
         Standing(bat[q])' \subseteq Standing(bat[q])
  PROVE  Tried(q)'
<1>1. UNCHANGED <<pc[q], lst[q], rec[q], bat[q], rm[q]>> /\ ListedHead(q)' = ListedHead(q)
  BY DEF Same, ListedHead
<1>2. Unknown(q) => Unknown(q)'
  BY <1>1 DEF Unknown
<1>3. Blocked(rec[q]) => Blocked(rec[q])'
  BY <1>1 DEF Blocked
<1> QED BY <1>1, <1>2, <1>3 DEF Tried

\* At p, the process that moved, is what is left to show.
LEMMA LogMoves ==
  ASSUME LogInv, NEW p \in Procs, \A q \in Procs \ {p} : Same(q),
         created' = created, live' = live, sent \subseteq sent', SendsOwn(p),
         sent' # sent => bat[p] # NoBatch,
         \A c \in trash' : \E r \in created : c \in r.rm,
         Written', OneOwner', Owns(p)', Tried(p)',
         \A q \in Procs \ {p} : bat[q] # NoBatch => outcome'[bat[q]] = outcome[bat[q]]
  PROVE  LogInv'
<1>1. Stored'
  BY DEF LogInv, Stored
<1>2. ASSUME NEW q \in Procs \ {p} PROVE Owns(q)' /\ Tried(q)'
  <2>1. UNCHANGED <<pc[q], bat[q], rm[q]>> /\ Owns(q) /\ Tried(q)
    BY DEF Same, LogInv
  <2>2. Owns(q)'
    BY <2>1 DEF Owns
  <2>3. \A r \in sent' \ sent : r.batch # bat[q]
    BY DEF SendsOwn, LogInv, OneOwner
  <2>4. Standing(bat[q])' \subseteq Standing(bat[q])
    <3>1. \A b : b = bat[q] => Standing(b)' \subseteq Standing(b)
      BY <2>3, StandingShrinks
    <3> QED BY <2>1, <3>1 DEF Standing, Blocked
  <2>5. Tried(q)'
    BY <2>1, <2>4, OthersTry
  <2> QED BY <2>2, <2>5
<1> QED BY <1>1, <1>2 DEF LogInv

\* A step that reports nothing and sends nothing, within an attempt or a flow.
LEMMA QuietLogInv ==
  ASSUME LogInv, NEW p \in Procs, \A q \in Procs \ {p} : Same(q),
         UNCHANGED <<created, live, sent, outcome>>, bat'[p] = bat[p], rm'[p] = rm[p],
         \A c \in trash' : \E r \in created : c \in r.rm,
         pc'[p] # "idle",
         pc[p] \in {"clean", "snapshot", "put", "done"}
           <=> pc'[p] \in {"clean", "snapshot", "put", "done"},
         pc'[p] \in {"standing", "replicate", "aim", "send", "await", "readback", "refresh",
                   "clean"}
           => bat[p] # NoBatch,
         Tried(p)'
  PROVE  LogInv'
<1>1. Written' /\ OneOwner'
  BY DEF LogInv, Written, OneOwner, Standing, Blocked, Same
<1>2. Owns(p)'
  BY DEF LogInv, Owns
<1>3. SendsOwn(p)
  BY DEF SendsOwn
<1> QED BY <1>1, <1>2, <1>3, LogMoves

\* A run that ends reports of its own batch.
LEMMA EndsLogInv ==
  ASSUME LogInv, TypeOK, NEW p \in Procs, NEW how \in {"committed", "refused", "failed"},
         Finish(p, how), UNCHANGED <<created, live, sent>>,
         how = "refused" /\ Deletes = {} => Standing(bat[p]) = {},
         \A c \in trash' : \E r \in created : c \in r.rm
  PROVE  LogInv'
<1>1. /\ \A q \in Procs \ {p} : Same(q)
      /\ pc'[p] = "idle" /\ bat'[p] = NoBatch
  BY EndsAlone
<1>2. \A b \in Batches : outcome'[b] = IF b = bat[p] /\ outcome[b] = "open" THEN how ELSE outcome[b]
  BY DEF Finish
<1>3. \A b \in Batches : \/ outcome'[b] = outcome[b]
                         \/ b = bat[p] /\ outcome'[b] = how
  BY <1>2
<1>4. \A b : Standing(b)' = Standing(b)
  BY DEF Standing, Blocked
<1>5. Written'
  <2>1. \A r \in created \cup sent :
          IF r.batch \in Batches THEN outcome'[r.batch] # "none" ELSE r = FirstRecord
    BY <1>3 DEF LogInv, Written
  <2>2. \A b \in Batches : Deletes = {} /\ outcome'[b] = "refused" => Standing(b) = {}
    BY <1>3 DEF LogInv, Written
  <2> QED BY <1>4, <2>1, <2>2 DEF LogInv, Written, Blocked
<1>6. OneOwner' /\ Owns(p)' /\ Tried(p)'
  BY <1>1 DEF LogInv, OneOwner, Owns, Tried, Same
<1>7. \A q \in Procs \ {p} : bat[q] # NoBatch => outcome'[bat[q]] = outcome[bat[q]]
  BY <1>3 DEF LogInv, OneOwner, Owns
<1>8. SendsOwn(p)
  BY DEF SendsOwn
<1> QED BY <1>1, <1>5, <1>6, <1>7, <1>8, LogMoves

\* An attempt that lost is tried again, where what is in the chain of its batch,
\* if anything, is what no read-back could tell.
LEMMA RetriesLogInv ==
  ASSUME LogInv, TypeOK, NEW p \in Procs, Retry(p), UNCHANGED <<storage, idx>>,
         pc[p] \in {"aim", "readback"},
         \A r \in Standing(bat[p]) :
           r \in created /\ r.rm = rm[p] /\ rm[p] # {} /\ bat[p] \in Deletes
  PROVE  LogInv'
<1>1. UNCHANGED <<created, live, sent, trash>>
  BY DEF storage
<1>2. \A c \in trash' : \E r \in created : c \in r.rm
  BY <1>1 DEF LogInv, Stored
<1>3. CASE Finish(p, "failed")
  BY <1>1, <1>2, <1>3, EndsLogInv
<1>4. CASE ~Finish(p, "failed")
  <2>1. /\ pc'[p] = "list" /\ UNCHANGED <<outcome, bat, rm>>
        /\ \A q \in Procs \ {p} : Same(q)
    BY <1>4, RetriesAlone DEF TypeOK
  <2>2. Standing(bat[p])' = Standing(bat[p])
    BY <1>1, <2>1 DEF Standing, Blocked
  <2>3. Tried(p)'
    BY <1>1, <2>1, <2>2 DEF Tried, Unknown
  <2> QED BY <1>1, <1>2, <2>1, <2>3, QuietLogInv
<1> QED BY <1>3, <1>4

-----------------------------------------------------------------------------
(* A record lands *)

LEMMA FirstStands ==
  ASSUME CatalogInv, Stored
  PROVE  FirstRecord \in created
<1>1. PICK h \in created : TRUE
  BY DEF Stored
<1>2. h.gen \in Nat
  BY RootedBelow DEF CatalogInv
<1>3. PICK r \in created : r.gen = 0
  BY <1>2 DEF CatalogInv, Recorded, Dense
<1>4. r = FirstRecord
  BY <1>3 DEF CatalogInv, ChainInv, Chained, Rooted
<1> QED BY <1>3, <1>4

\* A record that lands succeeds the newest, and is the only one of its batch.
LEMMA LandOnTop ==
  ASSUME AnswersHeard, CatalogInv, LogInv, NEW r \in sent, Land(r)
  PROVE  /\ r.gen \in Nat /\ r.batch \in Batches
         /\ \A q \in created : q.gen \in Nat /\ q.gen < r.gen /\ q.batch # r.batch
         /\ \E t \in created : /\ r.gen = t.gen + 1 /\ r.rm \subseteq t.maps
                               /\ r.maps = (t.maps \ r.rm) \cup Adds(r.batch)
<1>1. ChainInv' /\ created' = created \cup {r} /\ r \notin created
  BY LandChainInv DEF CatalogInv, Land, AnswersHeard
<1>2. ~Passed(r.gen) /\ Exact(r)
  BY <1>1, LandExtends
<1>3. /\ r.gen \in Nat /\ \A q \in created : q.gen \in Nat
      /\ r.gen = 0 \/ \E t \in created : t.gen + 1 = r.gen
  BY RootedBelow DEF CatalogInv
<1>4. \A q \in created : q.gen < r.gen
  BY <1>2, <1>3 DEF Passed
<1>5. FirstRecord \in created
  BY FirstStands DEF LogInv
<1>6. r.gen # 0 /\ r # FirstRecord
  BY <1>1, <1>5 DEF CatalogInv, ChainInv, Chained, Rooted
<1>7. PICK t \in created : t.gen + 1 = r.gen
  BY <1>3, <1>6
<1>8. r.gen = t.gen + 1
  BY <1>7
<1>9. r.rm \subseteq t.maps /\ r.maps = (t.maps \ r.rm) \cup Adds(r.batch)
  BY <1>2, <1>8 DEF Exact
<1>10. \A q \in created : q.batch # r.batch
  <2> SUFFICES ASSUME NEW q \in created, q.batch = r.batch PROVE FALSE
    OBVIOUS
  <2>1. q = r \/ Blocked(q) \/ Blocked(r)
    BY DEF LogInv, Written
  <2>2. ~Blocked(q)
    BY DEF Blocked, CatalogInv, ChainInv, Chained, OneSuccessor
  <2>3. ~Blocked(r)
    BY <1>3, <1>4 DEF Blocked
  <2> QED BY <1>1, <2>1, <2>2, <2>3
<1>11. r.batch \in Batches
  BY <1>6 DEF LogInv, Written
<1> QED BY <1>3, <1>4, <1>8, <1>9, <1>10, <1>11

\* What may yet be stored of an addition is not in the chain: no record of its
\* batch is, so that nothing the chain removed is put back.
LEMMA LandStored ==
  ASSUME AnswersHeard, CatalogInv, LogInv, NEW r \in sent, Land(r)
  PROVE  Stored'
<1>1. /\ live' = live \cup {r} /\ created' = created \cup {r}
      /\ UNCHANGED <<sent, trash>>
  BY DEF Land
<1>2. /\ r.gen \in Nat
      /\ \A q \in created : q.gen \in Nat /\ q.gen < r.gen /\ q.batch # r.batch
  BY LandOnTop
<1>3. \A q \in created : q.gen < r.gen
  BY <1>2
<1>4. PICK t \in created : /\ r.gen = t.gen + 1 /\ r.rm \subseteq t.maps
                          /\ r.maps = (t.maps \ r.rm) \cup Adds(r.batch)
  BY LandOnTop
<1>5. r.rm \subseteq t.maps /\ r.maps = (t.maps \ r.rm) \cup Adds(r.batch)
  BY <1>4
<1>6. \A q \in created : q.batch # r.batch
  BY <1>2
<1>7. r.batch \in Batches
  BY LandOnTop
<1>8. r.batch \notin t.maps /\ \A q \in created : r.batch \notin q.maps
  BY <1>6 DEF LogInv, Stored
<1>9. ASSUME NEW q \in created PROVE r.batch \notin q.rm
  <2>1. CASE q.gen = 0
    BY <2>1 DEF CatalogInv, ChainInv, Chained, Rooted, FirstRecord
  <2>2. CASE q.gen # 0
    <3>1. PICK u \in created : u.gen + 1 = q.gen
      BY <2>2, RootedBelow DEF CatalogInv
    <3>2. q.gen = u.gen + 1
      BY <3>1
    <3>3. q.rm \subseteq u.maps
      BY <3>2 DEF CatalogInv, Recorded, Exact
    <3> QED BY <1>8, <3>3
  <2> QED BY <2>1, <2>2
<1>10. Adds(r.batch) \subseteq {r.batch}
  BY DEF Adds
<1>11. ASSUME NEW q \in created', NEW u \in created', q.gen <= u.gen PROVE q.rm \cap u.maps = {}
  <2>1. CASE q \in created /\ u \in created
    BY <1>11, <2>1 DEF LogInv, Stored
  <2>2. CASE q \in created /\ u = r
    <3>1. q.gen <= t.gen
      BY <1>2, <1>3, <1>4, <2>2
    <3>2. q.rm \cap t.maps = {}
      BY <2>2, <3>1 DEF LogInv, Stored
    <3> QED BY <1>5, <1>9, <1>10, <2>2, <3>2
  <2>3. CASE q = r /\ u = r
    BY <1>5, <1>8, <1>10, <2>3
  <2>4. ~(q = r /\ u \in created)
    BY <1>2, <1>3, <1>11
  <2> QED BY <1>1, <2>1, <2>2, <2>3, <2>4
<1>12. \A u \in created' : \A c \in u.maps : \E q \in created' : q.batch = c
  BY <1>1, <1>5, <1>10 DEF LogInv, Stored
<1>13. \A u \in created' : u.gen <= r.gen
  BY <1>1, <1>2, <1>3
<1>14. \A c \in trash' : \E u \in created' : c \in u.rm
  BY <1>1 DEF LogInv, Stored
<1>15. live' = created'
  BY <1>1 DEF LogInv, Stored
<1> QED BY <1>1, <1>11, <1>12, <1>13, <1>14, <1>15 DEF Stored

LEMMA LandLogInv ==
  ASSUME AnswersHeard, CatalogInv, LogInv, NEW r \in sent, Land(r)
  PROVE  LogInv'
<1>1. /\ created' = created \cup {r} /\ sent' = sent
      /\ UNCHANGED <<pc, job, lst, nxt, kept, hand, rec, bat, rm, base, tries, outcome>>
  BY DEF Land, reading, batching
<1>2. \A b : Standing(b)' \subseteq Standing(b)
  BY <1>1, StandingShrinks
<1>3. Written'
  <2>1. \A q : Blocked(q) => Blocked(q)'
    BY <1>1 DEF Blocked
  <2>2. (\A q, u \in created \cup sent : q.batch = u.batch => q = u \/ Blocked(q) \/ Blocked(u))'
    <3> SUFFICES ASSUME NEW q \in created' \cup sent', NEW u \in created' \cup sent',
                        q.batch = u.batch
                 PROVE  q = u \/ Blocked(q)' \/ Blocked(u)'
      OBVIOUS
    <3>1. q \in created \cup sent /\ u \in created \cup sent
      BY <1>1
    <3> QED BY <2>1, <3>1 DEF LogInv, Written
  <2>3. (\A q \in created \cup sent :
           IF q.batch \in Batches THEN outcome[q.batch] # "none" ELSE q = FirstRecord)'
    BY <1>1 DEF LogInv, Written
  <2>4. (Deletes = {} => \A b \in Batches : outcome[b] = "refused" => Standing(b) = {})'
    BY <1>1, <1>2 DEF LogInv, Written
  <2> QED BY <2>2, <2>3, <2>4 DEF Written
<1>4. OneOwner'
  BY <1>1 DEF LogInv, OneOwner
<1>5. ASSUME NEW q \in Procs PROVE Owns(q)' /\ Tried(q)'
  <2>1. Owns(q)'
    BY <1>1 DEF LogInv, Owns
  <2>2. Same(q)
    BY <1>1 DEF Same
  <2>3. Standing(bat[q])' \subseteq Standing(bat[q])
    <3>1. \A b : b = bat[q] => Standing(b)' \subseteq Standing(b)
      BY <1>2
    <3> QED BY <1>1, <3>1 DEF Standing, Blocked
  <2>4. Tried(q)'
    BY <1>1, <2>2, <2>3, OthersTry DEF LogInv
  <2> QED BY <2>1, <2>4
<1> QED BY <1>3, <1>4, <1>5, LandStored DEF LogInv

-----------------------------------------------------------------------------
(* Each step of a run *)

LEMMA CatchUpLogInv ==
  ASSUME CatalogInv, LogInv, NEW p \in Procs, CatchUpStep(p)
  PROVE  LogInv'
<1>1. TypeOK /\ TypeOK'
  BY CatchUpTypeInv DEF CatalogInv, ChainInv, TypeInv
<1>2. \A q \in Procs \ {p} : Same(q)
  BY <1>1, CatchUpAlone
<1>3. UNCHANGED <<live, created, sent, trash>>
  BY DEF CatchUpStep, List, ReadHeld, Walk, WalkRefused, Restore, Fetch, FetchMissing,
         Apply, CaughtUp, storage
<1>4. \A c \in trash' : \E r \in created : c \in r.rm
  BY <1>3 DEF LogInv, Stored
<1>5. Tried(p) /\ \A b : Standing(b)' = Standing(b)
  BY <1>3 DEF LogInv, Standing, Blocked
<1>6. CASE List(p)
  <2>1. /\ pc[p] = "list" /\ pc'[p] = "held" /\ lst'[p].recs = live
        /\ UNCHANGED <<outcome, bat, rm>>
    BY <1>1, <1>6 DEF List, TypeOK, Goto, batching
  <2>2. \A r \in created : r.gen <= ListedHead(p)'
    <3> DEFINE G == {r.gen : r \in live}
    <3>1. PICK h \in created : \A r \in created : r.gen <= h.gen
      BY DEF LogInv, Stored
    <3>2. G \subseteq Gens /\ h.gen \in G /\ \A g \in G : g <= h.gen
      BY <1>1, <3>1, RecordFields DEF LogInv, Stored, TypeOK, Gens
    <3>3. ListedHead(p)' = Newest(G)
      BY <2>1 DEF ListedHead
    <3> HIDE DEF G
    <3>4. Newest(G) = h.gen
      BY <3>2, NewestIsTop
    <3> QED BY <3>1, <3>3, <3>4
  <2>3. bat[p] # NoBatch => Unknown(p)
    BY <1>5, <2>1 DEF Tried
  <2>4. \A b : b = bat[p] => Standing(bat[p])' = Standing(b)
    BY <1>3, <2>1 DEF Standing, Blocked
  <2>5. bat[p] # NoBatch => Unknown(p)'
    BY <1>3, <2>1, <2>2, <2>3, <2>4 DEF Unknown
  <2>6. Tried(p)'
    BY <2>1, <2>5 DEF Tried
  <2> QED BY <1>2, <1>3, <1>4, <2>1, <2>6, QuietLogInv
<1>7. CASE ReadHeld(p) \/ Walk(p) \/ Restore(p) \/ Fetch(p) \/ Apply(p)
  <2>1. /\ pc[p] \in {"held", "walk", "restore", "fetch", "apply"}
        /\ UNCHANGED <<outcome, bat, rm, lst>>
    BY <1>7 DEF ReadHeld, Walk, Restore, Fetch, Apply, batching
  <2>2. pc'[p] \in {"walk", "restore", "fetch", "apply", "caught"}
    BY <1>1, <1>7, WalkChooses DEF ReadHeld, Restore, Fetch, Apply, AfterReplay, TypeOK, Goto
  <2>3. bat[p] # NoBatch => Unknown(p)
    BY <1>5, <2>1 DEF Tried
  <2>4. ListedHead(p)' = ListedHead(p) /\ \A b : b = bat[p] => Standing(bat[p])' = Standing(b)
    BY <1>3, <2>1 DEF Standing, Blocked, ListedHead
  <2>5. bat[p] # NoBatch => Unknown(p)'
    BY <1>3, <2>1, <2>3, <2>4 DEF Unknown
  <2>6. Tried(p)'
    BY <2>1, <2>2, <2>5 DEF Tried
  <2> QED BY <1>2, <1>3, <1>4, <2>1, <2>2, <2>6, QuietLogInv
<1>8. CASE WalkRefused(p) \/ FetchMissing(p) \/ CaughtUp(p)
  BY <1>1, <1>3, <1>4, <1>8, EndsLogInv DEF WalkRefused, FetchMissing, CaughtUp
<1> QED BY <1>6, <1>7, <1>8 DEF CatchUpStep

\* A batch that is in the chain already is not admitted again: what it removed
\* is not current at any head at or above its record.
LEMMA CheckFindsOut ==
  ASSUME CatalogInv, LogInv, NEW p \in Procs, pc[p] = "caught", bat[p] # NoBatch,
         Admits(Index(p), bat[p], rm[p])
  PROVE  Standing(bat[p]) = {}
<1> SUFFICES ASSUME NEW r \in Standing(bat[p]) PROVE FALSE
  OBVIOUS
<1>1. r \in created /\ r.rm = rm[p] /\ rm[p] # {} /\ r.gen <= ListedHead(p)
  BY DEF LogInv, Tried, Unknown
<1>2. ListedHead(p) <= Index(p).gen /\ Sound(Index(p))
  BY ProcAssumption DEF ProcAssumption, CatalogInv, Catalogued, Reached, Index
<1>3. TypeOK
  BY DEF CatalogInv, ChainInv, TypeInv
<1>4. r.gen \in Nat /\ ListedHead(p) \in Int /\ Index(p).gen \in Int
  BY <1>1, <1>3, RecordFields, HeadIsGen, ProcAssumption, CatalogFields
  DEF TypeOK, Gens, Index, ProcAssumption
<1>5. Index(p) # NoCatalog
  BY <1>1, <1>2, <1>4 DEF NoCatalog
<1>6. PICK q \in created : q.gen = Index(p).gen /\ Index(p).cur = q.maps
  BY <1>2, <1>5 DEF Sound, Follows
<1>7. r.gen <= q.gen
  BY <1>1, <1>2, <1>4, <1>6
<1>8. r.rm \cap q.maps = {}
  BY <1>1, <1>7 DEF LogInv, Stored
<1> QED BY <1>1, <1>6, <1>8 DEF Admits

LEMMA CommitLogInv ==
  ASSUME AnswersHeard, CatalogInv, ReportInv, LogInv, NEW p \in Procs, CommitStep(p)
  PROVE  LogInv'
<1> USE ProcAssumption DEF ProcAssumption
<1>1. TypeOK /\ TypeOK' /\ Working(p)
  BY CommitTypeInv DEF CatalogInv, ChainInv, TypeInv
<1>2. \A q \in Procs \ {p} : Same(q)
  BY <1>1, CommitAlone
<1>3. UNCHANGED <<live, created, snaps>>
  BY DEF CommitStep, Check, CheckMissing, ReadStanding, Replicate, ReplicateRefused,
         Aim, AimMoved, AimMissing, Send, Created, Refused, ReadBackOwn,
         ReadBackOther, Refresh, TrashRemovals, storage
<1>4. UNCHANGED trash => \A c \in trash' : \E r \in created : c \in r.rm
  BY DEF LogInv, Stored
<1>5. Tried(p) /\ Owns(p) /\ Reports(p)
  BY DEF LogInv, ReportInv
<1>a. ASSUME sent' = sent, bat'[p] = bat[p] PROVE Standing(bat[p])' = Standing(bat[p])
  BY <1>3, <1>a DEF Standing, Blocked
<1>6. CASE Check(p)
  <2>1. /\ pc[p] = "caught" /\ UNCHANGED <<sent, trash>> /\ bat[p] # NoBatch
    BY <1>1, <1>6, BatchAssumption DEF Check, storage, Working, BatchAssumption
  <2>2. CASE ~Admits(idx[DeviceOf[p]], bat[p], rm[p])
    <3>1. Deletes = {} => Standing(bat[p]) = {}
      BY <1>5, <2>1 DEF Tried, Unknown
    <3> QED BY <1>1, <1>3, <1>4, <1>6, <2>1, <2>2, <3>1, EndsLogInv DEF Check
  <2>3. CASE Admits(idx[DeviceOf[p]], bat[p], rm[p])
    <3>1. /\ UNCHANGED <<bat, rm, outcome>> /\ pc'[p] = "standing"
      BY <1>1, <1>6, <2>3 DEF Check, Goto, TypeOK
    <3>2. Standing(bat[p])' = {}
      BY <1>a, <2>1, <2>3, <3>1, CheckFindsOut DEF Index
    <3>3. Tried(p)'
      BY <3>1, <3>2 DEF Tried
    <3> QED BY <1>2, <1>3, <1>4, <2>1, <3>1, <3>3, QuietLogInv
  <2> QED BY <2>2, <2>3
<1>7. CASE ReadStanding(p) \/ Aim(p)
  <2>1. /\ UNCHANGED <<sent, trash, bat, rm, rec, outcome>>
        /\ \/ pc[p] = "standing" /\ pc'[p] = "replicate"
           \/ pc[p] = "aim" /\ pc'[p] = "send"
    BY <1>1, <1>7 DEF ReadStanding, Aim, Goto, TypeOK, storage, batching
  <2>2. Standing(bat[p])' = {}
    BY <1>5, <1>a, <2>1 DEF Tried
  <2>3. Tried(p)'
    BY <1>5, <2>1, <2>2 DEF Tried
  <2>4. bat[p] # NoBatch
    BY <1>5, <2>1 DEF Owns
  <2> QED BY <1>2, <1>3, <1>4, <2>1, <2>3, <2>4, QuietLogInv
<1>8. CASE Replicate(p)
  <2>1. /\ UNCHANGED <<sent, trash, bat, rm, outcome>>
        /\ pc[p] = "replicate" /\ pc'[p] = "aim" /\ rec'[p].rm = rm[p]
    BY <1>1, <1>8 DEF Replicate, Goto, TypeOK, storage, batching
  <2>2. Standing(bat[p])' = {}
    BY <1>5, <1>a, <2>1 DEF Tried
  <2>3. Tried(p)'
    BY <1>5, <2>1, <2>2 DEF Tried
  <2>4. bat[p] # NoBatch
    BY <1>5, <2>1 DEF Owns
  <2> QED BY <1>2, <1>3, <1>4, <2>1, <2>3, <2>4, QuietLogInv
<1>9. CASE Send(p)
  <2>1. /\ UNCHANGED <<trash, bat, rm, rec, outcome>> /\ sent' = sent \cup {rec[p]}
        /\ pc[p] = "send" /\ pc'[p] = "await"
    BY <1>1, <1>9 DEF Send, Goto, TypeOK, batching
  <2>2. bat[p] # NoBatch /\ bat[p] \in Batches /\ outcome[bat[p]] = "open"
        /\ rec[p].batch = bat[p] /\ rec[p].rm = rm[p] /\ Standing(bat[p]) = {}
    BY <1>5, <2>1 DEF Owns, Reports, Tried
  <2>3. Standing(bat[p])' \subseteq {rec[p]}
    BY <1>3, <2>1, <2>2 DEF Standing, Blocked
  <2>4. \A r : Blocked(r)' <=> Blocked(r)
    BY <1>3 DEF Blocked
  <2>5. Written'
    <3>1. \A r \in created \cup sent' :
            IF r.batch \in Batches THEN outcome[r.batch] # "none" ELSE r = FirstRecord
      BY <2>1, <2>2 DEF LogInv, Written
    <3>2. \A r \in created \cup sent : r.batch = rec[p].batch => Blocked(r)
      BY <2>2 DEF Standing
    <3>3. \A q, r \in created \cup sent' : q.batch = r.batch => q = r \/ Blocked(q) \/ Blocked(r)
      BY <2>1, <3>2 DEF LogInv, Written
    <3>4. ASSUME Deletes = {}, NEW b \in Batches, outcome[b] = "refused" PROVE Standing(b)' = {}
      <4>1. b # bat[p] /\ Standing(b) = {}
        BY <2>2, <3>4 DEF LogInv, Written
      <4> QED BY <1>3, <2>1, <2>2, <4>1 DEF Standing, Blocked
    <3> QED BY <1>3, <2>1, <2>4, <3>1, <3>3, <3>4 DEF Written
  <2>6. OneOwner' /\ Owns(p)'
    BY <1>5, <2>1, <2>2 DEF LogInv, OneOwner, Owns
  <2>7. Tried(p)'
    BY <2>1, <2>2, <2>3 DEF Tried
  <2>8. SendsOwn(p)
    BY <2>1, <2>2 DEF SendsOwn
  <2> QED BY <1>2, <1>3, <1>4, <2>1, <2>2, <2>5, <2>6, <2>7, <2>8, LogMoves
<1>10. CASE Created(p)
  <2>1. /\ UNCHANGED <<sent, trash, bat, rm, outcome>> /\ pc[p] = "await" /\ pc'[p] = "refresh"
    BY <1>1, <1>10 DEF Created, Goto, TypeOK, storage, batching
  <2>2. Tried(p)' /\ bat[p] # NoBatch
    BY <1>5, <2>1 DEF Tried, Owns
  <2> QED BY <1>2, <1>3, <1>4, <2>1, <2>2, QuietLogInv
<1>11. CASE Refused(p)
  <2>1. /\ UNCHANGED <<sent, trash, bat, rm, rec, outcome>>
        /\ pc[p] = "await" /\ pc'[p] = "readback" /\ ~SlotFree(rec[p])
    BY <1>1, <1>11 DEF Refused, Goto, TypeOK, storage, batching, AnswersHeard
  <2>2. \E q \in created : q.gen = rec[p].gen
    BY <1>1, <2>1 DEF SlotFree, TypeOK
  <2>3. Blocked(rec[p]) \/ rec[p] \in created
    BY <2>2 DEF Blocked
  <2>4. (Blocked(rec[p]) \/ rec[p] \in created)'
    BY <1>3, <2>1, <2>3 DEF Blocked
  <2>5. Standing(bat[p])' \subseteq {rec[p]} /\ rec[p].rm = rm[p] /\ bat[p] # NoBatch
    BY <1>5, <1>a, <2>1 DEF Tried, Owns
  <2>6. Tried(p)'
    BY <2>1, <2>4, <2>5 DEF Tried
  <2> QED BY <1>2, <1>3, <1>4, <2>1, <2>5, <2>6, QuietLogInv
<1>12. CASE ReadBackOwn(p)
  <2>1. /\ UNCHANGED <<sent, trash, bat, rm, outcome>> /\ pc[p] = "readback" /\ pc'[p] = "refresh"
    BY <1>1, <1>12 DEF ReadBackOwn, Goto, TypeOK, storage, batching
  <2>2. Tried(p)' /\ bat[p] # NoBatch
    BY <1>5, <2>1 DEF Tried, Owns
  <2> QED BY <1>2, <1>3, <1>4, <2>1, <2>2, QuietLogInv
<1>13. CASE ReadBackOther(p)
  <2>1. /\ pc[p] = "readback" /\ OwnRecords(p) = {} /\ Retry(p) /\ UNCHANGED <<storage, idx>>
    BY <1>13 DEF ReadBackOther, AnswersHeard
  <2>2. /\ Standing(bat[p]) \subseteq {rec[p]} /\ rec[p].rm = rm[p]
        /\ Blocked(rec[p]) \/ rec[p] \in created
        /\ rec[p].batch = bat[p] /\ bat[p] \in Batches
        /\ bat[p] \in Removing => rm[p] # {}
    BY <1>5, <2>1 DEF Tried, Owns, Reports
  <2>3. ASSUME NEW r \in Standing(bat[p])
        PROVE  r \in created /\ r.rm = rm[p] /\ rm[p] # {} /\ bat[p] \in Deletes
    <3>1. r = rec[p] /\ ~Blocked(r)
      BY <2>2 DEF Standing
    <3>2. r \in created /\ r \in live
      BY <2>2, <3>1 DEF LogInv, Stored
    <3>3. r \notin OwnRecords(p)
      BY <2>1
    <3>4. Adds(bat[p]) = {}
      BY <2>2, <3>1, <3>2, <3>3 DEF OwnRecords
    <3>5. bat[p] \in Deletes /\ bat[p] \in Removing
      BY <2>2, <3>4, BatchAssumption DEF Adds, BatchAssumption
    <3> QED BY <2>2, <3>1, <3>2, <3>5
  <2> QED BY <1>1, <2>1, <2>3, RetriesLogInv
<1>14. CASE AimMoved(p)
  <2>1. pc[p] = "aim" /\ Retry(p) /\ UNCHANGED <<storage, idx>>
    BY <1>14 DEF AimMoved
  <2>2. Standing(bat[p]) = {}
    BY <1>5, <2>1 DEF Tried
  <2> QED BY <1>1, <2>1, <2>2, RetriesLogInv
<1>15. CASE CheckMissing(p) \/ ReplicateRefused(p) \/ AimMissing(p)
  BY <1>1, <1>3, <1>4, <1>15, EndsLogInv
  DEF CheckMissing, ReplicateRefused, AimMissing, storage
<1>16. CASE Refresh(p)
  <2>1. /\ UNCHANGED <<sent, trash, bat, rm, rec>> /\ pc[p] = "refresh" /\ pc'[p] = "clean"
        /\ outcome' = [outcome EXCEPT ![bat[p]] = "committed"]
    BY <1>1, <1>16 DEF Refresh, Goto, TypeOK, storage
  <2>2. /\ bat[p] # NoBatch /\ bat[p] \in Batches /\ rec[p] \in created
        /\ bat[p] \in Removing => rm[p] # {}
    BY <1>5, <2>1 DEF Owns, Reports
  <2>3. /\ outcome'[bat[p]] = "committed"
        /\ \A b \in Batches \ {bat[p]} : outcome'[b] = outcome[b]
    BY <1>1, <2>1, <2>2 DEF TypeOK
  <2>4. Written'
    BY <1>3, <2>1, <2>2, <2>3 DEF LogInv, Written, Standing, Blocked
  <2>5. OneOwner' /\ Owns(p)' /\ Tried(p)'
    BY <1>3, <2>1, <2>2, <2>3 DEF LogInv, OneOwner, Owns, Tried
  <2>6. \A q \in Procs \ {p} : bat[q] # NoBatch => outcome'[bat[q]] = outcome[bat[q]]
    BY <2>2, <2>3 DEF LogInv, OneOwner, Owns
  <2>7. SendsOwn(p)
    BY <2>1 DEF SendsOwn
  <2> QED BY <1>2, <1>3, <1>4, <2>1, <2>4, <2>5, <2>6, <2>7, LogMoves
<1>17. CASE TrashRemovals(p)
  <2>1. /\ UNCHANGED sent /\ pc[p] = "clean"
        /\ \E gone \in SUBSET rec[p].rm : trash' = trash \cup gone
    BY <1>17 DEF TrashRemovals
  <2>2. \A c \in trash' : \E r \in created : c \in r.rm
    <3>1. rec[p] \in created
      BY <1>5, <2>1 DEF Tried
    <3>2. \A c \in trash : \E r \in created : c \in r.rm
      BY DEF LogInv, Stored
    <3> QED BY <2>1, <3>1, <3>2
  <2>3. CASE Due(p)
    <3>1. pc'[p] = "snapshot" /\ UNCHANGED <<outcome, bat, rm>>
      BY <1>1, <1>17, <2>3 DEF TrashRemovals, Goto, TypeOK, batching
    <3>2. Tried(p)'
      BY <3>1 DEF Tried
    <3> QED BY <1>2, <1>3, <2>1, <2>2, <3>1, <3>2, QuietLogInv
  <2>4. CASE ~Due(p)
    BY <1>1, <1>3, <1>17, <2>1, <2>2, <2>4, EndsLogInv DEF TrashRemovals
  <2> QED BY <2>3, <2>4
<1> QED BY <1>6, <1>7, <1>8, <1>9, <1>10, <1>11, <1>12, <1>13, <1>14, <1>15, <1>16, <1>17
        DEF CommitStep

LEMMA PruneLogInv ==
  ASSUME AnswersHeard, CatalogInv, LogInv, NEW p \in Procs, PruneStep(p)
  PROVE  LogInv'
<1>1. TypeOK /\ job[p] # "prune" /\ pc[p] \notin {"gate", "prune"}
  BY DEF CatalogInv, ChainInv, TypeInv, Local, Pruning, AnswersHeard
<1>2. \A q \in Procs \ {p} : Same(q)
  BY <1>1, PruneAlone
<1>3. UNCHANGED <<live, created, sent, trash>>
  BY <1>1 DEF PruneStep, ReadCatalog, PutSnapshot, SnapshotExists, CommitDone, ReadHead,
              ReadHeadMissing, Gate, Prune, PruneDone, storage
<1>4. \A c \in trash' : \E r \in created : c \in r.rm
  BY <1>3 DEF LogInv, Stored
<1>5. CASE Finish(p, "failed") \/ Finish(p, "committed")
  BY <1>1, <1>3, <1>4, <1>5, EndsLogInv
<1>6. CASE ~Finish(p, "failed") /\ ~Finish(p, "committed")
  <2>1. /\ UNCHANGED <<outcome, bat, rm>> /\ pc[p] \in {"snapshot", "put"}
        /\ pc'[p] \in {"put", "done"}
    BY <1>1, <1>6 DEF PruneStep, ReadCatalog, PutSnapshot, SnapshotExists, CommitDone, ReadHead,
                      ReadHeadMissing, Gate, Prune, PruneDone, AfterCheckpoint, Goto, TypeOK,
                      batching
  <2>2. Tried(p)'
    BY <2>1 DEF Tried
  <2> QED BY <1>2, <1>3, <1>4, <2>1, <2>2, QuietLogInv
<1> QED BY <1>5, <1>6

LEMMA PrepareLogInv ==
  ASSUME CatalogInv, LogInv, NEW p \in Procs, NEW b \in Batches, NEW gone \in SUBSET Containers,
         Prepare(p, b, gone)
  PROVE  LogInv'
<1>1. TypeOK
  BY DEF CatalogInv, ChainInv, TypeInv
<1>2. \A q \in Procs \ {p} : Same(q)
  BY <1>1, MovesAlone DEF Moves
<1>3. /\ UNCHANGED <<live, created, sent, trash>>
      /\ pc'[p] = "list" /\ bat'[p] = b /\ rm'[p] = gone
      /\ outcome[b] = "none" /\ outcome'[b] = "open"
      /\ \A c \in Batches \ {b} : outcome'[c] = outcome[c]
  BY <1>1 DEF Prepare, storage, Goto, TypeOK
<1>4. b \in Removing => gone # {}
  <2>1. b \in Removing => Cardinality(gone) = 1
    BY DEF Prepare
  <2>2. Cardinality({}) = 0
    BY FS_EmptySet
  <2> QED BY <2>1, <2>2
<1>5. b # NoBatch /\ \A q \in Procs : bat[q] # b
  BY <1>3, BatchAssumption DEF BatchAssumption, LogInv, Owns
<1>6. Standing(b) = {} /\ \A c : Standing(c)' = Standing(c)
  BY <1>3 DEF Standing, Blocked, LogInv, Written
<1>7. Written'
  <2>1. \A r \in created \cup sent :
          IF r.batch \in Batches THEN outcome'[r.batch] # "none" ELSE r = FirstRecord
    BY <1>3 DEF LogInv, Written
  <2>2. \A c \in Batches : Deletes = {} /\ outcome'[c] = "refused" => Standing(c) = {}
    BY <1>3 DEF LogInv, Written
  <2> QED BY <1>3, <1>6, <2>1, <2>2 DEF LogInv, Written, Blocked
<1>8. OneOwner'
  BY <1>2, <1>3, <1>5 DEF LogInv, OneOwner, Same
<1>9. Owns(p)'
  BY <1>3, <1>4, <1>5 DEF Owns
<1>10. Tried(p)'
  <2>1. \A c : c = b => Standing(bat[p])' = Standing(c)
    BY <1>3 DEF Standing, Blocked
  <2>2. Unknown(p)'
    BY <1>6, <2>1 DEF Unknown
  <2> QED BY <1>3, <2>2 DEF Tried
<1>11. \A q \in Procs \ {p} : bat[q] # NoBatch => outcome'[bat[q]] = outcome[bat[q]]
  BY <1>3, <1>5 DEF LogInv, Owns
<1>12. \A c \in trash' : \E r \in created : c \in r.rm
  BY <1>3 DEF LogInv, Stored
<1>13. SendsOwn(p)
  BY <1>3 DEF SendsOwn
<1> QED BY <1>2, <1>3, <1>7, <1>8, <1>9, <1>10, <1>11, <1>12, <1>13, LogMoves

LEMMA NextLogInv ==
  ASSUME AnswersHeard, CatalogInv, ReportInv, LogInv, [Next]_vars
  PROVE  LogInv'
<1>1. TypeOK
  BY DEF CatalogInv, ChainInv, TypeInv
<1>2. CASE UNCHANGED vars
  <2>1. /\ UNCHANGED <<live, created, sent, trash, outcome>>
        /\ \A q \in Procs : Same(q)
    BY <1>2 DEF vars, storage, reading, batching, Same
  <2>2. (Stored /\ Written)'
    BY <2>1 DEF LogInv, Stored, Written, Blocked, Standing
  <2>3. OneOwner' /\ \A q \in Procs : Owns(q)'
    BY <2>1 DEF LogInv, OneOwner, Owns, Same
  <2>4. ASSUME NEW q \in Procs PROVE Tried(q)'
    <3>1. Same(q) /\ Tried(q)
      BY <2>1 DEF LogInv
    <3>2. \A b : b = bat[q] => Standing(bat[q])' = Standing(b)
      BY <2>1, <3>1 DEF Standing, Blocked, Same
    <3>3. Unknown(q)' <=> Unknown(q)
      BY <2>1, <3>1, <3>2 DEF Unknown, ListedHead, Same
    <3>4. Blocked(rec[q])' <=> Blocked(rec[q])
      BY <2>1, <3>1 DEF Blocked, Same
    <3> QED BY <2>1, <3>1, <3>2, <3>3, <3>4 DEF Tried, Same
  <2>5. \A q \in Procs : Tried(q)'
    BY <2>4
  <2> QED BY <2>2, <2>3, <2>5 DEF LogInv
<1>3. ASSUME NEW p \in Procs, Moves(p) PROVE LogInv'
  <2>1. CASE Step(p)
    BY <2>1, CatchUpLogInv, CommitLogInv, PruneLogInv DEF Step
  <2>2. CASE Abandon(p)
    <3>1. UNCHANGED <<created, live, sent, trash>> /\ Finish(p, "failed")
      BY <2>2 DEF Abandon, storage
    <3>2. \A c \in trash' : \E r \in created : c \in r.rm
      BY <3>1 DEF LogInv, Stored
    <3> QED BY <1>1, <3>1, <3>2, EndsLogInv
  <2>3. ASSUME NEW flow, Start(p, flow) PROVE LogInv'
    <3>1. /\ UNCHANGED <<live, created, sent, trash, outcome, bat, rm>>
          /\ pc[p] = "idle" /\ pc'[p] = "list"
      BY <1>1, <2>3 DEF Start, storage, batching, Goto, TypeOK
    <3>2. \A q \in Procs \ {p} : Same(q)
      BY <1>1, <2>3 DEF Start, TypeOK, Same, Goto, reading, batching
    <3>3. bat[p] = NoBatch /\ \A c \in trash' : \E r \in created : c \in r.rm
      BY <3>1 DEF LogInv, Owns, Stored
    <3>4. Tried(p)'
      BY <3>1, <3>3 DEF Tried
    <3> QED BY <3>1, <3>2, <3>3, <3>4, QuietLogInv
  <2> QED BY <1>3, <2>1, <2>2, <2>3, PrepareLogInv DEF Moves
<1> QED BY <1>2, <1>3, NextMoves, LandLogInv

LEMMA InitLogInv == ASSUME Init PROVE LogInv
<1>1. Stored
  BY DEF Init, Stored, FirstRecord
<1>2. FirstRecord.batch = Genesis
  BY DEF FirstRecord
<1>3. Written
  BY <1>2, BatchAssumption DEF Init, Written, BatchAssumption
<1>4. OneOwner /\ \A p \in Procs : Owns(p) /\ Tried(p)
  BY DEF Init, OneOwner, Owns, Tried
<1> QED BY <1>1, <1>3, <1>4 DEF LogInv

-----------------------------------------------------------------------------
(* What the invariant is for *)

LEMMA LogHolds ==
  ASSUME AnswersHeard
  PROVE  Spec /\ IndexAdvances => [](CatalogInv /\ LogInv)
<1>1. Init => CatalogInv /\ ReportInv /\ LogInv
  BY InitCatalogInv, InitReportInv, InitLogInv
<1>2. CatalogInv /\ ReportInv /\ LogInv /\ [Next]_vars /\ [Advances]_vars
        => (CatalogInv /\ ReportInv /\ LogInv)'
  <2>1. ASSUME CatalogInv, UNCHANGED vars PROVE Advances
    BY <2>1, CatalogFields
    DEF vars, Advances, CatalogInv, ChainInv, TypeInv, TypeOK
  <2>2. SlotsStay
    BY DEF AnswersHeard, SlotsStay
  <2> QED BY <2>1, <2>2, NextCatalogInv, NextReportInv, NextLogInv
<1> QED BY <1>1, <1>2, PTL DEF Spec, IndexAdvances, Advances

\* A batch enters the chain once, whoever retries it and whatever answers are
\* lost: a record that may land late finds its slot taken, or is found by the
\* read-back (journal.rs own_record, CP-3, CP-14).
THEOREM CommittedOnce ==
  AnswersHeard => (Spec /\ IndexAdvances => []BatchCommittedOnce)
<1> SUFFICES ASSUME AnswersHeard PROVE Spec /\ IndexAdvances => []BatchCommittedOnce
  OBVIOUS
<1>1. CatalogInv /\ LogInv => BatchCommittedOnce
  BY DEF CatalogInv, ChainInv, Chained, OneSuccessor, LogInv, Written, Blocked,
         BatchCommittedOnce
<1> QED BY <1>1, LogHolds, PTL

\* Nothing current after the newest record is in the trash (after_commit.rs
\* trash_removals).
THEOREM TrashIsPast ==
  AnswersHeard => (Spec /\ IndexAdvances => []TrashedNotCurrent)
<1> SUFFICES ASSUME AnswersHeard PROVE Spec /\ IndexAdvances => []TrashedNotCurrent
  OBVIOUS
<1>1. LogInv => TrashedNotCurrent
  BY DEF LogInv, Stored, TrashedNotCurrent
<1> QED BY <1>1, LogHolds, PTL

\* Where every batch adds something, a run that reports its batch refused has
\* put no record of it in the chain, and none that it sent can enter it any
\* more (candidate.rs check, CP-7).
THEOREM RefusalsAreTrue ==
  AnswersHeard /\ Deletes = {} => (Spec /\ IndexAdvances => []RefusedNotCommitted)
<1> SUFFICES ASSUME AnswersHeard, Deletes = {}
             PROVE  Spec /\ IndexAdvances => []RefusedNotCommitted
  OBVIOUS
<1>1. CatalogInv /\ LogInv => RefusedNotCommitted
  <2> SUFFICES ASSUME CatalogInv, LogInv, NEW b \in Batches, outcome[b] = "refused",
                      NEW r \in created \cup sent, r.batch = b
               PROVE  r \notin created /\ ~SlotFree(r)
    BY DEF RefusedNotCommitted
  <2>1. Blocked(r)
    BY DEF LogInv, Written, Standing
  <2>2. PICK q \in created : q.gen = r.gen /\ q # r
    BY <2>1 DEF Blocked
  <2>3. r \notin created
    BY <2>2 DEF CatalogInv, ChainInv, Chained, OneSuccessor
  <2>4. q.from = r.from
    <3>1. r.gen # 0
      BY <2>2 DEF CatalogInv, ChainInv, Chained, Rooted
    <3>2. PICK q0 \in created : q0.gen = q.gen - 1 /\ q0.batch = q.from
      BY <2>2, <3>1 DEF CatalogInv, ChainInv, Chained, Rooted
    <3>3. PICK r0 \in created : r0.gen = r.gen - 1 /\ r0.batch = r.from
      BY <3>1 DEF CatalogInv, ChainInv, Chained, Rooted
    <3>4. q0 = r0
      BY <2>2, <3>2, <3>3 DEF CatalogInv, ChainInv, Chained, OneSuccessor
    <3> QED BY <3>2, <3>3, <3>4
  <2>5. q \in live
    BY <2>2 DEF LogInv, Stored
  <2> QED BY <2>2, <2>3, <2>4, <2>5 DEF SlotFree
<1> QED BY <1>1, LogHolds, PTL

-----------------------------------------------------------------------------
(* The records as LibraryLog's log *)

\* A Container is current after the records up to a generation: one of them
\* added it and none above that one removed it.
Left(c, g) ==
  \E q \in created :
    /\ q.gen <= g /\ c \in Adds(q.batch)
    /\ \A u \in created : q.gen < u.gen /\ u.gen <= g => c \notin u.rm

\* The Keyring of each record maps what the records up to it left.
Shown == \A r \in created : \A c \in Containers : c \in r.maps <=> Left(c, r.gen)

LEMMA LandShown ==
  ASSUME AnswersHeard, CatalogInv, LogInv, Shown, NEW r \in sent, Land(r)
  PROVE  Shown'
<1>1. created' = created \cup {r}
  BY DEF Land
<1>2. r.gen \in Nat /\ \A q \in created : q.gen \in Nat /\ q.gen < r.gen
  BY LandOnTop
<1>3. PICK t \in created : /\ r.gen = t.gen + 1 /\ r.rm \subseteq t.maps
                          /\ r.maps = (t.maps \ r.rm) \cup Adds(r.batch)
  BY LandOnTop
<1>4. \A q \in created : q.gen <= t.gen
  BY <1>2, <1>3
<1>5. ASSUME NEW q \in created, NEW c \in Containers PROVE c \in q.maps <=> Left(c, q.gen)'
  <2>1. c \in q.maps <=> Left(c, q.gen)
    BY DEF Shown
  <2>2. ~(r.gen <= q.gen)
    BY <1>2
  <2> QED BY <1>1, <2>1, <2>2 DEF Left
<1>6. ASSUME NEW c \in Containers PROVE c \in r.maps <=> Left(c, r.gen)'
  <2>1. c \in t.maps <=> Left(c, t.gen)
    BY DEF Shown
  <2>2. \A q \in created : q.gen <= r.gen /\ q.gen < r.gen
    BY <1>2
  <2>3. ~(r.gen < r.gen) /\ r.gen <= r.gen
    BY <1>2
  <2>4. Left(c, r.gen)' <=>
          \/ c \in Adds(r.batch)
          \/ /\ c \notin r.rm
             /\ \E q \in created : /\ c \in Adds(q.batch)
                                  /\ \A u \in created : q.gen < u.gen => c \notin u.rm
    <3>1. \A q \in created : ~(r.gen < q.gen)
      BY <1>2
    <3> QED BY <1>1, <2>2, <2>3, <3>1 DEF Left
  <2>5. Left(c, t.gen) <=>
          \E q \in created : /\ c \in Adds(q.batch)
                             /\ \A u \in created : q.gen < u.gen => c \notin u.rm
    BY <1>4 DEF Left
  <2> QED BY <1>3, <2>1, <2>4, <2>5
<1> QED BY <1>1, <1>5, <1>6 DEF Shown

\* Records are created by Storage alone.
LEMMA MovesCreate ==
  ASSUME NEW p \in Procs, Moves(p)
  PROVE  UNCHANGED created
<1>1. CASE CatchUpStep(p)
  BY <1>1 DEF CatchUpStep, List, ReadHeld, Walk, WalkRefused, Restore, Fetch, FetchMissing,
              Apply, CaughtUp, storage
<1>2. CASE CommitStep(p)
  BY <1>2 DEF CommitStep, Check, CheckMissing, ReadStanding, Replicate, ReplicateRefused,
              Aim, AimMoved, AimMissing, Send, Created, Refused, ReadBackOwn,
              ReadBackOther, Refresh, TrashRemovals, storage
<1>3. CASE PruneStep(p)
  BY <1>3 DEF PruneStep, ReadCatalog, PutSnapshot, SnapshotExists, CommitDone, ReadHead,
              ReadHeadMissing, Gate, Prune, PruneDone, storage
<1>4. CASE ~Step(p)
  BY <1>4 DEF Moves, Prepare, Start, Abandon, storage
<1> QED BY <1>1, <1>2, <1>3, <1>4 DEF Step

LEMMA NextShown ==
  ASSUME AnswersHeard, CatalogInv, LogInv, Shown, [Next]_vars
  PROVE  Shown'
<1>1. UNCHANGED created => Shown'
  BY DEF Shown, Left
<1> QED BY <1>1, LandShown, MovesCreate, NextMoves DEF vars, storage

LEMMA InitShown == ASSUME Init PROVE Shown
<1>1. created = {FirstRecord}
  BY DEF Init
<1>2. Adds(FirstRecord.batch) = {} /\ FirstRecord.maps = {}
  BY DEF FirstRecord, Adds
<1> QED BY <1>1, <1>2 DEF Shown, Left

LEMMA ShownHolds ==
  ASSUME AnswersHeard
  PROVE  Spec /\ IndexAdvances => []Shown
<1>1. Init => Shown
  BY InitShown
<1>2. CatalogInv /\ LogInv /\ Shown /\ [Next]_vars => Shown'
  BY NextShown
<1> QED BY <1>1, <1>2, LogHolds, PTL DEF Spec

\* The newest generation is that of the record no record is above.
LEMMA TopIsNewest ==
  ASSUME TypeOK, NEW h \in created, \A r \in created : r.gen <= h.gen
  PROVE  Newest({r.gen : r \in created}) = h.gen
<1> DEFINE S == {r.gen : r \in created}
<1>1. S \subseteq Gens
  BY RecordFields DEF TypeOK, Gens
<1>2. h.gen \in S /\ \A g \in S : g <= h.gen
  OBVIOUS
<1> HIDE DEF S
<1>3. Newest(S) = h.gen
  BY <1>1, <1>2, NewestIsTop
<1> QED BY <1>3 DEF S

\* What LibraryLog keeps of a record.
Entry(r) == [batch |-> r.batch, rm |-> r.rm]
Entries == [batch : Batches \cup {Genesis}, rm : SUBSET Containers]

\* The log has an entry for each record above head-0, in the order of the heads.
LEMMA LogEntries ==
  ASSUME CatalogInv, LogInv
  PROVE  /\ TopGen \in Nat /\ \A r \in created : r.gen \in 0 .. TopGen
         /\ \A i \in 0 .. TopGen : \E r \in created : r.gen = i
         /\ LogOf \in Seq(Entries) /\ Len(LogOf) = TopGen
         /\ \A r \in created : r.gen > 0 => LogOf[r.gen] = Entry(r)
<1>1. TypeOK /\ OneSuccessor /\ Dense
  BY DEF CatalogInv, ChainInv, TypeInv, Chained, Recorded
<1>2. PICK h \in created : \A r \in created : r.gen <= h.gen
  BY DEF LogInv, Stored
<1>3. TopGen = h.gen
  BY <1>1, <1>2, TopIsNewest DEF TopGen
<1>4. \A r \in created : r.gen \in Nat /\ Entry(r) \in Entries
  BY <1>1, RecordFields DEF TypeOK, Entry, Entries
<1>5. TopGen \in Nat /\ \A r \in created : r.gen \in 0 .. TopGen
  BY <1>2, <1>3, <1>4
<1>6. \A i \in 0 .. TopGen : \E r \in created : r.gen = i
  BY <1>1, <1>3 DEF Dense
<1> DEFINE At(i) == CHOOSE q \in created : q.gen = i
<1>7. \A i \in 1 .. TopGen : At(i) \in created /\ At(i).gen = i
  BY <1>5, <1>6
<1>8. LogOf = [i \in 1 .. TopGen |-> Entry(At(i))]
  BY DEF LogOf, TopGen, Entry
<1>9. \A r \in created : r.gen \in 1 .. TopGen => At(r.gen) = r
  BY <1>1, <1>7 DEF OneSuccessor
<1>10. \A i \in 1 .. TopGen : Entry(At(i)) \in Entries
  BY <1>4, <1>7
<1> HIDE DEF At
<1>11. LogOf \in Seq(Entries) /\ Len(LogOf) = TopGen
  BY <1>5, <1>8, <1>10
<1>12. ASSUME NEW r \in created, r.gen > 0 PROVE LogOf[r.gen] = Entry(r)
  <2>1. r.gen \in 1 .. TopGen
    BY <1>5, <1>12
  <2> QED BY <1>8, <1>9, <2>1
<1> QED BY <1>5, <1>6, <1>11, <1>12

\* What the entries up to a head leave is what the Keyring of that head maps.
LEMMA LogShows ==
  ASSUME CatalogInv, LogInv, Shown, NEW r \in created
  PROVE  Log!CurrentAt(r.gen) = r.maps
<1> DEFINE n == r.gen
           Later(i) == UNION {LogOf[j].rm : j \in i + 1 .. n}
<1>1. TypeOK /\ r.maps \subseteq Containers /\ n \in Nat
  BY RecordFields DEF CatalogInv, ChainInv, TypeInv, TypeOK
<1>2. /\ \A q \in created : q.gen \in Nat
      /\ \A i \in 1 .. n : \E q \in created : q.gen = i
      /\ \A q \in created : q.gen > 0 => LogOf[q.gen] = Entry(q)
  BY LogEntries
<1>3. \A q \in created : q.gen > 0 => LogOf[q.gen].batch = q.batch /\ LogOf[q.gen].rm = q.rm
  <2>1. \A q \in created : Entry(q).batch = q.batch /\ Entry(q).rm = q.rm
    BY DEF Entry
  <2> HIDE DEF n
  <2> QED BY <1>2, <2>1
<1>4. ASSUME NEW q \in created, NEW c PROVE c \notin Later(q.gen) <=>
        \A u \in created : q.gen < u.gen /\ u.gen <= n => c \notin u.rm
  <2>1. ASSUME NEW u \in created, q.gen < u.gen, u.gen <= n, c \notin Later(q.gen)
        PROVE  c \notin u.rm
    <3>1. u.gen \in q.gen + 1 .. n /\ LogOf[u.gen].rm = u.rm
      BY <1>1, <1>2, <1>3, <2>1
    <3> QED BY <2>1, <3>1
  <2>2. ASSUME c \in Later(q.gen)
        PROVE  \E u \in created : q.gen < u.gen /\ u.gen <= n /\ c \in u.rm
    <3>1. PICK j \in q.gen + 1 .. n : c \in LogOf[j].rm
      BY <2>2
    <3>2. PICK u \in created : u.gen = j
      BY <1>1, <1>2, <3>1
    <3>3. q.gen < u.gen /\ u.gen <= n /\ u.gen > 0
      BY <1>1, <1>2, <3>1, <3>2
    <3> QED BY <1>3, <3>1, <3>2, <3>3
  <2> QED BY <2>1, <2>2
<1>5. \A b \in Batches : Log!Adds(b) = Adds(b)
  BY BatchAssumption DEF BatchAssumption, Log!Adds, Adds
<1>6. Adds(Genesis) = {} /\ \A b : Adds(b) \subseteq {b}
  BY DEF Adds
<1>7. \A q \in created : q.gen > 0 => q.batch \in Batches
  BY BatchAssumption DEF LogInv, Written, FirstRecord
<1>8. \A q \in created : q.gen = 0 => q.batch = Genesis
  BY DEF CatalogInv, ChainInv, Chained, Rooted, FirstRecord
<1>9. Log!CurrentAt(n) = UNION {Log!Adds(LogOf[i].batch) \ Later(i) : i \in 1 .. n}
  BY DEF Log!CurrentAt
<1>10. \A q \in created : q.gen > 0 => Log!Adds(LogOf[q.gen].batch) = Adds(q.batch)
  BY <1>3, <1>5, <1>7
<1> HIDE DEF Later
<1>11. ASSUME NEW c \in Log!CurrentAt(n) PROVE c \in Containers /\ Left(c, n)
  <2>1. PICK i \in 1 .. n : c \in Log!Adds(LogOf[i].batch) \ Later(i)
    BY <1>9
  <2>2. PICK q \in created : q.gen = i
    BY <1>2
  <2>3. q.gen > 0 /\ q.gen <= n
    BY <1>1, <2>2
  <2>4. c \in Adds(q.batch) /\ q.batch \in Batches
    BY <1>7, <1>10, <2>1, <2>2, <2>3
  <2>5. c \in Containers
    BY <1>6, <2>4 DEF Containers
  <2>6. \A u \in created : q.gen < u.gen /\ u.gen <= n => c \notin u.rm
    BY <1>4, <2>1, <2>2
  <2> QED BY <2>3, <2>4, <2>5, <2>6 DEF Left
<1>12. ASSUME NEW c, Left(c, n) PROVE c \in Log!CurrentAt(n)
  <2>1. PICK q \in created :
          /\ q.gen <= n /\ c \in Adds(q.batch)
          /\ \A u \in created : q.gen < u.gen /\ u.gen <= n => c \notin u.rm
    BY <1>12 DEF Left
  <2>2. q.gen > 0
    BY <1>2, <1>6, <1>8, <2>1
  <2>3. c \in Log!Adds(LogOf[q.gen].batch) /\ c \notin Later(q.gen)
    BY <1>4, <1>10, <2>1, <2>2
  <2>4. q.gen \in 1 .. n
    BY <1>1, <1>2, <2>1, <2>2
  <2> QED BY <1>9, <2>3, <2>4
<1>13. \A c \in Containers : c \in r.maps <=> Left(c, n)
  BY DEF Shown
<1> QED BY <1>1, <1>11, <1>12, <1>13

\* How the log reads: an entry for each head, and what each head left.
LogRead ==
  /\ TopGen \in Nat /\ \A r \in created : r.gen \in 0 .. TopGen
  /\ \A i \in 0 .. TopGen : \E r \in created : r.gen = i
  /\ LogOf \in Seq(Entries) /\ Len(LogOf) = TopGen
  /\ \A r \in created : r.gen > 0 => LogOf[r.gen] = Entry(r)
  /\ \A r \in created : Log!CurrentAt(r.gen) = r.maps

LEMMA LogReads == ASSUME CatalogInv, LogInv, Shown PROVE LogRead
BY LogEntries, LogShows DEF LogRead

\* A record that lands commits its batch to the log.
LEMMA LandCommits ==
  ASSUME AnswersHeard, CatalogInv, LogInv, LogRead, LogRead', NEW r \in sent, Land(r)
  PROVE  Log!Commit(r.batch) /\ r.batch \in Batches
<1>1. created' = created \cup {r} /\ UNCHANGED idx
  BY DEF Land
<1>2. /\ r.gen \in Nat /\ r.batch \in Batches
      /\ \A q \in created : q.gen \in Nat /\ q.gen < r.gen /\ q.batch # r.batch
  BY LandOnTop
<1>3. PICK t \in created : r.gen = t.gen + 1 /\ r.rm \subseteq t.maps
  BY LandOnTop
<1>4. TopGen \in Nat /\ TopGen' \in Nat /\ t.gen = TopGen /\ r.gen = TopGen + 1
  <2>1. TopGen \in Nat /\ TopGen' \in Nat /\ t.gen \in 0 .. TopGen
    BY DEF LogRead
  <2>2. PICK h \in created : h.gen = TopGen
    BY <2>1 DEF LogRead
  <2>3. h.gen < r.gen
    BY <1>2
  <2> QED BY <1>3, <2>1, <2>2, <2>3
<1>5. TopGen' = TopGen + 1
  <2>1. r.gen \in 0 .. TopGen'
    BY <1>1 DEF LogRead
  <2>2. PICK h \in created' : h.gen = TopGen'
    BY <1>4 DEF LogRead
  <2>3. h.gen <= r.gen
    BY <1>1, <1>2, <2>2
  <2> QED BY <1>4, <2>1, <2>2, <2>3
<1>6. \A i \in 1 .. TopGen : \E q \in created : q.gen = i /\ LogOf[i] = Entry(q)
  BY <1>4 DEF LogRead
<1>7. ASSUME NEW i \in 1 .. TopGen PROVE LogOf'[i] = LogOf[i]
  <2>1. PICK q \in created : q.gen = i /\ LogOf[i] = Entry(q)
    BY <1>6
  <2>2. q \in created' /\ q.gen > 0
    BY <1>1, <2>1
  <2>3. LogOf'[q.gen] = Entry(q)
    BY <2>2 DEF LogRead, Entry
  <2> QED BY <2>1, <2>3
<1>8. LogOf'[TopGen + 1] = Entry(r) /\ Entry(r) \in Entries
  <2>1. r \in created' /\ r.gen > 0
    BY <1>1, <1>4
  <2>2. LogOf'[r.gen] = Entry(r)
    BY <2>1 DEF LogRead, Entry
  <2>3. r.rm \in SUBSET Containers
    BY DEF CatalogInv, ChainInv, TypeInv, TypeOK, Records
  <2> QED BY <1>2, <1>4, <2>2, <2>3 DEF Entry, Entries
<1>9. /\ LogOf \in Seq(Entries) /\ Len(LogOf) = TopGen
      /\ LogOf' \in Seq(Entries) /\ Len(LogOf') = TopGen + 1
  BY <1>5 DEF LogRead, Entries
<1>10. LogOf' = Append(LogOf, Entry(r))
  BY <1>4, <1>7, <1>8, <1>9
<1>11. r.batch \notin Log!Committed
  <2>1. ASSUME NEW i \in 1 .. TopGen PROVE LogOf[i].batch # r.batch
    <3>1. PICK q \in created : q.gen = i /\ LogOf[i] = Entry(q)
      BY <1>6
    <3> QED BY <1>2, <3>1 DEF Entry
  <2> QED BY <1>9, <2>1 DEF Log!Committed
<1>12. r.rm \in SUBSET Log!CurrentAt(Len(LogOf))
  <2>1. Log!CurrentAt(t.gen) = t.maps
    BY DEF LogRead
  <2> QED BY <1>3, <1>4, <1>9, <2>1
<1>13. UNCHANGED ViewOf
  BY <1>1 DEF ViewOf
<1> QED BY <1>2, <1>10, <1>11, <1>12, <1>13 DEF Log!Commit, Entry

\* An Index that moves stands at a later head, and shows what that one left.
LEMMA MoveLearns ==
  ASSUME CatalogInv, CatalogInv', LogRead, Advances, NEW p \in Procs, Moves(p)
  PROVE  UNCHANGED LogOf /\ (UNCHANGED ViewOf \/ \E d \in Devices : Log!Learn(d))
<1>1. TypeOK /\ TypeOK' /\ UNCHANGED created
  BY MovesCreate DEF CatalogInv, ChainInv, TypeInv
<1>2. UNCHANGED LogOf
  BY <1>1 DEF LogOf
<1> DEFINE d == DeviceOf[p]
<1>3. d \in Devices
  BY ProcAssumption DEF ProcAssumption
<1>4. idx' = idx \/ idx' = [idx EXCEPT ![d] = idx'[d]]
  BY <1>1, MovesIndex DEF TypeOK
<1>5. /\ idx[d] \in Catalogs /\ idx'[d] \in Catalogs /\ idx[d].gen <= idx'[d].gen
      /\ idx \in [Devices -> Catalogs]
  BY <1>1, <1>3 DEF TypeOK, Advances
<1>6. SoundIn(created, idx[d]) /\ SoundIn(created, idx'[d])
  <2>1. Sound(idx[d]) /\ Sound(idx[d])'
    BY <1>3 DEF CatalogInv, Catalogued
  <2> QED BY <1>1, <2>1 DEF Sound, SoundIn, Follows
<1>7. CASE idx[d].gen = idx'[d].gen
  <2>1. idx[d] = idx'[d]
    BY <1>1, <1>5, <1>6, <1>7, SoundAtOneHead
    DEF TypeOK, CatalogInv, ChainInv, Chained, OneSuccessor
  <2>2. UNCHANGED idx
    BY <1>4, <1>5, <2>1
  <2> QED BY <1>2, <2>2 DEF ViewOf
<1>8. CASE idx[d].gen # idx'[d].gen
  <2>1. idx[d].gen < idx'[d].gen /\ idx[d].gen \in Int /\ idx'[d].gen \in Int
    BY <1>5, <1>8, CatalogFields
  <2>2. idx'[d].gen # -1
    BY <1>5, <2>1, CatalogFields
  <2>3. PICK r \in created : idx'[d].gen = r.gen /\ idx'[d].cur = r.maps
    BY <1>6, <2>2 DEF SoundIn, NoCatalog
  <2>4. Log!CurrentAt(r.gen) = r.maps /\ r.gen \in 0 .. TopGen /\ Len(LogOf) = TopGen
    BY DEF LogRead
  <2>5. r.gen \in ViewOf[d].upto + 1 .. Len(LogOf)
    BY <1>3, <2>1, <2>3, <2>4 DEF ViewOf, LogRead
  <2>6. ViewOf' = [ViewOf EXCEPT ![d] = [upto |-> r.gen, cur |-> Log!CurrentAt(r.gen)]]
    <3>1. idx' = [idx EXCEPT ![d] = idx'[d]]
      BY <1>4, <1>5, <1>8
    <3>2. \A e \in Devices \ {d} : idx'[e] = idx[e]
      BY <1>5, <3>1
    <3> QED BY <1>3, <2>3, <2>4, <3>2 DEF ViewOf
  <2>7. Log!Learn(d)
    BY <1>2, <2>5, <2>6 DEF Log!Learn
  <2> QED BY <1>2, <1>3, <2>7
<1> QED BY <1>7, <1>8

LEMMA InitLog == ASSUME Init PROVE Log!Init
<1>1. created = {FirstRecord}
  BY DEF Init
<1>2. \A r \in created : r.gen <= FirstRecord.gen
  BY <1>1 DEF FirstRecord
<1>3. TypeOK
  BY InitTypeInv DEF TypeInv
<1>4. Newest({r.gen : r \in created}) = FirstRecord.gen
  BY <1>1, <1>2, <1>3, TopIsNewest
<1>5. Newest({r.gen : r \in created}) = 0
  BY <1>4 DEF FirstRecord
<1>6. LogOf = <<>>
  <2>1. 1 .. 0 = {}
    OBVIOUS
  <2>2. DOMAIN LogOf = {} /\ LogOf \in [1 .. 0 -> {}]
    BY <1>5, <2>1 DEF LogOf
  <2>3. LogOf \in Seq({}) /\ Len(LogOf) = 0
    BY <2>2
  <2> QED BY <2>3, EmptySeq
<1>7. \A d \in Devices : idx[d] \in {NoCatalog, FirstCatalog}
  BY DEF Init
<1>8. \A d \in Devices : [upto |-> idx[d].gen, cur |-> idx[d].cur]
                         \in {[upto |-> n, cur |-> {}] : n \in {-1, 0}}
  BY <1>7 DEF NoCatalog, FirstCatalog
<1> QED BY <1>6, <1>8 DEF Log!Init, ViewOf

\* The calls of concurrent runs add up to one log of batches, each removing
\* only what is current, and to Indexes that show prefixes of it and never go
\* back: the commit protocol implements LibraryLog (run.rs, journal.rs,
\* catch_up.rs).
THEOREM LogImplemented ==
  AnswersHeard => (Spec /\ IndexAdvances => ImplementsLog)
<1> SUFFICES ASSUME AnswersHeard PROVE Spec /\ IndexAdvances => ImplementsLog
  OBVIOUS
<1>1. Init => Log!Init
  BY InitLog
<1>2. CatalogInv /\ LogInv /\ Shown => LogRead
  BY LogReads
<1>3. CatalogInv /\ CatalogInv' /\ LogInv /\ LogRead /\ LogRead' /\ [Next]_vars /\ [Advances]_vars
        => [Log!Next]_<<LogOf, ViewOf>>
  <2> SUFFICES ASSUME CatalogInv, CatalogInv', LogInv, LogRead, LogRead', [Next]_vars,
                      [Advances]_vars
               PROVE  [Log!Next]_<<LogOf, ViewOf>>
    OBVIOUS
  <2>1. CASE UNCHANGED vars
    BY <2>1 DEF vars, storage, LogOf, ViewOf
  <2>2. CASE ~UNCHANGED vars
    <3>1. Advances
      BY <2>2
    <3>2. ASSUME NEW r \in sent, Land(r) PROVE Log!Next
      BY <3>2, LandCommits DEF Log!Next
    <3>3. ASSUME NEW p \in Procs, Moves(p) PROVE [Log!Next]_<<LogOf, ViewOf>>
      BY <3>1, <3>3, MoveLearns DEF Log!Next
    <3> QED BY <2>2, <3>2, <3>3, NextMoves
  <2> QED BY <2>1, <2>2
<1> QED BY <1>1, <1>2, <1>3, LogHolds, ShownHolds, PTL
        DEF Spec, IndexAdvances, Advances, ImplementsLog, Log!Spec
=============================================================================
