---------------------------- MODULE ServerProofs ----------------------------
(***************************************************************************)
(* Proofs about ServerWork for every number of drops, folders and presses, *)
(* and every cast: the shapes of the two flows and what is armed in them,  *)
(* the turn at this device's pending rows, what is taken away under it,    *)
(* and who carries an add while no worker panics.                          *)
(***************************************************************************)
EXTENDS ServerProperties, SequenceTheorems, TLAPS

-----------------------------------------------------------------------------
(* Shapes *)

Steps == {"none", "receiving", "stopped", "undone", "release", "arm", "hand over",
          "hand over stopped", "ask", "done"}
Stages == {"off", "next", "start", "turn", "absorbed", "walk", "walked", "committing", "cut",
           "ending", "publish", "undo", "rearm"}
Places == Folders \cup {NoFolder}
Statuses == {"none", "syncing", "freezing", "done", "stopped", "cancelled"}
StopStates == {"open", "asked", "committing"}

RunsOf(X) ==
  [adds : SUBSET X, requested : BOOLEAN, status : Statuses, stop : StopStates, fresh : BOOLEAN]
SyncsOf(X) ==
  [working : BOOLEAN, armed : BOOLEAN, pending : SUBSET X, requested : BOOLEAN,
   record : RunsOf(X)]
SyncersOf(X) ==
  [at : Stages, adds : SUBSET X, requested : BOOLEAN, scope : SUBSET Folders,
   read : SUBSET Adds, status : Statuses, undo : SUBSET X]

BooksOf(X) ==
  [folder : Places, whole : BOOLEAN, only : SUBSET Adds, adds : SUBSET X,
   requested : BOOLEAN, withdrawn : BOOLEAN]
FreezeRunsOf(X) ==
  [book : BooksOf(X), status : Statuses, stop : StopStates, fresh : BOOLEAN]
FreezesOf(X) ==
  [working : BOOLEAN, current : BooksOf(X), waiting : Seq(BooksOf(X)),
   discarded : SUBSET BooksOf(X), displaced : SUBSET BooksOf(X),
   record : FreezeRunsOf(X)]
FreezersOf(X) ==
  [at : Stages, book : BooksOf(X), read : SUBSET Adds, status : Statuses,
   undo : SUBSET X, rest : BooksOf(X)]

\* No two books of one folder wait.
OneEach(s) == \A i, j \in 1 .. Len(s) : i # j => s[i].folder # s[j].folder

LEMMA BooksGrow ==
  ASSUME NEW X, NEW Y, X \subseteq Y
  PROVE  BooksOf(X) \subseteq BooksOf(Y)
BY DEF BooksOf

LEMMA ShapesGrow ==
  ASSUME NEW X, NEW Y, X \subseteq Y
  PROVE  /\ SyncsOf(X) \subseteq SyncsOf(Y)
         /\ SyncersOf(X) \subseteq SyncersOf(Y)
         /\ FreezesOf(X) \subseteq FreezesOf(Y)
         /\ FreezersOf(X) \subseteq FreezersOf(Y)
<1>1. BooksOf(X) \subseteq BooksOf(Y)
  BY BooksGrow
<1>2. SyncsOf(X) \subseteq SyncsOf(Y) /\ SyncersOf(X) \subseteq SyncersOf(Y)
  BY DEF SyncsOf, RunsOf, SyncersOf
<1>3. Seq(BooksOf(X)) \subseteq Seq(BooksOf(Y))
  BY <1>1, SeqMonotonic
<1>4. FreezesOf(X) \subseteq FreezesOf(Y)
  BY <1>1, <1>3 DEF FreezesOf, FreezeRunsOf
<1>5. FreezersOf(X) \subseteq FreezersOf(Y)
  BY <1>1 DEF FreezersOf
<1> QED BY <1>2, <1>4, <1>5

\* What books of one folder make together.
LEMMA JoinedIsBook ==
  ASSUME NEW X, NEW B, B \subseteq BooksOf(X), B # {}
  PROVE  /\ Freeze!Joined(B) \in BooksOf(X)
         /\ Freeze!Joined(B).adds = UNION {b.adds : b \in B}
         /\ \A f : (\A b \in B : b.folder = f) => Freeze!Joined(B).folder = f
<1>1. (CHOOSE b \in B : TRUE) \in B
  OBVIOUS
<1>2. UNION {b.adds : b \in B} \subseteq X /\ UNION {b.only : b \in B} \subseteq Adds
  BY DEF BooksOf
<1> DEFINE whole == \E b \in B : b.whole
<1>3. Freeze!Joined(B) =
        [folder |-> (CHOOSE b \in B : TRUE).folder, whole |-> whole,
         only |-> IF whole THEN {} ELSE UNION {b.only : b \in B},
         adds |-> UNION {b.adds : b \in B},
         requested |-> \E b \in B : b.requested, withdrawn |-> \E b \in B : b.withdrawn]
  BY DEF Freeze!Joined
<1>4. (CHOOSE b \in B : TRUE).folder \in Places
  BY <1>1 DEF BooksOf
<1>5. whole \in BOOLEAN /\ (\E b \in B : b.requested) \in BOOLEAN
        /\ (\E b \in B : b.withdrawn) \in BOOLEAN
  OBVIOUS
<1> HIDE DEF whole
<1>6. Freeze!Joined(B) \in BooksOf(X)
  BY <1>2, <1>3, <1>4, <1>5 DEF BooksOf
<1> QED BY <1>1, <1>3, <1>6

LEMMA BooksMade ==
  ASSUME NEW X
  PROVE  /\ Freeze!NoBook \in BooksOf(X)
         /\ \A f \in Places : Freeze!Whole(f) \in BooksOf(X) /\ Freeze!Whole(f).folder = f
                                /\ Freeze!Whole(f).adds = {}
         /\ \A b \in BooksOf(X) : Freeze!OwedBy(b) \in BooksOf(X) /\ Freeze!OwedBy(b).adds = {}
                                    /\ Freeze!OwedBy(b).folder = b.folder
         /\ \A b \in BooksOf(X) : Freeze!Withdrawn(b) \in BooksOf(X)
                 /\ Freeze!Withdrawn(b).adds = b.adds /\ Freeze!Withdrawn(b).folder = b.folder
<1>1. Freeze!NoBook \in BooksOf(X) /\ Freeze!NoBook.adds = {} /\ Freeze!NoBook.folder = NoFolder
  BY DEF Freeze!NoBook, BooksOf, Places
<1>2. ASSUME NEW f \in Places
      PROVE  Freeze!Whole(f) \in BooksOf(X) /\ Freeze!Whole(f).folder = f
               /\ Freeze!Whole(f).adds = {}
  BY DEF Freeze!NoBook, Freeze!Whole, BooksOf
<1>3. ASSUME NEW b \in BooksOf(X)
      PROVE  Freeze!OwedBy(b) \in BooksOf(X) /\ Freeze!OwedBy(b).adds = {}
               /\ Freeze!OwedBy(b).folder = b.folder
  BY DEF Freeze!OwedBy, BooksOf
<1>4. ASSUME NEW b \in BooksOf(X)
      PROVE  Freeze!Withdrawn(b) \in BooksOf(X) /\ Freeze!Withdrawn(b).adds = b.adds
               /\ Freeze!Withdrawn(b).folder = b.folder
  BY DEF Freeze!Withdrawn, BooksOf
<1> QED BY <1>1, <1>2, <1>3, <1>4

\* What is kept of a folder is books of it.
LEMMA KeptBooks ==
  ASSUME NEW X, NEW p \in FreezesOf(X), NEW f
  PROVE  /\ Freeze!Kept(p, f) \subseteq BooksOf(X)
         /\ \A b \in Freeze!Kept(p, f) :
              b.folder = f /\ (b.adds = {} \/ b \in p.displaced \cup p.discarded)
         /\ Freeze!Displaced(p, f) \subseteq BooksOf(X)
         /\ \A b \in Freeze!Displaced(p, f) : b.adds = {} \/ b \in p.displaced
<1>1. p.record.book \in BooksOf(X) /\ p.displaced \subseteq BooksOf(X)
        /\ p.discarded \subseteq BooksOf(X)
  BY DEF FreezesOf, FreezeRunsOf
<1>2. Freeze!OwedBy(p.record.book) \in BooksOf(X) /\ Freeze!OwedBy(p.record.book).adds = {}
  BY <1>1, BooksMade
<1> QED BY <1>1, <1>2 DEF Freeze!Kept, Freeze!Displaced

-----------------------------------------------------------------------------
(* Lines *)

LEMMA RemovedAt ==
  ASSUME NEW S, NEW s \in Seq(S), NEW i \in 1 .. Len(s)
  PROVE  /\ RemoveAt(s, i) \in Seq(S)
         /\ Len(RemoveAt(s, i)) = Len(s) - 1
         /\ \A k \in 1 .. Len(s) - 1 :
              RemoveAt(s, i)[k] = IF k < i THEN s[k] ELSE s[k + 1]
<1> DEFINE front == SubSeq(s, 1, i - 1)
           back == SubSeq(s, i + 1, Len(s))
<1>1. Len(s) \in Nat /\ \A k \in 1 .. Len(s) : s[k] \in S
  BY LenProperties, ElementOfSeq
<1>2. /\ front \in Seq(S) /\ Len(front) = i - 1
      /\ \A k \in 1 .. i - 1 : front[k] = s[k]
  BY <1>1, SubSeqProperties
<1>3. /\ back \in Seq(S) /\ Len(back) = Len(s) - i
      /\ \A k \in 1 .. Len(s) - i : back[k] = s[k + i]
  <2>1. /\ back \in Seq(S)
        /\ Len(back) = IF i + 1 <= Len(s) THEN Len(s) - (i + 1) + 1 ELSE 0
        /\ \A k \in 1 .. Len(s) - (i + 1) + 1 : back[k] = s[(i + 1) + k - 1]
    BY <1>1, SubSeqProperties
  <2> HIDE DEF back
  <2> QED BY <1>1, <2>1
<1> HIDE DEF front, back
<1>4. /\ front \o back \in Seq(S)
      /\ Len(front \o back) = Len(front) + Len(back)
      /\ \A k \in 1 .. Len(front) + Len(back) :
           (front \o back)[k] = IF k <= Len(front) THEN front[k] ELSE back[k - Len(front)]
  BY <1>2, <1>3, ConcatProperties
<1>5. RemoveAt(s, i) = front \o back
  BY DEF RemoveAt, front, back
<1>6. ASSUME NEW k \in 1 .. Len(s) - 1
      PROVE  (front \o back)[k] = IF k < i THEN s[k] ELSE s[k + 1]
  <2>1. (front \o back)[k] = IF k <= i - 1 THEN front[k] ELSE back[k - (i - 1)]
    BY <1>1, <1>2, <1>3, <1>4
  <2>2. CASE k < i
    BY <1>1, <1>2, <2>1, <2>2
  <2>3. CASE ~(k < i)
    <3>1. k - (i - 1) \in 1 .. Len(s) - i /\ (k - (i - 1)) + i = k + 1
      BY <1>1, <2>3
    <3>2. back[k - (i - 1)] = s[(k - (i - 1)) + i]
      BY <1>3, <3>1
    <3>3. ~(k <= i - 1)
      BY <1>1, <2>3
    <3> QED BY <2>1, <2>3, <3>1, <3>2, <3>3
  <2> QED BY <2>2, <2>3
<1>7. Len(front \o back) = Len(s) - 1
  BY <1>1, <1>2, <1>3, <1>4
<1> QED BY <1>4, <1>5, <1>6, <1>7

LEMMA LeavesLine ==
  ASSUME NEW t, NEW u, t # u
  PROVE  /\ RemoveFirst(<<>>, t) = <<>>
         /\ RemoveFirst(<<t>>, t) = <<>>
         /\ RemoveFirst(<<u>>, t) = <<u>>
         /\ RemoveFirst(<<t, u>>, t) = <<u>>
         /\ RemoveFirst(<<u, t>>, t) = <<u>>
<1>1. RemoveFirst(<<>>, t) = <<>>
  <2>1. ~ \E i \in 1 .. Len(<<>>) : <<>>[i] = t
    OBVIOUS
  <2> QED BY <2>1, Zenon DEF RemoveFirst
<1>2. RemoveFirst(<<u>>, t) = <<u>>
  <2>1. ~ \E i \in 1 .. Len(<<u>>) : <<u>>[i] = t
    OBVIOUS
  <2> QED BY <2>1, Zenon DEF RemoveFirst
<1>3. RemoveFirst(<<t>>, t) = <<>>
  <2>1. {i \in 1 .. Len(<<t>>) : <<t>>[i] = t} = {1} /\ Min({1}) = 1
    BY DEF Min
  <2>2. RemoveFirst(<<t>>, t) = RemoveAt(<<t>>, 1)
    BY <2>1 DEF RemoveFirst, SelectInSeq
  <2> QED BY <2>2 DEF RemoveAt
<1>4. RemoveFirst(<<t, u>>, t) = <<u>>
  <2>1. {i \in 1 .. Len(<<t, u>>) : <<t, u>>[i] = t} = {1} /\ Min({1}) = 1
    BY DEF Min
  <2>2. RemoveFirst(<<t, u>>, t) = RemoveAt(<<t, u>>, 1)
    BY <2>1 DEF RemoveFirst, SelectInSeq
  <2> QED BY <2>2 DEF RemoveAt
<1>5. RemoveFirst(<<u, t>>, t) = <<u>>
  <2>1. {i \in 1 .. Len(<<u, t>>) : <<u, t>>[i] = t} = {2} /\ Min({2}) = 2
    BY DEF Min
  <2>2. RemoveFirst(<<u, t>>, t) = RemoveAt(<<u, t>>, 2)
    BY <2>1 DEF RemoveFirst, SelectInSeq
  <2> QED BY <2>2 DEF RemoveAt
<1> QED BY <1>1, <1>2, <1>3, <1>4, <1>5

\* A line keeps one book of each folder as books leave it, join it, or change.
LEMMA BookLines ==
  ASSUME NEW X, NEW s \in Seq(BooksOf(X)), OneEach(s)
  PROVE  /\ s # <<>> => Head(s) \in BooksOf(X) /\ Tail(s) \in Seq(BooksOf(X)) /\ OneEach(Tail(s))
         /\ \A i \in 1 .. Len(s) :
              RemoveAt(s, i) \in Seq(BooksOf(X)) /\ OneEach(RemoveAt(s, i))
         /\ \A b \in BooksOf(X) : (\A i \in 1 .. Len(s) : s[i].folder # b.folder) =>
              Append(s, b) \in Seq(BooksOf(X)) /\ OneEach(Append(s, b))
         /\ \A b \in BooksOf(X), i \in 1 .. Len(s) : b.folder = s[i].folder =>
              [s EXCEPT ![i] = b] \in Seq(BooksOf(X)) /\ OneEach([s EXCEPT ![i] = b])
<1>1. Len(s) \in Nat /\ \A k \in 1 .. Len(s) : s[k] \in BooksOf(X)
  BY LenProperties, ElementOfSeq
<1>2. ASSUME s # <<>>
      PROVE  Head(s) \in BooksOf(X) /\ Tail(s) \in Seq(BooksOf(X)) /\ OneEach(Tail(s))
  <2>1. /\ Head(s) \in BooksOf(X) /\ Tail(s) \in Seq(BooksOf(X)) /\ Len(Tail(s)) = Len(s) - 1
        /\ \A i \in 1 .. Len(Tail(s)) : Tail(s)[i] = s[i + 1]
    BY <1>2, HeadTailProperties
  <2> QED BY <1>1, <2>1 DEF OneEach
<1>3. ASSUME NEW i \in 1 .. Len(s)
      PROVE  RemoveAt(s, i) \in Seq(BooksOf(X)) /\ OneEach(RemoveAt(s, i))
  <2> DEFINE w == RemoveAt(s, i)
  <2>1. /\ w \in Seq(BooksOf(X)) /\ Len(w) = Len(s) - 1
        /\ \A k \in 1 .. Len(s) - 1 : w[k] = IF k < i THEN s[k] ELSE s[k + 1]
    BY RemovedAt
  <2> HIDE DEF w
  <2>2. \A k \in 1 .. Len(w) : \E m \in 1 .. Len(s) :
          /\ w[k] = s[m] /\ (k < i => m = k) /\ (k >= i => m = k + 1)
    <3> SUFFICES ASSUME NEW k \in 1 .. Len(w)
                 PROVE  \E m \in 1 .. Len(s) :
                          /\ w[k] = s[m] /\ (k < i => m = k) /\ (k >= i => m = k + 1)
      OBVIOUS
    <3>1. w[k] = IF k < i THEN s[k] ELSE s[k + 1]
      BY <1>1, <2>1
    <3>2. k \in 1 .. Len(s) /\ k + 1 \in 1 .. Len(s)
      BY <1>1, <2>1
    <3> QED BY <3>1, <3>2
  <2>3. ASSUME NEW k \in 1 .. Len(w), NEW l \in 1 .. Len(w), k # l
        PROVE  w[k].folder # w[l].folder
    <3>1. PICK m \in 1 .. Len(s) : w[k] = s[m] /\ (k < i => m = k) /\ (k >= i => m = k + 1)
      BY <2>2
    <3>2. PICK n \in 1 .. Len(s) : w[l] = s[n] /\ (l < i => n = l) /\ (l >= i => n = l + 1)
      BY <2>2
    <3>3. m # n
      BY <1>1, <2>1, <2>3, <3>1, <3>2
    <3> QED BY <3>1, <3>2, <3>3 DEF OneEach
  <2> QED BY <2>1, <2>3 DEF w, OneEach
<1>4. ASSUME NEW b \in BooksOf(X), \A i \in 1 .. Len(s) : s[i].folder # b.folder
      PROVE  Append(s, b) \in Seq(BooksOf(X)) /\ OneEach(Append(s, b))
  <2>1. /\ Append(s, b) \in Seq(BooksOf(X)) /\ Len(Append(s, b)) = Len(s) + 1
        /\ \A i \in 1 .. Len(s) : Append(s, b)[i] = s[i]
        /\ Append(s, b)[Len(s) + 1] = b
    BY AppendProperties
  <2> QED BY <1>1, <1>4, <2>1 DEF OneEach
<1>5. ASSUME NEW b \in BooksOf(X), NEW i \in 1 .. Len(s), b.folder = s[i].folder
      PROVE  [s EXCEPT ![i] = b] \in Seq(BooksOf(X)) /\ OneEach([s EXCEPT ![i] = b])
  <2>1. /\ [s EXCEPT ![i] = b] \in Seq(BooksOf(X)) /\ Len([s EXCEPT ![i] = b]) = Len(s)
        /\ \A k \in 1 .. Len(s) : [s EXCEPT ![i] = b][k] = IF k = i THEN b ELSE s[k]
    BY ExceptSeq
  <2> QED BY <1>1, <1>5, <2>1 DEF OneEach
<1> QED BY <1>2, <1>3, <1>4, <1>5

\* The adds of the books that wait.
AddsOf(s) == UNION {s[i].adds : i \in 1 .. Len(s)}

\* Arming a book takes nothing from what waits, and starts a worker where none is.
LEMMA ArmKeeps ==
  ASSUME NEW X, freezes \in FreezesOf(X), freezer \in FreezersOf(X),
         OneEach(freezes.waiting), NEW a \in BooksOf(X), NEW j \in BOOLEAN,
         Freeze!Arm(a, j)
  PROVE  /\ freezes' \in FreezesOf(X)
         /\ OneEach(freezes'.waiting)
         /\ freezes.working =>
              /\ freezer' = freezer /\ freezes'.working
              /\ freezes'.record.stop = freezes.record.stop
         /\ ~freezes.working /\ freezes.waiting = <<>> =>
              \/ freezer' = freezer /\ ~freezes'.working /\ freezes'.waiting = <<>> /\ j
              \/ freezer' = [Freeze!NoFreezer EXCEPT !.at = "next"] /\ freezes'.working
         /\ AddsOf(freezes.waiting) \subseteq AddsOf(freezes'.waiting)
         /\ ~j => a.adds \subseteq AddsOf(freezes'.waiting)
         /\ freezes'.discarded \subseteq freezes.discarded
         /\ \A b \in freezes'.displaced : b.adds = {} \/ b \in freezes.displaced
<1> DEFINE f == a.folder
           K == {a} \cup Freeze!Kept(freezes, f)
           b == Freeze!Joined(K)
           p == [freezes EXCEPT !.discarded = {c \in @ : c.folder # f},
                                !.displaced = {c \in @ : c.folder # f}]
<1>1. b \in BooksOf(X) /\ b.folder = f /\ a.adds \subseteq b.adds
  <2>1. K \subseteq BooksOf(X) /\ (\A c \in K : c.folder = f) /\ a \in K
    BY KeptBooks
  <2> HIDE DEF K
  <2>2. b \in BooksOf(X) /\ b.folder = f /\ b.adds = UNION {c.adds : c \in K}
    BY <2>1, JoinedIsBook
  <2> QED BY <2>1, <2>2
<1>2. /\ p \in FreezesOf(X) /\ p.waiting = freezes.waiting /\ p.working = freezes.working
      /\ p.record = freezes.record /\ p.current = freezes.current
      /\ p.discarded \subseteq freezes.discarded /\ p.displaced \subseteq freezes.displaced
  BY DEF FreezesOf, FreezeRunsOf
<1>3. freezes.waiting \in Seq(BooksOf(X)) /\ Len(freezes.waiting) \in Nat
        /\ \A i \in 1 .. Len(freezes.waiting) : freezes.waiting[i] \in BooksOf(X)
  BY LenProperties, ElementOfSeq DEF FreezesOf, FreezeRunsOf
<1> DEFINE At(i) == [freezes.waiting EXCEPT ![i] = Freeze!Joined({freezes.waiting[i], b})]
           Q(i) == [p EXCEPT !.waiting = At(i)]
           R(i) == IF p.current = Freeze!NoBook /\ Freeze!Freezing(p) /\ p.record.book.folder = f
                   THEN [Q(i) EXCEPT !.record.book = Q(i).waiting[1]] ELSE Q(i)
           S == [p EXCEPT !.waiting = Append(@, b), !.working = TRUE]
           T == [S EXCEPT !.displaced = Freeze!Displaced(p, f),
                          !.record = [Freeze!FreezeRun(b, "freezing") EXCEPT !.fresh = TRUE]]
<1>4. \/ /\ j /\ Freeze!Pending(p, b) /\ freezes' = p /\ freezer' = freezer
      \/ \E i \in Freeze!WaitingAt(p, f) : freezes' = R(i) /\ freezer' = freezer
      \/ /\ Freeze!WaitingAt(p, f) = {}
         /\ \/ p.working /\ freezes' = S /\ freezer' = freezer
            \/ /\ ~p.working /\ freezes' = T
               /\ freezer' = [Freeze!NoFreezer EXCEPT !.at = "next"]
  <2>1. Freeze!WaitingAt(p, f) # {} =>
          (CHOOSE i \in Freeze!WaitingAt(p, f) : TRUE) \in Freeze!WaitingAt(p, f)
    OBVIOUS
  <2> QED BY <1>2, <2>1 DEF Freeze!Arm
<1> HIDE DEF b, p, K
<1>5. CASE j /\ Freeze!Pending(p, b) /\ freezes' = p /\ freezer' = freezer
  BY <1>2, <1>5
<1>6. ASSUME NEW i \in Freeze!WaitingAt(p, f), freezes' = R(i), freezer' = freezer
      PROVE  /\ freezes' \in FreezesOf(X) /\ OneEach(freezes'.waiting)
             /\ freezes'.working = freezes.working
             /\ freezes'.record.stop = freezes.record.stop
             /\ freezes.waiting # <<>>
             /\ AddsOf(freezes.waiting) \subseteq AddsOf(freezes'.waiting)
             /\ a.adds \subseteq AddsOf(freezes'.waiting)
             /\ freezes'.discarded \subseteq freezes.discarded
             /\ freezes'.displaced \subseteq freezes.displaced
  <2>1. i \in 1 .. Len(freezes.waiting) /\ freezes.waiting[i].folder = f
    BY <1>2 DEF Freeze!WaitingAt
  <2> DEFINE c == Freeze!Joined({freezes.waiting[i], b})
             w == [freezes.waiting EXCEPT ![i] = c]
  <2>2. c \in BooksOf(X) /\ c.folder = f /\ c.adds = UNION {d.adds : d \in {freezes.waiting[i], b}}
    <3> DEFINE B == {freezes.waiting[i], b}
    <3>1. B \subseteq BooksOf(X) /\ B # {} /\ \A d \in B : d.folder = f
      BY <1>1, <1>3, <2>1
    <3> HIDE DEF B
    <3>2. /\ Freeze!Joined(B) \in BooksOf(X) /\ Freeze!Joined(B).folder = f
          /\ Freeze!Joined(B).adds = UNION {d.adds : d \in B}
      BY <3>1, JoinedIsBook
    <3> QED BY <3>2 DEF B
  <2> HIDE DEF c
  <2>3. w \in Seq(BooksOf(X)) /\ OneEach(w)
    BY <1>3, <2>1, <2>2, BookLines
  <2>4. Len(w) = Len(freezes.waiting)
          /\ \A k \in 1 .. Len(w) : w[k] = IF k = i THEN c ELSE freezes.waiting[k]
    BY <1>3, <2>1, <2>2, ExceptSeq
  <2>5. w[1] \in BooksOf(X)
    BY <1>3, <2>1, <2>2, <2>4
  <2> HIDE DEF w
  <2>6. At(i) = w
    BY DEF w, c
  <2>7. /\ freezes' \in FreezesOf(X) /\ freezes'.waiting = w
        /\ freezes'.working = freezes.working /\ freezes'.record.stop = freezes.record.stop
        /\ freezes'.discarded = p.discarded /\ freezes'.displaced = p.displaced
    <3>1. Q(i) \in FreezesOf(X) /\ Q(i).waiting = w /\ Q(i).working = freezes.working
            /\ Q(i).record = freezes.record
            /\ Q(i).discarded = p.discarded /\ Q(i).displaced = p.displaced
      BY <1>2, <2>3, <2>6 DEF FreezesOf, FreezeRunsOf
    <3> HIDE DEF Q
    <3>2. CASE freezes' = Q(i)
      BY <3>1, <3>2
    <3>3. CASE freezes' = [Q(i) EXCEPT !.record.book = Q(i).waiting[1]]
      BY <2>5, <3>1, <3>3 DEF FreezesOf, FreezeRunsOf
    <3> QED BY <1>6, <3>2, <3>3
  <2>8. AddsOf(freezes.waiting) \subseteq AddsOf(w) /\ b.adds \subseteq AddsOf(w)
    BY <1>3, <2>1, <2>2, <2>4 DEF AddsOf
  <2>9. freezes.waiting # <<>>
    BY <2>1, EmptySeq
  <2> QED BY <1>1, <1>2, <2>3, <2>7, <2>8, <2>9
<1>7. ASSUME Freeze!WaitingAt(p, f) = {}
      PROVE  /\ Append(freezes.waiting, b) \in Seq(BooksOf(X))
             /\ OneEach(Append(freezes.waiting, b))
             /\ AddsOf(freezes.waiting) \subseteq AddsOf(Append(freezes.waiting, b))
             /\ a.adds \subseteq AddsOf(Append(freezes.waiting, b))
  <2>1. \A i \in 1 .. Len(freezes.waiting) : freezes.waiting[i].folder # b.folder
    BY <1>1, <1>2, <1>7 DEF Freeze!WaitingAt
  <2>2. Append(freezes.waiting, b) \in Seq(BooksOf(X)) /\ OneEach(Append(freezes.waiting, b))
    BY <1>1, <1>3, <2>1, BookLines
  <2>3. /\ Len(Append(freezes.waiting, b)) = Len(freezes.waiting) + 1
        /\ \A k \in 1 .. Len(freezes.waiting) : Append(freezes.waiting, b)[k] = freezes.waiting[k]
        /\ Append(freezes.waiting, b)[Len(freezes.waiting) + 1] = b
    BY <1>1, <1>3, AppendProperties
  <2>4. AddsOf(freezes.waiting) \subseteq AddsOf(Append(freezes.waiting, b))
    BY <1>3, <2>3 DEF AddsOf
  <2>5. b.adds \subseteq AddsOf(Append(freezes.waiting, b))
    BY <1>3, <2>3 DEF AddsOf
  <2> QED BY <1>1, <2>2, <2>4, <2>5
<1>8. ASSUME Freeze!WaitingAt(p, f) = {}
      PROVE  /\ S \in FreezesOf(X) /\ S.waiting = Append(freezes.waiting, b) /\ S.working
             /\ S.record = freezes.record
             /\ S.discarded = p.discarded /\ S.displaced = p.displaced
  <2>1. S = [p EXCEPT !.waiting = Append(freezes.waiting, b), !.working = TRUE]
    BY <1>2
  <2> QED BY <1>2, <1>7, <1>8, <2>1 DEF FreezesOf, FreezeRunsOf
<1>9. ASSUME Freeze!WaitingAt(p, f) = {}
      PROVE  /\ T \in FreezesOf(X) /\ T.waiting = S.waiting /\ T.working
             /\ T.discarded = p.discarded
             /\ \A c \in T.displaced : c.adds = {} \/ c \in freezes.displaced
  <2>1. /\ Freeze!Displaced(p, f) \subseteq BooksOf(X)
        /\ \A c \in Freeze!Displaced(p, f) : c.adds = {} \/ c \in p.displaced
    BY <1>2, KeptBooks
  <2>2. [Freeze!FreezeRun(b, "freezing") EXCEPT !.fresh = TRUE]
          \in FreezeRunsOf(X)
    BY <1>1 DEF FreezeRunsOf, Freeze!FreezeRun, Freeze!NoFreeze, Statuses, StopStates
  <2>3. S \in FreezesOf(X) /\ S.working
    BY <1>8, <1>9
  <2> HIDE DEF S
  <2> QED BY <1>2, <2>1, <2>2, <2>3, <1>8, <1>9 DEF FreezesOf, FreezeRunsOf
<1> HIDE DEF S, T, R
<1>10. CASE Freeze!WaitingAt(p, f) = {} /\ p.working /\ freezes' = S /\ freezer' = freezer
  BY <1>2, <1>7, <1>8, <1>10
<1>11. CASE /\ Freeze!WaitingAt(p, f) = {} /\ ~p.working /\ freezes' = T
            /\ freezer' = [Freeze!NoFreezer EXCEPT !.at = "next"]
  BY <1>2, <1>7, <1>8, <1>9, <1>11
<1>12. CASE \E i \in Freeze!WaitingAt(p, f) : freezes' = R(i) /\ freezer' = freezer
  <2>1. PICK i \in Freeze!WaitingAt(p, f) : freezes' = R(i) /\ freezer' = freezer
    BY <1>12
  <2> QED BY <2>1, <1>6
<1> QED BY <1>4, <1>5, <1>10, <1>11, <1>12

-----------------------------------------------------------------------------
(* What a step does to the adds *)

Handed == {x \in Adds : up[x] \in {"ask", "done"}}

adding == <<setup, reg, stopping, unkept, up, file, carried, resv>>

Requested(x) ==
  BeginAdd(x) \/ WriteUnkept(x) \/ Land(x) \/ Received(x) \/ Break(x) \/ AddStep(x)
Handing(x) ==
  /\ \/ up[x] = "hand over" /\ Up(x, "done")
     \/ up[x] = "hand over stopped" /\ Up(x, "ask")
     \/ up[x] = "ask" /\ Up(x, "done")
  /\ UNCHANGED <<setup, reg, stopping, unkept, file, carried, resv>>
Ending(X) == EndAdds(X) /\ UNCHANGED <<setup, up, file, carried, resv>>
Undoing(X) == \E x \in X : Undo(x) /\ UNCHANGED <<setup, up, carried>>
Carrying(X, releases) ==
  /\ carried' = carried \cup X
  /\ resv' = [x \in Adds |-> IF releases /\ x \in X THEN "none" ELSE resv[x]]
  /\ UNCHANGED <<setup, reg, stopping, unkept, up, file>>
Marking ==
  /\ \E X \in SUBSET Adds : MarkStopping(X)
  /\ UNCHANGED <<setup, reg, unkept, up, file, carried, resv>>

LEMMA SyncOnAdds ==
  ASSUME Sync!SyncStep \/ Sync!PanicSync
  PROVE  \/ UNCHANGED adding
         \/ syncer.at = "ending" /\ Ending(syncer.adds)
         \/ syncer.at = "undo" /\ Undoing(syncer.undo)
         \/ /\ syncer.at = "committing" /\ carried' = carried \cup syncer.read
            /\ UNCHANGED <<setup, reg, stopping, unkept, up, file, resv>>
<1>1. CASE Sync!PanicSync
  BY <1>1 DEF Sync!PanicSync, adding
<1>2. CASE Sync!TakeNextSync
  BY <1>2 DEF Sync!TakeNextSync, Sync!shared, adding
<1>3. CASE Sync!StartSync
  BY <1>3 DEF Sync!StartSync, adding
<1>4. CASE Sync!TurnOfSync
  BY <1>4 DEF Sync!TurnOfSync, Sync!shared, adding
<1>5. CASE Sync!KeysOfSync
  BY <1>5 DEF Sync!KeysOfSync, Sync!shared, adding
<1>6. CASE Sync!WalkSync
  BY <1>6 DEF Sync!WalkSync, Sync!shared, adding
<1>7. CASE Sync!BeginCommitOfSync
  BY <1>7 DEF Sync!BeginCommitOfSync, Sync!shared, adding
<1>8. CASE Sync!CommitSync
  BY <1>8 DEF Sync!CommitSync, Sync!At
<1>9. CASE Sync!FailSync
  BY <1>9 DEF Sync!FailSync, Sync!shared, adding
<1>10. CASE Sync!CutSync
  BY <1>10 DEF Sync!CutSync, Sync!shared, adding
<1>11. CASE Sync!EndSync
  BY <1>11 DEF Sync!EndSync, Sync!At, Sync!EndAdds, EndAdds, Ending
<1>12. CASE Sync!PublishSync
  BY <1>12 DEF Sync!PublishSync, adding
<1>13. CASE Sync!StoppedOfSync
  BY <1>13 DEF Sync!StoppedOfSync, Sync!shared, adding
<1>14. CASE Sync!UndoOfSync
  BY <1>14 DEF Sync!UndoOfSync, Sync!At, Sync!Undo, Sync!TakeAway, Sync!EndAdds, Undo,
     TakeAway, EndAdds, Undoing, adding
<1>15. CASE Sync!RearmSync
  BY <1>15 DEF Sync!RearmSync, adding
<1> QED BY <1>1, <1>2, <1>3, <1>4, <1>5, <1>6, <1>7, <1>8, <1>9, <1>10, <1>11, <1>12, <1>13,
           <1>14, <1>15 DEF Sync!SyncStep

LEMMA FreezeOnAdds ==
  ASSUME Freeze!FreezeStep \/ Freeze!PanicFreeze
  PROVE  \/ UNCHANGED adding
         \/ freezer.at = "ending" /\ Ending(freezer.book.adds)
         \/ freezer.at = "undo" /\ Undoing(freezer.undo)
         \/ freezer.at = "committing" /\ Carrying(freezer.read, TRUE)
<1>1. CASE Freeze!PanicFreeze
  BY <1>1 DEF Freeze!PanicFreeze, adding
<1>2. CASE Freeze!TakeNextFreeze
  BY <1>2 DEF Freeze!TakeNextFreeze, Freeze!shared, adding
<1>3. CASE Freeze!StartFreeze
  BY <1>3 DEF Freeze!StartFreeze, adding
<1>4. CASE Freeze!KeysOfFreeze
  BY <1>4 DEF Freeze!KeysOfFreeze, Freeze!shared, adding
<1>5. CASE Freeze!WalkFreeze
  BY <1>5 DEF Freeze!WalkFreeze, Freeze!shared, adding
<1>6. CASE Freeze!BeginCommitOfFreeze
  BY <1>6 DEF Freeze!BeginCommitOfFreeze, Freeze!shared, adding
<1>7. CASE Freeze!CommitFreeze
  BY <1>7 DEF Freeze!CommitFreeze, Freeze!At, Carrying
<1>8. CASE Freeze!FailFreeze
  BY <1>8 DEF Freeze!FailFreeze, Freeze!shared, adding
<1>9. CASE Freeze!CutFreeze
  BY <1>9 DEF Freeze!CutFreeze, Freeze!shared, adding
<1>10. CASE Freeze!EndFreeze
  BY <1>10 DEF Freeze!EndFreeze, Freeze!At, Freeze!EndAdds, EndAdds, Ending
<1>11. CASE Freeze!PublishFreeze
  BY <1>11 DEF Freeze!PublishFreeze, adding
<1>12. CASE Freeze!StoppedOfFreeze
  BY <1>12 DEF Freeze!StoppedOfFreeze, Freeze!shared, adding
<1>13. CASE Freeze!UndoOfFreeze
  BY <1>13 DEF Freeze!UndoOfFreeze, Freeze!At, Freeze!Undo, Freeze!TakeAway, Freeze!EndAdds, Undo,
     TakeAway, EndAdds, Undoing, adding
<1>14. CASE Freeze!RearmFreeze
  BY <1>14 DEF Freeze!RearmFreeze, adding
<1> QED BY <1>1, <1>2, <1>3, <1>4, <1>5, <1>6, <1>7, <1>8, <1>9, <1>10, <1>11, <1>12, <1>13,
           <1>14 DEF Freeze!FreezeStep

LEMMA AddMoves ==
  ASSUME [Next]_vars, resv \in [Adds -> {"none", "live", "received"}], stop.adds \subseteq Adds
  PROVE  \/ UNCHANGED adding
         \/ Marking
         \/ \E x \in Adds : Requested(x) \/ Handing(x)
         \/ syncer.at = "ending" /\ Ending(syncer.adds)
         \/ freezer.at = "ending" /\ Ending(freezer.book.adds)
         \/ syncer.at = "undo" /\ UNCHANGED freezer /\ Undoing(syncer.undo)
         \/ freezer.at = "undo" /\ UNCHANGED syncer /\ Undoing(freezer.undo)
         \/ syncer.at = "committing" /\ Carrying(syncer.read, FALSE)
         \/ freezer.at = "committing" /\ Carrying(freezer.read, TRUE)
<1>1. CASE UNCHANGED vars
  BY <1>1 DEF vars, shared, adding
<1>2. CASE Sync!SyncStep /\ UNCHANGED <<frozen, stop, resume>>
  <2>1. UNCHANGED freezer
    BY <1>2 DEF frozen
  <2>2. UNCHANGED resv =>
          resv' = [x \in Adds |-> IF FALSE /\ x \in syncer.read THEN "none" ELSE resv[x]]
    OBVIOUS
  <2> QED BY <1>2, <2>1, <2>2, SyncOnAdds DEF Carrying
<1>3. CASE Freeze!FreezeStep /\ UNCHANGED <<synced, stop, resume>>
  BY <1>3, FreezeOnAdds DEF synced
<1>4. ASSUME NEW x \in Adds,
             (AddStep(x) /\ Elsewhere) \/ HandOver(x) \/ AskForStopped(x)
      PROVE  Requested(x) \/ Handing(x)
  <2>1. CASE AddStep(x)
    BY <2>1 DEF Requested
  <2>2. CASE HandOver(x)
    BY <2>2 DEF HandOver, Handing, Up
  <2>3. CASE AskForStopped(x)
    BY <2>3 DEF AskForStopped, Handing, Up, UpOnly
  <2> QED BY <1>4, <2>1, <2>2, <2>3
<1>5. CASE StopStep
  <2>1. CASE StopMarks
    BY <2>1 DEF StopMarks, Marking, adding
  <2>2. CASE StopCarries
    BY <2>2 DEF StopCarries, Requests, adding
  <2>3. CASE StopAsks
    BY <2>3 DEF StopAsks, Requests, adding
  <2>4. CASE StopBook
    BY <2>4 DEF StopBook, Requests, adding
  <2>5. CASE StopCancels
    BY <2>5 DEF StopCancels, Requests, adding
  <2> QED BY <1>5, <2>1, <2>2, <2>3, <2>4, <2>5 DEF StopStep
<1>6. CASE \E x \in Adds : Resume(x) /\ UNCHANGED <<synced, stop>>
  BY <1>6 DEF Resume, Requests, adding
<1>7. ASSUME NEW x \in Adds,
             (BeginAdd(x) \/ WriteUnkept(x) \/ Land(x) \/ Received(x) \/ Break(x)) /\ Elsewhere
      PROVE  Requested(x)
  BY <1>7 DEF Requested
<1>8. ASSUME NEW x \in Adds, StopAdd(x)
      PROVE  UNCHANGED adding \/ Marking
  BY <1>8 DEF StopAdd, BeginStop, Marking, adding
<1>9. CASE RequestSync
  BY <1>9 DEF RequestSync, adding
<1>10. ASSUME NEW f \in Folders, Freeze!AskPack(f) \/ StopQueued(f)
       PROVE  UNCHANGED adding
  BY <1>10 DEF Freeze!AskPack, StopQueued, BeginStop, adding
<1>11. CASE StopSync \/ StopFreeze
  BY <1>11 DEF StopSync, StopFreeze, BeginStop, adding
<1>12. CASE FindQuiet \/ Lock \/ Unlock
  BY <1>12 DEF FindQuiet, Lock, Unlock, adding
<1>13. CASE Sync!PanicSync
  BY <1>13 DEF Sync!PanicSync, adding
<1>14. CASE Freeze!PanicFreeze
  BY <1>14 DEF Freeze!PanicFreeze, adding
<1> QED BY <1>1, <1>2, <1>3, <1>4, <1>5, <1>6, <1>7, <1>8, <1>9, <1>10, <1>11, <1>12, <1>13,
           <1>14 DEF Next, Serve, Comes

AddInv ==
  /\ setup \in Setups
  /\ reg \in [Adds -> {"none", "receiving", "armed", "ended"}]
  /\ up \in [Adds -> Steps]
  /\ file \in [Adds -> {"none", "here", "taken"}]
  /\ resv \in [Adds -> {"none", "live", "received"}]
  /\ stopping \subseteq {x \in Adds : Listed(x)}
  /\ unkept \subseteq Adds
  /\ carried \subseteq Adds

\* The adds that end leave the marks.
LEMMA EndTyped ==
  ASSUME AddInv, NEW X, EndAdds(X)
  PROVE  /\ reg' \in [Adds -> {"none", "receiving", "armed", "ended"}]
         /\ stopping' \subseteq {x \in Adds : Listed(x)'}
         /\ unkept' \subseteq Adds
BY DEF AddInv, EndAdds, Listed

LEMMA AddInvKept ==
  ASSUME AddInv, [Next]_vars, stop.adds \subseteq Adds,
         syncer.read \subseteq Adds, freezer.read \subseteq Adds
  PROVE  AddInv'
<1> USE DEF AddInv
<1>1. CASE UNCHANGED adding
  BY <1>1 DEF adding, Listed
<1>2. CASE Marking
  BY <1>2 DEF Marking, MarkStopping, Listed
<1>3. ASSUME NEW x \in Adds, Requested(x) PROVE AddInv'
  <2>1. CASE BeginAdd(x)
    BY <2>1 DEF BeginAdd, Up, Listed, Steps
  <2>2. CASE WriteUnkept(x)
    BY <2>2 DEF WriteUnkept, Up, UpOnly, Listed, Steps
  <2>3. CASE Land(x)
    BY <2>3 DEF Land, Listed
  <2>4. CASE Received(x)
    <3>1. up' \in [Adds -> Steps] /\ resv' \in [Adds -> {"none", "live", "received"}]
      BY <2>4 DEF Received, Up, Steps
    <3>2. CASE EndAdds({x})
      BY <2>4, <3>1, <3>2, EndTyped DEF Received, Listed
    <3>3. CASE UNCHANGED <<reg, stopping, unkept>>
      BY <2>4, <3>1, <3>3 DEF Received, Listed
    <3> QED BY <2>4, <3>2, <3>3 DEF Received
  <2>5. CASE Break(x)
    <3>1. up' \in [Adds -> Steps] /\ resv' \in [Adds -> {"none", "live", "received"}]
      BY <2>5 DEF Break, Up, Steps
    <3>2. CASE EndAdds({x})
      BY <2>5, <3>1, <3>2, EndTyped DEF Break, Listed
    <3>3. CASE UNCHANGED <<reg, stopping, unkept>>
      BY <2>5, <3>1, <3>3 DEF Break, Listed
    <3> QED BY <2>5, <3>2, <3>3 DEF Break
  <2>6. CASE SeeStop(x)
    BY <2>6 DEF SeeStop, Up, UpOnly, Listed, Steps
  <2>7. CASE ReleaseLive(x)
    BY <2>7 DEF ReleaseLive, Up, Listed, Steps
  <2>8. CASE ArmAdd(x)
    BY <2>8 DEF ArmAdd, Up, UpOnly, Listed, Steps
  <2>9. CASE StopReceiving(x)
    BY <2>9 DEF StopReceiving, TakeAway, Up, Listed, Steps
  <2>10. CASE Undone(x)
    BY <2>10 DEF Undone, EndAdds, Up, Listed, Steps
  <2> QED BY <1>3, <2>1, <2>2, <2>3, <2>4, <2>5, <2>6, <2>7, <2>8, <2>9, <2>10
          DEF Requested, AddStep
<1>4. ASSUME NEW x \in Adds, Handing(x) PROVE AddInv'
  BY <1>4 DEF Handing, Up, Listed, Steps
<1>5. ASSUME NEW X, Ending(X) PROVE AddInv'
  BY <1>5 DEF Ending, EndAdds, Listed
<1>6. ASSUME NEW X, Undoing(X) PROVE AddInv'
  <2>1. PICK x \in X : Undo(x) /\ UNCHANGED <<setup, up, carried>>
    BY <1>6 DEF Undoing
  <2>2. file' \in [Adds -> {"none", "here", "taken"}]
          /\ resv' \in [Adds -> {"none", "live", "received"}]
    BY <2>1 DEF Undo, TakeAway
  <2>3. EndAdds({x})
    BY <2>1 DEF Undo
  <2> QED BY <2>1, <2>2, <2>3, EndTyped DEF Listed
<1>7. ASSUME NEW X \in SUBSET Adds, NEW r \in BOOLEAN, Carrying(X, r) PROVE AddInv'
  BY <1>7 DEF Carrying, Listed
<1> QED BY <1>1, <1>2, <1>3, <1>4, <1>5, <1>6, <1>7, AddMoves

\* An add whose request is over stays so.
LEMMA HandedKept ==
  ASSUME AddInv, [Next]_vars, stop.adds \subseteq Adds
  PROVE  Handed \subseteq Handed'
<1> USE DEF Handed
<1>1. CASE UNCHANGED adding
  BY <1>1 DEF adding
<1>2. CASE Marking
  BY <1>2 DEF Marking
<1>3. ASSUME NEW x \in Adds, Requested(x)
      PROVE  x \notin Handed /\ \A y \in Adds \ {x} : up'[y] = up[y]
  BY <1>3 DEF Requested, AddStep, BeginAdd, WriteUnkept, Land, Received, Break, SeeStop,
     ReleaseLive, ArmAdd, StopReceiving, Undone, Up, AddInv
<1>4. ASSUME NEW x \in Adds, Handing(x) PROVE Handed \subseteq Handed'
  BY <1>4 DEF Handing, Up, AddInv
<1>5. ASSUME UNCHANGED up PROVE Handed \subseteq Handed'
  BY <1>5
<1> QED BY <1>1, <1>2, <1>3, <1>4, <1>5, AddMoves DEF AddInv, Ending, Undoing, Carrying

-----------------------------------------------------------------------------
(* The syncs *)

\* The worker works while it is taken as working, has all that is armed before
\* it, and commits only once it has said so.
SyncFlow ==
  /\ syncs.working <=> syncer.at # "off"
  /\ syncs.armed => syncs.working
  /\ syncs.pending # {} => syncs.armed
  /\ syncer.at = "committing" => syncs.record.stop = "committing"

SyncInv ==
  /\ syncs \in SyncsOf(Handed)
  /\ syncer \in SyncersOf(Handed)
  /\ SyncFlow

LEMMA SyncMoves ==
  ASSUME [Next]_vars, AddInv
  PROVE  \/ UNCHANGED synced
         \/ \E X \in SUBSET Handed', asked \in BOOLEAN : Sync!ArmSync(X, asked)
         \/ Sync!AskSync /\ UNCHANGED syncer
         \/ Sync!SyncStep
         \/ Sync!PanicSync
<1>1. CASE UNCHANGED vars
  BY <1>1 DEF vars
<1>2. CASE Freeze!FreezeStep /\ UNCHANGED <<synced, stop, resume>>
  BY <1>2
<1>3. ASSUME NEW x \in Adds, HandOver(x)
      PROVE  UNCHANGED synced \/ (Sync!ArmSync({x}, FALSE) /\ {x} \subseteq Handed')
  BY <1>3 DEF HandOver, Handed, Up, AddInv, synced
<1>4. ASSUME NEW x \in Adds, (AddStep(x) /\ Elsewhere) \/ AskForStopped(x)
      PROVE  UNCHANGED synced \/ (Sync!AskSync /\ UNCHANGED syncer)
  BY <1>4 DEF AskForStopped, Elsewhere
<1>5. CASE StopStep
  <2>1. CASE StopMarks \/ StopCarries
    BY <2>1 DEF StopMarks, StopCarries
  <2>2. CASE StopAsks
    BY <2>2 DEF StopAsks, synced
  <2>3. CASE StopBook \/ StopCancels
    BY <2>3 DEF StopBook, StopCancels
  <2> QED BY <1>5, <2>1, <2>2, <2>3 DEF StopStep
<1>6. CASE \E x \in Adds : Resume(x) /\ UNCHANGED <<synced, stop>>
  BY <1>6
<1>7. ASSUME NEW x \in Adds,
             \/ (BeginAdd(x) \/ WriteUnkept(x) \/ Land(x) \/ Received(x) \/ Break(x)) /\ Elsewhere
             \/ StopAdd(x)
      PROVE  UNCHANGED synced
  BY <1>7 DEF Elsewhere, StopAdd, BeginStop
<1>8. CASE RequestSync
  BY <1>8 DEF RequestSync
<1>9. ASSUME NEW f \in Folders,
             (Freeze!AskPack(f) /\ UNCHANGED <<synced, stop, resume>>) \/ StopQueued(f)
      PROVE  UNCHANGED synced
  BY <1>9 DEF StopQueued, BeginStop
<1>10. CASE StopSync \/ StopFreeze
  BY <1>10 DEF StopSync, StopFreeze, BeginStop
<1>11. CASE (FindQuiet \/ Lock \/ Unlock) /\ UNCHANGED <<synced, frozen, stop>>
  BY <1>11
<1>12. CASE Freeze!PanicFreeze /\ UNCHANGED <<synced, stop, resume>>
  BY <1>12
<1> QED BY <1>1, <1>2, <1>3, <1>4, <1>5, <1>6, <1>7, <1>8, <1>9, <1>10, <1>11, <1>12
        DEF Next, Serve, Comes

\* The run a worker takes up, and what an ask does to it.
LEMMA SyncRuns ==
  ASSUME NEW X
  PROVE  /\ Sync!NoSyncer \in SyncersOf(X)
         /\ [Sync!NoSyncer EXCEPT !.at = "next"] \in SyncersOf(X)
         /\ \A Y \in SUBSET X, r \in BOOLEAN, z \in Statuses :
              Sync!SyncRun(Y, r, z) \in RunsOf(X) /\ Sync!SyncRun(Y, r, z).adds = Y
         /\ \A r \in RunsOf(X), z \in StopStates :
              [r EXCEPT !.stop = z] \in RunsOf(X) /\ [r EXCEPT !.stop = z].adds = r.adds
<1>1. Sync!NoSyncer \in SyncersOf(X) /\ [Sync!NoSyncer EXCEPT !.at = "next"] \in SyncersOf(X)
  BY DEF Sync!NoSyncer, SyncersOf, Stages, Statuses
<1>2. ASSUME NEW Y \in SUBSET X, NEW r \in BOOLEAN, NEW z \in Statuses
      PROVE  Sync!SyncRun(Y, r, z) \in RunsOf(X) /\ Sync!SyncRun(Y, r, z).adds = Y
  BY DEF Sync!SyncRun, Sync!NoSync, RunsOf, StopStates
<1>3. ASSUME NEW r \in RunsOf(X), NEW z \in StopStates
      PROVE  [r EXCEPT !.stop = z] \in RunsOf(X) /\ [r EXCEPT !.stop = z].adds = r.adds
  BY DEF RunsOf
<1> QED BY <1>1, <1>2, <1>3

LEMMA AskedSync ==
  ASSUME NEW X, syncs \in SyncsOf(X), Sync!AskSync
  PROVE  /\ syncs' \in SyncsOf(X)
         /\ (syncs'.working <=> syncs.working) /\ (syncs'.armed <=> syncs.armed)
         /\ syncs'.pending = syncs.pending /\ syncs'.record.adds = syncs.record.adds
         /\ syncs.record.stop = "committing" => syncs'.record.stop = "committing"
<1>1. syncs.record \in RunsOf(X)
  BY DEF SyncsOf
<1>2. CASE syncs.record.status # "syncing"
  BY <1>2 DEF Sync!AskSync
<1>3. CASE syncs.record.status = "syncing"
  <2> DEFINE z == IF syncs.record.stop = "committing" THEN syncs.record.stop ELSE "asked"
             r == [syncs.record EXCEPT !.stop = z]
  <2>1. z \in StopStates
    BY <1>1 DEF RunsOf, StopStates
  <2>2. r \in RunsOf(X) /\ r.adds = syncs.record.adds /\ r.stop = z
    BY <1>1, <2>1 DEF RunsOf
  <2>3. syncs' = [syncs EXCEPT !.record = r]
    BY <1>3 DEF Sync!AskSync, Sync!Ask, SyncsOf
  <2> HIDE DEF r
  <2> QED BY <2>2, <2>3 DEF SyncsOf
<1> QED BY <1>2, <1>3

\* One step of the worker, with the adds it may carry.
LEMMA SyncStepShapes ==
  ASSUME Sync!SyncStep, AddInv, NEW X \in SUBSET Adds, syncs \in SyncsOf(X), syncer \in SyncersOf(X)
  PROVE  syncs' \in SyncsOf(X) /\ syncer' \in SyncersOf(X)
<1>1. /\ syncs.working \in BOOLEAN /\ syncs.armed \in BOOLEAN /\ syncs.pending \subseteq X
      /\ syncs.requested \in BOOLEAN /\ syncs.record \in RunsOf(X)
      /\ syncs.record.adds \subseteq X /\ syncs.record.requested \in BOOLEAN
      /\ syncer.adds \subseteq X /\ syncer.requested \in BOOLEAN /\ syncer.status \in Statuses
  BY DEF SyncsOf, SyncersOf, RunsOf
<1>0. /\ \A r \in RunsOf(X) : r.requested \in BOOLEAN
      /\ [Sync!NoSyncer EXCEPT !.at = "next"] \in SyncersOf(X)
  BY SyncRuns DEF RunsOf
<1>2. Sync!AskIfStopped => syncs' \in SyncsOf(X)
  BY AskedSync DEF Sync!AskIfStopped
<1>3. ASSUME NEW l \in Stages
      PROVE  /\ [syncer EXCEPT !.at = l] \in SyncersOf(X)
             /\ \A z \in Statuses : [syncer EXCEPT !.at = l, !.status = z] \in SyncersOf(X)
  BY DEF SyncersOf
<1>4. CASE Sync!TakeNextSync
  <2> DEFINE taken == Sync!SyncRun(syncs.pending, syncs.requested, "syncing")
  <2>1. taken \in RunsOf(X) /\ [taken EXCEPT !.stop = "asked"] \in RunsOf(X)
          /\ taken.adds = syncs.pending
    <3>1. "syncing" \in Statuses /\ "asked" \in StopStates
      BY DEF Statuses, StopStates
    <3>2. taken \in RunsOf(X) /\ taken.adds = syncs.pending
      BY <1>1, <3>1, SyncRuns
    <3> HIDE DEF taken
    <3> QED BY <3>1, <3>2, SyncRuns
  <2>2. CASE syncs.armed
    <3>1. \E r \in {taken, [taken EXCEPT !.stop = "asked"]} :
            syncs' = [syncs EXCEPT !.armed = FALSE, !.pending = {}, !.requested = FALSE,
                                   !.record = r]
      BY <1>4, <2>2 DEF Sync!TakeNextSync
    <3>2. syncer' = [Sync!NoSyncer EXCEPT !.at = "start", !.adds = taken.adds,
                                          !.requested = taken.requested]
      BY <1>4, <2>2 DEF Sync!TakeNextSync
    <3> HIDE DEF taken
    <3>3. syncs' \in SyncsOf(X)
      BY <2>1, <3>1 DEF SyncsOf
    <3>4. syncer' \in SyncersOf(X)
      BY <1>0, <1>1, <2>1, <3>2 DEF Sync!NoSyncer, SyncersOf, Stages, Statuses
    <3> QED BY <3>3, <3>4
  <2>3. CASE ~syncs.armed
    <3>1. syncs' = [syncs EXCEPT !.working = FALSE] /\ syncer' = Sync!NoSyncer
      BY <1>4, <2>3 DEF Sync!TakeNextSync
    <3> QED BY <3>1, SyncRuns DEF SyncsOf
  <2> QED BY <2>2, <2>3
<1>5. CASE Sync!StartSync
  BY <1>2, <1>3, <1>5 DEF Sync!StartSync, Sync!Go, Stages
<1>6. CASE Sync!TurnOfSync
  <2>1. [syncs.record EXCEPT !.adds = @ \cup syncs.pending,
                             !.requested = @ \/ syncs.requested] \in RunsOf(X)
    BY <1>1 DEF RunsOf
  <2>2. syncs' \in SyncsOf(X)
    BY <1>6, <2>1 DEF Sync!TurnOfSync, Sync!Absorbed, SyncsOf
  <2>3. syncs'.record.adds \subseteq X /\ syncs'.record.requested \in BOOLEAN
    BY <2>2 DEF SyncsOf, RunsOf
  <2>4. syncer' = [syncer EXCEPT !.at = "absorbed", !.adds = syncs'.record.adds,
                                 !.requested = syncs'.record.requested]
    BY <1>6 DEF Sync!TurnOfSync
  <2>5. syncer' \in SyncersOf(X)
    BY <2>3, <2>4 DEF SyncersOf, Stages
  <2> QED BY <2>2, <2>5
<1>7. CASE Sync!KeysOfSync
  <2>1. syncs' \in SyncsOf(X)
    BY <1>2, <1>7 DEF Sync!KeysOfSync
  <2>2. PICK Y \in SUBSET syncer.adds :
          LET scope == IF syncer.requested THEN Folders ELSE {setup.folder[x] : x \in Y}
          IN \/ syncer' = [syncer EXCEPT !.at = "ending", !.status = "stopped"]
             \/ \E l \in {"cut", "walk"} : syncer' = [syncer EXCEPT !.scope = scope, !.at = l]
    BY <1>7 DEF Sync!KeysOfSync
  <2> DEFINE scope == IF syncer.requested THEN Folders ELSE {setup.folder[x] : x \in Y}
  <2>3. setup.folder \in [Adds -> Folders]
    BY SetupAssumption DEF AddInv
  <2>4. scope \subseteq Folders
    BY <1>1, <2>3
  <2> HIDE DEF scope
  <2>5. CASE \E l \in {"cut", "walk"} : syncer' = [syncer EXCEPT !.scope = scope, !.at = l]
    BY <2>1, <2>4, <2>5 DEF SyncersOf, Stages
  <2>6. CASE syncer' = [syncer EXCEPT !.at = "ending", !.status = "stopped"]
    BY <1>3, <2>1, <2>6 DEF Stages, Statuses
  <2> QED BY <2>2, <2>5, <2>6 DEF scope
<1>8. CASE Sync!WalkSync
  BY <1>8 DEF Sync!WalkSync, SyncersOf, Stages
<1>9. CASE Sync!BeginCommitOfSync
  <2>1. CASE Sync!EndsAs("done") /\ UNCHANGED syncs
    BY <1>3, <2>1 DEF Sync!EndsAs, Stages, Statuses
  <2>2. CASE syncs' = [syncs EXCEPT !.record.stop = Sync!Hear(@)] /\ Sync!Go("committing")
    <3>1. [syncs.record EXCEPT !.stop = "committing"] \in RunsOf(X)
      BY <1>1 DEF RunsOf, StopStates
    <3>2. syncs' \in SyncsOf(X)
      BY <2>2, <3>1 DEF SyncsOf, Sync!Hear
    <3> QED BY <1>3, <2>2, <3>2 DEF Sync!Go, Stages
  <2> QED BY <1>9, <2>1, <2>2 DEF Sync!BeginCommitOfSync
<1>10. CASE Sync!CommitSync
  BY <1>3, <1>10 DEF Sync!CommitSync, Sync!EndsAs, Stages, Statuses
<1>11. CASE Sync!FailSync
  BY <1>3, <1>11 DEF Sync!FailSync, Sync!EndsAs, Stages, Statuses
<1>12. CASE Sync!CutSync
  BY <1>12 DEF Sync!CutSync, SyncersOf, Stages
<1>13. CASE Sync!EndSync
  BY <1>3, <1>13 DEF Sync!EndSync, Sync!Go, Stages
<1>14. CASE Sync!PublishSync
  <2>1. Sync!SyncRun(syncer.adds, syncer.requested, syncer.status) \in RunsOf(X)
    BY <1>1, SyncRuns
  <2>2. syncs' \in SyncsOf(X)
    BY <1>14, <2>1 DEF Sync!PublishSync, SyncsOf
  <2>3. syncer' \in {[syncer EXCEPT !.at = "rearm"], [Sync!NoSyncer EXCEPT !.at = "next"]}
    BY <1>14 DEF Sync!PublishSync, Sync!Go
  <2>4. "rearm" \in Stages
    BY DEF Stages
  <2> QED BY <1>0, <1>3, <2>2, <2>3, <2>4
<1>15. CASE Sync!StoppedOfSync
  <2>1. syncer' = [syncer EXCEPT !.at = "undo", !.undo = syncer.adds \cap stopping]
    BY <1>15 DEF Sync!StoppedOfSync, Sync!StoppingOf
  <2> QED BY <1>1, <1>15, <2>1 DEF Sync!StoppedOfSync, SyncersOf, Stages
<1>16. CASE Sync!UndoOfSync
  <2>1. \/ \E x \in syncer.undo : syncer' = [syncer EXCEPT !.undo = @ \ {x}, !.adds = @ \ {x}]
        \/ syncer' = [syncer EXCEPT !.at = "publish", !.status = "cancelled"]
    BY <1>16 DEF Sync!UndoOfSync
  <2>2. CASE syncer' = [syncer EXCEPT !.at = "publish", !.status = "cancelled"]
    BY <1>3, <1>16, <2>2 DEF Sync!UndoOfSync, Stages, Statuses
  <2>3. CASE \E x \in syncer.undo : syncer' = [syncer EXCEPT !.undo = @ \ {x}, !.adds = @ \ {x}]
    BY <1>16, <2>3 DEF Sync!UndoOfSync, SyncersOf
  <2> QED BY <2>1, <2>2, <2>3
<1>17. CASE Sync!RearmSync
  <2>1. syncer' = [Sync!NoSyncer EXCEPT !.at = "next"]
    BY <1>17 DEF Sync!RearmSync
  <2>2. \/ syncs' = syncs
        \/ syncs' = [syncs EXCEPT !.armed = TRUE, !.pending = @ \cup syncer.adds,
                                  !.requested = @ \/ syncer.requested]
    BY <1>17 DEF Sync!RearmSync
  <2>3. syncs' \in SyncsOf(X)
    BY <1>1, <2>2 DEF SyncsOf
  <2> QED BY <1>0, <2>1, <2>3
<1> QED BY <1>4, <1>5, <1>6, <1>7, <1>8, <1>9, <1>10, <1>11, <1>12, <1>13, <1>14, <1>15, <1>16,
           <1>17 DEF Sync!SyncStep

LEMMA SyncStepFlow ==
  ASSUME Sync!SyncStep, SyncFlow, NEW X, syncs \in SyncsOf(X), syncer \in SyncersOf(X)
  PROVE  SyncFlow'
<1> USE DEF SyncFlow, SyncsOf, SyncersOf
<1>1. CASE Sync!TakeNextSync
  <2>1. CASE syncs.armed
    <3>1. /\ syncs'.working = syncs.working /\ ~syncs'.armed /\ syncs'.pending = {}
          /\ syncer'.at = "start"
      BY <1>1, <2>1 DEF Sync!TakeNextSync, Sync!NoSyncer
    <3> QED BY <1>1, <2>1, <3>1 DEF Sync!TakeNextSync, Sync!At
  <2>2. CASE ~syncs.armed
    <3>1. syncs' = [syncs EXCEPT !.working = FALSE] /\ syncer'.at = "off"
      BY <1>1, <2>2 DEF Sync!TakeNextSync, Sync!NoSyncer
    <3> QED BY <2>2, <3>1
  <2> QED BY <2>1, <2>2
<1>2. Sync!AskIfStopped => /\ (syncs'.working <=> syncs.working) /\ (syncs'.armed <=> syncs.armed)
                           /\ syncs'.pending = syncs.pending
  BY AskedSync DEF Sync!AskIfStopped
<1>3. CASE Sync!StartSync
  BY <1>2, <1>3 DEF Sync!StartSync, Sync!At, Sync!Go
<1>4. CASE Sync!TurnOfSync
  BY <1>4 DEF Sync!TurnOfSync, Sync!At, Sync!Absorbed
<1>5. CASE Sync!KeysOfSync
  <2>1. syncer.at = "absorbed" /\ Sync!AskIfStopped /\ syncer'.at \in {"ending", "cut", "walk"}
    BY <1>5 DEF Sync!KeysOfSync, Sync!At
  <2> QED BY <1>2, <2>1
<1>6. CASE Sync!WalkSync
  BY <1>6 DEF Sync!WalkSync, Sync!At
<1>7. CASE Sync!BeginCommitOfSync
  <2>1. CASE Sync!EndsAs("done") /\ UNCHANGED syncs
    BY <1>7, <2>1 DEF Sync!BeginCommitOfSync, Sync!At, Sync!EndsAs
  <2>2. CASE syncs' = [syncs EXCEPT !.record.stop = Sync!Hear(@)] /\ Sync!Go("committing")
    <3>1. syncs'.record.stop = "committing"
      BY <2>2 DEF Sync!Hear, RunsOf
    <3>2. (syncs'.working <=> syncs.working) /\ (syncs'.armed <=> syncs.armed)
            /\ syncs'.pending = syncs.pending
      BY <2>2
    <3> QED BY <1>7, <2>2, <3>1, <3>2 DEF Sync!BeginCommitOfSync, Sync!At, Sync!Go
  <2> QED BY <1>7, <2>1, <2>2 DEF Sync!BeginCommitOfSync
<1>8. CASE Sync!CommitSync
  BY <1>8 DEF Sync!CommitSync, Sync!At, Sync!EndsAs
<1>9. CASE Sync!FailSync
  BY <1>9 DEF Sync!FailSync, Sync!EndsAs
<1>10. CASE Sync!CutSync
  BY <1>10 DEF Sync!CutSync
<1>11. CASE Sync!EndSync
  BY <1>11 DEF Sync!EndSync, Sync!At, Sync!Go
<1>12. CASE Sync!PublishSync
  BY <1>12 DEF Sync!PublishSync, Sync!At, Sync!Go, Sync!NoSyncer
<1>13. CASE Sync!StoppedOfSync
  BY <1>13 DEF Sync!StoppedOfSync, Sync!At
<1>14. CASE Sync!UndoOfSync
  BY <1>14 DEF Sync!UndoOfSync, Sync!At
<1>15. CASE Sync!RearmSync
  BY <1>15 DEF Sync!RearmSync, Sync!At, Sync!NoSyncer
<1> QED BY <1>1, <1>3, <1>4, <1>5, <1>6, <1>7, <1>8, <1>9, <1>10, <1>11, <1>12, <1>13,
           <1>14, <1>15 DEF Sync!SyncStep

LEMMA SyncInvKept ==
  ASSUME AddInv, SyncInv, [Next]_vars, stop.adds \subseteq Adds
  PROVE  SyncInv'
<1> PICK H \in SUBSET Adds : H = Handed'
  BY DEF Handed
<1> SUFFICES syncs' \in SyncsOf(H) /\ syncer' \in SyncersOf(H) /\ SyncFlow'
  BY DEF SyncInv
<1>1. syncs \in SyncsOf(H) /\ syncer \in SyncersOf(H) /\ SyncFlow
  BY HandedKept, ShapesGrow DEF SyncInv
<1>2. CASE UNCHANGED synced
  BY <1>1, <1>2 DEF synced, SyncFlow
<1>3. ASSUME NEW X \in SUBSET H, NEW asked \in BOOLEAN, Sync!ArmSync(X, asked)
      PROVE  syncs' \in SyncsOf(H) /\ syncer' \in SyncersOf(H) /\ SyncFlow'
  <2> DEFINE armed == [syncs EXCEPT !.working = TRUE, !.armed = TRUE, !.pending = @ \cup X,
                                    !.requested = @ \/ asked]
  <2>1. armed \in SyncsOf(H) /\ armed.working /\ armed.armed /\ armed.record = syncs.record
    BY <1>1 DEF SyncsOf
  <2>2. armed.pending \subseteq H /\ armed.requested \in BOOLEAN
    BY <2>1 DEF SyncsOf
  <2>3. CASE syncs.working
    <3>1. syncs' = armed /\ syncer' = syncer
      BY <1>3, <2>3 DEF Sync!ArmSync
    <3> QED BY <1>1, <2>1, <2>3, <3>1 DEF SyncFlow
  <2>4. CASE ~syncs.working
    <3> DEFINE r == Sync!SyncRun(armed.pending, armed.requested, "syncing")
    <3>1. syncs' = [armed EXCEPT !.record = [r EXCEPT !.fresh = TRUE]]
            /\ syncer' = [Sync!NoSyncer EXCEPT !.at = "next"]
      BY <1>3, <2>4 DEF Sync!ArmSync
    <3>2. "syncing" \in Statuses
      BY DEF Statuses
    <3>3. r \in RunsOf(H)
      BY <2>2, <3>2, SyncRuns
    <3> HIDE DEF r, armed
    <3>4. [r EXCEPT !.fresh = TRUE] \in RunsOf(H)
      BY <3>3 DEF RunsOf
    <3>5. syncs' \in SyncsOf(H) /\ syncs'.working /\ syncs'.armed
      BY <2>1, <3>1, <3>4 DEF SyncsOf
    <3>6. syncer' \in SyncersOf(H) /\ syncer'.at = "next"
      BY <3>1, SyncRuns DEF Sync!NoSyncer
    <3> QED BY <3>5, <3>6 DEF SyncFlow
  <2> QED BY <2>3, <2>4
<1>4. CASE Sync!AskSync /\ UNCHANGED syncer
  <2>1. /\ syncs' \in SyncsOf(H)
        /\ (syncs'.working <=> syncs.working) /\ (syncs'.armed <=> syncs.armed)
        /\ syncs'.pending = syncs.pending
        /\ syncs.record.stop = "committing" => syncs'.record.stop = "committing"
    BY <1>1, <1>4, AskedSync
  <2> QED BY <1>1, <1>4, <2>1 DEF SyncFlow
<1>5. CASE Sync!SyncStep
  <2>1. syncs' \in SyncsOf(H) /\ syncer' \in SyncersOf(H)
    BY <1>1, <1>5, SyncStepShapes
  <2>2. SyncFlow'
    BY <1>1, <1>5, SyncStepFlow
  <2> QED BY <2>1, <2>2
<1>6. CASE Sync!PanicSync
  <2>1. syncer' = Sync!NoSyncer /\ syncer'.at = "off"
    BY <1>6 DEF Sync!PanicSync, Sync!NoSyncer
  <2>2. [syncs.record EXCEPT !.status = IF @ = "syncing" THEN "stopped" ELSE @] \in RunsOf(H)
    BY <1>1 DEF SyncsOf, RunsOf, Statuses
  <2>3. syncs' \in SyncsOf(H) /\ ~syncs'.working /\ ~syncs'.armed /\ syncs'.pending = {}
    BY <1>1, <1>6, <2>2 DEF Sync!PanicSync, Sync!Abandoned, SyncsOf
  <2> QED BY <2>1, <2>3, SyncRuns DEF SyncFlow
<1> QED BY <1>1, <1>2, <1>3, <1>4, <1>5, <1>6, SyncMoves

-----------------------------------------------------------------------------
(* The freezes *)

FreezeFlow ==
  /\ freezes.working <=> freezer.at # "off"
  /\ freezes.waiting # <<>> => freezes.working
  /\ OneEach(freezes.waiting)
  /\ freezer.at = "committing" => freezes.record.stop = "committing"

FreezeInv ==
  /\ freezes \in FreezesOf(Handed)
  /\ freezer \in FreezersOf(Handed)
  /\ FreezeFlow

\* What a stop does to a book that waits.
Emptied(b) == [Freeze!Withdrawn(b) EXCEPT !.whole = FALSE, !.only = {}]
BookStopped ==
  \E i \in 1 .. Len(freezes.waiting) :
    \/ freezes' = [freezes EXCEPT !.waiting[i] = Emptied(@)]
    \/ freezes.waiting[i].adds = {} /\ freezes' = [freezes EXCEPT !.waiting = RemoveAt(@, i)]

LEMMA DroppedIsBook ==
  ASSUME AddInv, NEW H, NEW x \in Adds, NEW Y \in SUBSET H
  PROVE  Freeze!Dropped(x, Y) \in BooksOf(H) /\ Freeze!Dropped(x, Y).adds = Y
<1>1. setup.folder \in [Adds -> Folders]
  BY SetupAssumption DEF AddInv
<1> QED BY <1>1 DEF Freeze!Dropped, Freeze!NoBook, BooksOf, Places

LEMMA FreezeMoves ==
  ASSUME [Next]_vars, AddInv, FreezeInv, stop.adds \subseteq Adds,
         NEW H \in SUBSET Adds, H = Handed'
  PROVE  \/ UNCHANGED <<freezes, freezer>>
         \/ \E a \in BooksOf(H), j \in BOOLEAN : Freeze!Arm(a, j)
         \/ freezes' \in {Freeze!Asked(freezes), Freeze!AskedWhole(freezes)} /\ UNCHANGED freezer
         \/ BookStopped /\ UNCHANGED freezer
         \/ Freeze!FreezeStep
         \/ Freeze!PanicFreeze
<1>1. CASE UNCHANGED vars
  BY <1>1 DEF vars, frozen
<1>2. CASE Sync!SyncStep /\ UNCHANGED <<frozen, stop, resume>>
  BY <1>2 DEF frozen
<1>3. ASSUME NEW x \in Adds, HandOver(x)
      PROVE  \/ UNCHANGED <<freezes, freezer>>
             \/ \E a \in BooksOf(H) : Freeze!Arm(a, FALSE)
  <2>1. x \in H
    BY <1>3 DEF HandOver, Handed, Up, AddInv
  <2>2. Freeze!Dropped(x, {x}) \in BooksOf(H)
    BY <2>1, DroppedIsBook
  <2> QED BY <1>3, <2>2 DEF HandOver
<1>4. ASSUME NEW x \in Adds, (AddStep(x) /\ Elsewhere) \/ AskForStopped(x)
      PROVE  UNCHANGED <<freezes, freezer>>
  BY <1>4 DEF AskForStopped, Elsewhere, frozen
<1>5. CASE StopStep
  <2>1. CASE StopMarks \/ StopCarries
    BY <2>1 DEF StopMarks, StopCarries, frozen
  <2>2. CASE StopAsks
    BY <2>2 DEF StopAsks
  <2>3. CASE StopBook
    <3> DEFINE at == {i \in Waits(stop.folder) : freezes.waiting[i].adds # {}}
    <3>1. UNCHANGED freezer
            /\ freezes' = IF at # {}
                 THEN [freezes EXCEPT !.waiting[CHOOSE i \in at : TRUE] =
                         [Freeze!Withdrawn(@) EXCEPT !.whole = FALSE, !.only = {}]]
                 ELSE IF Freeze!Freezing(freezes) /\ stop.adds \cap freezes.record.book.adds # {}
                 THEN Freeze!AskedWhole(freezes) ELSE freezes
      BY <2>3 DEF StopBook
    <3>2. CASE at # {}
      <4>1. PICK i \in at :
              freezes' = [freezes EXCEPT !.waiting[i] =
                            [Freeze!Withdrawn(@) EXCEPT !.whole = FALSE, !.only = {}]]
        BY <3>1, <3>2
      <4>2. i \in 1 .. Len(freezes.waiting)
        BY DEF Waits, Freeze!WaitingAt
      <4> QED BY <3>1, <4>1, <4>2 DEF BookStopped, Emptied
    <3>3. CASE at = {}
      BY <3>1, <3>3
    <3> QED BY <3>2, <3>3
  <2>4. CASE StopCancels
    <3> DEFINE at == {i \in Waits(stop.folder) : freezes.waiting[i].adds = {}}
    <3>1. at # {} => (CHOOSE i \in at : TRUE) \in at
      OBVIOUS
    <3>2. at \subseteq 1 .. Len(freezes.waiting)
      BY DEF Waits, Freeze!WaitingAt
    <3> QED BY <2>4, <3>1, <3>2 DEF StopCancels, BookStopped
  <2> QED BY <1>5, <2>1, <2>2, <2>3, <2>4 DEF StopStep
<1>6. ASSUME NEW x \in Adds, Resume(x)
      PROVE  \E a \in BooksOf(H) : Freeze!Arm(a, TRUE)
  <2>1. Freeze!Dropped(x, {}) \in BooksOf(H)
    BY DroppedIsBook
  <2> QED BY <1>6, <2>1 DEF Resume
<1>7. ASSUME NEW x \in Adds,
             \/ (BeginAdd(x) \/ WriteUnkept(x) \/ Land(x) \/ Received(x) \/ Break(x)) /\ Elsewhere
             \/ StopAdd(x)
      PROVE  UNCHANGED <<freezes, freezer>>
  BY <1>7 DEF Elsewhere, StopAdd, BeginStop, frozen
<1>8. CASE RequestSync
  BY <1>8 DEF RequestSync, frozen
<1>9. ASSUME NEW f \in Folders, Freeze!AskPack(f)
      PROVE  \E a \in BooksOf(H) : Freeze!Arm(a, TRUE)
  <2> DEFINE kept == Freeze!Kept(freezes, f)
  <2>1. Freeze!Arm(IF kept = {} THEN Freeze!Whole(f) ELSE Freeze!Joined(kept), TRUE)
    BY <1>9 DEF Freeze!AskPack
  <2>2. kept \subseteq BooksOf(H)
    <3>1. Handed \subseteq H
      BY HandedKept
    <3>2. freezes \in FreezesOf(H)
      BY <3>1, ShapesGrow DEF FreezeInv
    <3> QED BY <3>2, KeptBooks
  <2>3. Freeze!Whole(f) \in BooksOf(H)
    BY BooksMade DEF Places
  <2> HIDE DEF kept
  <2>4. kept # {} => Freeze!Joined(kept) \in BooksOf(H)
    BY <2>2, JoinedIsBook
  <2> QED BY <2>1, <2>3, <2>4
<1>10. ASSUME NEW f \in Folders, StopQueued(f)
       PROVE  UNCHANGED <<freezes, freezer>>
  BY <1>10 DEF StopQueued, BeginStop
<1>11. CASE StopSync \/ StopFreeze
  BY <1>11 DEF StopSync, StopFreeze, BeginStop
<1>12. CASE (FindQuiet \/ Lock \/ Unlock) /\ UNCHANGED <<synced, frozen, stop>>
  BY <1>12 DEF frozen
<1>13. CASE Sync!PanicSync /\ UNCHANGED <<frozen, stop, resume>>
  BY <1>13 DEF frozen
<1> QED BY <1>1, <1>2, <1>3, <1>4, <1>5, <1>6, <1>7, <1>8, <1>9, <1>10, <1>11, <1>12, <1>13
        DEF Next, Serve, Comes

\* A book that waits stays one of its folder's, with its adds.
Changed(p, i, c) == [p EXCEPT !.waiting[i] = c]

LEMMA WaitingChanged ==
  ASSUME NEW X, NEW p \in FreezesOf(X), OneEach(p.waiting),
         NEW i \in 1 .. Len(p.waiting), NEW c \in BooksOf(X), c.folder = p.waiting[i].folder
  PROVE  /\ Changed(p, i, c) \in FreezesOf(X) /\ OneEach(Changed(p, i, c).waiting)
         /\ Changed(p, i, c).waiting # <<>>
         /\ (Changed(p, i, c).working <=> p.working) /\ Changed(p, i, c).record = p.record
         /\ Changed(p, i, c).current = p.current
         /\ Changed(p, i, c).discarded = p.discarded
         /\ Changed(p, i, c).displaced = p.displaced
         /\ p.waiting[i].adds \subseteq c.adds =>
              AddsOf(p.waiting) \subseteq AddsOf(Changed(p, i, c).waiting)
<1> DEFINE q == Changed(p, i, c)
<1> DEFINE w == [p.waiting EXCEPT ![i] = c]
<1>1. p.waiting \in Seq(BooksOf(X)) /\ Len(p.waiting) \in Nat
  BY LenProperties DEF FreezesOf, FreezeRunsOf
<1>2. w \in Seq(BooksOf(X)) /\ OneEach(w)
  BY <1>1, BookLines
<1>3. Len(w) = Len(p.waiting)
        /\ \A k \in 1 .. Len(w) : w[k] = IF k = i THEN c ELSE p.waiting[k]
  BY <1>1, ExceptSeq
<1> HIDE DEF w
<1>4. w # <<>>
  BY <1>1, <1>3, EmptySeq
<1>5. p.waiting[i].adds \subseteq c.adds => AddsOf(p.waiting) \subseteq AddsOf(w)
  BY <1>3 DEF AddsOf
<1>6. q = [p EXCEPT !.waiting = w]
  BY DEF w, Changed
<1> HIDE DEF q
<1>7. /\ q \in FreezesOf(X) /\ q.waiting = w
      /\ (q.working <=> p.working) /\ q.record = p.record /\ q.current = p.current
      /\ q.discarded = p.discarded /\ q.displaced = p.displaced
  BY <1>2, <1>6 DEF FreezesOf, FreezeRunsOf
<1> QED BY <1>2, <1>4, <1>5, <1>7 DEF q

\* An ask changes the run on record, and withdraws a request at most.
LEMMA AskedKeeps ==
  ASSUME NEW X, NEW p \in FreezesOf(X), OneEach(p.waiting),
         NEW q \in {Freeze!Asked(p), Freeze!AskedWhole(p)}
  PROVE  /\ q \in FreezesOf(X) /\ OneEach(q.waiting) /\ (p.waiting = <<>> => q.waiting = <<>>)
         /\ (q.working <=> p.working) /\ q.discarded = p.discarded /\ q.displaced = p.displaced
         /\ p.record.stop = "committing" => q.record.stop = "committing"
         /\ AddsOf(p.waiting) \subseteq AddsOf(q.waiting)
<1>1. p.record \in FreezeRunsOf(X)
        /\ p.waiting \in Seq(BooksOf(X)) /\ p.current \in BooksOf(X)
  BY DEF FreezesOf, FreezeRunsOf
<1> DEFINE a == Freeze!Asked(p)
<1>2. /\ a \in FreezesOf(X) /\ a.waiting = p.waiting /\ a.current = p.current
      /\ (a.working <=> p.working) /\ a.discarded = p.discarded /\ a.displaced = p.displaced
      /\ p.record.stop = "committing" => a.record.stop = "committing"
  <2>1. CASE ~Freeze!Freezing(p)
    BY <2>1 DEF Freeze!Asked
  <2>2. CASE Freeze!Freezing(p)
    <3> DEFINE z == IF p.record.stop = "committing" THEN p.record.stop ELSE "asked"
               r == [p.record EXCEPT !.stop = z]
    <3>1. z \in StopStates
      BY <1>1 DEF StopStates, FreezeRunsOf
    <3>2. r \in FreezeRunsOf(X) /\ r.stop = z
      BY <1>1, <3>1 DEF FreezeRunsOf
    <3>3. a = [p EXCEPT !.record = r]
      BY <2>2 DEF Freeze!Asked, Freeze!Ask
    <3> HIDE DEF r, a
    <3> QED BY <3>2, <3>3 DEF FreezesOf, FreezeRunsOf
  <2> QED BY <2>1, <2>2
<1> HIDE DEF a
<1>3. CASE q = a
  BY <1>2, <1>3
<1>4. CASE q = [a EXCEPT !.current = Freeze!Withdrawn(@)]
  <2>1. Freeze!Withdrawn(a.current) \in BooksOf(X)
    BY <1>1, <1>2, BooksMade
  <2> QED BY <1>2, <1>4, <2>1 DEF FreezesOf, FreezeRunsOf
<1>5. CASE p.waiting # <<>> /\ q = [a EXCEPT !.waiting[1] = Freeze!Withdrawn(@)]
  <2>1. 1 \in 1 .. Len(a.waiting) /\ a.waiting[1] \in BooksOf(X)
    BY <1>1, <1>2, <1>5, EmptySeq, LenProperties, ElementOfSeq
  <2> DEFINE c == Freeze!Withdrawn(a.waiting[1])
  <2>2. c \in BooksOf(X) /\ c.adds = a.waiting[1].adds /\ c.folder = a.waiting[1].folder
    BY <2>1, BooksMade
  <2>3. q = Changed(a, 1, c)
    BY <1>5 DEF Changed
  <2> HIDE DEF c
  <2>4. /\ a \in FreezesOf(X) /\ OneEach(a.waiting) /\ c.folder = a.waiting[1].folder
        /\ a.waiting[1].adds \subseteq c.adds
    BY <1>2, <2>2
  <2>5. /\ q \in FreezesOf(X) /\ OneEach(q.waiting) /\ (q.working <=> a.working)
        /\ q.record = a.record /\ q.discarded = a.discarded /\ q.displaced = a.displaced
        /\ AddsOf(a.waiting) \subseteq AddsOf(q.waiting)
    BY <2>1, <2>2, <2>3, <2>4, WaitingChanged
  <2>6. p.waiting # <<>>
    BY <1>5
  <2> QED BY <1>2, <2>5, <2>6
<1>6. CASE q = p
  BY <1>6
<1>7. q = a \/ q = p \/ q = [a EXCEPT !.current = Freeze!Withdrawn(@)]
        \/ (p.waiting # <<>> /\ q = [a EXCEPT !.waiting[1] = Freeze!Withdrawn(@)])
  BY DEF Freeze!AskedWhole, a
<1> QED BY <1>3, <1>4, <1>5, <1>6, <1>7

LEMMA FreezerRuns ==
  ASSUME NEW X
  PROVE  /\ Freeze!NoFreezer \in FreezersOf(X)
         /\ [Freeze!NoFreezer EXCEPT !.at = "next"] \in FreezersOf(X)
         /\ \A b \in BooksOf(X) :
              [Freeze!NoFreezer EXCEPT !.at = "start", !.book = b] \in FreezersOf(X)
         /\ \A b \in BooksOf(X), z \in Statuses :
              /\ Freeze!FreezeRun(b, z) \in FreezeRunsOf(X)
              /\ [Freeze!FreezeRun(b, z) EXCEPT !.stop = "asked"] \in FreezeRunsOf(X)
<1>1. Freeze!NoBook \in BooksOf(X)
  BY BooksMade
<1>2. /\ Freeze!NoFreezer \in FreezersOf(X)
      /\ [Freeze!NoFreezer EXCEPT !.at = "next"] \in FreezersOf(X)
  BY <1>1 DEF Freeze!NoFreezer, FreezersOf, Stages, Statuses
<1>3. ASSUME NEW b \in BooksOf(X)
      PROVE  [Freeze!NoFreezer EXCEPT !.at = "start", !.book = b] \in FreezersOf(X)
  BY <1>1 DEF Freeze!NoFreezer, FreezersOf, Stages, Statuses
<1>4. ASSUME NEW b \in BooksOf(X), NEW z \in Statuses
      PROVE  /\ Freeze!FreezeRun(b, z) \in FreezeRunsOf(X)
             /\ [Freeze!FreezeRun(b, z) EXCEPT !.stop = "asked"] \in FreezeRunsOf(X)
  BY DEF Freeze!FreezeRun, Freeze!NoFreeze, FreezeRunsOf, StopStates
<1> QED BY <1>2, <1>3, <1>4

\* One step of the worker, with the adds its books may carry.
LEMMA FreezeStepShapes ==
  ASSUME Freeze!FreezeStep, AddInv, NEW X \in SUBSET Adds,
         freezes \in FreezesOf(X), freezer \in FreezersOf(X), FreezeFlow
  PROVE  freezes' \in FreezesOf(X) /\ freezer' \in FreezersOf(X) /\ FreezeFlow'
<1>1. /\ freezes.working \in BOOLEAN /\ freezes.current \in BooksOf(X)
      /\ freezes.waiting \in Seq(BooksOf(X)) /\ OneEach(freezes.waiting)
      /\ freezes.discarded \subseteq BooksOf(X) /\ freezes.displaced \subseteq BooksOf(X)
      /\ freezes.record \in FreezeRunsOf(X)
      /\ freezer.book \in BooksOf(X) /\ freezer.rest \in BooksOf(X)
      /\ freezer.status \in Statuses /\ freezer.undo \subseteq X
  BY DEF FreezesOf, FreezersOf, FreezeFlow
<1>2. ASSUME NEW l \in Stages
      PROVE  /\ [freezer EXCEPT !.at = l] \in FreezersOf(X) /\ [freezer EXCEPT !.at = l].at = l
             /\ \A z \in Statuses : /\ [freezer EXCEPT !.at = l, !.status = z] \in FreezersOf(X)
                                   /\ [freezer EXCEPT !.at = l, !.status = z].at = l
  BY DEF FreezersOf
<1>3. [Freeze!NoFreezer EXCEPT !.at = "next"].at = "next" /\ Freeze!NoFreezer.at = "off"
        /\ [Freeze!NoFreezer EXCEPT !.at = "next"] \in FreezersOf(X)
  BY FreezerRuns DEF Freeze!NoFreezer
<1>0. /\ "ending" \in Stages /\ "cut" \in Stages /\ "walk" \in Stages
      /\ "rearm" \in Stages /\ "publish" \in Stages
      /\ "done" \in Statuses /\ "stopped" \in Statuses /\ "cancelled" \in Statuses
  BY DEF Stages, Statuses
\* A step from one stage of a run to another, which commits nothing.
<1>4. ASSUME freezes' = freezes, freezer' \in FreezersOf(X),
             freezer.at # "off", freezer'.at \notin {"off", "committing"}
      PROVE  freezes' \in FreezesOf(X) /\ FreezeFlow'
  BY <1>4 DEF FreezeFlow
<1>5. CASE Freeze!TakeNextFreeze
  <2>1. CASE freezes.waiting # <<>>
    <3> DEFINE b == Head(freezes.waiting)
               taken == Freeze!FreezeRun(b, "freezing")
               d == Freeze!Displaced(freezes, b.folder)
    <3>1. b \in BooksOf(X) /\ Tail(freezes.waiting) \in Seq(BooksOf(X))
            /\ OneEach(Tail(freezes.waiting))
      BY <1>1, <2>1, BookLines
    <3>2. taken \in FreezeRunsOf(X) /\ [taken EXCEPT !.stop = "asked"] \in FreezeRunsOf(X)
      <4>1. "freezing" \in Statuses
        BY DEF Statuses
      <4> QED BY <3>1, <4>1, FreezerRuns
    <3>3. d \subseteq BooksOf(X)
      BY KeptBooks
    <3>4. \E r \in {taken, [taken EXCEPT !.stop = "asked"]} :
            freezes' = [freezes EXCEPT !.waiting = Tail(@), !.current = b,
                                       !.displaced = d, !.record = r]
      BY <1>5, <2>1 DEF Freeze!TakeNextFreeze
    <3>5. freezer' = [Freeze!NoFreezer EXCEPT !.at = "start", !.book = b]
      BY <1>5, <2>1 DEF Freeze!TakeNextFreeze
    <3> HIDE DEF b, taken, d
    <3>6. freezes' \in FreezesOf(X) /\ freezes'.waiting = Tail(freezes.waiting)
            /\ (freezes'.working <=> freezes.working)
      <4>1. PICK r \in FreezeRunsOf(X) :
              freezes' = [freezes EXCEPT !.waiting = Tail(@), !.current = b,
                                         !.displaced = d, !.record = r]
        BY <3>2, <3>4
      <4>2. /\ freezes'.waiting = Tail(freezes.waiting) /\ freezes'.working = freezes.working
            /\ freezes'.current = b /\ freezes'.displaced = d /\ freezes'.record = r
            /\ freezes'.discarded = freezes.discarded
        BY <4>1 DEF FreezesOf
      <4> QED BY <3>1, <3>3, <4>1, <4>2 DEF FreezesOf
    <3>7. freezer' \in FreezersOf(X) /\ freezer'.at = "start"
      BY <3>1, <3>5, FreezerRuns DEF Freeze!NoFreezer
    <3> QED BY <2>1, <3>1, <3>6, <3>7 DEF FreezeFlow
  <2>2. CASE freezes.waiting = <<>>
    <3>1. freezes' = [freezes EXCEPT !.current = Freeze!NoBook, !.working = FALSE]
            /\ freezer' = Freeze!NoFreezer
      BY <1>5, <2>2 DEF Freeze!TakeNextFreeze
    <3>2. Freeze!NoBook \in BooksOf(X)
      BY BooksMade
    <3>3. freezes' \in FreezesOf(X) /\ freezes'.waiting = <<>> /\ ~freezes'.working
      BY <2>2, <3>1, <3>2 DEF FreezesOf
    <3>4. OneEach(freezes'.waiting)
      BY <1>1, <2>2, <3>3
    <3> QED BY <1>3, <3>1, <3>3, <3>4, FreezerRuns DEF FreezeFlow
  <2> QED BY <2>1, <2>2
<1>6. CASE Freeze!StartFreeze
  <2>1. freezer.at = "start" /\ freezer' = [freezer EXCEPT !.at = "turn"]
          /\ freezes' \in {freezes, Freeze!Asked(freezes)}
    BY <1>6 DEF Freeze!StartFreeze, Freeze!At, Freeze!Go
  <2>2. freezes' \in FreezesOf(X) /\ OneEach(freezes'.waiting)
          /\ (freezes.waiting = <<>> => freezes'.waiting = <<>>)
          /\ (freezes'.working <=> freezes.working)
    BY <1>1, <2>1, AskedKeeps
  <2> QED BY <1>2, <2>1, <2>2 DEF FreezeFlow, Stages
<1>7. CASE Freeze!KeysOfFreeze
  <2>1. freezer.at = "turn" /\ freezes' = freezes
    BY <1>7 DEF Freeze!KeysOfFreeze, Freeze!At
  <2>2. \/ freezer' = [freezer EXCEPT !.at = "ending", !.status = "stopped"]
        \/ \E l \in {"cut", "walk"} : freezer' = [freezer EXCEPT !.at = l]
    BY <1>7 DEF Freeze!KeysOfFreeze, Freeze!EndsAs, Freeze!Go
  <2>3. freezer' \in FreezersOf(X) /\ freezer'.at \in {"ending", "cut", "walk"}
    <3>1. CASE freezer' = [freezer EXCEPT !.at = "ending", !.status = "stopped"]
      BY <1>0, <3>1 DEF FreezersOf
    <3>2. CASE \E l \in {"cut", "walk"} : freezer' = [freezer EXCEPT !.at = l]
      BY <1>0, <3>2 DEF FreezersOf
    <3> QED BY <2>2, <3>1, <3>2
  <2> QED BY <1>4, <2>1, <2>3
<1>8. CASE Freeze!WalkFreeze
  <2>1. freezer' \in FreezersOf(X) /\ freezer'.at = "walked" /\ freezer.at = "walk"
          /\ freezes' = freezes
    BY <1>8 DEF Freeze!WalkFreeze, Freeze!At, FreezersOf, Stages
  <2> QED BY <1>4, <2>1
<1>9. CASE Freeze!BeginCommitOfFreeze
  <2>1. freezer.at = "walked"
    BY <1>9 DEF Freeze!BeginCommitOfFreeze, Freeze!At
  <2>2. CASE Freeze!EndsAs("done") /\ UNCHANGED freezes
    <3>1. freezer' \in FreezersOf(X) /\ freezer'.at = "ending"
      BY <1>2, <2>2 DEF Freeze!EndsAs, Stages, Statuses
    <3> QED BY <1>4, <2>1, <2>2, <3>1
  <2>3. CASE freezes' = [freezes EXCEPT !.record.stop = Freeze!Hear(@)] /\ Freeze!Go("committing")
    <3> DEFINE r == [freezes.record EXCEPT !.stop = "committing"]
    <3>1. r \in FreezeRunsOf(X) /\ r.stop = "committing"
      BY <1>1 DEF FreezeRunsOf, StopStates
    <3>2. freezes' = [freezes EXCEPT !.record = r]
      BY <2>3 DEF Freeze!Hear
    <3> HIDE DEF r
    <3>3. freezes' \in FreezesOf(X) /\ freezes'.waiting = freezes.waiting
            /\ (freezes'.working <=> freezes.working) /\ freezes'.record.stop = "committing"
      BY <3>1, <3>2 DEF FreezesOf
    <3>4. freezer' \in FreezersOf(X) /\ freezer'.at = "committing"
      BY <1>2, <2>3 DEF Freeze!Go, Stages
    <3> QED BY <2>1, <3>3, <3>4 DEF FreezeFlow
  <2> QED BY <1>9, <2>2, <2>3 DEF Freeze!BeginCommitOfFreeze
<1>10. CASE Freeze!CommitFreeze \/ Freeze!FailFreeze
  <2>1. freezes' = freezes /\ freezer.at # "off"
          /\ \E z \in {"done", "stopped"} : freezer' = [freezer EXCEPT !.at = "ending", !.status = z]
    BY <1>10 DEF Freeze!CommitFreeze, Freeze!FailFreeze, Freeze!At, Freeze!EndsAs
  <2>2. PICK z \in {"done", "stopped"} : freezer' = [freezer EXCEPT !.at = "ending", !.status = z]
    BY <2>1
  <2>3. freezer' \in FreezersOf(X) /\ freezer'.at = "ending"
    BY <1>0, <2>2 DEF FreezersOf
  <2> QED BY <1>4, <2>1, <2>3
<1>11. CASE Freeze!CutFreeze
  <2>1. freezer' \in FreezersOf(X) /\ freezer'.at = "cut" /\ freezer.at # "off"
          /\ freezes' = freezes
    BY <1>11 DEF Freeze!CutFreeze, FreezersOf, Stages
  <2> QED BY <1>4, <2>1
<1>12. CASE Freeze!EndFreeze
  <2>1. freezer' \in FreezersOf(X) /\ freezer'.at = "publish" /\ freezer.at = "ending"
          /\ freezes' = freezes
    BY <1>2, <1>12 DEF Freeze!EndFreeze, Freeze!At, Freeze!Go, Stages
  <2> QED BY <1>4, <2>1
<1>13. CASE Freeze!PublishFreeze
  <2> DEFINE r == Freeze!FreezeRun(freezer.book, freezer.status)
  <2>1. r \in FreezeRunsOf(X)
    BY <1>1, FreezerRuns
  <2>2. freezes' = [freezes EXCEPT !.record = r] /\ freezer.at = "publish"
    BY <1>13 DEF Freeze!PublishFreeze, Freeze!At
  <2> HIDE DEF r
  <2>3. freezes' \in FreezesOf(X) /\ freezes'.waiting = freezes.waiting
          /\ (freezes'.working <=> freezes.working)
    BY <2>1, <2>2 DEF FreezesOf
  <2>4. \/ freezer' = [freezer EXCEPT !.at = "rearm"]
        \/ freezer' = [Freeze!NoFreezer EXCEPT !.at = "next"]
    BY <1>13 DEF Freeze!PublishFreeze, Freeze!Go
  <2>5. freezer' \in FreezersOf(X) /\ freezer'.at \in {"rearm", "next"}
    <3>1. CASE freezer' = [freezer EXCEPT !.at = "rearm"]
      BY <1>0, <3>1 DEF FreezersOf
    <3> QED BY <1>3, <2>4, <3>1
  <2> QED BY <2>2, <2>3, <2>5 DEF FreezeFlow
<1>14. CASE Freeze!StoppedOfFreeze
  <2> DEFINE rest == [freezer.book EXCEPT !.adds = @ \ (freezer.book.adds \cap stopping)]
  <2>1. rest \in BooksOf(X) /\ freezer.book.adds \subseteq X
    BY <1>1 DEF BooksOf
  <2>2. freezer' = [freezer EXCEPT !.at = "undo", !.undo = freezer.book.adds \cap stopping,
                                   !.rest = rest]
          /\ freezer.at = "cut" /\ freezes' = freezes
    BY <1>14 DEF Freeze!StoppedOfFreeze, Freeze!At, Freeze!StoppingOf
  <2> HIDE DEF rest
  <2>3. freezer' \in FreezersOf(X) /\ freezer'.at = "undo"
    BY <2>1, <2>2 DEF FreezersOf, Stages
  <2> QED BY <1>4, <2>2, <2>3
<1>15. CASE Freeze!UndoOfFreeze
  <2>1. freezer.at = "undo" /\ freezes' = freezes
    BY <1>15 DEF Freeze!UndoOfFreeze, Freeze!At
  <2>2. ASSUME NEW x \in freezer.undo,
               freezer' = [freezer EXCEPT !.undo = @ \ {x}, !.rest.only = @ \ {x}]
        PROVE  freezer' \in FreezersOf(X) /\ freezer'.at = "undo"
    <3> DEFINE rest == [freezer.rest EXCEPT !.only = @ \ {x}]
    <3>1. rest \in BooksOf(X)
      BY <1>1 DEF BooksOf
    <3>2. freezer' = [freezer EXCEPT !.undo = @ \ {x}, !.rest = rest]
      BY <2>2
    <3> HIDE DEF rest
    <3> QED BY <2>1, <3>1, <3>2 DEF FreezersOf
  <2>3. CASE freezer' = [freezer EXCEPT !.at = "publish", !.status = "cancelled",
                           !.rest.requested = freezes.current.requested,
                           !.rest.withdrawn = FALSE]
    <3> DEFINE rest == [freezer.rest EXCEPT !.requested = freezes.current.requested,
                                            !.withdrawn = FALSE]
    <3>1. rest \in BooksOf(X)
      BY <1>1 DEF BooksOf
    <3>2. freezer' = [freezer EXCEPT !.at = "publish", !.status = "cancelled", !.rest = rest]
      BY <2>3 DEF FreezersOf
    <3> HIDE DEF rest
    <3>3. "publish" \in Stages /\ "cancelled" \in Statuses
      BY DEF Stages, Statuses
    <3>4. freezer' \in FreezersOf(X) /\ freezer'.at = "publish"
      BY <3>1, <3>2, <3>3 DEF FreezersOf
    <3> QED BY <1>4, <2>1, <3>4
  <2>4. \/ \E x \in freezer.undo : freezer' = [freezer EXCEPT !.undo = @ \ {x}, !.rest.only = @ \ {x}]
        \/ freezer' = [freezer EXCEPT !.at = "publish", !.status = "cancelled",
                         !.rest.requested = freezes.current.requested,
                         !.rest.withdrawn = FALSE]
    BY <1>15 DEF Freeze!UndoOfFreeze
  <2> QED BY <1>4, <2>1, <2>2, <2>3, <2>4
<1>16. CASE Freeze!RearmFreeze
  <2> DEFINE b == freezer.rest
             f == b.folder
             K == {b} \cup Freeze!Kept(freezes, f)
             kept == Freeze!Joined(K)
             q == [freezes EXCEPT !.discarded = {c \in @ : c.folder # f},
                                  !.displaced = {c \in @ : c.folder # f}]
             W == Freeze!WaitingAt(q, f)
             At(i) == [q EXCEPT !.waiting[i] = Freeze!Joined({@, kept})]
  <2>1. freezer.at = "rearm" /\ freezer' = [Freeze!NoFreezer EXCEPT !.at = "next"]
    BY <1>16 DEF Freeze!RearmFreeze, Freeze!At
  <2>2. kept \in BooksOf(X) /\ kept.folder = f
    <3>1. K \subseteq BooksOf(X) /\ (\A c \in K : c.folder = f) /\ K # {}
      BY <1>1, KeptBooks
    <3> HIDE DEF K
    <3> QED BY <3>1, JoinedIsBook
  <2>3. q \in FreezesOf(X) /\ q.waiting = freezes.waiting /\ (q.working <=> freezes.working)
    BY DEF FreezesOf
  <2>4. \/ freezes' = freezes
        \/ \E i \in W : freezes' = At(i)
        \/ W = {} /\ freezes' = [q EXCEPT !.waiting = Append(@, kept)]
    <3>1. W # {} => (CHOOSE i \in W : TRUE) \in W
      OBVIOUS
    <3> QED BY <1>16, <3>1 DEF Freeze!RearmFreeze
  <2> HIDE DEF kept, q, K
  <2>5. ASSUME NEW i \in W, freezes' = At(i)
        PROVE  /\ freezes' \in FreezesOf(X) /\ OneEach(freezes'.waiting)
               /\ (freezes'.working <=> freezes.working)
    <3>1. i \in 1 .. Len(q.waiting) /\ q.waiting[i].folder = f /\ q.waiting[i] \in BooksOf(X)
      BY <1>1, <2>3, ElementOfSeq DEF Freeze!WaitingAt
    <3> DEFINE B == {q.waiting[i], kept}
               c == Freeze!Joined(B)
    <3>2. B \subseteq BooksOf(X) /\ B # {} /\ \A d \in B : d.folder = f
      BY <2>2, <3>1
    <3>3. freezes' = Changed(q, i, c)
      BY <2>5 DEF Changed
    <3> HIDE DEF B
    <3>4. c \in BooksOf(X) /\ c.folder = f
      BY <3>2, JoinedIsBook
    <3> HIDE DEF c
    <3>5. OneEach(q.waiting) /\ c.folder = q.waiting[i].folder
      BY <1>1, <2>3, <3>1, <3>4
    <3>6. /\ freezes' \in FreezesOf(X) /\ OneEach(freezes'.waiting)
          /\ (freezes'.working <=> q.working)
      BY <2>3, <3>1, <3>3, <3>4, <3>5, WaitingChanged
    <3> QED BY <2>3, <2>5, <3>3, <3>6
  <2>6. ASSUME W = {} /\ freezes' = [q EXCEPT !.waiting = Append(@, kept)]
        PROVE  /\ freezes' \in FreezesOf(X) /\ OneEach(freezes'.waiting)
               /\ (freezes'.working <=> freezes.working)
    <3>1. \A i \in 1 .. Len(freezes.waiting) : freezes.waiting[i].folder # kept.folder
      BY <2>2, <2>3, <2>6 DEF Freeze!WaitingAt
    <3>2. Append(freezes.waiting, kept) \in Seq(BooksOf(X)) /\ OneEach(Append(freezes.waiting, kept))
      BY <1>1, <2>2, <3>1, BookLines
    <3> DEFINE w == Append(freezes.waiting, kept)
    <3>3. freezes' = [q EXCEPT !.waiting = w] /\ w \in Seq(BooksOf(X))
      BY <2>3, <2>6, <3>2
    <3> HIDE DEF w
    <3>4. freezes' \in FreezesOf(X) /\ freezes'.waiting = w
            /\ (freezes'.working <=> freezes.working)
      BY <2>3, <3>3 DEF FreezesOf
    <3> QED BY <3>2, <3>4 DEF w
  <2>8. /\ freezes' \in FreezesOf(X) /\ OneEach(freezes'.waiting)
        /\ (freezes'.working <=> freezes.working)
    <3>1. CASE freezes' = freezes
      BY <1>1, <3>1
    <3>2. CASE \E i \in W : freezes' = At(i)
      <4>1. PICK i \in W : freezes' = At(i)
        BY <3>2
      <4> QED BY <2>5, <4>1
    <3> QED BY <2>4, <2>6, <3>1, <3>2
  <2> QED BY <1>3, <2>1, <2>8 DEF FreezeFlow
<1> QED BY <1>5, <1>6, <1>7, <1>8, <1>9, <1>10, <1>11, <1>12, <1>13, <1>14, <1>15, <1>16
        DEF Freeze!FreezeStep

\* A panic leaves no book waiting.
LEMMA FreezePanics ==
  ASSUME Freeze!PanicFreeze, NEW X, freezes \in FreezesOf(X), freezer \in FreezersOf(X)
  PROVE  freezes' \in FreezesOf(X) /\ freezer' \in FreezersOf(X) /\ FreezeFlow'
<1> DEFINE waited == {freezes.waiting[i] : i \in 1 .. Len(freezes.waiting)}
           all == freezes.discarded \cup waited
           thrown == {Freeze!Joined({b \in all : b.folder = c.folder}) : c \in all}
           r == [freezes.record EXCEPT !.status = IF @ = "freezing" THEN "stopped" ELSE @]
<1>1. freezes.waiting \in Seq(BooksOf(X)) /\ freezes.record \in FreezeRunsOf(X)
        /\ freezes.discarded \subseteq BooksOf(X)
  BY DEF FreezesOf
<1>2. all \subseteq BooksOf(X)
  BY <1>1, ElementOfSeq
<1>3. r \in FreezeRunsOf(X)
  BY <1>1 DEF FreezeRunsOf, Statuses
<1>4. /\ freezes' = [freezes EXCEPT !.working = FALSE, !.current = Freeze!NoBook, !.waiting = <<>>,
                        !.discarded = thrown, !.record = r]
      /\ freezer' = Freeze!NoFreezer
  BY DEF Freeze!PanicFreeze
<1> HIDE DEF all, r
<1>5. thrown \subseteq BooksOf(X)
  <2> SUFFICES ASSUME NEW c \in all
               PROVE  Freeze!Joined({b \in all : b.folder = c.folder}) \in BooksOf(X)
    OBVIOUS
  <2> DEFINE B == {b \in all : b.folder = c.folder}
  <2>1. B \subseteq BooksOf(X) /\ B # {}
    BY <1>2
  <2> HIDE DEF B
  <2>2. Freeze!Joined(B) \in BooksOf(X)
    BY <2>1, JoinedIsBook
  <2> QED BY <2>2 DEF B
<1> HIDE DEF thrown
<1>6. Freeze!NoBook \in BooksOf(X) /\ <<>> \in Seq(BooksOf(X))
  BY BooksMade, EmptySeq
<1>7. freezes' \in FreezesOf(X) /\ ~freezes'.working /\ freezes'.waiting = <<>>
  BY <1>3, <1>4, <1>5, <1>6 DEF FreezesOf
<1>8. freezer' \in FreezersOf(X) /\ freezer'.at = "off"
  BY <1>4, FreezerRuns DEF Freeze!NoFreezer
<1>9. OneEach(freezes'.waiting)
  BY <1>7 DEF OneEach
<1> QED BY <1>7, <1>8, <1>9 DEF FreezeFlow

LEMMA FreezeInvKept ==
  ASSUME AddInv, FreezeInv, [Next]_vars, stop.adds \subseteq Adds
  PROVE  FreezeInv'
<1> PICK H \in SUBSET Adds : H = Handed'
  BY DEF Handed
<1> SUFFICES freezes' \in FreezesOf(H) /\ freezer' \in FreezersOf(H) /\ FreezeFlow'
  BY DEF FreezeInv
<1>1. freezes \in FreezesOf(H) /\ freezer \in FreezersOf(H) /\ FreezeFlow
  BY HandedKept, ShapesGrow DEF FreezeInv
<1>2. CASE UNCHANGED <<freezes, freezer>>
  BY <1>1, <1>2 DEF FreezeFlow
<1>3. ASSUME NEW a \in BooksOf(H), NEW j \in BOOLEAN, Freeze!Arm(a, j)
      PROVE  freezes' \in FreezesOf(H) /\ freezer' \in FreezersOf(H) /\ FreezeFlow'
  <2>1. OneEach(freezes.waiting)
    BY <1>1 DEF FreezeFlow
  <2>2. /\ freezes' \in FreezesOf(H) /\ OneEach(freezes'.waiting)
        /\ freezes.working =>
              /\ freezer' = freezer /\ freezes'.working
              /\ freezes'.record.stop = freezes.record.stop
        /\ ~freezes.working /\ freezes.waiting = <<>> =>
              \/ freezer' = freezer /\ ~freezes'.working /\ freezes'.waiting = <<>>
              \/ freezer' = [Freeze!NoFreezer EXCEPT !.at = "next"] /\ freezes'.working
    BY <1>1, <1>3, <2>1, ArmKeeps
  <2>3. CASE freezes.working
    BY <1>1, <2>2, <2>3 DEF FreezeFlow
  <2>4. CASE ~freezes.working
    <3>1. freezes.waiting = <<>> /\ freezer.at = "off"
      BY <1>1, <2>4 DEF FreezeFlow
    <3>2. CASE freezer' = freezer /\ ~freezes'.working /\ freezes'.waiting = <<>>
      BY <1>1, <2>2, <3>1, <3>2 DEF FreezeFlow
    <3>3. CASE freezer' = [Freeze!NoFreezer EXCEPT !.at = "next"] /\ freezes'.working
      <4>1. freezer' \in FreezersOf(H) /\ freezer'.at = "next"
        BY <3>3, FreezerRuns DEF Freeze!NoFreezer
      <4> QED BY <2>2, <3>3, <4>1 DEF FreezeFlow
    <3> QED BY <2>2, <2>4, <3>1, <3>2, <3>3
  <2> QED BY <2>3, <2>4
<1>4. CASE freezes' \in {Freeze!Asked(freezes), Freeze!AskedWhole(freezes)} /\ UNCHANGED freezer
  <2>1. /\ freezes' \in FreezesOf(H) /\ OneEach(freezes'.waiting)
        /\ (freezes.waiting = <<>> => freezes'.waiting = <<>>)
        /\ (freezes'.working <=> freezes.working)
        /\ freezes.record.stop = "committing" => freezes'.record.stop = "committing"
    BY <1>1, <1>4, AskedKeeps DEF FreezeFlow
  <2> QED BY <1>1, <1>4, <2>1 DEF FreezeFlow
<1>5. CASE BookStopped /\ UNCHANGED freezer
  <2>1. PICK i \in 1 .. Len(freezes.waiting) :
          \/ freezes' = [freezes EXCEPT !.waiting[i] = Emptied(@)]
          \/ freezes.waiting[i].adds = {} /\ freezes' = [freezes EXCEPT !.waiting = RemoveAt(@, i)]
    BY <1>5 DEF BookStopped
  <2>2. freezes.waiting \in Seq(BooksOf(H)) /\ OneEach(freezes.waiting)
          /\ freezes.waiting[i] \in BooksOf(H) /\ freezes.waiting # <<>>
    <3>1. freezes.waiting \in Seq(BooksOf(H)) /\ OneEach(freezes.waiting)
      BY <1>1 DEF FreezesOf, FreezeFlow
    <3> QED BY <3>1, ElementOfSeq, EmptySeq
  <2>3. ASSUME freezes' = [freezes EXCEPT !.waiting[i] = Emptied(@)]
        PROVE  /\ freezes' \in FreezesOf(H) /\ OneEach(freezes'.waiting)
               /\ (freezes'.working <=> freezes.working) /\ freezes'.record = freezes.record
    <3> DEFINE c == Emptied(freezes.waiting[i])
    <3>1. c \in BooksOf(H) /\ c.folder = freezes.waiting[i].folder
      <4>1. Freeze!Withdrawn(freezes.waiting[i]) \in BooksOf(H)
              /\ Freeze!Withdrawn(freezes.waiting[i]).folder = freezes.waiting[i].folder
        BY <2>2, BooksMade
      <4> QED BY <4>1 DEF Emptied, BooksOf
    <3>2. freezes' = Changed(freezes, i, c)
      BY <2>3 DEF Changed
    <3> HIDE DEF c
    <3>3. freezes \in FreezesOf(H) /\ OneEach(freezes.waiting)
      BY <1>1, <2>2
    <3> QED BY <2>2, <3>1, <3>2, <3>3, WaitingChanged
  <2>4. ASSUME freezes' = [freezes EXCEPT !.waiting = RemoveAt(@, i)]
        PROVE  /\ freezes' \in FreezesOf(H) /\ OneEach(freezes'.waiting)
               /\ (freezes'.working <=> freezes.working) /\ freezes'.record = freezes.record
    <3> DEFINE w == RemoveAt(freezes.waiting, i)
    <3>1. w \in Seq(BooksOf(H)) /\ OneEach(w)
      BY <2>2, BookLines
    <3>2. freezes' = [freezes EXCEPT !.waiting = w]
      BY <2>4
    <3> HIDE DEF w
    <3>3. freezes' \in FreezesOf(H) /\ freezes'.waiting = w
            /\ (freezes'.working <=> freezes.working) /\ freezes'.record = freezes.record
      BY <1>1, <3>1, <3>2 DEF FreezesOf
    <3> QED BY <3>1, <3>3
  <2>5. /\ freezes' \in FreezesOf(H) /\ OneEach(freezes'.waiting)
        /\ (freezes'.working <=> freezes.working) /\ freezes'.record = freezes.record
    BY <2>1, <2>3, <2>4
  <2> QED BY <1>1, <1>5, <2>2, <2>5 DEF FreezeFlow
<1>6. CASE Freeze!FreezeStep
  BY <1>1, <1>6, FreezeStepShapes
<1>7. CASE Freeze!PanicFreeze
  BY <1>1, <1>7, FreezePanics
<1> QED BY <1>2, <1>3, <1>4, <1>5, <1>6, <1>7, FreezeMoves

-----------------------------------------------------------------------------
(* The stop being answered *)

StopSteps == {"none", "mark", "carries", "ask sync", "ask freeze", "ask whole", "stop queued",
              "cancel"}
Stops == [step : StopSteps, then : StopSteps, adds : SUBSET Adds, folder : Places]
StopInv == stop \in Stops

LEMMA StopsMade ==
  /\ NoStop \in Stops
  /\ \A X \in SUBSET Adds, t \in StopSteps, f \in Places :
       [step |-> "mark", then |-> t, adds |-> X, folder |-> f] \in Stops
  /\ \A X \in SUBSET Adds, t \in StopSteps : [NoStop EXCEPT !.adds = X, !.step = t] \in Stops
  /\ \A f \in Places : [NoStop EXCEPT !.step = "cancel", !.folder = f] \in Stops
  /\ \A s \in Stops, t \in StopSteps : [s EXCEPT !.step = t] \in Stops
BY DEF Stops, NoStop, StopSteps, Places

\* A stop of a run, or of a book that waits, names adds past their requests.
LEMMA StopInvKept ==
  ASSUME AddInv, SyncInv, FreezeInv, StopInv, [Next]_vars
  PROVE  StopInv'
<1> SUFFICES stop' \in Stops
  BY DEF StopInv
<1>1. Handed \subseteq Adds
  BY DEF Handed
<1>2. syncs.record.adds \subseteq Adds
  BY <1>1 DEF SyncInv, SyncsOf, RunsOf
<1>3. freezes.record.book.adds \subseteq Adds /\ freezes.record.book.folder \in Places
  BY <1>1 DEF FreezeInv, FreezesOf, FreezeRunsOf, BooksOf
<1>4. ASSUME NEW i \in 1 .. Len(freezes.waiting) PROVE freezes.waiting[i].adds \subseteq Adds
  <2>1. freezes.waiting \in Seq(BooksOf(Handed))
    BY DEF FreezeInv, FreezesOf
  <2>2. freezes.waiting[i] \in BooksOf(Handed)
    BY <2>1, ElementOfSeq
  <2> QED BY <1>1, <2>2 DEF BooksOf
<1>5. StopSteps = {"none", "mark", "carries", "ask sync", "ask freeze", "ask whole",
                   "stop queued", "cancel"}
        /\ Folders \subseteq Places /\ NoFolder \in Places
  BY DEF StopSteps, Places
<1>6. ASSUME NEW x \in Adds, StopAdd(x) PROVE stop' \in Stops
  <2>1. CASE Refused({x})
    BY <1>6, <2>1 DEF StopAdd, StopInv
  <2>2. CASE ~Refused({x})
    <3> DEFINE t == IF ~Packed(x) THEN "ask sync"
                    ELSE IF reg[x] = "armed" THEN "carries" ELSE "none"
    <3>1. stop' = [NoStop EXCEPT !.adds = {x}, !.step = t]
      BY <1>6, <2>2 DEF StopAdd
    <3>2. t \in StopSteps
      BY <1>5
    <3> HIDE DEF t
    <3> QED BY <3>1, <3>2, StopsMade
  <2> QED BY <2>1, <2>2
<1>7. CASE StopSync
  BY <1>2, <1>5, <1>7, StopsMade DEF StopSync, Stopping
<1>8. CASE StopFreeze
  BY <1>3, <1>5, <1>8, StopsMade DEF StopFreeze, Stopping
<1>9. ASSUME NEW f \in Folders, StopQueued(f) PROVE stop' \in Stops
  <2> DEFINE i == CHOOSE j \in Waits(f) : TRUE
  <2>1. i \in 1 .. Len(freezes.waiting)
    BY <1>9 DEF StopQueued, Waits, Freeze!WaitingAt
  <2>2. \/ stop' = [NoStop EXCEPT !.step = "cancel", !.folder = f]
        \/ Stopping("stop queued", freezes.waiting[i].adds, f)
    BY <1>9 DEF StopQueued
  <2> HIDE DEF i
  <2>3. freezes.waiting[i].adds \subseteq Adds
    BY <1>4, <2>1
  <2>4. CASE Stopping("stop queued", freezes.waiting[i].adds, f)
    <3>1. stop' = [step |-> "mark", then |-> "stop queued", adds |-> freezes.waiting[i].adds,
                   folder |-> f]
      BY <2>4 DEF Stopping
    <3>2. "stop queued" \in StopSteps /\ f \in Places
      BY <1>5
    <3> QED BY <2>3, <3>1, <3>2, StopsMade
  <2>5. CASE stop' = [NoStop EXCEPT !.step = "cancel", !.folder = f]
    BY <1>5, <2>5, StopsMade
  <2> QED BY <2>2, <2>4, <2>5
<1>10. CASE StopStep
  <2>1. \/ stop' = NoStop \/ stop' = stop
        \/ \E t \in {stop.then, "ask freeze"} : stop' = [stop EXCEPT !.step = t]
    BY <1>10 DEF StopStep, StopMarks, StopCarries, StopAsks, StopBook, StopCancels
  <2>2. stop.then \in StopSteps
    BY DEF StopInv, Stops
  <2> QED BY <1>5, <2>1, <2>2, StopsMade DEF StopInv
<1>11. \/ UNCHANGED stop \/ StopSync \/ StopFreeze \/ StopStep
       \/ \E x \in Adds : StopAdd(x)
       \/ \E f \in Folders : StopQueued(f)
  BY DEF Next, Serve, Comes, vars, HandOver, AskForStopped, Elsewhere, RequestSync, frozen, synced
<1> QED BY <1>6, <1>7, <1>8, <1>9, <1>10, <1>11 DEF StopInv

-----------------------------------------------------------------------------
(* What the flows hold *)

ServerInv == AddInv /\ SyncInv /\ FreezeInv /\ StopInv

LEMMA InitServerInv == ASSUME Init PROVE ServerInv
<1>1. AddInv
  BY DEF Init, AddInv, Steps
<1>2. SyncInv
  BY SyncRuns DEF Init, SyncInv, SyncFlow, SyncsOf, RunsOf, Sync!NoSync, Sync!NoSyncer,
                  StopStates, Statuses
<1>3. FreezeInv
  <2>1. Freeze!NoBook \in BooksOf(Handed) /\ <<>> \in Seq(BooksOf(Handed))
    BY BooksMade, EmptySeq
  <2>2. Freeze!NoFreeze \in FreezeRunsOf(Handed)
    BY <2>1 DEF Freeze!NoFreeze, FreezeRunsOf, StopStates, Statuses
  <2>3. freezes \in FreezesOf(Handed)
    BY <2>1, <2>2 DEF Init, FreezesOf
  <2>4. freezer \in FreezersOf(Handed) /\ freezer.at = "off"
    BY FreezerRuns DEF Init, Freeze!NoFreezer
  <2>5. OneEach(freezes.waiting) /\ ~freezes.working /\ freezes.waiting = <<>>
    BY DEF Init, OneEach
  <2> QED BY <2>3, <2>4, <2>5 DEF FreezeInv, FreezeFlow
<1>4. StopInv
  BY StopsMade DEF Init, StopInv
<1> QED BY <1>1, <1>2, <1>3, <1>4 DEF ServerInv

LEMMA NextServerInv == ASSUME ServerInv, [Next]_vars PROVE ServerInv'
<1>1. stop.adds \subseteq Adds
  BY DEF ServerInv, StopInv, Stops
<1>2. syncer.read \subseteq Adds /\ freezer.read \subseteq Adds
  BY DEF ServerInv, SyncInv, SyncersOf, FreezeInv, FreezersOf
<1> QED BY <1>1, <1>2, AddInvKept, SyncInvKept, FreezeInvKept, StopInvKept DEF ServerInv

LEMMA ServerInvHolds == Spec => []ServerInv
BY InitServerInv, NextServerInv, PTL DEF Spec

\* Every add, flow and book keeps its shape: a mark is always an add's that is
\* still listed, a worker is there while its flow works, and one book of a
\* folder waits at most.
THEOREM TypesHold == Spec => []ServerTypeOK
<1>1. ServerInv => ServerTypeOK
  BY DEF ServerInv, AddInv, SyncInv, SyncFlow, FreezeInv, FreezeFlow, OneEach, ServerTypeOK
<1> QED BY <1>1, ServerInvHolds, PTL

\* However arming, absorbing, undoing and panics interleave, nothing is left
\* armed, and no book left waiting, without a worker to take it up (sync and
\* freeze progress.rs).
THEOREM ArmedHasWorker == Spec => []ArmedTakenUp
<1>1. ServerInv => ArmedTakenUp
  BY DEF ServerInv, SyncInv, SyncFlow, FreezeInv, FreezeFlow, ArmedTakenUp
<1> QED BY <1>1, ServerInvHolds, PTL

LEMMA CommittingStays ==
  ASSUME ServerInv, [Next]_vars
  PROVE  /\ syncer.at = "committing" => syncer'.at # "cut"
         /\ freezer.at = "committing" => freezer'.at # "cut"
<1>1. ASSUME syncer.at = "committing" PROVE syncer'.at # "cut"
  <2>1. syncs.working /\ syncs.record.stop = "committing"
    BY <1>1 DEF ServerInv, SyncInv, SyncFlow
  <2>2. syncer \in SyncersOf(Handed)
    BY DEF ServerInv, SyncInv
  <2>3. CASE Sync!SyncStep
    BY <1>1, <2>1, <2>2, <2>3
    DEF SyncersOf, Sync!SyncStep, Sync!At, Sync!Go, Sync!EndsAs, Sync!TakeNextSync, Sync!StartSync,
        Sync!TurnOfSync, Sync!KeysOfSync, Sync!WalkSync, Sync!BeginCommitOfSync, Sync!CommitSync,
        Sync!FailSync, Sync!CutSync, Sync!EndSync, Sync!PublishSync, Sync!StoppedOfSync,
        Sync!UndoOfSync, Sync!RearmSync
  <2>4. CASE Sync!PanicSync
    BY <2>4 DEF Sync!PanicSync, Sync!NoSyncer
  <2>5. ASSUME NEW X, NEW b, Sync!ArmSync(X, b) PROVE syncer' = syncer
    BY <2>1, <2>5 DEF Sync!ArmSync
  <2> QED BY <1>1, <2>3, <2>4, <2>5, SyncMoves DEF ServerInv, synced
<1>2. ASSUME freezer.at = "committing" PROVE freezer'.at # "cut"
  <2>1. freezes.working /\ freezes.record.stop = "committing"
    BY <1>2 DEF ServerInv, FreezeInv, FreezeFlow
  <2>2. freezer \in FreezersOf(Handed)
    BY DEF ServerInv, FreezeInv
  <2>3. CASE Freeze!FreezeStep
    BY <1>2, <2>1, <2>2, <2>3
    DEF FreezersOf, Freeze!FreezeStep, Freeze!At, Freeze!Go, Freeze!EndsAs, Freeze!TakeNextFreeze,
        Freeze!StartFreeze, Freeze!KeysOfFreeze, Freeze!WalkFreeze, Freeze!BeginCommitOfFreeze,
        Freeze!CommitFreeze, Freeze!FailFreeze, Freeze!CutFreeze, Freeze!EndFreeze,
        Freeze!PublishFreeze, Freeze!StoppedOfFreeze, Freeze!UndoOfFreeze, Freeze!RearmFreeze
  <2>4. CASE Freeze!PanicFreeze
    BY <2>4 DEF Freeze!PanicFreeze, Freeze!NoFreezer
  <2> PICK H \in SUBSET Adds : H = Handed'
    BY DEF Handed
  <2>6. stop.adds \subseteq Adds
    BY DEF ServerInv, StopInv, Stops
  <2>7. freezes \in FreezesOf(H) /\ freezer \in FreezersOf(H) /\ OneEach(freezes.waiting)
    BY <2>6, HandedKept, ShapesGrow DEF ServerInv, FreezeInv, FreezeFlow
  <2>5. ASSUME NEW a \in BooksOf(H), NEW j \in BOOLEAN, Freeze!Arm(a, j) PROVE freezer' = freezer
    BY <2>1, <2>5, <2>7, ArmKeeps
  <2> QED BY <1>2, <2>3, <2>4, <2>5, <2>6, FreezeMoves DEF ServerInv
<1> QED BY <1>1, <1>2

\* A run that says it is committing is not cut short by any stop, however the
\* ask and the commit race (stopping/stop.rs, LA-35).
THEOREM CommitNotCut == Spec => CommittingNotCut
<1>1. ServerInv /\ [Next]_vars =>
        [/\ syncer.at = "committing" => syncer'.at # "cut"
         /\ freezer.at = "committing" => freezer'.at # "cut"]_vars
  BY CommittingStays
<1> QED BY <1>1, ServerInvHolds, PTL DEF Spec, CommittingNotCut

-----------------------------------------------------------------------------
(* The turn *)

Out(w) == w.at \in {"off", "next", "start"}
Holds(w) == w.at \notin {"off", "next", "start", "turn"}

InLine(t) == turn \in {<<t>>, <<"sync", "freeze">>, <<"freeze", "sync">>}
TurnInv ==
  /\ turn \in {<<>>, <<"sync">>, <<"freeze">>, <<"sync", "freeze">>, <<"freeze", "sync">>}
  /\ (InLine("sync") <=> ~Out(syncer)) /\ (Holds(syncer) => HasTurn("sync"))
  /\ (InLine("freeze") <=> ~Out(freezer)) /\ (Holds(freezer) => HasTurn("freeze"))

\* What a step of a worker does to the line.
InTurn(t, w, v) ==
  \/ UNCHANGED turn /\ Out(w) /\ Out(v)
  \/ turn' = Append(turn, t) /\ w.at = "start" /\ v.at = "turn"
  \/ UNCHANGED turn /\ HasTurn(t) /\ w.at = "turn" /\ Holds(v)
  \/ UNCHANGED turn /\ Holds(w) /\ Holds(v)
  \/ turn' = RemoveFirst(turn, t) /\ Out(v)

\* The flows leave the line as it is left here.
LEMMA OneRemoval ==
  ASSUME NEW s, NEW t
  PROVE  Sync!RemoveFirst(s, t) = RemoveFirst(s, t) /\ Freeze!RemoveFirst(s, t) = RemoveFirst(s, t)
<1>1. Sync!RemoveFirst(s, t) = RemoveFirst(s, t)
  BY DEF Sync!RemoveFirst, Sync!RemoveAt, Sync!SelectInSeq, Sync!Min,
         RemoveFirst, RemoveAt, SelectInSeq, Min
<1>2. Freeze!RemoveFirst(s, t) = RemoveFirst(s, t)
  BY DEF Freeze!RemoveFirst, Freeze!RemoveAt, Freeze!SelectInSeq, Freeze!Min,
         RemoveFirst, RemoveAt, SelectInSeq, Min
<1> QED BY <1>1, <1>2

LEMMA SyncInTurn ==
  ASSUME Sync!SyncStep \/ Sync!PanicSync, NEW X, syncer \in SyncersOf(X)
  PROVE  InTurn("sync", syncer, syncer')
<1> USE DEF InTurn, Out, Holds, SyncersOf
<1>1. CASE Sync!PanicSync
  <2>1. turn' = RemoveFirst(turn, "sync") /\ syncer'.at = "off"
    BY <1>1, OneRemoval DEF Sync!PanicSync, Sync!GiveUpTurn, Sync!NoSyncer
  <2> QED BY <2>1
<1>2. CASE Sync!TakeNextSync
  <2>1. syncer.at = "next" /\ UNCHANGED turn
    BY <1>2 DEF Sync!TakeNextSync, Sync!At, Sync!shared
  <2>2. syncer'.at \in {"off", "start"}
    <3>1. CASE syncs.armed
      BY <1>2, <3>1 DEF Sync!TakeNextSync, Sync!NoSyncer
    <3>2. CASE ~(syncs.armed)
      BY <1>2, <3>2 DEF Sync!TakeNextSync, Sync!NoSyncer
    <3> QED BY <3>1, <3>2
  <2> QED BY <2>1, <2>2
<1>3. CASE Sync!StartSync
  BY <1>3 DEF Sync!StartSync, Sync!At, Sync!Go, Sync!Queue
<1>4. CASE Sync!TurnOfSync
  BY <1>4 DEF Sync!TurnOfSync, Sync!At, Sync!HasTurn, HasTurn, Sync!shared
<1>5. CASE Sync!KeysOfSync
  <2>1. syncer.at = "absorbed" /\ syncer'.at \in {"ending", "cut", "walk"} /\ UNCHANGED turn
    BY <1>5 DEF Sync!KeysOfSync, Sync!At, Sync!shared
  <2> QED BY <2>1
<1>6. CASE Sync!WalkSync
  BY <1>6 DEF Sync!WalkSync, Sync!At, Sync!shared
<1>7. CASE Sync!BeginCommitOfSync
  BY <1>7 DEF Sync!BeginCommitOfSync, Sync!At, Sync!Go, Sync!EndsAs, Sync!shared
<1>8. CASE Sync!CommitSync
  BY <1>8 DEF Sync!CommitSync, Sync!At, Sync!EndsAs
<1>9. CASE Sync!FailSync
  BY <1>9 DEF Sync!FailSync, Sync!EndsAs, Sync!shared
<1>10. CASE Sync!CutSync
  BY <1>10 DEF Sync!CutSync, Sync!shared
<1>11. CASE Sync!EndSync
  BY <1>11 DEF Sync!EndSync, Sync!At, Sync!Go
<1>12. CASE Sync!PublishSync
  <2>1. syncer.at = "publish"
    BY <1>12 DEF Sync!PublishSync, Sync!At
  <2>2. \/ syncer'.at = "rearm" /\ UNCHANGED turn
        \/ syncer'.at = "next" /\ turn' = RemoveFirst(turn, "sync")
    BY <1>12, OneRemoval DEF Sync!PublishSync, Sync!Go, Sync!NoSyncer, Sync!GiveUpTurn
  <2> QED BY <2>1, <2>2
<1>13. CASE Sync!StoppedOfSync
  BY <1>13 DEF Sync!StoppedOfSync, Sync!At, Sync!shared
<1>14. CASE Sync!UndoOfSync
  BY <1>14 DEF Sync!UndoOfSync, Sync!At
<1>15. CASE Sync!RearmSync
  <2>1. syncer'.at = "next" /\ turn' = RemoveFirst(turn, "sync")
    BY <1>15, OneRemoval DEF Sync!RearmSync, Sync!NoSyncer, Sync!GiveUpTurn
  <2> QED BY <2>1
<1> QED BY <1>1, <1>2, <1>3, <1>4, <1>5, <1>6, <1>7, <1>8, <1>9, <1>10, <1>11, <1>12, <1>13,
           <1>14, <1>15 DEF Sync!SyncStep

LEMMA FreezeInTurn ==
  ASSUME Freeze!FreezeStep \/ Freeze!PanicFreeze, NEW X, freezer \in FreezersOf(X)
  PROVE  InTurn("freeze", freezer, freezer')
<1> USE DEF InTurn, Out, Holds, FreezersOf
<1>1. CASE Freeze!PanicFreeze
  <2>1. turn' = RemoveFirst(turn, "freeze") /\ freezer'.at = "off"
    BY <1>1, OneRemoval DEF Freeze!PanicFreeze, Freeze!GiveUpTurn, Freeze!NoFreezer
  <2> QED BY <2>1
<1>2. CASE Freeze!TakeNextFreeze
  <2>1. freezer.at = "next" /\ UNCHANGED turn
    BY <1>2 DEF Freeze!TakeNextFreeze, Freeze!At, Freeze!shared
  <2>2. freezer'.at \in {"off", "start"}
    <3>1. CASE freezes.waiting # <<>>
      BY <1>2, <3>1 DEF Freeze!TakeNextFreeze, Freeze!NoFreezer
    <3>2. CASE ~(freezes.waiting # <<>>)
      BY <1>2, <3>2 DEF Freeze!TakeNextFreeze, Freeze!NoFreezer
    <3> QED BY <3>1, <3>2
  <2> QED BY <2>1, <2>2
<1>3. CASE Freeze!StartFreeze
  BY <1>3 DEF Freeze!StartFreeze, Freeze!At, Freeze!Go, Freeze!Queue
<1>4. CASE Freeze!KeysOfFreeze
  BY <1>4 DEF Freeze!KeysOfFreeze, Freeze!At, Freeze!Go, Freeze!EndsAs, Freeze!HasTurn, HasTurn,
              Freeze!shared
<1>5. CASE Freeze!WalkFreeze
  BY <1>5 DEF Freeze!WalkFreeze, Freeze!At, Freeze!shared
<1>6. CASE Freeze!BeginCommitOfFreeze
  BY <1>6 DEF Freeze!BeginCommitOfFreeze, Freeze!At, Freeze!Go, Freeze!EndsAs, Freeze!shared
<1>7. CASE Freeze!CommitFreeze
  <2>1. freezer.at = "committing" /\ UNCHANGED turn /\ freezer'.at = "ending"
    BY <1>7 DEF Freeze!CommitFreeze, Freeze!At, Freeze!EndsAs
  <2> QED BY <2>1
<1>8. CASE Freeze!FailFreeze
  BY <1>8 DEF Freeze!FailFreeze, Freeze!EndsAs, Freeze!shared
<1>9. CASE Freeze!CutFreeze
  BY <1>9 DEF Freeze!CutFreeze, Freeze!shared
<1>10. CASE Freeze!EndFreeze
  BY <1>10 DEF Freeze!EndFreeze, Freeze!At, Freeze!Go
<1>11. CASE Freeze!PublishFreeze
  <2>1. freezer.at = "publish"
    BY <1>11 DEF Freeze!PublishFreeze, Freeze!At
  <2>2. \/ freezer'.at = "rearm" /\ UNCHANGED turn
        \/ freezer'.at = "next" /\ turn' = RemoveFirst(turn, "freeze")
    BY <1>11, OneRemoval DEF Freeze!PublishFreeze, Freeze!Go, Freeze!NoFreezer, Freeze!GiveUpTurn
  <2> QED BY <2>1, <2>2
<1>12. CASE Freeze!StoppedOfFreeze
  BY <1>12 DEF Freeze!StoppedOfFreeze, Freeze!At, Freeze!shared
<1>13. CASE Freeze!UndoOfFreeze
  <2>1. freezer.at = "undo" /\ freezer'.at \in {"undo", "publish"} /\ UNCHANGED turn
    BY <1>13 DEF Freeze!UndoOfFreeze, Freeze!At
  <2> QED BY <2>1
<1>14. CASE Freeze!RearmFreeze
  <2>1. freezer'.at = "next" /\ turn' = RemoveFirst(turn, "freeze")
    BY <1>14, OneRemoval DEF Freeze!RearmFreeze, Freeze!NoFreezer, Freeze!GiveUpTurn
  <2> QED BY <2>1
<1> QED BY <1>1, <1>2, <1>3, <1>4, <1>5, <1>6, <1>7, <1>8, <1>9, <1>10, <1>11, <1>12, <1>13,
           <1>14 DEF Freeze!FreezeStep

\* A worker is where it was, or is started.
Keeps(w, v) == v = w \/ (w.at = "off" /\ v.at = "next")
Rests == UNCHANGED turn /\ Keeps(syncer, syncer') /\ Keeps(freezer, freezer')

LEMMA ArmingSync ==
  ASSUME ServerInv, NEW Y, NEW b, Sync!ArmSync(Y, b)
  PROVE  Keeps(syncer, syncer')
BY DEF ServerInv, SyncInv, SyncFlow, Sync!ArmSync, Sync!NoSyncer, Keeps

LEMMA ArmingFreeze ==
  ASSUME ServerInv, NEW a, NEW j, Freeze!Arm(a, j)
  PROVE  Keeps(freezer, freezer')
<1>1. \/ freezer' = freezer
      \/ /\ ~[freezes EXCEPT !.discarded = {c \in @ : c.folder # a.folder},
                             !.displaced = {c \in @ : c.folder # a.folder}].working
         /\ freezer' = [Freeze!NoFreezer EXCEPT !.at = "next"]
  BY DEF Freeze!Arm
<1>2. freezes \in FreezesOf(Handed) /\ FreezeFlow
  BY DEF ServerInv, FreezeInv
<1>3. [freezes EXCEPT !.discarded = {c \in @ : c.folder # a.folder},
                      !.displaced = {c \in @ : c.folder # a.folder}].working = freezes.working
  BY <1>2 DEF FreezesOf
<1> QED BY <1>1, <1>2, <1>3 DEF FreezeFlow, Freeze!NoFreezer, Keeps

\* One worker moves, or the line is as it was.
LEMMA WorkersMove ==
  ASSUME ServerInv, [Next]_vars
  PROVE  \/ (Sync!SyncStep \/ Sync!PanicSync) /\ UNCHANGED freezer
         \/ (Freeze!FreezeStep \/ Freeze!PanicFreeze) /\ UNCHANGED syncer
         \/ Rests
<1> USE DEF Rests
<1>1. CASE UNCHANGED vars
  BY <1>1 DEF vars, shared, synced, frozen, Keeps
<1>2. CASE \/ Sync!SyncStep /\ UNCHANGED <<frozen, stop, resume>>
           \/ Sync!PanicSync /\ UNCHANGED <<frozen, stop, resume>>
  BY <1>2 DEF frozen
<1>3. CASE \/ Freeze!FreezeStep /\ UNCHANGED <<synced, stop, resume>>
           \/ Freeze!PanicFreeze /\ UNCHANGED <<synced, stop, resume>>
  BY <1>3 DEF synced
<1>4. ASSUME NEW x \in Adds, HandOver(x) PROVE Rests
  BY <1>4, ArmingSync, ArmingFreeze DEF HandOver, synced, Keeps
<1>5. ASSUME NEW x \in Adds, AskForStopped(x) PROVE Rests
  BY <1>5 DEF AskForStopped, UpOnly, frozen, Keeps
<1>6. ASSUME NEW x \in Adds,
             \/ AddStep(x) /\ Elsewhere
             \/ (BeginAdd(x) \/ WriteUnkept(x) \/ Land(x) \/ Received(x) \/ Break(x)) /\ Elsewhere
      PROVE  Rests
  <2>1. UNCHANGED <<syncer, freezer>>
    BY <1>6 DEF Elsewhere, synced, frozen
  <2>2. UNCHANGED turn
    BY <1>6 DEF AddStep, SeeStop, ReleaseLive, ArmAdd, StopReceiving, Undone, BeginAdd, WriteUnkept,
                Land, Received, Break, UpOnly
  <2> QED BY <2>1, <2>2 DEF Keeps
<1>7. CASE StopStep
  <2>1. UNCHANGED <<turn, syncer, freezer>>
    <3>1. CASE StopMarks
      BY <3>1 DEF StopMarks, synced, frozen
    <3>2. CASE StopCarries
      BY <3>2 DEF StopCarries, Requests, synced, frozen
    <3>3. CASE StopAsks
      BY <3>3 DEF StopAsks, Requests
    <3>4. CASE StopBook
      BY <3>4 DEF StopBook, Requests, synced
    <3>5. CASE StopCancels
      BY <3>5 DEF StopCancels, Requests, synced
    <3> QED BY <1>7, <3>1, <3>2, <3>3, <3>4, <3>5 DEF StopStep
  <2> QED BY <2>1 DEF Keeps
<1>8. ASSUME NEW x \in Adds, Resume(x), UNCHANGED <<synced, stop>> PROVE Rests
  BY <1>8, ArmingFreeze DEF Resume, Requests, synced, Keeps
<1>9. CASE \/ \E x \in Adds : StopAdd(x)
           \/ \E f \in Folders : StopQueued(f)
           \/ StopSync \/ StopFreeze
  BY <1>9 DEF StopAdd, StopQueued, StopSync, StopFreeze, BeginStop, synced, Keeps
<1>10. CASE RequestSync
  BY <1>10, ArmingSync DEF RequestSync, frozen, Keeps
<1>11. ASSUME NEW f \in Folders, Freeze!AskPack(f), UNCHANGED <<synced, stop, resume>> PROVE Rests
  BY <1>11, ArmingFreeze DEF Freeze!AskPack, synced, Keeps
<1>12. CASE (FindQuiet \/ Lock \/ Unlock) /\ UNCHANGED <<synced, frozen, stop>>
  BY <1>12 DEF FindQuiet, Lock, Unlock, synced, frozen, Keeps
<1> QED BY <1>1, <1>2, <1>3, <1>4, <1>5, <1>6, <1>7, <1>8, <1>9, <1>10, <1>11, <1>12
        DEF Next, Serve, Comes

Lines == {<<>>, <<"sync">>, <<"freeze">>, <<"sync", "freeze">>, <<"freeze", "sync">>}

LEMMA JoinsLine ==
  ASSUME NEW t, NEW u
  PROVE  Append(<<>>, t) = <<t>> /\ Append(<<u>>, t) = <<u, t>>
<1> DEFINE a == Append(<<u>>, t)
           b == <<u, t>>
<1>1. <<u>> \in Seq({u, t}) /\ Len(<<u>>) = 1 /\ <<u>>[1] = u
  OBVIOUS
<1>2. a \in Seq({u, t}) /\ Len(a) = 2 /\ a[1] = u /\ a[2] = t
  BY <1>1, AppendProperties
<1>3. b \in Seq({u, t}) /\ Len(b) = 2 /\ b[1] = u /\ b[2] = t
  OBVIOUS
<1> HIDE DEF a, b
<1>4. Len(a) = Len(b) /\ \A i \in 1 .. Len(a) : a[i] = b[i]
  BY <1>2, <1>3
<1>5. a = b
  BY <1>2, <1>3, <1>4, SeqEqual
<1> QED BY <1>5 DEF a, b

\* A worker joins the line at its end, and leaves it from wherever it stands.
LEMMA LineGrows ==
  ASSUME turn \in Lines,
         NEW t \in {"sync", "freeze"}, NEW u \in {"sync", "freeze"}, t # u,
         turn' = Append(turn, t), ~InLine(t)
  PROVE  /\ turn' \in Lines /\ InLine(t)'
         /\ (InLine(u)' <=> InLine(u)) /\ (HasTurn(u) => HasTurn(u)')
<1>1. turn = <<>> \/ turn = <<u>>
  BY DEF Lines, InLine
<1>2. \/ turn = <<>> /\ turn' = <<t>>
      \/ turn = <<u>> /\ turn' = <<u, t>>
  BY <1>1, JoinsLine
<1> QED BY <1>2 DEF Lines, InLine, HasTurn

LEMMA LineShrinks ==
  ASSUME turn \in Lines,
         NEW t \in {"sync", "freeze"}, NEW u \in {"sync", "freeze"}, t # u,
         turn' = RemoveFirst(turn, t)
  PROVE  /\ turn' \in Lines /\ ~InLine(t)'
         /\ (InLine(u)' <=> InLine(u)) /\ (HasTurn(u) => HasTurn(u)')
<1>1. turn \in {<<>>, <<t>>, <<u>>, <<t, u>>, <<u, t>>}
  BY DEF Lines
<1>2. \/ turn \in {<<>>, <<t>>} /\ turn' = <<>>
      \/ turn \in {<<u>>, <<t, u>>, <<u, t>>} /\ turn' = <<u>>
  BY <1>1, LeavesLine
<1> QED BY <1>2 DEF Lines, InLine, HasTurn

LEMMA TurnInvKept ==
  ASSUME ServerInv, TurnInv, [Next]_vars
  PROVE  TurnInv'
<1>1. syncer \in SyncersOf(Handed) /\ freezer \in FreezersOf(Handed)
  BY DEF ServerInv, SyncInv, FreezeInv
<1>2. turn \in Lines
  BY DEF TurnInv, Lines
<1>3. SUFFICES /\ turn' \in Lines
               /\ (InLine("sync")' <=> ~Out(syncer')) /\ (Holds(syncer') => HasTurn("sync")')
               /\ (InLine("freeze")' <=> ~Out(freezer')) /\ (Holds(freezer') => HasTurn("freeze")')
  BY DEF TurnInv, Lines, Out, Holds
<1>4. CASE Rests
  <2>1. turn' = turn /\ (Out(syncer') <=> Out(syncer)) /\ (Holds(syncer') <=> Holds(syncer))
          /\ (Out(freezer') <=> Out(freezer)) /\ (Holds(freezer') <=> Holds(freezer))
    BY <1>4 DEF Rests, Keeps, Out, Holds
  <2> QED BY <1>2, <2>1 DEF TurnInv, InLine, HasTurn
<1>5. ASSUME NEW t \in {"sync", "freeze"}, NEW u \in {"sync", "freeze"}, t # u, NEW w, NEW v,
             (InLine(t) <=> ~Out(w)) /\ (Holds(w) => HasTurn(t)), InTurn(t, w, v)
      PROVE  /\ turn' \in Lines /\ (InLine(t)' <=> ~Out(v)) /\ (Holds(v) => HasTurn(t)')
             /\ (InLine(u)' <=> InLine(u)) /\ (HasTurn(u) => HasTurn(u)')
  <2>0. /\ \A z : z.at \in {"off", "next", "start"} => Out(z) /\ ~Holds(z)
        /\ \A z : z.at = "turn" => ~Out(z) /\ ~Holds(z)
        /\ \A z : (Holds(z) => ~Out(z)) /\ (Out(z) => ~Holds(z))
    BY DEF Out, Holds
  <2>1. CASE turn' = Append(turn, t) /\ w.at = "start" /\ v.at = "turn"
    <3>1. ~InLine(t) /\ ~Out(v) /\ ~Holds(v)
      BY <1>5, <2>0, <2>1
    <3>2. /\ turn' \in Lines /\ InLine(t)'
          /\ (InLine(u)' <=> InLine(u)) /\ (HasTurn(u) => HasTurn(u)')
      BY <1>2, <1>5, <2>1, <3>1, LineGrows
    <3> QED BY <3>1, <3>2
  <2>2. CASE turn' = RemoveFirst(turn, t) /\ Out(v)
    <3>1. ~Holds(v)
      BY <2>0, <2>2
    <3>2. /\ turn' \in Lines /\ ~InLine(t)'
          /\ (InLine(u)' <=> InLine(u)) /\ (HasTurn(u) => HasTurn(u)')
      BY <1>2, <1>5, <2>2, LineShrinks
    <3> QED BY <2>2, <3>1, <3>2
  <2>3. CASE /\ turn' = turn
             /\ \/ Out(w) /\ Out(v)
                \/ HasTurn(t) /\ w.at = "turn" /\ Holds(v)
                \/ Holds(w) /\ Holds(v)
    <3>1. (Out(v) <=> Out(w)) /\ (Holds(v) => HasTurn(t))
      BY <1>5, <2>0, <2>3
    <3>2. /\ turn' \in Lines /\ (InLine(t)' <=> InLine(t)) /\ (HasTurn(t)' <=> HasTurn(t))
          /\ (InLine(u)' <=> InLine(u)) /\ (HasTurn(u)' <=> HasTurn(u))
      BY <1>2, <2>3 DEF InLine, HasTurn
    <3> QED BY <1>5, <3>1, <3>2
  <2> QED BY <1>5, <2>1, <2>2, <2>3 DEF InTurn
<1>6. CASE (Sync!SyncStep \/ Sync!PanicSync) /\ UNCHANGED freezer
  <2>1. InTurn("sync", syncer, syncer')
    BY <1>1, <1>6, SyncInTurn
  <2>2. /\ turn' \in Lines /\ (InLine("sync")' <=> ~Out(syncer'))
        /\ (Holds(syncer') => HasTurn("sync")')
        /\ (InLine("freeze")' <=> InLine("freeze")) /\ (HasTurn("freeze") => HasTurn("freeze")')
    BY <1>5, <2>1 DEF TurnInv
  <2> QED BY <1>6, <2>2 DEF TurnInv
<1>7. CASE (Freeze!FreezeStep \/ Freeze!PanicFreeze) /\ UNCHANGED syncer
  <2>1. InTurn("freeze", freezer, freezer')
    BY <1>1, <1>7, FreezeInTurn
  <2>2. /\ turn' \in Lines /\ (InLine("freeze")' <=> ~Out(freezer'))
        /\ (Holds(freezer') => HasTurn("freeze")')
        /\ (InLine("sync")' <=> InLine("sync")) /\ (HasTurn("sync") => HasTurn("sync")')
    BY <1>5, <2>1 DEF TurnInv
  <2> QED BY <1>7, <2>2 DEF TurnInv
<1> QED BY <1>4, <1>6, <1>7, WorkersMove

\* One flow has the turn at a time.
LEMMA OneHolds ==
  ASSUME TurnInv
  PROVE  ~(Holds(syncer) /\ Holds(freezer))
BY DEF TurnInv, HasTurn

-----------------------------------------------------------------------------
(* What an undo takes away *)

\* A drop for a Pack that is still being received.
Incoming(x) == Packed(x) /\ up[x] \in {"receiving", "stopped"}
Carries(w) == w.at \in {"walked", "committing"}
Unmoved(w) == Carries(w) => \A x \in w.read : file[x] = "here" /\ ~Incoming(x)

UndoneInv ==
  /\ \A x \in Adds : up[x] = "none" => file[x] = "none"
  /\ \A x \in Adds : Incoming(x) => resv[x] = "live"
  /\ Unmoved(syncer) /\ Unmoved(freezer)
  /\ UndoneNotCarried

\* A walk reads what is in its folder and nobody holds live.
LEMMA SyncReads ==
  ASSUME Sync!SyncStep \/ Sync!PanicSync, NEW X, syncer \in SyncersOf(X), Carries(syncer')
  PROVE  \/ Carries(syncer) /\ syncer'.read = syncer.read
         \/ /\ UNCHANGED adding
            /\ \A x \in syncer'.read : file[x] = "here" /\ resv[x] # "live"
<1> USE DEF Carries, SyncersOf
<1>1. CASE Sync!PanicSync
  BY <1>1 DEF Sync!PanicSync, Sync!NoSyncer
<1>2. CASE Sync!TakeNextSync
  <2>1. CASE syncs.armed
    <3>1. syncer'.at = "start"
      BY <1>2, <2>1 DEF Sync!TakeNextSync, Sync!NoSyncer
    <3> QED BY <3>1
  <2>2. CASE ~syncs.armed
    BY <1>2, <2>2 DEF Sync!TakeNextSync, Sync!NoSyncer
  <2> QED BY <2>1, <2>2
<1>3. CASE Sync!StartSync
  BY <1>3 DEF Sync!StartSync, Sync!Go
<1>4. CASE Sync!TurnOfSync
  BY <1>4 DEF Sync!TurnOfSync
<1>5. CASE Sync!KeysOfSync
  <2>1. syncer'.at \in {"ending", "cut", "walk"}
    BY <1>5 DEF Sync!KeysOfSync
  <2> QED BY <2>1
<1>6. CASE Sync!WalkSync
  <2>1. UNCHANGED adding
    BY <1>6 DEF Sync!WalkSync, Sync!shared, adding
  <2>2. syncer'.read = {x \in Adds : /\ file[x] = "here" /\ x \notin carried
                                     /\ resv[x] = "none" /\ setup.folder[x] \in syncer.scope}
    BY <1>6 DEF Sync!WalkSync
  <2> QED BY <2>1, <2>2
<1>7. CASE Sync!BeginCommitOfSync
  BY <1>7 DEF Sync!BeginCommitOfSync, Sync!At, Sync!Go, Sync!EndsAs
<1>8. CASE Sync!CommitSync
  BY <1>8 DEF Sync!CommitSync, Sync!EndsAs
<1>9. CASE Sync!FailSync
  BY <1>9 DEF Sync!FailSync, Sync!EndsAs
<1>10. CASE Sync!CutSync
  BY <1>10 DEF Sync!CutSync
<1>11. CASE Sync!EndSync
  BY <1>11 DEF Sync!EndSync, Sync!Go
<1>12. CASE Sync!PublishSync
  BY <1>12 DEF Sync!PublishSync, Sync!Go, Sync!NoSyncer
<1>13. CASE Sync!StoppedOfSync
  BY <1>13 DEF Sync!StoppedOfSync
<1>14. CASE Sync!UndoOfSync
  BY <1>14 DEF Sync!UndoOfSync, Sync!At
<1>15. CASE Sync!RearmSync
  BY <1>15 DEF Sync!RearmSync, Sync!NoSyncer
<1> QED BY <1>1, <1>2, <1>3, <1>4, <1>5, <1>6, <1>7, <1>8, <1>9, <1>10, <1>11, <1>12, <1>13,
           <1>14, <1>15 DEF Sync!SyncStep

LEMMA FreezeReads ==
  ASSUME Freeze!FreezeStep \/ Freeze!PanicFreeze, NEW X, freezer \in FreezersOf(X),
         Carries(freezer')
  PROVE  \/ Carries(freezer) /\ freezer'.read = freezer.read
         \/ /\ UNCHANGED adding
            /\ \A x \in freezer'.read : file[x] = "here" /\ resv[x] # "live"
<1> USE DEF Carries, FreezersOf
<1>1. CASE Freeze!PanicFreeze
  BY <1>1 DEF Freeze!PanicFreeze, Freeze!NoFreezer
<1>2. CASE Freeze!TakeNextFreeze
  <2>1. CASE freezes.waiting # <<>>
    BY <1>2, <2>1 DEF Freeze!TakeNextFreeze, Freeze!NoFreezer
  <2>2. CASE freezes.waiting = <<>>
    BY <1>2, <2>2 DEF Freeze!TakeNextFreeze, Freeze!NoFreezer
  <2> QED BY <2>1, <2>2
<1>3. CASE Freeze!StartFreeze
  BY <1>3 DEF Freeze!StartFreeze, Freeze!Go
<1>4. CASE Freeze!KeysOfFreeze
  BY <1>4 DEF Freeze!KeysOfFreeze, Freeze!Go, Freeze!EndsAs
<1>5. CASE Freeze!WalkFreeze
  <2>1. UNCHANGED adding
    BY <1>5 DEF Freeze!WalkFreeze, Freeze!shared, adding
  <2>2. freezer'.read = {x \in Adds : /\ file[x] = "here" /\ x \notin carried /\ resv[x] # "live"
                                      /\ setup.folder[x] = freezer.book.folder
                                      /\ (freezer.book.whole \/ x \in freezer.book.only)}
    BY <1>5 DEF Freeze!WalkFreeze
  <2> QED BY <2>1, <2>2
<1>6. CASE Freeze!BeginCommitOfFreeze
  BY <1>6 DEF Freeze!BeginCommitOfFreeze, Freeze!At, Freeze!Go, Freeze!EndsAs
<1>7. CASE Freeze!CommitFreeze
  <2>1. freezer'.at = "ending"
    BY <1>7 DEF Freeze!CommitFreeze, Freeze!EndsAs
  <2> QED BY <2>1
<1>8. CASE Freeze!FailFreeze
  BY <1>8 DEF Freeze!FailFreeze, Freeze!EndsAs
<1>9. CASE Freeze!CutFreeze
  BY <1>9 DEF Freeze!CutFreeze
<1>10. CASE Freeze!EndFreeze
  BY <1>10 DEF Freeze!EndFreeze, Freeze!Go
<1>11. CASE Freeze!PublishFreeze
  BY <1>11 DEF Freeze!PublishFreeze, Freeze!Go, Freeze!NoFreezer
<1>12. CASE Freeze!StoppedOfFreeze
  BY <1>12 DEF Freeze!StoppedOfFreeze
<1>13. CASE Freeze!UndoOfFreeze
  <2>1. freezer'.at \in {"undo", "publish"}
    BY <1>13 DEF Freeze!UndoOfFreeze, Freeze!At
  <2> QED BY <2>1
<1>14. CASE Freeze!RearmFreeze
  BY <1>14 DEF Freeze!RearmFreeze, Freeze!NoFreezer
<1> QED BY <1>1, <1>2, <1>3, <1>4, <1>5, <1>6, <1>7, <1>8, <1>9, <1>10, <1>11, <1>12, <1>13,
           <1>14 DEF Freeze!FreezeStep

\* A request moves the file of its own add alone, and only while it is received.
LEMMA RequestMoves ==
  ASSUME AddInv, UndoneInv, NEW y \in Adds, Requested(y) \/ Handing(y)
  PROVE  /\ setup' = setup /\ carried' = carried
         /\ \A x \in Adds \ {y} : file'[x] = file[x] /\ up'[x] = up[x] /\ resv'[x] = resv[x]
         /\ \/ file'[y] = file[y]
            \/ file[y] = "none" /\ file'[y] = "here"
            \/ Incoming(y) /\ y \notin carried /\ file'[y] = "taken"
         /\ up'[y] # "none"
         /\ Incoming(y)' => resv'[y] = "live" /\ (Incoming(y) \/ file[y] = "none")
<1> USE DEF AddInv, Steps, Incoming, Packed, Up, UpOnly
<1>1. CASE Handing(y)
  BY <1>1 DEF Handing
<1>2. CASE BeginAdd(y)
  BY <1>2 DEF BeginAdd, UndoneInv
<1>3. CASE WriteUnkept(y)
  BY <1>3 DEF WriteUnkept, UndoneInv
<1>4. CASE Land(y)
  BY <1>4 DEF Land, UndoneInv
<1>5. CASE Received(y)
  BY <1>5 DEF Received, UndoneInv
<1>6. CASE Break(y)
  BY <1>6 DEF Break, UndoneInv
<1>7. CASE SeeStop(y)
  BY <1>7 DEF SeeStop, UndoneInv
<1>8. CASE ReleaseLive(y)
  BY <1>8 DEF ReleaseLive, UndoneInv
<1>9. CASE ArmAdd(y)
  BY <1>9 DEF ArmAdd, UndoneInv
<1>10. CASE StopReceiving(y)
  BY <1>10 DEF StopReceiving, TakeAway, UndoneInv
<1>11. CASE Undone(y)
  BY <1>11 DEF Undone, UndoneInv
<1> QED BY <1>1, <1>2, <1>3, <1>4, <1>5, <1>6, <1>7, <1>8, <1>9, <1>10, <1>11
        DEF Requested, AddStep

\* What a run read stays where it was read, unless an undo is under way.
LEMMA FileStays ==
  ASSUME ServerInv, UndoneInv, [Next]_vars, syncer.at # "undo", freezer.at # "undo",
         NEW x \in Adds, file[x] = "here", ~Incoming(x)
  PROVE  file'[x] = "here" /\ ~Incoming(x)'
<1> USE DEF Incoming, Packed
<1>1. AddInv /\ stop.adds \subseteq Adds
  BY DEF ServerInv, StopInv, Stops
<1>2. CASE UNCHANGED adding
  BY <1>2 DEF adding
<1>3. CASE Marking
  BY <1>3 DEF Marking
<1>4. ASSUME NEW y \in Adds, Requested(y) \/ Handing(y)
      PROVE  file'[x] = "here" /\ ~Incoming(x)'
  <2>1. CASE x = y
    BY <1>1, <1>4, <2>1, RequestMoves
  <2>2. CASE x # y
    BY <1>1, <1>4, <2>2, RequestMoves
  <2> QED BY <2>1, <2>2
<1>5. CASE \/ Ending(syncer.adds) \/ Ending(freezer.book.adds)
           \/ Carrying(syncer.read, FALSE) \/ Carrying(freezer.read, TRUE)
  BY <1>5 DEF Ending, Carrying
<1> QED BY <1>1, <1>2, <1>3, <1>4, <1>5, AddMoves DEF AddInv

LEMMA UndoneInvKept ==
  ASSUME ServerInv, TurnInv, UndoneInv, [Next]_vars
  PROVE  UndoneInv'
<1>1. AddInv /\ AddInv' /\ stop.adds \subseteq Adds
  BY NextServerInv DEF ServerInv, StopInv, Stops
<1>2. /\ syncer \in SyncersOf(Handed) /\ freezer \in FreezersOf(Handed)
      /\ syncer.read \subseteq Adds /\ freezer.read \subseteq Adds
      /\ syncer.undo \subseteq Handed /\ freezer.undo \subseteq Handed
  BY DEF ServerInv, SyncInv, FreezeInv, SyncersOf, FreezersOf
<1>3. syncer' \in SyncersOf(Handed') /\ freezer' \in FreezersOf(Handed')
  BY NextServerInv DEF ServerInv, SyncInv, FreezeInv
<1>4. syncer'.read \subseteq Adds /\ freezer'.read \subseteq Adds
  BY <1>3 DEF SyncersOf, FreezersOf
<1>5. ASSUME Carries(syncer) \/ Carries(freezer), NEW x \in Adds, file[x] = "here", ~Incoming(x)
      PROVE  file'[x] = "here" /\ ~Incoming(x)'
  <2>1. syncer.at # "undo" /\ freezer.at # "undo"
    BY <1>5, OneHolds DEF Carries, Holds
  <2> QED BY <1>5, <2>1, FileStays
<1>6. Unmoved(syncer)'
  <2> SUFFICES ASSUME Carries(syncer'), NEW x \in syncer'.read
               PROVE  file'[x] = "here" /\ ~Incoming(x)'
    BY DEF Unmoved, Carries
  <2>1. CASE Carries(syncer) /\ syncer'.read = syncer.read
    <3>1. file[x] = "here" /\ ~Incoming(x)
      BY <2>1 DEF UndoneInv, Unmoved
    <3> QED BY <1>4, <1>5, <2>1, <3>1
  <2>2. CASE UNCHANGED adding /\ file[x] = "here" /\ resv[x] # "live"
    <3>1. ~Incoming(x)
      BY <1>4, <2>2 DEF UndoneInv
    <3> QED BY <2>2, <3>1 DEF adding, Incoming, Packed
  <2>3. CASE (Sync!SyncStep \/ Sync!PanicSync)
    BY <1>2, <2>1, <2>2, <2>3, SyncReads
  <2>4. CASE Keeps(syncer, syncer')
    BY <2>1, <2>4 DEF Keeps, Carries
  <2> QED BY <2>3, <2>4, WorkersMove DEF Rests, Keeps
<1>7. Unmoved(freezer)'
  <2> SUFFICES ASSUME Carries(freezer'), NEW x \in freezer'.read
               PROVE  file'[x] = "here" /\ ~Incoming(x)'
    BY DEF Unmoved, Carries
  <2>1. CASE Carries(freezer) /\ freezer'.read = freezer.read
    <3>1. file[x] = "here" /\ ~Incoming(x)
      BY <2>1 DEF UndoneInv, Unmoved
    <3> QED BY <1>4, <1>5, <2>1, <3>1
  <2>2. CASE UNCHANGED adding /\ file[x] = "here" /\ resv[x] # "live"
    <3>1. ~Incoming(x)
      BY <1>4, <2>2 DEF UndoneInv
    <3> QED BY <2>2, <3>1 DEF adding, Incoming, Packed
  <2>3. CASE (Freeze!FreezeStep \/ Freeze!PanicFreeze)
    BY <1>2, <2>1, <2>2, <2>3, FreezeReads
  <2>4. CASE Keeps(freezer, freezer')
    BY <2>1, <2>4 DEF Keeps, Carries
  <2> QED BY <2>3, <2>4, WorkersMove DEF Rests, Keeps
<1> DEFINE Ahead == /\ \A x \in Adds : up[x] = "none" => file[x] = "none"
                    /\ \A x \in Adds : Incoming(x) => resv[x] = "live"
                    /\ UndoneNotCarried
<1>8. Ahead'
  <2> USE <1>1 DEF UndoneInv, UndoneNotCarried
  <2>1. CASE UNCHANGED adding
    BY <2>1 DEF adding, Incoming, Packed
  <2>2. CASE Marking
    BY <2>2 DEF Marking, Incoming, Packed
  <2>3. ASSUME NEW y \in Adds, Requested(y) \/ Handing(y) PROVE Ahead'
    <3>1. /\ setup' = setup /\ carried' = carried
          /\ \A x \in Adds \ {y} : file'[x] = file[x] /\ up'[x] = up[x] /\ resv'[x] = resv[x]
          /\ \/ file'[y] = file[y]
             \/ file[y] = "none" /\ file'[y] = "here"
             \/ Incoming(y) /\ y \notin carried /\ file'[y] = "taken"
          /\ up'[y] # "none"
          /\ Incoming(y)' => resv'[y] = "live"
      BY <2>3, RequestMoves
    <3>2. \A x \in Adds \ {y} : Incoming(x)' <=> Incoming(x)
      BY <3>1 DEF Incoming, Packed
    <3>3. carried \subseteq Adds
      BY DEF AddInv
    <3> QED BY <3>1, <3>2, <3>3
  <2>4. CASE Ending(syncer.adds) \/ Ending(freezer.book.adds)
    BY <2>4 DEF Ending, Incoming, Packed
  <2>5. ASSUME NEW U \in SUBSET Handed, Undoing(U) PROVE Ahead'
    <3>1. PICK x \in U : Undo(x) /\ UNCHANGED <<setup, up, carried>>
      BY <2>5 DEF Undoing
    <3>2. x \in Adds /\ up[x] \in {"ask", "done"}
      BY DEF Handed
    <3>3. /\ \A z \in Adds \ {x} : file'[z] = file[z] /\ resv'[z] = resv[z]
          /\ file'[x] = file[x] \/ x \notin carried
      BY <3>1, <3>2 DEF Undo, TakeAway, AddInv
    <3>4. \A z \in Adds : Incoming(z)' => Incoming(z) /\ z # x
      BY <3>1, <3>2 DEF Incoming, Packed
    <3>5. carried \subseteq Adds
      BY DEF AddInv
    <3> QED BY <3>1, <3>2, <3>3, <3>4, <3>5
  <2>6. ASSUME NEW R \in SUBSET Adds, NEW b \in BOOLEAN, Carrying(R, b),
               \A x \in R : file[x] = "here" /\ ~Incoming(x)
        PROVE  Ahead'
    BY <2>6 DEF Carrying, Incoming, Packed
  <2>7. CASE syncer.at = "committing" /\ Carrying(syncer.read, FALSE)
    BY <1>2, <2>6, <2>7 DEF Unmoved, Carries
  <2>8. CASE freezer.at = "committing" /\ Carrying(freezer.read, TRUE)
    BY <1>2, <2>6, <2>8 DEF Unmoved, Carries
  <2> HIDE DEF Ahead
  <2> QED BY <1>2, <2>1, <2>2, <2>3, <2>4, <2>5, <2>7, <2>8, AddMoves DEF AddInv
<1> QED BY <1>6, <1>7, <1>8 DEF UndoneInv

LEMMA InitTurns == ASSUME Init PROVE TurnInv /\ UndoneInv
BY DEF Init, TurnInv, InLine, Out, Holds, HasTurn, Sync!NoSyncer, Freeze!NoFreezer, UndoneInv,
       Incoming, Unmoved, Carries, UndoneNotCarried

\* One flow at a time holds this device's turn, and while a run holds what its
\* walk read nobody takes it away: a file undone under a stopped add is in no
\* commit, by whichever run and through whichever scope, whatever is dropped,
\* stopped, locked or panics (adds/undo.rs, stop_receiving.rs, LA-36).
THEOREM UndoneStaysOut == Spec => []UndoneNotCarried
<1> DEFINE Inv == ServerInv /\ TurnInv /\ UndoneInv
<1>1. Init => Inv
  BY InitServerInv, InitTurns
<1>2. Inv /\ [Next]_vars => Inv'
  BY NextServerInv, TurnInvKept, UndoneInvKept
<1>3. Inv => UndoneNotCarried
  BY DEF UndoneInv
<1> QED BY <1>1, <1>2, <1>3, PTL DEF Spec
-----------------------------------------------------------------------------
(* Who carries an add *)

\* No panic is to come.
Calm == "panics" \in DOMAIN left /\ left.panics = 0

LEMMA StaysCalm ==
  ASSUME Calm, [Next]_vars
  PROVE  Calm' /\ ~Sync!PanicSync /\ ~Freeze!PanicFreeze
<1>1. ~Sync!PanicSync /\ ~Freeze!PanicFreeze
  BY DEF Calm, Sync!PanicSync, Freeze!PanicFreeze
<1>2. \/ UNCHANGED left
      \/ \E k \in {"stops", "locks", "syncs", "asks"} : left' = [left EXCEPT ![k] = @ - 1]
  <2>1. CASE UNCHANGED vars
    BY <2>1 DEF vars, shared
  <2>2. CASE Sync!SyncStep
    BY <2>2 DEF Sync!SyncStep, Sync!TakeNextSync, Sync!StartSync, Sync!TurnOfSync, Sync!KeysOfSync,
       Sync!WalkSync, Sync!BeginCommitOfSync, Sync!CommitSync, Sync!FailSync, Sync!CutSync,
       Sync!EndSync, Sync!PublishSync, Sync!StoppedOfSync, Sync!UndoOfSync, Sync!RearmSync,
       Sync!shared
  <2>3. CASE Freeze!FreezeStep
    BY <2>3 DEF Freeze!FreezeStep, Freeze!TakeNextFreeze, Freeze!StartFreeze, Freeze!KeysOfFreeze,
       Freeze!WalkFreeze, Freeze!BeginCommitOfFreeze, Freeze!CommitFreeze, Freeze!FailFreeze,
       Freeze!CutFreeze, Freeze!EndFreeze, Freeze!PublishFreeze, Freeze!StoppedOfFreeze,
       Freeze!UndoOfFreeze, Freeze!RearmFreeze, Freeze!shared
  <2>4. ASSUME NEW x \in Adds,
               AddStep(x) \/ HandOver(x) \/ AskForStopped(x) \/ Resume(x) \/ BeginAdd(x)
                 \/ WriteUnkept(x) \/ Land(x) \/ Received(x) \/ Break(x)
        PROVE  UNCHANGED left
    BY <2>4 DEF AddStep, SeeStop, ReleaseLive, ArmAdd, StopReceiving, Undone, HandOver,
       AskForStopped, UpOnly, Resume, Requests, BeginAdd, WriteUnkept, Land, Received, Break
  <2>5. CASE StopStep
    BY <2>5 DEF StopStep, StopMarks, StopCarries, StopAsks, StopBook, StopCancels, Requests
  <2>6. CASE \/ \E x \in Adds : StopAdd(x)
             \/ \E f \in Folders : StopQueued(f)
             \/ StopSync \/ StopFreeze
    BY <2>6 DEF StopAdd, StopQueued, StopSync, StopFreeze, BeginStop
  <2>7. CASE RequestSync \/ \E f \in Folders : Freeze!AskPack(f)
    BY <2>7 DEF RequestSync, Freeze!AskPack
  <2>8. CASE FindQuiet \/ Lock \/ Unlock
    BY <2>8 DEF FindQuiet, Lock, Unlock
  <2> QED BY <1>1, <2>1, <2>2, <2>3, <2>4, <2>5, <2>6, <2>7, <2>8 DEF Next, Serve, Comes
<1>3. Calm'
  <2>1. ASSUME NEW k \in {"stops", "locks", "syncs", "asks"}, left' = [left EXCEPT ![k] = @ - 1]
        PROVE  Calm'
    BY <2>1 DEF Calm
  <2> QED BY <1>2, <2>1 DEF Calm
<1> QED BY <1>1, <1>3

-----------------------------------------------------------------------------
(* The syncs *)

SyncHeld == syncs.pending \cup syncer.adds
EndedAll(X) == \A x \in X : reg[x] = "ended"

\* A sync has the adds it carries until it ended them, and the run on record has
\* them while it waits for its turn.
SyncCarry ==
  /\ syncer.at \in {"off", "next"} => syncer.adds = {}
  /\ syncer.at \in {"start", "turn"} => syncer.adds \subseteq syncs.record.adds
  /\ syncer.at = "publish" /\ syncer.status # "cancelled" => EndedAll(syncer.adds)

LEMMA SyncCarries ==
  ASSUME Sync!SyncStep, AddInv, SyncFlow, SyncCarry, NEW X \in SUBSET Adds,
         syncs \in SyncsOf(X), syncer \in SyncersOf(X)
  PROVE  /\ SyncCarry'
         /\ \A x \in SyncHeld : x \in SyncHeld' \/ reg'[x] = "ended"
<1> USE DEF SyncCarry, SyncHeld, SyncsOf, SyncersOf
<1>0. Sync!AskIfStopped => syncs'.pending = syncs.pending /\ syncs'.record.adds = syncs.record.adds
  BY AskedSync DEF Sync!AskIfStopped
<1>1. CASE Sync!TakeNextSync
  <2>1. CASE syncs.armed
    <3> DEFINE taken == Sync!SyncRun(syncs.pending, syncs.requested, "syncing")
    <3>0. taken.adds = syncs.pending /\ [taken EXCEPT !.stop = "asked"].adds = syncs.pending
      BY DEF Sync!SyncRun, Sync!NoSync
    <3>3. /\ syncs'.pending = {} /\ syncs'.record \in {taken, [taken EXCEPT !.stop = "asked"]}
          /\ syncer'.at = "start" /\ syncer'.adds = taken.adds
      BY <1>1, <2>1 DEF Sync!TakeNextSync, Sync!NoSyncer
    <3> HIDE DEF taken
    <3>1. /\ syncs'.pending = {} /\ syncs'.record.adds = syncs.pending
          /\ syncer'.at = "start" /\ syncer'.adds = syncs.pending
      BY <3>0, <3>3
    <3>2. syncer.adds = {}
      BY <1>1 DEF Sync!TakeNextSync, Sync!At
    <3> QED BY <3>1, <3>2
  <2>2. CASE ~syncs.armed
    <3>1. syncs.pending = {} /\ syncs'.pending = {} /\ syncer.adds = {}
      BY <1>1, <2>2 DEF Sync!TakeNextSync, Sync!At, SyncFlow
    <3>2. syncer'.at = "off" /\ syncer'.adds = {}
      BY <1>1, <2>2 DEF Sync!TakeNextSync, Sync!NoSyncer
    <3> QED BY <3>1, <3>2
  <2> QED BY <2>1, <2>2
<1>2. CASE Sync!StartSync
  BY <1>0, <1>2 DEF Sync!StartSync, Sync!At, Sync!Go
<1>3. CASE Sync!TurnOfSync
  <2>1. syncer.adds \subseteq syncs.record.adds
    BY <1>3 DEF Sync!TurnOfSync, Sync!At
  <2>2. /\ syncer'.at = "absorbed" /\ syncer'.adds = syncs'.record.adds
    BY <1>3 DEF Sync!TurnOfSync
  <2>3. CASE syncs.armed
    <3>1. syncs'.record.adds = syncs.record.adds \cup syncs.pending
      BY <1>3, <2>3 DEF Sync!TurnOfSync, Sync!Absorbed, RunsOf
    <3> QED BY <2>1, <2>2, <3>1
  <2>4. CASE ~syncs.armed
    <3>1. syncs' = syncs
      BY <1>3, <2>4 DEF Sync!TurnOfSync
    <3> QED BY <2>1, <2>2, <3>1
  <2> QED BY <2>3, <2>4
<1>4. CASE Sync!KeysOfSync
  <2>1. /\ Sync!AskIfStopped /\ syncer'.at \in {"ending", "cut", "walk"}
        /\ syncer'.adds = syncer.adds
    BY <1>4 DEF Sync!KeysOfSync
  <2> QED BY <1>0, <2>1
<1>5. CASE Sync!WalkSync
  BY <1>5 DEF Sync!WalkSync
<1>6. CASE Sync!BeginCommitOfSync
  <2>1. syncer'.at \in {"ending", "committing"} /\ syncer'.adds = syncer.adds
          /\ syncs'.pending = syncs.pending
    BY <1>6 DEF Sync!BeginCommitOfSync, Sync!EndsAs, Sync!Go
  <2> QED BY <2>1
<1>7. CASE Sync!CommitSync
  <2>1. syncer'.at = "ending" /\ syncer'.adds = syncer.adds /\ syncs' = syncs
    BY <1>7 DEF Sync!CommitSync, Sync!EndsAs
  <2> QED BY <2>1
<1>8. CASE Sync!FailSync
  BY <1>8 DEF Sync!FailSync, Sync!EndsAs
<1>9. CASE Sync!CutSync
  BY <1>9 DEF Sync!CutSync
<1>10. CASE Sync!EndSync
  <2>1. \A x \in syncer.adds : reg'[x] = "ended"
    BY <1>10 DEF Sync!EndSync, Sync!EndAdds
  <2>2. syncer'.at = "publish" /\ syncer'.adds = syncer.adds /\ syncs' = syncs
    BY <1>10 DEF Sync!EndSync, Sync!Go
  <2> QED BY <2>1, <2>2 DEF EndedAll
<1>11. CASE Sync!PublishSync
  <2>1. syncs'.pending = syncs.pending /\ reg' = reg /\ syncer.at = "publish"
    BY <1>11 DEF Sync!PublishSync, Sync!At
  <2>2. CASE syncer.status = "cancelled"
    BY <1>11, <2>1, <2>2 DEF Sync!PublishSync, Sync!Go
  <2>3. CASE syncer.status # "cancelled"
    <3>1. syncer'.at = "next" /\ syncer'.adds = {}
      BY <1>11, <2>3 DEF Sync!PublishSync, Sync!NoSyncer
    <3> QED BY <2>1, <2>3, <3>1 DEF EndedAll
  <2> QED BY <2>2, <2>3
<1>12. CASE Sync!StoppedOfSync
  BY <1>12 DEF Sync!StoppedOfSync
<1>13. CASE Sync!UndoOfSync
  <2>1. syncs' = syncs
    BY <1>13 DEF Sync!UndoOfSync
  <2>2. ASSUME NEW x \in syncer.undo, Sync!Undo(x),
               syncer' = [syncer EXCEPT !.undo = @ \ {x}, !.adds = @ \ {x}]
        PROVE  /\ SyncCarry'
               /\ \A y \in SyncHeld : y \in SyncHeld' \/ reg'[y] = "ended"
    <3>1. reg'[x] = "ended"
      BY <2>2 DEF Sync!Undo, Sync!EndAdds
    <3>2. syncer'.at = syncer.at /\ syncer'.adds = syncer.adds \ {x}
      BY <2>2
    <3>3. syncer.at = "undo"
      BY <1>13 DEF Sync!UndoOfSync, Sync!At
    <3> QED BY <2>1, <3>1, <3>2, <3>3
  <2>3. CASE syncer' = [syncer EXCEPT !.at = "publish", !.status = "cancelled"]
    BY <2>1, <2>3
  <2> QED BY <1>13, <2>2, <2>3 DEF Sync!UndoOfSync
<1>14. CASE Sync!RearmSync
  <2>1. syncer'.at = "next" /\ syncer'.adds = {}
    BY <1>14 DEF Sync!RearmSync, Sync!NoSyncer
  <2>2. syncs'.pending = syncs.pending \cup syncer.adds
    BY <1>14 DEF Sync!RearmSync
  <2> QED BY <2>1, <2>2
<1> QED BY <1>1, <1>2, <1>3, <1>4, <1>5, <1>6, <1>7, <1>8, <1>9, <1>10, <1>11, <1>12, <1>13,
           <1>14 DEF Sync!SyncStep

-----------------------------------------------------------------------------
(* The freezes *)

\* A run that undoes what was stopped, and then arms the rest again.
Cancels(w) == w.at \in {"undo", "rearm"} \/ (w.at = "publish" /\ w.status = "cancelled")
FreezeHeld == AddsOf(freezes.waiting) \cup freezer.book.adds \cup freezer.rest.adds

\* A freeze has the adds of its book until it ended them, or until what it is
\* to arm again has those nobody stopped.
FreezeCarry ==
  /\ freezer.at \in {"off", "next"} => freezer.book.adds = {}
  /\ ~Cancels(freezer) => freezer.rest.adds = {}
  /\ freezer.at = "publish" /\ ~Cancels(freezer) => EndedAll(freezer.book.adds)
  /\ Cancels(freezer) =>
       EndedAll(freezer.book.adds \ (freezer.rest.adds \cup freezer.undo))
  /\ freezer.at # "undo" => freezer.undo = {}

\* What leaves the line is at its head.
LEMMA HeadOfLine ==
  ASSUME NEW X, NEW s \in Seq(BooksOf(X)), s # <<>>
  PROVE  AddsOf(s) = Head(s).adds \cup AddsOf(Tail(s))
<1>1. Len(s) \in Nat /\ Len(s) # 0 /\ Head(s) = s[1]
  BY EmptySeq, LenProperties, HeadTailProperties
<1>2. Len(Tail(s)) = Len(s) - 1 /\ \A i \in 1 .. Len(Tail(s)) : Tail(s)[i] = s[i + 1]
  BY HeadTailProperties
<1>3. ASSUME NEW x \in AddsOf(s) PROVE x \in Head(s).adds \cup AddsOf(Tail(s))
  <2>1. PICK i \in 1 .. Len(s) : x \in s[i].adds
    BY <1>3 DEF AddsOf
  <2>2. CASE i = 1
    BY <1>1, <2>1, <2>2
  <2>3. CASE i # 1
    <3>1. i - 1 \in 1 .. Len(Tail(s)) /\ Tail(s)[i - 1] = s[i]
      BY <1>1, <1>2, <2>3
    <3> QED BY <2>1, <3>1 DEF AddsOf
  <2> QED BY <2>2, <2>3
<1>4. ASSUME NEW x \in AddsOf(Tail(s)) PROVE x \in AddsOf(s)
  <2>1. PICK i \in 1 .. Len(Tail(s)) : x \in Tail(s)[i].adds
    BY <1>4 DEF AddsOf
  <2>2. i + 1 \in 1 .. Len(s) /\ Tail(s)[i] = s[i + 1]
    BY <1>1, <1>2
  <2> QED BY <2>1, <2>2 DEF AddsOf
<1>5. Head(s).adds \subseteq AddsOf(s)
  BY <1>1 DEF AddsOf
<1> QED BY <1>3, <1>4, <1>5

LEMMA RearmCarries ==
  ASSUME Freeze!RearmFreeze, NEW X, freezes \in FreezesOf(X), freezer \in FreezersOf(X),
         OneEach(freezes.waiting)
  PROVE  /\ AddsOf(freezes.waiting) \subseteq AddsOf(freezes'.waiting)
         /\ freezer.rest.adds \subseteq AddsOf(freezes'.waiting)
<1> DEFINE b == freezer.rest
           f == b.folder
           K == {b} \cup Freeze!Kept(freezes, f)
           kept == Freeze!Joined(K)
           q == [freezes EXCEPT !.discarded = {c \in @ : c.folder # f},
                                !.displaced = {c \in @ : c.folder # f}]
           W == Freeze!WaitingAt(q, f)
           At(i) == [q EXCEPT !.waiting[i] = Freeze!Joined({@, kept})]
<1>1. b \in BooksOf(X) /\ freezes.waiting \in Seq(BooksOf(X))
  BY DEF FreezersOf, FreezesOf
<1>2. kept \in BooksOf(X) /\ kept.folder = f /\ b.adds \subseteq kept.adds
  <2>1. K \subseteq BooksOf(X) /\ (\A c \in K : c.folder = f) /\ K # {} /\ b \in K
    BY <1>1, KeptBooks
  <2> HIDE DEF K
  <2>2. kept.adds = UNION {c.adds : c \in K}
    BY <2>1, JoinedIsBook
  <2> QED BY <2>1, <2>2, JoinedIsBook
<1>3. q \in FreezesOf(X) /\ q.waiting = freezes.waiting
  BY DEF FreezesOf
<1>4. \/ b.adds = {} /\ freezes' = freezes
      \/ \E i \in W : freezes' = At(i)
      \/ W = {} /\ freezes' = [q EXCEPT !.waiting = Append(@, kept)]
  <2>1. W # {} => (CHOOSE i \in W : TRUE) \in W
    OBVIOUS
  <2> QED BY <2>1 DEF Freeze!RearmFreeze, Freeze!OwesNothing
<1> HIDE DEF kept, q, K
<1>5. ASSUME NEW i \in W, freezes' = At(i)
      PROVE  /\ AddsOf(freezes.waiting) \subseteq AddsOf(freezes'.waiting)
             /\ b.adds \subseteq AddsOf(freezes'.waiting)
  <2>1. i \in 1 .. Len(q.waiting) /\ q.waiting[i].folder = f /\ q.waiting[i] \in BooksOf(X)
    BY <1>1, <1>3, ElementOfSeq DEF Freeze!WaitingAt
  <2> DEFINE B == {q.waiting[i], kept}
             c == Freeze!Joined(B)
  <2>2. B \subseteq BooksOf(X) /\ B # {} /\ \A d \in B : d.folder = f
    BY <1>2, <2>1
  <2>3. freezes' = [q EXCEPT !.waiting[i] = c]
    BY <1>5
  <2>4. c.adds = UNION {d.adds : d \in B}
    BY <2>2, JoinedIsBook
  <2>5. q.waiting[i].adds \subseteq c.adds /\ kept.adds \subseteq c.adds
    BY <2>4
  <2> HIDE DEF B
  <2>11. c \in BooksOf(X) /\ c.folder = f
    BY <2>2, JoinedIsBook
  <2> HIDE DEF c
  <2>6. c \in BooksOf(X) /\ c.folder = q.waiting[i].folder
    BY <2>1, <2>11
  <2>7. OneEach(q.waiting)
    BY <1>3
  <2>12. freezes' = Changed(q, i, c)
    BY <2>3 DEF Changed
  <2>8. AddsOf(q.waiting) \subseteq AddsOf(freezes'.waiting)
    BY <1>3, <2>1, <2>5, <2>6, <2>7, <2>12, WaitingChanged
  <2>9. freezes'.waiting = [q.waiting EXCEPT ![i] = c]
    BY <1>3, <2>3 DEF FreezesOf
  <2>10. i \in 1 .. Len(freezes'.waiting) /\ freezes'.waiting[i] = c
    BY <1>1, <1>3, <2>1, <2>6, <2>9, ExceptSeq
  <2> QED BY <1>2, <1>3, <2>5, <2>8, <2>10 DEF AddsOf
<1>6. ASSUME freezes' = [q EXCEPT !.waiting = Append(@, kept)]
      PROVE  /\ AddsOf(freezes.waiting) \subseteq AddsOf(freezes'.waiting)
             /\ b.adds \subseteq AddsOf(freezes'.waiting)
  <2> DEFINE w == Append(freezes.waiting, kept)
  <2>1. Len(freezes.waiting) \in Nat
    BY <1>1, LenProperties
  <2>2. /\ Len(w) = Len(freezes.waiting) + 1 /\ w[Len(freezes.waiting) + 1] = kept
        /\ \A i \in 1 .. Len(freezes.waiting) : w[i] = freezes.waiting[i]
    BY <1>1, <1>2, AppendProperties
  <2>3. freezes' = [q EXCEPT !.waiting = w]
    BY <1>3, <1>6
  <2> HIDE DEF w
  <2>4. freezes'.waiting = w
    BY <1>3, <2>3 DEF FreezesOf
  <2>5. AddsOf(freezes.waiting) \subseteq AddsOf(w)
    BY <2>1, <2>2 DEF AddsOf
  <2>6. kept.adds \subseteq AddsOf(w)
    BY <2>1, <2>2 DEF AddsOf
  <2> QED BY <1>2, <2>4, <2>5, <2>6
<1> QED BY <1>4, <1>5, <1>6

LEMMA FreezeCarries ==
  ASSUME Freeze!FreezeStep, AddInv, FreezeFlow, FreezeCarry, NEW X \in SUBSET Adds,
         freezes \in FreezesOf(X), freezer \in FreezersOf(X)
  PROVE  /\ FreezeCarry'
         /\ \A x \in FreezeHeld : x \in FreezeHeld' \/ reg'[x] = "ended"
<1> USE DEF FreezeCarry, FreezeHeld, Cancels
<1>0. /\ freezer.book \in BooksOf(X) /\ freezer.rest \in BooksOf(X) /\ freezer.undo \subseteq X
      /\ freezes.waiting \in Seq(BooksOf(X)) /\ OneEach(freezes.waiting)
  BY DEF FreezersOf, FreezesOf, FreezeFlow
<1>1. /\ Freeze!NoFreezer.book.adds = {} /\ Freeze!NoFreezer.rest.adds = {}
      /\ Freeze!NoFreezer.undo = {} /\ Freeze!NoFreezer.at = "off"
      /\ [Freeze!NoFreezer EXCEPT !.at = "next"].book.adds = {}
      /\ [Freeze!NoFreezer EXCEPT !.at = "next"].rest.adds = {}
      /\ [Freeze!NoFreezer EXCEPT !.at = "next"].undo = {}
      /\ [Freeze!NoFreezer EXCEPT !.at = "next"].at = "next"
  BY DEF Freeze!NoFreezer, Freeze!NoBook
\* A stage of a run that neither ends nor cancels.
<1>2. ASSUME AddsOf(freezes.waiting) \subseteq AddsOf(freezes'.waiting),
             freezer.at \notin {"off", "next"}, ~Cancels(freezer), freezer.at # "publish",
             freezer'.at \notin {"off", "next", "undo", "publish", "rearm"},
             freezer'.book = freezer.book, freezer'.rest = freezer.rest,
             freezer'.undo = freezer.undo
      PROVE  /\ FreezeCarry'
             /\ \A x \in FreezeHeld : x \in FreezeHeld' \/ reg'[x] = "ended"
  BY <1>2
<1>3. CASE Freeze!TakeNextFreeze
  <2>0. freezer.at = "next" /\ freezer.book.adds = {} /\ freezer.rest.adds = {}
    BY <1>3 DEF Freeze!TakeNextFreeze, Freeze!At
  <2>1. CASE freezes.waiting # <<>>
    <3> DEFINE b == Head(freezes.waiting)
               n == [Freeze!NoFreezer EXCEPT !.at = "start", !.book = b]
    <3>1. freezer' = n
      BY <1>3, <2>1 DEF Freeze!TakeNextFreeze
    <3>2. n.at = "start" /\ n.book = b /\ n.rest.adds = {} /\ n.undo = {}
      BY DEF Freeze!NoFreezer, Freeze!NoBook
    <3>3. freezes'.waiting = Tail(freezes.waiting)
      BY <1>3, <2>1 DEF Freeze!TakeNextFreeze, FreezesOf
    <3>4. AddsOf(freezes.waiting) = b.adds \cup AddsOf(Tail(freezes.waiting))
      BY <1>0, <2>1, HeadOfLine
    <3> HIDE DEF n, b
    <3> QED BY <2>0, <3>1, <3>2, <3>3, <3>4
  <2>2. CASE freezes.waiting = <<>>
    <3>1. freezer' = Freeze!NoFreezer
      BY <1>3, <2>2 DEF Freeze!TakeNextFreeze
    <3>2. AddsOf(freezes.waiting) = {}
      BY <2>2 DEF AddsOf
    <3> QED BY <1>1, <2>0, <3>1, <3>2
  <2> QED BY <2>1, <2>2
<1>4. CASE Freeze!StartFreeze
  <2>1. freezer.at = "start" /\ freezer' = [freezer EXCEPT !.at = "turn"]
    BY <1>4 DEF Freeze!StartFreeze, Freeze!At, Freeze!Go
  <2>2. freezes' = freezes \/ freezes' = Freeze!Asked(freezes)
    BY <1>4 DEF Freeze!StartFreeze
  <2>3. AddsOf(freezes.waiting) \subseteq AddsOf(freezes'.waiting)
    BY <1>0, <2>2, AskedKeeps
  <2>4. /\ freezer'.at = "turn" /\ freezer'.book = freezer.book
        /\ freezer'.rest = freezer.rest /\ freezer'.undo = freezer.undo
    BY <2>1 DEF FreezersOf
  <2> QED BY <1>2, <2>1, <2>3, <2>4
<1>5. CASE Freeze!KeysOfFreeze \/ Freeze!WalkFreeze \/ Freeze!FailFreeze \/ Freeze!CutFreeze
  <2>1. freezer.at \in {"turn", "walk", "walked", "committing"} /\ freezes' = freezes
    BY <1>5 DEF Freeze!KeysOfFreeze, Freeze!WalkFreeze, Freeze!FailFreeze, Freeze!CutFreeze, Freeze!At
  <2>2. /\ freezer'.at \in {"ending", "cut", "walk", "walked"} /\ freezer'.book = freezer.book
        /\ freezer'.rest = freezer.rest /\ freezer'.undo = freezer.undo
    BY <1>5 DEF Freeze!KeysOfFreeze, Freeze!WalkFreeze, Freeze!FailFreeze, Freeze!CutFreeze,
                Freeze!Go, Freeze!EndsAs, FreezersOf
  <2> QED BY <1>2, <2>1, <2>2
<1>6. CASE Freeze!BeginCommitOfFreeze \/ Freeze!CommitFreeze
  <2>1. freezer.at \in {"walked", "committing"}
    BY <1>6 DEF Freeze!BeginCommitOfFreeze, Freeze!CommitFreeze, Freeze!At
  <2>2. freezes'.waiting = freezes.waiting
    BY <1>6 DEF Freeze!BeginCommitOfFreeze, Freeze!CommitFreeze, FreezesOf
  <2>3. /\ freezer'.at \in {"ending", "committing"} /\ freezer'.book = freezer.book
        /\ freezer'.rest = freezer.rest /\ freezer'.undo = freezer.undo
    BY <1>6 DEF Freeze!BeginCommitOfFreeze, Freeze!CommitFreeze, Freeze!Go, Freeze!EndsAs, FreezersOf
  <2> QED BY <1>2, <2>1, <2>2, <2>3
<1>7. CASE Freeze!EndFreeze
  <2>1. freezer.at = "ending" /\ \A x \in freezer.book.adds : reg'[x] = "ended"
    BY <1>0, <1>7 DEF Freeze!EndFreeze, Freeze!EndAdds, Freeze!At, BooksOf
  <2>2. freezes' = freezes /\ freezer' = [freezer EXCEPT !.at = "publish"]
    BY <1>7 DEF Freeze!EndFreeze, Freeze!Go
  <2>3. /\ freezer'.at = "publish" /\ freezer'.book = freezer.book
        /\ freezer'.rest = freezer.rest /\ freezer'.undo = freezer.undo
    BY <2>2 DEF FreezersOf
  <2> QED BY <2>1, <2>2, <2>3 DEF EndedAll
<1>8. CASE Freeze!PublishFreeze
  <2>1. freezer.at = "publish" /\ reg' = reg
    BY <1>8 DEF Freeze!PublishFreeze, Freeze!At
  <2>2. freezes'.waiting = freezes.waiting
    BY <1>8 DEF Freeze!PublishFreeze, FreezesOf
  <2>3. CASE freezer.status = "cancelled"
    <3>1. freezer' = [freezer EXCEPT !.at = "rearm"]
      BY <1>8, <2>3 DEF Freeze!PublishFreeze, Freeze!Go
    <3>2. /\ freezer'.at = "rearm" /\ freezer'.book = freezer.book
          /\ freezer'.rest = freezer.rest /\ freezer'.undo = freezer.undo
      BY <3>1 DEF FreezersOf
    <3> QED BY <2>1, <2>2, <2>3, <3>2 DEF EndedAll
  <2>4. CASE freezer.status # "cancelled"
    <3>1. freezer' = [Freeze!NoFreezer EXCEPT !.at = "next"]
      BY <1>8, <2>4 DEF Freeze!PublishFreeze
    <3> QED BY <1>1, <2>1, <2>2, <2>4, <3>1 DEF EndedAll
  <2> QED BY <2>3, <2>4
<1>9. CASE Freeze!StoppedOfFreeze
  <2> DEFINE S == Freeze!StoppingOf(freezer.book.adds)
             r == [freezer.book EXCEPT !.adds = @ \ S]
  <2>1. freezer.at = "cut" /\ freezes' = freezes
          /\ freezer' = [freezer EXCEPT !.at = "undo", !.undo = S, !.rest = r]
    BY <1>9 DEF Freeze!StoppedOfFreeze, Freeze!At
  <2>2. r.adds = freezer.book.adds \ S
    BY <1>0 DEF BooksOf
  <2>3. /\ freezer'.at = "undo" /\ freezer'.book = freezer.book
        /\ freezer'.rest = r /\ freezer'.undo = S
    <3> HIDE DEF S, r
    <3> QED BY <2>1 DEF FreezersOf
  <2> HIDE DEF S, r
  <2> QED BY <2>1, <2>2, <2>3 DEF EndedAll
<1>10. CASE Freeze!UndoOfFreeze
  <2>1. freezes' = freezes /\ freezer.at = "undo"
    BY <1>10 DEF Freeze!UndoOfFreeze, Freeze!At
  <2>2. ASSUME NEW x \in freezer.undo, Freeze!Undo(x),
               freezer' = [freezer EXCEPT !.undo = @ \ {x}, !.rest.only = @ \ {x}]
        PROVE  /\ FreezeCarry'
               /\ \A y \in FreezeHeld : y \in FreezeHeld' \/ reg'[y] = "ended"
    <3>1. reg' = [y \in Adds |-> IF y \in {x} THEN "ended" ELSE reg[y]]
      BY <2>2 DEF Freeze!Undo, Freeze!EndAdds
    <3>2. /\ freezer'.at = "undo" /\ freezer'.book = freezer.book
          /\ freezer'.rest.adds = freezer.rest.adds /\ freezer'.undo = freezer.undo \ {x}
      BY <1>0, <2>1, <2>2 DEF FreezersOf, BooksOf
    <3>3. freezer.book.adds \subseteq Adds
      BY <1>0 DEF BooksOf
    <3>4. EndedAll(freezer.book.adds \ (freezer.rest.adds \cup freezer.undo))
      BY <2>1
    <3>5. \A y \in freezer'.book.adds \ (freezer'.rest.adds \cup freezer'.undo) : reg'[y] = "ended"
      BY <3>1, <3>2, <3>3, <3>4 DEF EndedAll
    <3> QED BY <2>1, <3>2, <3>5 DEF EndedAll
  <2>3. ASSUME freezer.undo = {},
               freezer' = [freezer EXCEPT !.at = "publish", !.status = "cancelled",
                             !.rest.requested = freezes.current.requested,
                             !.rest.withdrawn = FALSE],
               reg' = reg
        PROVE  /\ FreezeCarry'
               /\ \A y \in FreezeHeld : y \in FreezeHeld' \/ reg'[y] = "ended"
    <3>1. /\ freezer'.at = "publish" /\ freezer'.book = freezer.book /\ freezer'.status = "cancelled"
          /\ freezer'.rest.adds = freezer.rest.adds /\ freezer'.undo = freezer.undo
      BY <1>0, <2>3 DEF FreezersOf, BooksOf
    <3> QED BY <2>1, <2>3, <3>1 DEF EndedAll
  <2> QED BY <1>10, <2>2, <2>3 DEF Freeze!UndoOfFreeze
<1>11. CASE Freeze!RearmFreeze
  <2>1. freezer.at = "rearm" /\ freezer' = [Freeze!NoFreezer EXCEPT !.at = "next"] /\ reg' = reg
    BY <1>11 DEF Freeze!RearmFreeze, Freeze!At
  <2>2. /\ AddsOf(freezes.waiting) \subseteq AddsOf(freezes'.waiting)
        /\ freezer.rest.adds \subseteq AddsOf(freezes'.waiting)
    BY <1>0, <1>11, RearmCarries
  <2> QED BY <1>1, <2>1, <2>2 DEF EndedAll
<1> QED BY <1>3, <1>4, <1>5, <1>6, <1>7, <1>8, <1>9, <1>10, <1>11 DEF Freeze!FreezeStep

-----------------------------------------------------------------------------
(* The server *)

\* A request moves its own add alone, and is over only as the add ends.
LEMMA RequestEnds ==
  ASSUME AddInv, NEW y \in Adds, Requested(y)
  PROVE  /\ up[y] \notin {"ask", "done"}
         /\ \A x \in Adds \ {y} : up'[x] = up[x] /\ reg'[x] = reg[x]
         /\ up'[y] \in {"ask", "done"} => reg'[y] = "ended"
<1> USE DEF AddInv, Up, UpOnly, EndAdds
<1>1. CASE BeginAdd(y)
  BY <1>1 DEF BeginAdd
<1>2. CASE WriteUnkept(y)
  BY <1>2 DEF WriteUnkept
<1>3. CASE Land(y)
  BY <1>3 DEF Land
<1>4. CASE Received(y)
  BY <1>4 DEF Received
<1>5. CASE Break(y)
  BY <1>5 DEF Break
<1>6. CASE SeeStop(y)
  BY <1>6 DEF SeeStop
<1>7. CASE ReleaseLive(y)
  BY <1>7 DEF ReleaseLive
<1>8. CASE ArmAdd(y)
  BY <1>8 DEF ArmAdd
<1>9. CASE StopReceiving(y)
  BY <1>9 DEF StopReceiving
<1>10. CASE Undone(y)
  BY <1>10 DEF Undone
<1> QED BY <1>1, <1>2, <1>3, <1>4, <1>5, <1>6, <1>7, <1>8, <1>9, <1>10 DEF Requested, AddStep

\* An add past its request moves in the registry only to its end.
LEMMA HandedEnds ==
  ASSUME ServerInv, [Next]_vars, NEW x \in Handed
  PROVE  reg'[x] = reg[x] \/ reg'[x] = "ended"
<1>1. AddInv /\ stop.adds \subseteq Adds /\ x \in Adds /\ up[x] \in {"ask", "done"}
  BY DEF ServerInv, StopInv, Stops, Handed
<1>2. CASE UNCHANGED adding
  BY <1>2 DEF adding
<1>3. CASE Marking
  BY <1>3 DEF Marking
<1>4. ASSUME NEW y \in Adds, Requested(y) \/ Handing(y)
      PROVE  reg'[x] = reg[x] \/ reg'[x] = "ended"
  BY <1>1, <1>4, RequestEnds DEF Handing
<1>5. CASE Ending(syncer.adds) \/ Ending(freezer.book.adds)
  BY <1>1, <1>5 DEF Ending, EndAdds
<1>6. CASE Undoing(syncer.undo) \/ Undoing(freezer.undo)
  BY <1>1, <1>6 DEF Undoing, Undo, EndAdds
<1>7. CASE Carrying(syncer.read, FALSE) \/ Carrying(freezer.read, TRUE)
  BY <1>7 DEF Carrying
<1> QED BY <1>1, <1>2, <1>3, <1>4, <1>5, <1>6, <1>7, AddMoves DEF AddInv

\* An add gets past its request as it ends, or as it is handed to a run.
LEMMA HandedNewly ==
  ASSUME ServerInv, [Next]_vars, NEW x \in Adds, x \notin Handed, x \in Handed'
  PROVE  reg'[x] = "ended" \/ HandOver(x)
<1>1. AddInv /\ up[x] \notin {"ask", "done"} /\ up'[x] \in {"ask", "done"}
  BY DEF ServerInv, Handed
<1>2. CASE UNCHANGED vars
  BY <1>1, <1>2 DEF vars, shared
<1>3. CASE Sync!SyncStep \/ Sync!PanicSync
  BY <1>1, <1>3, SyncOnAdds DEF adding, Ending, Undoing
<1>4. CASE Freeze!FreezeStep \/ Freeze!PanicFreeze
  BY <1>1, <1>4, FreezeOnAdds DEF adding, Ending, Undoing, Carrying
<1>5. ASSUME NEW y \in Adds,
             AddStep(y) \/ BeginAdd(y) \/ WriteUnkept(y) \/ Land(y) \/ Received(y) \/ Break(y)
      PROVE  reg'[x] = "ended"
  <2>1. Requested(y)
    BY <1>5 DEF Requested
  <2> QED BY <1>1, <2>1, RequestEnds
<1>6. ASSUME NEW y \in Adds, HandOver(y) PROVE HandOver(x)
  <2>1. up' = [up EXCEPT ![y] = IF up[y] = "hand over stopped" THEN "ask" ELSE "done"]
    BY <1>6 DEF HandOver, Up
  <2>2. x = y
    BY <1>1, <2>1 DEF AddInv
  <2> QED BY <1>6, <2>2
<1>7. ASSUME NEW y \in Adds, AskForStopped(y) PROVE FALSE
  <2>1. up[y] = "ask" /\ up' = [up EXCEPT ![y] = "done"]
    BY <1>7 DEF AskForStopped, Up
  <2> QED BY <1>1, <2>1 DEF AddInv
<1>8. CASE StopStep
  <2>1. UNCHANGED up
    BY <1>8 DEF StopStep, StopMarks, StopCarries, StopAsks, StopBook, StopCancels, Requests
  <2> QED BY <1>1, <2>1
<1>9. CASE \/ \E y \in Adds : Resume(y) \/ StopAdd(y)
           \/ \E f \in Folders : StopQueued(f) \/ Freeze!AskPack(f)
           \/ StopSync \/ StopFreeze \/ RequestSync \/ FindQuiet \/ Lock \/ Unlock
  <2>1. UNCHANGED up
    BY <1>9 DEF Resume, Requests, StopAdd, StopQueued, Freeze!AskPack, StopSync, StopFreeze,
       BeginStop, RequestSync, FindQuiet, Lock, Unlock
  <2> QED BY <1>1, <2>1
<1> QED BY <1>2, <1>3, <1>4, <1>5, <1>6, <1>7, <1>8, <1>9 DEF Next, Serve, Comes

LEMMA SyncHolds ==
  ASSUME ServerInv, SyncCarry, Calm, [Next]_vars
  PROVE  /\ SyncCarry'
         /\ \A x \in SyncHeld : x \in SyncHeld' \/ reg'[x] = "ended"
<1>1. /\ AddInv /\ SyncFlow /\ syncs \in SyncsOf(Handed) /\ syncer \in SyncersOf(Handed)
      /\ syncer.adds \subseteq Handed /\ Handed \in SUBSET Adds
  BY DEF ServerInv, SyncInv, SyncersOf, Handed
\* A run that ended its adds has ended them whoever moves.
<1>2. ASSUME EndedAll(syncer.adds) PROVE \A x \in syncer.adds : reg'[x] = "ended"
  BY <1>1, <1>2, HandedEnds DEF EndedAll
<1>3. CASE UNCHANGED synced
  BY <1>2, <1>3 DEF synced, SyncHeld, SyncCarry, EndedAll
<1>4. ASSUME NEW Y \in SUBSET Handed', NEW asked \in BOOLEAN, Sync!ArmSync(Y, asked)
      PROVE  /\ SyncCarry'
             /\ \A x \in SyncHeld : x \in SyncHeld' \/ reg'[x] = "ended"
  <2>1. syncs'.pending = syncs.pending \cup Y
    BY <1>1, <1>4 DEF Sync!ArmSync, SyncsOf
  <2>2. CASE syncs.working
    <3>1. syncer' = syncer
      BY <1>4, <2>2 DEF Sync!ArmSync
    <3>2. syncs'.record = syncs.record
      BY <1>1, <1>4, <2>2 DEF Sync!ArmSync, SyncsOf
    <3> QED BY <1>2, <2>1, <3>1, <3>2 DEF SyncHeld, SyncCarry, EndedAll
  <2>3. CASE ~syncs.working
    <3>1. syncer'.at = "next" /\ syncer'.adds = {}
      BY <1>4, <2>3 DEF Sync!ArmSync, Sync!NoSyncer
    <3>2. syncer.adds = {}
      BY <1>1, <2>3 DEF SyncFlow, SyncCarry
    <3> QED BY <2>1, <3>1, <3>2 DEF SyncHeld, SyncCarry
  <2> QED BY <2>2, <2>3
<1>5. CASE Sync!AskSync /\ UNCHANGED syncer
  <2>1. syncs'.pending = syncs.pending /\ syncs'.record.adds = syncs.record.adds
    BY <1>1, <1>5, AskedSync
  <2> QED BY <1>2, <1>5, <2>1 DEF SyncHeld, SyncCarry, EndedAll
<1>6. CASE Sync!SyncStep
  BY <1>1, <1>6, SyncCarries
<1>7. ~Sync!PanicSync
  BY StaysCalm
<1> QED BY <1>1, <1>3, <1>4, <1>5, <1>6, <1>7, SyncMoves

LEMMA FreezeHolds ==
  ASSUME ServerInv, FreezeCarry, Calm, [Next]_vars
  PROVE  /\ FreezeCarry'
         /\ \A x \in FreezeHeld : x \in FreezeHeld' \/ reg'[x] = "ended"
<1> DEFINE H == Handed'
<1>1. /\ AddInv /\ FreezeFlow /\ FreezeInv /\ stop.adds \subseteq Adds
      /\ freezer.book.adds \subseteq Handed /\ Handed \in SUBSET Adds
      /\ H \in SUBSET Adds /\ Handed \subseteq H
  BY HandedKept DEF ServerInv, FreezeInv, FreezersOf, BooksOf, Handed, StopInv, Stops
<1>2. /\ freezes \in FreezesOf(Handed) /\ freezer \in FreezersOf(Handed)
      /\ freezes \in FreezesOf(H) /\ freezer \in FreezersOf(H)
  BY <1>1, ShapesGrow DEF FreezeInv
<1> HIDE DEF H
\* The books of a run that stands still end no other way.
<1>3. ASSUME UNCHANGED freezer, AddsOf(freezes.waiting) \subseteq AddsOf(freezes'.waiting)
      PROVE  /\ FreezeCarry'
             /\ \A x \in FreezeHeld : x \in FreezeHeld' \/ reg'[x] = "ended"
  <2>1. ASSUME NEW Y, EndedAll(freezer.book.adds \ Y)
        PROVE  \A x \in freezer.book.adds \ Y : reg'[x] = "ended"
    BY <1>1, <2>1, HandedEnds DEF EndedAll
  <2>2. EndedAll(freezer.book.adds) => \A x \in freezer.book.adds : reg'[x] = "ended"
    BY <1>1, HandedEnds DEF EndedAll
  <2> QED BY <1>3, <2>1, <2>2 DEF FreezeHeld, FreezeCarry, Cancels, EndedAll
<1>4. ASSUME NEW a \in BooksOf(H), NEW j \in BOOLEAN, Freeze!Arm(a, j)
      PROVE  /\ FreezeCarry'
             /\ \A x \in FreezeHeld : x \in FreezeHeld' \/ reg'[x] = "ended"
  <2>1. OneEach(freezes.waiting)
    BY <1>1 DEF FreezeFlow
  <2>2. /\ freezes.working => freezer' = freezer
        /\ ~freezes.working /\ freezes.waiting = <<>> =>
             freezer' = freezer \/ freezer' = [Freeze!NoFreezer EXCEPT !.at = "next"]
        /\ AddsOf(freezes.waiting) \subseteq AddsOf(freezes'.waiting)
    BY <1>2, <1>4, <2>1, ArmKeeps
  <2>3. CASE freezer' = freezer
    BY <1>3, <2>2, <2>3
  <2>4. CASE freezer' = [Freeze!NoFreezer EXCEPT !.at = "next"] /\ ~freezes.working
    <3>1. freezer.at = "off"
      BY <1>1, <2>4 DEF FreezeFlow
    <3>2. freezer.book.adds = {} /\ freezer.rest.adds = {}
      BY <3>1 DEF FreezeCarry, Cancels
    <3>3. /\ freezer'.at = "next" /\ freezer'.book.adds = {} /\ freezer'.rest.adds = {}
          /\ freezer'.undo = {}
      BY <2>4 DEF Freeze!NoFreezer, Freeze!NoBook
    <3> QED BY <2>2, <3>2, <3>3 DEF FreezeHeld, FreezeCarry, Cancels
  <2>5. ~freezes.working => freezes.waiting = <<>>
    BY <1>1 DEF FreezeFlow
  <2> QED BY <2>2, <2>3, <2>4, <2>5
<1>5. CASE freezes' \in {Freeze!Asked(freezes), Freeze!AskedWhole(freezes)} /\ UNCHANGED freezer
  <2>1. AddsOf(freezes.waiting) \subseteq AddsOf(freezes'.waiting)
    BY <1>1, <1>2, <1>5, AskedKeeps DEF FreezeFlow
  <2> QED BY <1>3, <1>5, <2>1
<1>6. CASE BookStopped /\ UNCHANGED freezer
  <2>1. AddsOf(freezes.waiting) \subseteq AddsOf(freezes'.waiting)
    <3>1. freezes.waiting \in Seq(BooksOf(H)) /\ OneEach(freezes.waiting)
      BY <1>1, <1>2 DEF FreezesOf, FreezeFlow
    <3>2. PICK i \in 1 .. Len(freezes.waiting) :
            \/ freezes' = [freezes EXCEPT !.waiting[i] = Emptied(@)]
            \/ freezes.waiting[i].adds = {} /\ freezes' = [freezes EXCEPT !.waiting = RemoveAt(@, i)]
      BY <1>6 DEF BookStopped
    <3>3. freezes.waiting[i] \in BooksOf(H)
      BY <3>1, ElementOfSeq
    <3>4. ASSUME freezes' = [freezes EXCEPT !.waiting[i] = Emptied(@)]
          PROVE  AddsOf(freezes.waiting) \subseteq AddsOf(freezes'.waiting)
      <4> DEFINE c == Emptied(freezes.waiting[i])
                 w == Freeze!Withdrawn(freezes.waiting[i])
      <4>1. w \in BooksOf(H) /\ w.folder = freezes.waiting[i].folder
              /\ w.adds = freezes.waiting[i].adds
        BY <3>3, BooksMade
      <4>2. c = [w EXCEPT !.whole = FALSE, !.only = {}]
        BY DEF Emptied
      <4> HIDE DEF w
      <4>3. c \in BooksOf(H) /\ c.folder = freezes.waiting[i].folder
              /\ c.adds = freezes.waiting[i].adds
        BY <4>1, <4>2 DEF BooksOf
      <4>4. freezes' = Changed(freezes, i, c)
        BY <3>4 DEF Changed
      <4> HIDE DEF c
      <4>5. OneEach(freezes.waiting)
        BY <3>1
      <4> QED BY <1>2, <4>3, <4>4, <4>5, WaitingChanged
    <3>5. ASSUME freezes.waiting[i].adds = {}, freezes' = [freezes EXCEPT !.waiting = RemoveAt(@, i)]
          PROVE  AddsOf(freezes.waiting) \subseteq AddsOf(freezes'.waiting)
      <4> DEFINE w == RemoveAt(freezes.waiting, i)
      <4>1. /\ Len(w) = Len(freezes.waiting) - 1
            /\ \A k \in 1 .. Len(freezes.waiting) - 1 :
                 w[k] = IF k < i THEN freezes.waiting[k] ELSE freezes.waiting[k + 1]
        BY <3>1, RemovedAt
      <4>2. Len(freezes.waiting) \in Nat
        BY <3>1, LenProperties
      <4>3. freezes' = [freezes EXCEPT !.waiting = w]
        BY <3>5
      <4> HIDE DEF w
      <4>4. freezes'.waiting = w
        BY <1>2, <4>3 DEF FreezesOf
      <4>5. ASSUME NEW k \in 1 .. Len(freezes.waiting), k # i
            PROVE  \E m \in 1 .. Len(w) : w[m] = freezes.waiting[k]
        <5>1. CASE k < i
          BY <4>1, <4>2, <5>1
        <5>2. CASE k > i
          <6>1. k - 1 \in 1 .. Len(freezes.waiting) - 1 /\ ~(k - 1 < i) /\ (k - 1) + 1 = k
            BY <4>2, <5>2
          <6> QED BY <4>1, <6>1
        <5> QED BY <4>2, <4>5, <5>1, <5>2
      <4> QED BY <3>5, <4>4, <4>5 DEF AddsOf
    <3> QED BY <3>2, <3>4, <3>5
  <2> QED BY <1>3, <1>6, <2>1
<1>7. CASE UNCHANGED <<freezes, freezer>>
  BY <1>3, <1>7
<1>8. CASE Freeze!FreezeStep
  BY <1>1, <1>2, <1>8, FreezeCarries
<1>9. ~Freeze!PanicFreeze
  BY StaysCalm
<1>10. H = Handed'
  BY DEF H
<1> QED BY <1>1, <1>4, <1>5, <1>6, <1>7, <1>8, <1>9, <1>10, FreezeMoves

\* While no worker panics, what is armed is with a flow.
CarryInv ==
  setup.panics = 0 =>
    /\ Calm /\ SyncCarry /\ FreezeCarry
    /\ \A x \in Handed : reg[x] = "armed" => x \in SyncHeld \cup FreezeHeld

LEMMA CarryInvKept ==
  ASSUME ServerInv, CarryInv, [Next]_vars
  PROVE  CarryInv'
<1>1. AddInv /\ stop.adds \subseteq Adds
  BY DEF ServerInv, StopInv, Stops
<1>2. setup' = setup
  BY <1>1, AddMoves DEF adding, Marking, Requested, Handing, AddStep, BeginAdd, WriteUnkept, Land,
     Received, Break, SeeStop, ReleaseLive, ArmAdd, StopReceiving, Undone, UpOnly, Ending, Undoing,
     Carrying, AddInv
<1> SUFFICES ASSUME setup.panics = 0 PROVE
       /\ Calm' /\ SyncCarry' /\ FreezeCarry'
       /\ \A x \in Handed' : reg'[x] = "armed" => x \in SyncHeld' \cup FreezeHeld'
  BY <1>2 DEF CarryInv
<1>3. /\ Calm /\ SyncCarry /\ FreezeCarry
      /\ \A x \in Handed : reg[x] = "armed" => x \in SyncHeld \cup FreezeHeld
  BY DEF CarryInv
<1>4. Calm'
  BY <1>3, StaysCalm
<1>5. /\ SyncCarry'
      /\ \A x \in SyncHeld : x \in SyncHeld' \/ reg'[x] = "ended"
  BY <1>3, SyncHolds
<1>6. /\ FreezeCarry'
      /\ \A x \in FreezeHeld : x \in FreezeHeld' \/ reg'[x] = "ended"
  BY <1>3, FreezeHolds
<1>7. ASSUME NEW x \in Handed', reg'[x] = "armed" PROVE x \in SyncHeld' \cup FreezeHeld'
  <2>1. CASE x \in Handed
    BY <1>3, <1>5, <1>6, <1>7, <2>1, HandedEnds
  <2>2. CASE x \notin Handed
    <3>1. x \in Adds
      BY DEF Handed
    <3>2. HandOver(x)
      BY <1>7, <2>2, <3>1, HandedNewly
    <3>3. CASE Packed(x)
      <4> DEFINE a == Freeze!Dropped(x, {x})
      <4>1. Freeze!Arm(a, FALSE)
        BY <3>2, <3>3 DEF HandOver
      <4>2. PICK H \in SUBSET Adds : H = Handed'
        BY DEF Handed
      <4>3. /\ freezes \in FreezesOf(H) /\ freezer \in FreezersOf(H) /\ OneEach(freezes.waiting)
            /\ {x} \in SUBSET H
        BY <1>1, <4>2, HandedKept, ShapesGrow DEF ServerInv, FreezeInv, FreezeFlow
      <4>4. a \in BooksOf(H) /\ a.adds = {x}
        BY <1>1, <3>1, <4>3, DroppedIsBook
      <4> HIDE DEF a
      <4>5. a.adds \subseteq AddsOf(freezes'.waiting)
        BY <4>1, <4>3, <4>4, ArmKeeps
      <4> QED BY <4>4, <4>5 DEF FreezeHeld
    <3>4. CASE ~Packed(x)
      <4>1. Sync!ArmSync({x}, FALSE)
        BY <3>2, <3>4 DEF HandOver
      <4>2. x \in syncs'.pending
        BY <4>1 DEF Sync!ArmSync, ServerInv, SyncInv, SyncsOf
      <4> QED BY <4>2 DEF SyncHeld
    <3> QED BY <3>3, <3>4
  <2> QED BY <2>1, <2>2
<1> QED BY <1>4, <1>5, <1>6, <1>7

LEMMA InitCarries == ASSUME Init PROVE CarryInv
<1>1. Handed = {}
  BY DEF Init, Handed
<1>2. Calm <=> setup.panics = 0
  BY DEF Init, Calm
<1>3. SyncCarry
  BY DEF Init, SyncCarry, Sync!NoSyncer
<1>4. FreezeCarry
  BY DEF Init, FreezeCarry, Cancels, Freeze!NoFreezer, Freeze!NoBook
<1> QED BY <1>1, <1>2, <1>3, <1>4 DEF CarryInv

\* While no worker panics, every add past its request and not over is with what
\* is armed, with the run under way or with a book still owed: no arming,
\* absorbing, cancelling and arming again, undo or stop loses one (LA-34).
THEOREM NoAddLost == Spec => []AddsCarried
<1> DEFINE Inv == ServerInv /\ CarryInv
<1>1. Init => Inv
  BY InitServerInv, InitCarries
<1>2. Inv /\ [Next]_vars => Inv'
  BY NextServerInv, CarryInvKept
<1>3. Inv => AddsCarried
  <2> SUFFICES ASSUME Inv, setup.panics = 0, NEW x \in Adds, reg[x] = "armed", up[x] = "done"
               PROVE  x \in Carriers
    BY DEF AddsCarried
  <2>1. x \in SyncHeld \cup FreezeHeld
    BY DEF CarryInv, Handed
  <2>2. ASSUME x \in AddsOf(freezes.waiting) PROVE \E b \in Books : x \in b.adds
    BY <2>2 DEF AddsOf, Books
  <2>3. freezer.book \in Books /\ freezer.rest \in Books
    BY DEF Books
  <2> QED BY <2>1, <2>2, <2>3 DEF SyncHeld, FreezeHeld, Carriers
<1> QED BY <1>1, <1>2, <1>3, PTL DEF Spec
=============================================================================
