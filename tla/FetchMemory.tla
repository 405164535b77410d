----------------------------- MODULE FetchMemory -----------------------------
(***************************************************************************)
(* What the server keeps between the Entries it fetches: the listing, with *)
(* the head the catalog stood at, and the key table, with the commitment   *)
(* it was read under and what that read found of the set.  A fetch takes   *)
(* either from the memory, from a read of another fetch that is under way, *)
(* or from Storage; write runs and catch-ups of the process forget.        *)
(*                                                                         *)
(* A forget is a generation in the code: here a read begun since the last  *)
(* forget is fresh.  The fronts of Containers are left out: no property    *)
(* here depends on them.                                                   *)
(***************************************************************************)
EXTENDS KeyringLifecycle

CONSTANTS
  MaxDrops   \* the fetches dropped before they land their read (bound)

VARIABLES
  kept,    \* the listing kept: the head it is kept at, 0 for none
  table,   \* the key table kept: its set and what its read found
  fresh,   \* the fetches whose read of the set began since the last forget
  waits,   \* the fetch whose read each one waits for, itself when none
  drops,   \* the reads dropped so far
  gap      \* history: the positions invalid at some time since the last forget

memory == <<kept, table, fresh, waits, drops>>
calls == <<setup, chain, live, storage, snaps, idx, run, memory>>
mvars == <<vars, memory, gap>>

NoTable == [gen |-> 0, verd |-> Unread]
\* What a read found: no position that it stepped over is left unsaid.
Short(v) == \E i \in Positions : v[i] \in {"lost", "unfetched"}
Answered(v) == \E i \in Positions : v[i] = "valid"

StorageSame == UNCHANGED <<chained, storage, faults, hit>>

-----------------------------------------------------------------------------
(* The reads under way *)

\* A bug: the read knows of nobody who waits for it.
WaitingNone(p) == {}
\* Everybody who waits for p gets what its read came to, and goes on at l.
Waiting(p) == {q \in Procs : waits[q] = p /\ pc[q] = "waiting"}
Moved(S, l) == pc' = [q \in Procs |-> IF q \in S THEN l ELSE pc[q]]
FreedNone(S) == waits' = waits   \* a bug: they still count as waiting
Freed(S) == waits' = [q \in Procs |-> IF q \in S THEN q ELSE waits[q]]

\* A fetch answers from the catalog as it stands.
Fetch(p) ==
  /\ Role(p) = "fetcher" /\ Begin(p)
  /\ com' = [com EXCEPT ![p] = Sel(idx[setup.dev[p]])]
  /\ Goto(p, "list turn")
  /\ StorageSame /\ UNCHANGED <<lst, verd, mine, left, tries, memory>>

\* The listing is kept at the catalog's head, or being read at it, or p reads.
Lister(p) == {q \in Procs : pc[q] \in {"listing", "keeping"} /\ com[q].gen = com[p].gen}
ListTurn(p) ==
  /\ pc[p] = "list turn"
  /\ IF kept.at = com[p].gen
     THEN /\ lst' = [lst EXCEPT ![p].copies = kept.copies]
          /\ Goto(p, "table turn") /\ UNCHANGED waits
     ELSE IF Lister(p) = {} THEN Goto(p, "listing") /\ UNCHANGED <<lst, waits>>
     ELSE \E q \in Lister(p) :
            IF pc[q] = "keeping"
            THEN /\ lst' = [lst EXCEPT ![p].copies = lst[q].copies]
                 /\ Goto(p, "table turn") /\ UNCHANGED waits
            ELSE /\ waits' = [waits EXCEPT ![p] = q]
                 /\ Goto(p, "waiting") /\ UNCHANGED lst
  /\ StorageSame /\ UNCHANGED <<com, verd, mine, left, tries, ran, kept, table, fresh, drops>>

\* The listing lands, for the waiters too, before it is kept; so does a
\* refusal, and they all end on it.
ListRefused(p) ==
  /\ pc[p] = "listing" /\ setup.flaky
  /\ Moved(Waiting(p) \cup {p}, "told") /\ Freed(Waiting(p))
  /\ StorageSame /\ UNCHANGED <<lst, com, verd, mine, left, tries, ran, kept, table, fresh, drops>>

ListRead(p) ==
  /\ pc[p] = "listing"
  /\ LET S == Waiting(p) IN
     /\ lst' = [q \in Procs |-> IF q \in S \cup {p} THEN [lst[q] EXCEPT !.copies = Listing.copies] ELSE lst[q]]
     /\ pc' = [q \in Procs |-> IF q = p THEN "keeping" ELSE IF q \in S THEN "table turn" ELSE pc[q]]
     /\ Freed(S)
  /\ StorageSame /\ UNCHANGED <<com, verd, mine, left, tries, ran, kept, table, fresh, drops>>

\* A fetch keeps its listing at the head it listed for.
KeepAt(p) == com[p].gen

Keep(p) ==
  /\ pc[p] = "keeping"
  /\ \/ kept' = [at |-> KeepAt(p), copies |-> lst[p].copies]
     \/ setup.flaky /\ UNCHANGED kept
  /\ Goto(p, "table turn")
  /\ StorageSame /\ UNCHANGED <<lst, com, verd, mine, left, tries, ran, table, fresh, waits, drops>>

\* The key table is kept under the commitment, or being read under it by a
\* read begun since the last forget, or p reads the set.
Reader(p) == {q \in fresh : pc[q] = "read" /\ com[q] = com[p]}

TableTurn(p) ==
  /\ pc[p] = "table turn"
  /\ IF table.gen = com[p].gen
     THEN /\ verd' = [verd EXCEPT ![p] = table.verd]
          /\ Goto(p, "told") /\ UNCHANGED <<fresh, waits>>
     ELSE IF Reader(p) = {}
     THEN Goto(p, "read") /\ fresh' = fresh \cup {p} /\ UNCHANGED <<verd, waits>>
     ELSE \E q \in Reader(p) :
            /\ waits' = [waits EXCEPT ![p] = q]
            /\ Goto(p, "waiting") /\ UNCHANGED <<verd, fresh>>
  /\ StorageSame /\ UNCHANGED <<lst, com, mine, left, tries, ran, kept, table, drops>>

\* A bug: a read that a forget came upon is kept.
KeepsStale(p) == Answered(verd[p])
Keeps(p) == p \in fresh /\ Answered(verd[p])

\* The table is kept unless a forget came since the read began, and lands for
\* the waiters; a refusal lands too, and is not kept.
TableRead(p) ==
  /\ pc[p] = "read" /\ Role(p) = "fetcher"
  /\ ~Unfinished(p)
  /\ table' = IF Keeps(p)
              THEN [gen |-> com[p].gen, verd |-> verd[p]] ELSE table
  /\ LET S == Waiting(p) \cup {p} IN
     /\ verd' = [q \in Procs |-> IF q \in S THEN verd[p] ELSE verd[q]]
     /\ Moved(S, "told") /\ Freed(S)
  /\ fresh' = fresh \ {p}
  /\ StorageSame /\ UNCHANGED <<lst, com, mine, left, tries, ran, kept, drops>>

\* The fetch reports what its read, or the one it was handed, stepped over.
Told(p) ==
  /\ pc[p] = "told"
  /\ Ended(p)
  /\ StorageSame /\ UNCHANGED <<ran, memory>>

\* A fetch dropped before it lands its read leaves its waiters to read.
Drop(p) ==
  /\ drops < MaxDrops /\ pc[p] \in {"listing", "read"} /\ Role(p) = "fetcher"
  /\ LET S == Waiting(p)
         turn == IF pc[p] = "listing" THEN "list turn" ELSE "table turn"
     IN /\ pc' = [q \in Procs |-> IF q = p THEN "idle" ELSE IF q \in S THEN turn ELSE pc[q]]
        /\ Freed(S)
  /\ lst' = [lst EXCEPT ![p] = NoListing]
  /\ com' = [com EXCEPT ![p] = Sel(1)]
  /\ verd' = [verd EXCEPT ![p] = Unread]
  /\ fresh' = fresh \ {p}
  /\ drops' = drops + 1
  /\ StorageSame /\ UNCHANGED <<mine, left, tries, ran, kept, table>>

-----------------------------------------------------------------------------
(* The other runs of the process *)

\* The catch-up keeps its listing at the head the Index stands at.
Remember(p) ==
  /\ pc[p] = "remember"
  /\ \/ kept' = [at |-> idx[setup.dev[p]], copies |-> lst[p].copies]
     \/ setup.flaky /\ UNCHANGED kept
  /\ Goto(p, "forget short")
  /\ StorageSame /\ UNCHANGED <<lst, com, verd, mine, left, tries, ran, table, fresh, waits, drops>>

\* It then forgets a table read from a short set, and a write run any table.
Forget(p) ==
  /\ \/ /\ pc[p] = "forget short"
        /\ table' = IF Short(table.verd) THEN NoTable ELSE table
     \/ /\ pc[p] = "forget"
        /\ table' = NoTable
  /\ fresh' = {}
  /\ pc' = [pc EXCEPT ![p] = "idle"]
  /\ lst' = [lst EXCEPT ![p] = NoListing]
  /\ StorageSame /\ UNCHANGED <<com, verd, mine, left, tries, ran, kept, waits, drops>>

-----------------------------------------------------------------------------
FetchStep(p) ==
  \/ ListTurn(p) \/ ListRefused(p) \/ ListRead(p) \/ Keep(p) \/ TableTurn(p) \/ TableRead(p) \/ Told(p)
  \/ Remember(p) \/ Forget(p)

MInit ==
  /\ Init
  /\ kept = [at |-> 0, copies |-> {}] /\ table = NoTable /\ fresh = {}
  /\ waits = [p \in Procs |-> p] /\ drops = 0 /\ gap = {}

Forgets == \E p \in Procs : pc[p] \in {"forget", "forget short"} /\ pc'[p] = "idle"

Step(p) ==
  \/ RunStep(p) /\ UNCHANGED memory
  \/ FetchStep(p)

\* The histories follow every step.
Recorded ==
  /\ gap' = (IF Forgets THEN {} ELSE gap) \cup Invalid'
  /\ Watch([p \in Procs |-> IF Role(p) = "fetcher" THEN gap ELSE {}])

Next ==
  \/ (\E c \in stored : Fault(c)) /\ UNCHANGED memory /\ Recorded
  \/ \E p \in Procs :
       \/ (Step(p) \/ Fetch(p) \/ Drop(p)) /\ Recorded
       \/ Kill(p) /\ UNCHANGED memory /\ Recorded

Spec == MInit /\ [][Next]_mvars

\* Some run that is under way makes its next call.
Fairness == WF_calls(\E p \in Procs : pc[p] # "idle" /\ Step(p))
FairSpec == Spec /\ Fairness
=============================================================================
