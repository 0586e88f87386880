------------------------------ MODULE SpoofWalls ------------------------------
(***************************************************************************)
(* The wall tracker of spoofhunter.py: every depth snapshot opens, updates *)
(* and closes trackers of the large orders near the price, and one that    *)
(* vanishes young becomes a ghost event, which makes positions exit and    *)
(* the node signal against the wall.                                       *)
(*                                                                         *)
(* A snapshot gives the size of each price level, 0 when the level is not  *)
(* in it; sizes stand for notionals, and which levels are near the mid     *)
(* price is part of the input.  The prices the engine publishes are        *)
(* overwritten by every snapshot and left out, and so is the iceberg       *)
(* counter, which only reports.  Ages are in units of the clock and        *)
(* saturate where the code no longer tells them apart.  A gap in the       *)
(* stream is a clock that runs without snapshots.                          *)
(***************************************************************************)
EXTENDS Integers, FiniteSets, SequencesExt

CONSTANTS
  Depth,       \* price levels of a side, the best first
  Books,       \* snapshots that may arrive
  MinNotional, \* GHOST_MIN_NOTIONAL_USD
  Lifetime,    \* GHOST_MAX_LIFETIME_S
  GhostCap     \* maxlen of _ghost_events

Side  == {"bid", "ask"}
Level == Side \X (1 .. Depth)

ASSUME WallsAssumption ==
  /\ Depth \in Nat \ {0} /\ MinNotional \in Nat \ {0} /\ GhostCap \in Nat \ {0}
  /\ Lifetime \in Nat
ASSUME BooksAssumption ==
  Books \subseteq [size : [Level -> Nat], near : SUBSET Level]

VARIABLES
  walls,   \* _active_walls
  ghosts,  \* _ghost_events
  stands   \* history: how long each level has been in the book since it was
           \* first a wall, and whether its tracker was let go of

vars == <<walls, ghosts, stands>>

Init ==
  /\ walls   = [l \in {} |-> 0]
  /\ ghosts  = <<>>
  /\ stands  = [l \in {} |-> 0]

LastOf(s, n) == IF Len(s) <= n THEN s ELSE SubSeq(s, Len(s) - n + 1, Len(s))
Lower(a, b)  == IF a < b THEN a ELSE b

-----------------------------------------------------------------------------
(***************************************************************************)
(* A snapshot.                                                             *)
(***************************************************************************)

Here(book) == {l \in Level : book.size[l] > 0}

Large(book) == {l \in Here(book) \cap book.near : book.size[l] >= MinNotional}

\* The trackers after the scan of both sides.  A level that is not large now
\* keeps the size it had when it last was.
Scanned(book) ==
  [l \in DOMAIN walls \cup Large(book) |->
     IF l \notin DOMAIN walls
     THEN [initial |-> book.size[l], size |-> book.size[l], age |-> 0]
     ELSE [walls[l] EXCEPT !.size = IF l \in Large(book) THEN book.size[l] ELSE @]]

\* More than 80% of it is gone.
Eaten(w) == 5 * w.size < w.initial

\* Slip: the age is not looked at.
PulledAtAnyAge(book, w) == DOMAIN w \ Here(book)

Pulled(book, w) == {l \in DOMAIN w \ Here(book) : w[l].age <= Lifetime}

Filled(book, w) == {l \in DOMAIN w \cap Here(book) : Eaten(w[l])}

\* Slip: a wall is tracked for as long as it stands.
SettledNever(book, w) == {}

Settled(book, w) ==
  {l \in (DOMAIN w \cap Here(book)) \ Filled(book, w) : w[l].age > 5 * Lifetime}

\* History: the levels of the book that have been a wall since they came.
Standing(book, w) ==
  [l \in (DOMAIN stands \cap Here(book)) \cup Large(book) |->
     LET old == IF l \in DOMAIN stands THEN stands[l] ELSE [age |-> 0, let |-> "no"]
     IN  [age |-> old.age,
          let |-> IF l \in Filled(book, w) THEN "filled"
                  ELSE IF l \in Settled(book, w) THEN "settled"
                  ELSE old.let]]

\* The event of a wall that is gone, with what really became of it.
Ghost(l, w) ==
  [level |-> l, notional |-> w[l].initial, lifetime |-> w[l].age,
   stood |-> stands[l].age, let |-> stands[l].let]

\* process_depth.  A book without one of its sides is ignored.  The order of
\* the trackers, and so of the events of one snapshot, is left open.
Snapshot(book) ==
  /\ \A s \in Side : \E i \in 1 .. Depth : <<s, i>> \in Here(book)
  /\ \E w \in {Scanned(book)} :
       /\ walls'  = [l \in (DOMAIN w \cap Here(book))
                            \ (Filled(book, w) \cup Settled(book, w)) |-> w[l]]
       /\ \E order \in SetToSeqs(Pulled(book, w)) :
            ghosts' = LastOf(ghosts \o [k \in DOMAIN order |-> Ghost(order[k], w)],
                             GhostCap)
       /\ stands' = Standing(book, w)

Older(f) == [l \in DOMAIN f |-> [f[l] EXCEPT !.age = Lower(@ + 1, 5 * Lifetime + 1)]]

\* time.monotonic moves on.
Clock ==
  /\ walls'   = Older(walls)
  /\ stands'  = Older(stands)
  /\ UNCHANGED ghosts

-----------------------------------------------------------------------------
SnapshotArrives == \E book \in Books : Snapshot(book)

Next == SnapshotArrives \/ Clock

\* The exchange sends a snapshot every 100 ms, over a stream that is
\* reconnected for ever.
Fairness == WF_vars(SnapshotArrives) /\ WF_vars(Clock)

Spec == Init /\ [][Next]_vars
FairSpec == Spec /\ Fairness

-----------------------------------------------------------------------------
(***************************************************************************)
(* Properties.                                                             *)
(***************************************************************************)

Age == 0 .. (5 * Lifetime + 1)

Let == {"no", "filled", "settled"}

\* Every variable has its type, and what is tracked stands in the last book.
TypeOK ==
  /\ DOMAIN walls \subseteq DOMAIN stands /\ DOMAIN stands \subseteq Level
  /\ walls \in [DOMAIN walls -> [initial : Nat, size : Nat, age : Age]]
  /\ stands \in [DOMAIN stands -> [age : Age, let : Let]]
  /\ ghosts \in Seq([level : Level, notional : Nat, lifetime : Age, stood : Age,
                     let : Let])
  /\ Len(ghosts) <= GhostCap

\* A ghost was in the book for as long as its event says, and no longer than a
\* ghost may be; or its tracker was let go of while it stood, because most of it
\* was eaten or because it had outlived five lifetimes, and it was taken up
\* again as a new wall by the next snapshot.
GhostsWereYoung ==
  \A k \in DOMAIN ghosts :
    LET g == ghosts[k] IN
    \/ g.let = "no" /\ g.stood = g.lifetime /\ g.lifetime <= Lifetime
    \/ g.let = "settled" /\ g.stood > 5 * Lifetime
    \/ g.let = "filled"

\* No tracker is kept for ever, not even that of a level that never leaves the
\* book.
TrackersEnd ==
  \A l \in Level : []<>(l \notin DOMAIN walls)
=============================================================================
