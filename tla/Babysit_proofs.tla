--------------------------- MODULE Babysit_proofs ---------------------------
(***************************************************************************)
(* Proofs about Babysit, for any positions, symbols, sides, limits and     *)
(* number of crashes.                                                      *)
(***************************************************************************)
EXTENDS Babysit, TLAPS

(***************************************************************************)
(* The inductive invariant adds to the properties what makes the current   *)
(* position unique (the turns of registered positions are distinct) and    *)
(* what remembers that a position that was closed never comes back.        *)
(***************************************************************************)

TurnsDistinct ==
  \A p \in held \cup todo :
    /\ turn[p] <= served
    /\ \A q \in held \cup todo : turn[p] = turn[q] => p = q

Settled ==
  /\ \A p \in held \cup todo : request[p] = "settled"
  /\ \A p \in Pids : Closing(p) => p \notin held

ClosedIsGone ==
  \A p \in Pids :
    /\ sent[p] \in 0..1
    /\ sent[p] = 1 => request[p] = "settled" /\ p \notin held /\ p \notin todo

IInv ==
  /\ TypeOK
  /\ OrphansExplained
  /\ SnapshotIsLive
  /\ TurnsDistinct
  /\ Settled
  /\ ClosedIsGone

\* There is one current position at most.
LEMMA CurrentIsUnique ==
  ASSUME TypeOK, TurnsDistinct, NEW p \in Pids, NEW q \in Pids, Current(p), Current(q)
  PROVE  p = q
<1>1. p \in todo /\ q \in todo /\ turn[p] <= turn[q] /\ turn[q] <= turn[p]
  BY DEF Current
<1>2. turn[p] \in Nat /\ turn[q] \in Nat
  BY DEF TypeOK
<1> QED  BY <1>1, <1>2 DEF TurnsDistinct

\* The invariant holds at the start.
LEMMA InitInv == Init => IInv
  BY BoundsAssumption
  DEF Init, IInv, TypeOK, OrphansExplained, SnapshotIsLive, TurnsDistinct, Settled,
      ClosedIsGone, Closing, Current, Stages

\* An order that is placed waits for its registration.
LEMMA PlaceKeepsInv ==
  ASSUME IInv, NEW p \in Pids, Place(p)
  PROVE  IInv'
<1> USE DEF IInv, history, Place
<1>1. TypeOK'  BY DEF TypeOK
<1>2. OrphansExplained'  BY DEF OrphansExplained, TypeOK, Closing, Current
<1>3. SnapshotIsLive'  BY DEF SnapshotIsLive, Closing, Current
<1>4. TurnsDistinct'  BY DEF TurnsDistinct
<1>5. Settled' /\ ClosedIsGone'
  BY DEF Settled, ClosedIsGone, TypeOK, Closing, Current
<1> QED  BY <1>1, <1>2, <1>3, <1>4, <1>5

\* One that nobody will register is on record as such.
LEMMA PlaceUnwatchedKeepsInv ==
  ASSUME IInv, NEW p \in Pids, PlaceUnwatched(p)
  PROVE  IInv'
<1> USE DEF IInv, PlaceUnwatched
<1>1. TypeOK'  BY DEF TypeOK
<1>2. OrphansExplained'  BY DEF OrphansExplained, TypeOK, Closing, Current
<1>3. SnapshotIsLive'  BY DEF SnapshotIsLive, Closing, Current
<1>4. TurnsDistinct'  BY DEF TurnsDistinct
<1>5. Settled' /\ ClosedIsGone'
  BY DEF Settled, ClosedIsGone, TypeOK, Closing, Current
<1> QED  BY <1>1, <1>2, <1>3, <1>4, <1>5

\* A registered position is held, with a turn of its own.
LEMMA RegisterKeepsInv ==
  ASSUME IInv, NEW p \in Pids, Register(p)
  PROVE  IInv'
<1> USE DEF IInv, history, Register
<1>0. p \notin held \cup todo
  BY DEF Settled
<1>1. TypeOK'  BY DEF TypeOK
<1>2. \A q \in todo : turn'[q] = turn[q]
  BY <1>0 DEF TypeOK
<1>3. \A q \in Pids : Closing(q)' <=> Closing(q)
  BY <1>2 DEF Closing, Current
<1>4. OrphansExplained'  BY <1>3 DEF OrphansExplained, TypeOK
<1>5. SnapshotIsLive'  BY <1>3 DEF SnapshotIsLive, TypeOK
<1>6. TurnsDistinct'
  <2>1. \A q \in held \cup todo : turn'[q] = turn[q] /\ turn[q] \in Nat /\ turn[q] <= served
    BY <1>0 DEF TypeOK, TurnsDistinct
  <2>2. turn'[p] = served + 1 /\ served \in Nat
    BY DEF TypeOK
  <2>3. held' \cup todo' = (held \cup todo) \cup {p}
    OBVIOUS
  <2> QED  BY <2>1, <2>2, <2>3 DEF TurnsDistinct
<1>7. Settled'
  BY <1>0, <1>3 DEF Settled, TypeOK, Closing, Current
<1>8. ClosedIsGone'  BY <1>0 DEF ClosedIsGone, TypeOK
<1> QED  BY <1>1, <1>4, <1>5, <1>6, <1>7, <1>8

\* An abandoned one is excused.
LEMMA AbandonKeepsInv ==
  ASSUME IInv, NEW p \in Pids, Abandon(p)
  PROVE  IInv'
<1> USE DEF IInv, history, Abandon
<1>1. TypeOK'  BY DEF TypeOK
<1>2. OrphansExplained'  BY DEF OrphansExplained, TypeOK, Closing, Current
<1>3. SnapshotIsLive'  BY DEF SnapshotIsLive, Closing, Current
<1>4. TurnsDistinct'  BY DEF TurnsDistinct
<1>5. Settled' /\ ClosedIsGone'
  BY DEF Settled, ClosedIsGone, TypeOK, Closing, Current
<1> QED  BY <1>1, <1>2, <1>3, <1>4, <1>5

\* A cycle starts with everything that is held.
LEMMA LookKeepsInv ==
  ASSUME IInv, Look
  PROVE  IInv'
<1> USE DEF IInv, history, Look
<1>1. TypeOK'  BY DEF TypeOK, Stages
<1>2. OrphansExplained'  BY DEF OrphansExplained, TypeOK, Closing, Current
<1>3. SnapshotIsLive'  BY DEF SnapshotIsLive, Closing, Current
<1>4. TurnsDistinct'  BY DEF TurnsDistinct
<1>5. Settled' /\ ClosedIsGone'
  BY DEF Settled, ClosedIsGone, TypeOK, Closing, Current
<1> QED  BY <1>1, <1>2, <1>3, <1>4, <1>5

\* A visit that sends no close order changes who is held only by an exit,
\* which leaves the position with its close order under way.
LEMMA VisitKeepsInv ==
  ASSUME IInv, NEW p \in Pids,
         PriceKnown(p) \/ PriceUnknown(p) \/ TickHolds(p) \/ TickExits(p) \/ TickRaises(p)
  PROVE  IInv'
<1> USE DEF IInv, history
<1>1. CASE PriceKnown(p)
  <2> USE <1>1 DEF PriceKnown
  <2>1. TypeOK'  BY DEF TypeOK, GoOn, Stages
  <2>2. OrphansExplained'  BY DEF OrphansExplained, TypeOK, Closing, Current, GoOn
  <2>3. SnapshotIsLive'  BY DEF SnapshotIsLive, TypeOK, Closing, Current, GoOn
  <2>4. TurnsDistinct'  BY DEF TurnsDistinct, TypeOK, GoOn
  <2>5. Settled' /\ ClosedIsGone'
    BY DEF Settled, ClosedIsGone, TypeOK, Closing, Current, GoOn
  <2> QED  BY <2>1, <2>2, <2>3, <2>4, <2>5
<1>2. CASE PriceUnknown(p)
  <2> USE <1>2 DEF PriceUnknown
  <2>1. TypeOK'  BY DEF TypeOK, GoOn, Stages
  <2>2. OrphansExplained'  BY DEF OrphansExplained, TypeOK, Closing, Current, GoOn
  <2>3. SnapshotIsLive'  BY DEF SnapshotIsLive, TypeOK, Closing, Current, GoOn
  <2>4. TurnsDistinct'  BY DEF TurnsDistinct, TypeOK, GoOn
  <2>5. Settled' /\ ClosedIsGone'
    BY DEF Settled, ClosedIsGone, TypeOK, Closing, Current, GoOn
  <2> QED  BY <2>1, <2>2, <2>3, <2>4, <2>5
<1>3. CASE TickHolds(p)
  <2> USE <1>3 DEF TickHolds
  <2>0. p \in held
    BY DEF SnapshotIsLive, Closing, Current
  <2>1. TypeOK'  BY <2>0 DEF TypeOK, GoOn, Stages
  <2>2. OrphansExplained'  BY DEF OrphansExplained, TypeOK, Closing, Current, GoOn
  <2>3. SnapshotIsLive'  BY DEF SnapshotIsLive, TypeOK, Closing, Current, GoOn
  <2>4. TurnsDistinct'  BY DEF TurnsDistinct, TypeOK, GoOn
  <2>5. Settled' /\ ClosedIsGone'
    BY DEF Settled, ClosedIsGone, TypeOK, Closing, Current, GoOn
  <2> QED  BY <2>1, <2>2, <2>3, <2>4, <2>5
<1>4. CASE TickExits(p)
  <2> USE <1>4 DEF TickExits
  <2>0. Closing(p)' /\ (\A q \in Pids : Closing(q)' => q = p) /\ p \in held
    <3>1. Current(p)' /\ p \in held
      BY DEF Current, SnapshotIsLive, Closing
    <3>2. \A q \in Pids : Current(q)' => Current(q)
      BY DEF Current
    <3> QED  BY <3>1, <3>2, CurrentIsUnique DEF Closing
  <2>1. TypeOK'
    BY BoundsAssumption DEF TypeOK, Stages
  <2>2. OrphansExplained'
    BY <2>0 DEF OrphansExplained, TypeOK, Closing
  <2>3. SnapshotIsLive'
    BY <2>0 DEF SnapshotIsLive, Closing
  <2>4. TurnsDistinct'
    BY DEF TurnsDistinct, TypeOK
  <2>5. Settled'
    BY <2>0 DEF Settled
  <2>6. ClosedIsGone'
    BY DEF ClosedIsGone
  <2> QED  BY <2>1, <2>2, <2>3, <2>4, <2>5, <2>6
<1>5. CASE TickRaises(p)
  <2> USE <1>5 DEF TickRaises
  <2>0. p \in held
    BY DEF SnapshotIsLive, Closing, Current
  <2>1. TypeOK'  BY <2>0 DEF TypeOK, GoOn, Stages
  <2>2. OrphansExplained'  BY DEF OrphansExplained, TypeOK, Closing, Current, GoOn
  <2>3. SnapshotIsLive'  BY DEF SnapshotIsLive, TypeOK, Closing, Current, GoOn
  <2>4. TurnsDistinct'  BY DEF TurnsDistinct, TypeOK, GoOn
  <2>5. Settled' /\ ClosedIsGone'
    BY DEF Settled, ClosedIsGone, TypeOK, Closing, Current, GoOn
  <2> QED  BY <2>1, <2>2, <2>3, <2>4, <2>5
<1> QED  BY <1>1, <1>2, <1>3, <1>4, <1>5

\* A close order that works closes its own position at least (of LONG and
\* SHORT); one that fails excuses it.  Either way it was the first.
LEMMA CloseKeepsInv ==
  ASSUME IInv, NEW p \in Pids, Closes(p) \/ CloseFails(p)
  PROVE  IInv'
<1> USE DEF IInv, history
<1>1. /\ stage = "close" /\ Current(p) /\ GoOn(p)
      /\ sent' = [sent EXCEPT ![p] = @ + 1]
      /\ UNCHANGED <<request, held, turn, served, age, seen, unwatched, crashes>>
  BY DEF Closes, CloseFails
<1>2. \A q \in Pids : Closing(q) => q = p
  BY <1>1, CurrentIsUnique DEF Closing
<1>3. p \in todo /\ p \notin held /\ sent[p] = 0 /\ request[p] = "settled"
  BY <1>1 DEF Settled, Closing, Current, ClosedIsGone
<1>4. \A q \in Pids : ~Closing(q)'
  BY <1>1 DEF GoOn, Closing
<1>5. TypeOK'
  BY <1>1 DEF TypeOK, Stages, GoOn, Closes, CloseFails, Reduced
<1>6. OrphansExplained'
  <2> SUFFICES ASSUME NEW q \in open', Side[q] \in {"LONG", "SHORT"}
               PROVE  q \in held \/ request[q] = "placed" \/ q \in unwatched \cup excused'
    BY <1>1 DEF OrphansExplained
  <2>1. q \in open /\ q \in Pids
    BY DEF Closes, CloseFails, TypeOK
  <2>2. q \in held \/ request[q] = "placed" \/ q = p \/ q \in unwatched \cup excused
    BY <1>2, <2>1 DEF OrphansExplained
  <2>3. CASE q = p /\ Closes(p)
    <3>1. p \in Reduced(p)
      BY <2>1, <2>3 DEF Reduced, OrderSide, CloseSide
    <3> QED  BY <2>3, <3>1 DEF Closes
  <2>4. CASE q = p /\ CloseFails(p)
    BY <2>4 DEF CloseFails
  <2> QED  BY <2>2, <2>3, <2>4 DEF Closes, CloseFails
<1>7. SnapshotIsLive'
  BY <1>1, <1>2 DEF SnapshotIsLive, GoOn, TypeOK
<1>8. TurnsDistinct'
  BY <1>1 DEF TurnsDistinct, GoOn
<1>9. Settled'
  BY <1>1, <1>4 DEF Settled, GoOn
<1>10. ClosedIsGone'
  BY <1>1, <1>3 DEF ClosedIsGone, GoOn, TypeOK
<1> QED  BY <1>5, <1>6, <1>7, <1>8, <1>9, <1>10

\* The steps outside the loop and the requests.
LEMMA WorldKeepsInv ==
  ASSUME IInv,
         Wake \/ (\E p \in Pids : Bracket(p)) \/ Clock \/ Crash \/ Restart \/ UNCHANGED vars
  PROVE  IInv'
<1> USE DEF IInv, history
<1>1. CASE Wake
  <2> USE <1>1 DEF Wake
  <2>1. TypeOK'  BY DEF TypeOK, GoOn, Stages
  <2>2. OrphansExplained'  BY DEF OrphansExplained, TypeOK, Closing, Current, GoOn
  <2>3. SnapshotIsLive'  BY DEF SnapshotIsLive, TypeOK, Closing, Current, GoOn
  <2>4. TurnsDistinct'  BY DEF TurnsDistinct, TypeOK, GoOn
  <2>5. Settled' /\ ClosedIsGone'
    BY DEF Settled, ClosedIsGone, TypeOK, Closing, Current, GoOn
  <2> QED  BY <2>1, <2>2, <2>3, <2>4, <2>5
<1>2. CASE \E p \in Pids : Bracket(p)
  <2> PICK p \in Pids : Bracket(p)
    BY <1>2
  <2> USE DEF Bracket
  <2>1. TypeOK'  BY DEF TypeOK, GoOn, Stages
  <2>2. OrphansExplained'  BY DEF OrphansExplained, TypeOK, Closing, Current, GoOn
  <2>3. SnapshotIsLive'  BY DEF SnapshotIsLive, TypeOK, Closing, Current, GoOn
  <2>4. TurnsDistinct'  BY DEF TurnsDistinct, TypeOK, GoOn
  <2>5. Settled' /\ ClosedIsGone'
    BY DEF Settled, ClosedIsGone, TypeOK, Closing, Current, GoOn
  <2> QED  BY <2>1, <2>2, <2>3, <2>4, <2>5
<1>3. CASE Clock
  <2> USE <1>3 DEF Clock
  <2>1. TypeOK'  BY BoundsAssumption DEF TypeOK, Stages
  <2>2. OrphansExplained'  BY DEF OrphansExplained, TypeOK, Closing, Current, GoOn
  <2>3. SnapshotIsLive'  BY DEF SnapshotIsLive, TypeOK, Closing, Current, GoOn
  <2>4. TurnsDistinct'  BY DEF TurnsDistinct, TypeOK, GoOn
  <2>5. Settled' /\ ClosedIsGone'
    BY DEF Settled, ClosedIsGone, TypeOK, Closing, Current, GoOn
  <2> QED  BY <2>1, <2>2, <2>3, <2>4, <2>5
<1>4. CASE Crash
  <2> USE <1>4 DEF Crash
  <2>1. TypeOK'  BY BoundsAssumption DEF TypeOK, Stages, Running
  <2>2. OrphansExplained'  BY DEF OrphansExplained
  <2>3. SnapshotIsLive'  BY DEF SnapshotIsLive, TypeOK, Closing, Current, GoOn
  <2>4. TurnsDistinct'  BY DEF TurnsDistinct, TypeOK, GoOn
  <2>5. Settled' /\ ClosedIsGone'
    BY DEF Settled, ClosedIsGone, TypeOK, Closing, Current, GoOn
  <2> QED  BY <2>1, <2>2, <2>3, <2>4, <2>5
<1>5. CASE Restart
  <2> USE <1>5 DEF Restart
  <2>1. TypeOK'  BY DEF TypeOK, GoOn, Stages
  <2>2. OrphansExplained'  BY DEF OrphansExplained, TypeOK, Closing, Current, GoOn
  <2>3. SnapshotIsLive'  BY DEF SnapshotIsLive, TypeOK, Closing, Current, GoOn
  <2>4. TurnsDistinct'  BY DEF TurnsDistinct, TypeOK, GoOn
  <2>5. Settled' /\ ClosedIsGone'
    BY DEF Settled, ClosedIsGone, TypeOK, Closing, Current, GoOn
  <2> QED  BY <2>1, <2>2, <2>3, <2>4, <2>5
<1>6. CASE UNCHANGED vars
  BY <1>6
  DEF vars, TypeOK, OrphansExplained, SnapshotIsLive, TurnsDistinct, Settled,
      ClosedIsGone, Closing, Current
<1> QED  BY <1>1, <1>2, <1>3, <1>4, <1>5, <1>6

\* The invariant holds throughout.
THEOREM Invariance == Spec => []IInv
<1>1. IInv /\ [Next]_vars => IInv'
  BY PlaceKeepsInv, PlaceUnwatchedKeepsInv, RegisterKeepsInv, AbandonKeepsInv,
     LookKeepsInv, VisitKeepsInv, CloseKeepsInv, WorldKeepsInv
  DEF Next, Loop, Visit
<1> QED  BY <1>1, InitInv, PTL DEF Spec

\* The loop's variables keep their types, and it is at a position exactly
\* while there is one to visit.
THEOREM TypeCorrect == Spec => []TypeOK
  BY Invariance, PTL DEF IInv

\* No open position is without somebody who sees to it, but for those that
\* were never meant to be watched and those lost to a fault outside the loop.
THEOREM OrphansHaveACause == Spec => []OrphansExplained
  BY Invariance, PTL DEF IInv

\* One close order per position.
THEOREM OneCloseOrder == Spec => []ClosedOnce
<1>1. IInv => ClosedOnce
  <2>1. \A n \in 0..1 : n <= 1
    OBVIOUS
  <2> QED  BY <2>1 DEF IInv, ClosedIsGone, ClosedOnce
<1> QED  BY <1>1, Invariance, PTL

\* The snapshot does not go stale.
THEOREM SnapshotStaysLive == Spec => []SnapshotIsLive
  BY Invariance, PTL DEF IInv
=============================================================================
