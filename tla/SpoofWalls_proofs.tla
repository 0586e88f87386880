-------------------------- MODULE SpoofWalls_proofs --------------------------
(***************************************************************************)
(* Proofs about SpoofWalls, for books of any depth and size, any threshold *)
(* and lifetime: what a ghost event says of the wall that is gone.         *)
(***************************************************************************)
EXTENDS SpoofWalls, SequenceTheorems, FiniteSetTheorems, TLAPS

(***************************************************************************)
(* What a tracker knows against how its level really stands: a tracker     *)
(* that was never let go of is as old as its wall, and one that was let go *)
(* of for its age stands longer than any ghost may.                        *)
(***************************************************************************)
TrackersKnow ==
  \A l \in DOMAIN stands :
    /\ stands[l].let = "no" => l \in DOMAIN walls /\ walls[l].age = stands[l].age
    /\ stands[l].let = "settled" => stands[l].age > 5 * Lifetime
    /\ l \in DOMAIN walls => walls[l].age <= stands[l].age

IInv == TypeOK /\ TrackersKnow /\ GhostsWereYoung

\* The last elements of a sequence, among them and not more than asked for.
LEMMA LastOfFact ==
  ASSUME NEW S, NEW s \in Seq(S), NEW n \in Nat \ {0}
  PROVE  /\ LastOf(s, n) \in Seq(S) /\ Len(LastOf(s, n)) <= n
         /\ \A k \in DOMAIN LastOf(s, n) : \E i \in DOMAIN s : LastOf(s, n)[k] = s[i]
<1>1. CASE Len(s) <= n
  BY <1>1 DEF LastOf
<1>2. CASE Len(s) > n
  <2>1. Len(s) - n + 1 \in 1 .. Len(s) /\ Len(s) \in Nat
    BY <1>2
  <2>2. LastOf(s, n) = SubSeq(s, Len(s) - n + 1, Len(s))
    BY <1>2 DEF LastOf
  <2>3. /\ SubSeq(s, Len(s) - n + 1, Len(s)) \in Seq(S)
        /\ Len(SubSeq(s, Len(s) - n + 1, Len(s))) = n
        /\ \A k \in 1 .. n : SubSeq(s, Len(s) - n + 1, Len(s))[k] = s[Len(s) - n + k]
    BY <1>2, <2>1
  <2>4. \A k \in 1 .. n : Len(s) - n + k \in DOMAIN s
    BY <1>2, <2>1
  <2>5. DOMAIN LastOf(s, n) = 1 .. n
    BY <2>2, <2>3
  <2>6. Len(LastOf(s, n)) = n /\ LastOf(s, n) \in Seq(S)
    BY <2>2, <2>3
  <2>7. ASSUME NEW k \in DOMAIN LastOf(s, n)
        PROVE  \E i \in DOMAIN s : LastOf(s, n)[k] = s[i]
    <3>1. k \in 1 .. n
      BY <2>5, <2>7
    <3>2. LastOf(s, n)[k] = s[Len(s) - n + k]
      BY <3>1, <2>2, <2>3
    <3> QED  BY <3>1, <3>2, <2>4
  <2> QED  BY <2>6, <2>7
<1> QED  BY <1>1, <1>2

\* There are so many levels.
LEMMA LevelFinite == IsFiniteSet(Level)
<1>1. IsFiniteSet(Side)
  <2>1. IsFiniteSet({"bid"})
    BY FS_Singleton
  <2>2. IsFiniteSet({"bid"} \cup {"ask"})
    BY <2>1, FS_AddElement
  <2>3. Side = {"bid"} \cup {"ask"}
    BY DEF Side
  <2> QED  BY <2>2, <2>3
<1>2. IsFiniteSet(1 .. Depth)
  BY WallsAssumption, FS_Interval
<1> QED  BY <1>1, <1>2, FS_Product DEF Level

LEMMA InitInv == Init => IInv
<1> SUFFICES ASSUME Init PROVE IInv
  OBVIOUS
<1>1. TypeOK
  BY WallsAssumption DEF Init, TypeOK
<1> QED
  BY <1>1 DEF Init, IInv, TrackersKnow, GhostsWereYoung

\* The clock ages a tracker and its wall alike.
LEMMA ClockKeepsInv ==
  ASSUME IInv, Clock
  PROVE  IInv'
<1> USE WallsAssumption DEF Clock, Older, Lower
<1>1. TypeOK'
  <2>1. \A l \in DOMAIN walls :
          [walls[l] EXCEPT !.age = Lower(@ + 1, 5 * Lifetime + 1)]
            \in [initial : Nat, size : Nat, age : Age]
    <3> SUFFICES ASSUME NEW l \in DOMAIN walls
                 PROVE  [walls[l] EXCEPT !.age = Lower(@ + 1, 5 * Lifetime + 1)]
                          \in [initial : Nat, size : Nat, age : Age]
      OBVIOUS
    <3>1. walls[l] \in [initial : Nat, size : Nat, age : Age]
      BY DEF IInv, TypeOK
    <3>2. Lower(walls[l].age + 1, 5 * Lifetime + 1) \in Age
      BY <3>1 DEF Age
    <3> HIDE DEF Lower
    <3> QED  BY <3>1, <3>2
  <2>2. \A l \in DOMAIN stands :
          [stands[l] EXCEPT !.age = Lower(@ + 1, 5 * Lifetime + 1)]
            \in [age : Age, let : Let]
    <3> SUFFICES ASSUME NEW l \in DOMAIN stands
                 PROVE  [stands[l] EXCEPT !.age = Lower(@ + 1, 5 * Lifetime + 1)]
                          \in [age : Age, let : Let]
      OBVIOUS
    <3>1. stands[l] \in [age : Age, let : Let]
      BY DEF IInv, TypeOK
    <3>2. Lower(stands[l].age + 1, 5 * Lifetime + 1) \in Age
      BY <3>1 DEF Age
    <3> HIDE DEF Lower
    <3> QED  BY <3>1, <3>2
  <2>3. walls' \in [DOMAIN walls' -> [initial : Nat, size : Nat, age : Age]]
    BY <2>1
  <2>4. stands' \in [DOMAIN stands' -> [age : Age, let : Let]]
    BY <2>2
  <2> QED  BY <2>3, <2>4 DEF IInv, TypeOK
<1>2. \A l \in DOMAIN walls :
        /\ walls'[l].age = Lower(walls[l].age + 1, 5 * Lifetime + 1)
        /\ walls[l].age \in Nat
  BY DEF IInv, TypeOK, Age
<1>3. \A l \in DOMAIN stands :
        /\ stands'[l].let = stands[l].let
        /\ stands'[l].age = Lower(stands[l].age + 1, 5 * Lifetime + 1)
        /\ stands[l].age \in Nat
  BY DEF IInv, TypeOK, Age
<1>4. DOMAIN walls' = DOMAIN walls /\ DOMAIN stands' = DOMAIN stands
  OBVIOUS
<1>5. TrackersKnow'
  <2> SUFFICES ASSUME NEW l \in DOMAIN stands
               PROVE  /\ stands'[l].let = "no" =>
                           l \in DOMAIN walls' /\ walls'[l].age = stands'[l].age
                      /\ stands'[l].let = "settled" => stands'[l].age > 5 * Lifetime
                      /\ l \in DOMAIN walls' => walls'[l].age <= stands'[l].age
    BY <1>4 DEF TrackersKnow
  <2>1. /\ stands[l].let = "no" => l \in DOMAIN walls /\ walls[l].age = stands[l].age
        /\ stands[l].let = "settled" => stands[l].age > 5 * Lifetime
        /\ l \in DOMAIN walls => walls[l].age <= stands[l].age
    BY DEF IInv, TrackersKnow
  <2> HIDE DEF Clock, Older
  <2>4. l \in DOMAIN walls => walls'[l].age <= stands'[l].age
    BY <2>1, <1>2, <1>3
  <2>5. stands[l].let = "settled" => stands'[l].age > 5 * Lifetime
    BY <2>1, <1>3
  <2>6. stands[l].let = "no" => walls'[l].age = stands'[l].age
    BY <2>1, <1>2, <1>3
  <2> QED  BY <2>1, <2>4, <2>5, <2>6, <1>3, <1>4
<1> QED
  BY <1>1, <1>5 DEF IInv, GhostsWereYoung

\* What is said of the ghosts, of one of them.
Explained(g) ==
  \/ g.let = "no" /\ g.stood = g.lifetime /\ g.lifetime <= Lifetime
  \/ g.let = "settled" /\ g.stood > 5 * Lifetime
  \/ g.let = "filled"

Event == [level : Level, notional : Nat, lifetime : Age, stood : Age,
          let : Let]

\* A snapshot: the trackers it leaves, the events it adds.
LEMMA SnapshotKeepsInv ==
  ASSUME IInv, NEW book \in Books, Snapshot(book),
         NEW w, w = Scanned(book)
  PROVE  IInv'
<1> USE WallsAssumption
<1>1. /\ book \in [size : [Level -> Nat], near : SUBSET Level]
      /\ Large(book) \subseteq Here(book) /\ Here(book) \subseteq Level
      /\ \A l \in Level : book.size[l] \in Nat
  BY BooksAssumption DEF Large, Here
<1>2. /\ DOMAIN w = DOMAIN walls \cup Large(book) /\ DOMAIN w \subseteq Level
      /\ w \in [DOMAIN w -> [initial : Nat, size : Nat, age : Age]]
  <2>1. DOMAIN w = DOMAIN walls \cup Large(book)
    BY DEF Scanned
  <2>2. ASSUME NEW l \in DOMAIN w
        PROVE  w[l] \in [initial : Nat, size : Nat, age : Age]
    <3>1. CASE l \notin DOMAIN walls
      <4>1. w[l] = [initial |-> book.size[l], size |-> book.size[l], age |-> 0]
        BY <3>1, <2>1 DEF Scanned
      <4> QED  BY <4>1, <3>1, <2>1, <1>1 DEF Age
    <3>2. CASE l \in DOMAIN walls
      <4>1. walls[l] \in [initial : Nat, size : Nat, age : Age]
        BY <3>2 DEF IInv, TypeOK
      <4>2. w[l] = [walls[l] EXCEPT !.size = IF l \in Large(book) THEN book.size[l] ELSE @]
        BY <3>2, <2>1 DEF Scanned
      <4> QED  BY <4>1, <4>2, <1>1
    <3> QED  BY <3>1, <3>2
  <2>3. w = [l \in DOMAIN w |-> w[l]]
    BY DEF Scanned
  <2> QED  BY <2>1, <2>2, <2>3, <1>1 DEF IInv, TypeOK
<1>3. \A l \in DOMAIN w :
        /\ l \in DOMAIN walls => w[l].age = walls[l].age /\ w[l].initial = walls[l].initial
        /\ l \notin DOMAIN walls => w[l].age = 0
        /\ l \in Large(book) => w[l].size = book.size[l]
        /\ l \notin Large(book) => w[l] = walls[l]
  BY <1>1 DEF IInv, TypeOK, Scanned
<1> DEFINE kept == (DOMAIN w \cap Here(book)) \ (Filled(book, w) \cup Settled(book, w))
<1>4. walls' = [l \in kept |-> w[l]] /\ stands' = Standing(book, w)
  BY DEF Snapshot
<1>5. /\ DOMAIN stands' = (DOMAIN stands \cap Here(book)) \cup Large(book)
      /\ \A l \in DOMAIN stands' :
           /\ stands'[l].age = IF l \in DOMAIN stands THEN stands[l].age ELSE 0
           /\ stands'[l].let = IF l \in Filled(book, w) THEN "filled"
                               ELSE IF l \in Settled(book, w) THEN "settled"
                               ELSE IF l \in DOMAIN stands THEN stands[l].let ELSE "no"
  BY <1>4 DEF Standing
<1>6. stands' \in [DOMAIN stands' -> [age : Age, let : Let]]
  BY <1>1, <1>4 DEF Standing, IInv, TypeOK, Age, Let
<1>7. /\ DOMAIN walls' = kept /\ DOMAIN walls' \subseteq DOMAIN stands'
      /\ DOMAIN stands' \subseteq Level
      /\ walls' \in [DOMAIN walls' -> [initial : Nat, size : Nat, age : Age]]
  BY <1>1, <1>2, <1>4, <1>5 DEF IInv, TypeOK
<1>8. TrackersKnow'
  <2> SUFFICES ASSUME NEW l \in DOMAIN stands'
               PROVE  /\ stands'[l].let = "no" =>
                           l \in DOMAIN walls' /\ walls'[l].age = stands'[l].age
                      /\ stands'[l].let = "settled" => stands'[l].age > 5 * Lifetime
                      /\ l \in DOMAIN walls' => walls'[l].age <= stands'[l].age
    BY DEF TrackersKnow
  <2>1. l \in Here(book) /\ (l \in DOMAIN stands \/ l \in Large(book))
    BY <1>1, <1>5
  <2>2. l \in DOMAIN w => w[l].age <= stands'[l].age
    BY <1>2, <1>3, <1>5, <2>1 DEF IInv, TypeOK, TrackersKnow, Age
  <2>3. l \in DOMAIN walls' => /\ walls'[l] = w[l] /\ l \in DOMAIN w
                               /\ l \notin Filled(book, w) /\ l \in Here(book)
    BY <1>4, <1>7
  <2>4. stands'[l].let = "no" => l \in DOMAIN walls' /\ walls'[l].age = stands'[l].age
    BY <1>2, <1>3, <1>4, <1>5, <1>7, <2>1 DEF IInv, TypeOK, TrackersKnow
  <2>5. stands'[l].let = "settled" => stands'[l].age > 5 * Lifetime
    <3>1. CASE l \in Settled(book, w)
      BY <3>1, <1>2, <1>6, <2>2 DEF Settled, Age
    <3>2. CASE l \notin Settled(book, w)
      BY <3>2, <1>5 DEF IInv, TrackersKnow
    <3> QED  BY <3>1, <3>2
  <2> QED  BY <2>2, <2>3, <2>4, <2>5
<1>9. \A l \in Pulled(book, w) : Ghost(l, w) \in Event /\ Explained(Ghost(l, w))
  <2> SUFFICES ASSUME NEW l \in Pulled(book, w)
               PROVE  Ghost(l, w) \in Event /\ Explained(Ghost(l, w))
    OBVIOUS
  <2>1. l \in DOMAIN walls /\ l \in DOMAIN stands /\ l \in Level /\ w[l] = walls[l]
        /\ w[l].age <= Lifetime
    BY <1>1, <1>2, <1>3 DEF Pulled, IInv, TypeOK
  <2>2. Ghost(l, w) \in Event
    BY <2>1 DEF Ghost, Event, IInv, TypeOK
  <2>3. /\ stands[l].let = "no" => stands[l].age = walls[l].age
        /\ stands[l].let = "settled" => stands[l].age > 5 * Lifetime
        /\ stands[l].let \in Let
    BY <2>1 DEF IInv, TrackersKnow, TypeOK
  <2>4. Explained(Ghost(l, w))
    BY <2>1, <2>3 DEF Explained, Ghost, Let
  <2> QED  BY <2>2, <2>4
<1>10. PICK order \in SetToSeqs(Pulled(book, w)) :
         ghosts' = LastOf(ghosts \o [k \in DOMAIN order |-> Ghost(order[k], w)], GhostCap)
  BY DEF Snapshot
<1> DEFINE new == [k \in DOMAIN order |-> Ghost(order[k], w)]
<1>11. PICK n \in Nat : DOMAIN order = 1 .. n /\ \A k \in 1 .. n : order[k] \in Pulled(book, w)
  <2>1. IsFiniteSet(Pulled(book, w))
    <3>1. Pulled(book, w) \subseteq Level
      BY <1>2 DEF Pulled
    <3> QED  BY <3>1, LevelFinite, FS_Subset
  <2>2. Cardinality(Pulled(book, w)) \in Nat
    BY <2>1, FS_CardinalityType
  <2> QED  BY <2>2 DEF SetToSeqs
<1>12. new \in Seq(Event) /\ \A k \in DOMAIN new : Explained(new[k])
  BY <1>9, <1>11
<1>13. ghosts \in Seq(Event) /\ \A k \in DOMAIN ghosts : Explained(ghosts[k])
  BY DEF IInv, TypeOK, GhostsWereYoung, Explained, Event
<1>14. /\ ghosts \o new \in Seq(Event)
       /\ \A i \in DOMAIN (ghosts \o new) : Explained((ghosts \o new)[i])
  BY <1>12, <1>13
<1>15. /\ ghosts' \in Seq(Event) /\ Len(ghosts') <= GhostCap
       /\ \A k \in DOMAIN ghosts' : Explained(ghosts'[k])
  <2>1. ghosts' = LastOf(ghosts \o new, GhostCap)
    BY <1>10
  <2> HIDE DEF new
  <2>2. /\ ghosts' \in Seq(Event) /\ Len(ghosts') <= GhostCap
        /\ \A k \in DOMAIN ghosts' :
             \E i \in DOMAIN (ghosts \o new) : ghosts'[k] = (ghosts \o new)[i]
    <3> DEFINE all == ghosts \o new
    <3>1. all \in Seq(Event) /\ GhostCap \in Nat \ {0} /\ ghosts' = LastOf(all, GhostCap)
      BY <2>1, <1>14
    <3> HIDE DEF all
    <3>2. /\ ghosts' \in Seq(Event) /\ Len(ghosts') <= GhostCap
          /\ \A k \in DOMAIN ghosts' : \E i \in DOMAIN all : ghosts'[k] = all[i]
      BY <3>1, LastOfFact
    <3> QED  BY <3>2 DEF all
  <2> QED  BY <2>2, <1>14
<1>16. TypeOK'
  BY <1>6, <1>7, <1>15 DEF TypeOK, Event
<1>17. GhostsWereYoung'
  BY <1>15 DEF GhostsWereYoung, Explained
<1> QED  BY <1>8, <1>16, <1>17 DEF IInv

\* The invariant holds for ever.
THEOREM Invariance == Spec => []IInv
<1>1. ASSUME IInv, [Next]_vars PROVE IInv'
  <2>1. ASSUME NEW book \in Books, Snapshot(book) PROVE IInv'
    BY <1>1, <2>1, SnapshotKeepsInv
  <2>2. CASE Clock
    BY <1>1, <2>2, ClockKeepsInv
  <2>3. CASE UNCHANGED vars
    BY <1>1, <2>3 DEF vars, IInv, TypeOK, TrackersKnow, GhostsWereYoung
  <2> QED  BY <1>1, <2>1, <2>2, <2>3 DEF Next, SnapshotArrives
<1> QED  BY InitInv, <1>1, PTL DEF Spec

\* Whatever is tracked stands in the last book, and the log of ghosts is bounded.
THEOREM TypeCorrect == Spec => []TypeOK
<1>1. IInv => TypeOK
  BY DEF IInv
<1> QED  BY Invariance, <1>1, PTL

\* A ghost stood no longer than a ghost may, or its tracker had been let go of.
THEOREM GhostsAreYoung == Spec => []GhostsWereYoung
<1>1. IInv => GhostsWereYoung
  BY DEF IInv
<1> QED  BY Invariance, <1>1, PTL
=============================================================================
