------------------------------ MODULE Apm_proofs ------------------------------
(***************************************************************************)
(* Proofs about Apm, for any positions, ticks, limits and bounds, and      *)
(* about the replay of Backtest, which drives it, for any tapes and        *)
(* strategies.                                                             *)
(***************************************************************************)
EXTENDS Backtest, FiniteSetTheorems, SequenceTheorems,
        WellFoundedInduction, TLAPS

-----------------------------------------------------------------------------
(***************************************************************************)
(* Lemmas about the operators.                                             *)
(***************************************************************************)

\* The larger and the smaller of two integers are one of them and bound both.
LEMMA HigherLower ==
  ASSUME NEW a \in Int, NEW b \in Int
  PROVE  /\ Higher(a, b) \in {a, b} /\ Higher(a, b) >= a /\ Higher(a, b) >= b
         /\ Lower(a, b) \in {a, b} /\ Lower(a, b) <= a /\ Lower(a, b) <= b
  BY DEF Higher, Lower

\* Every nonempty set of naturals has a least one.
LEMMA LeastNumber ==
  ASSUME NEW P, P \subseteq Nat, P # {}
  PROVE  \E n \in P : \A m \in P : n <= m
<1> DEFINE R == OpToRel(<, Nat)
<1>1. IsWellFoundedOn(R, Nat)
  BY NatLessThanWellFounded
<1>2. \A m, n \in Nat : <<m, n>> \in R <=> m < n
  BY DEF OpToRel
<1> HIDE DEF R
<1>3. PICK n \in P : \A m \in P : <<m, n>> \notin R
  BY <1>1, WFMin
<1>4. ASSUME NEW m \in P PROVE n <= m
  <2>1. m \in Nat /\ n \in Nat /\ ~(m < n)
    BY <1>2, <1>3
  <2> QED  BY <2>1
<1> QED  BY <1>4

\* A function on an interval reaches a greatest value there: the first end of
\* the interval for which it did not would have one after all.
LEMMA GreatestValue ==
  ASSUME NEW f, NEW lo \in Nat, NEW hi \in Nat, lo <= hi, \A k \in lo .. hi : f[k] \in Nat
  PROVE  \E m \in lo .. hi : \A k \in lo .. hi : f[k] <= f[m]
<1> DEFINE Has(j) == \E m \in lo .. j : \A k \in lo .. j : f[k] <= f[m]
           P == {j \in lo .. hi : ~Has(j)}
<1>1. hi \in lo .. hi
  OBVIOUS
<1> SUFFICES ASSUME P # {} PROVE FALSE
  BY <1>1
<1>2. P \subseteq Nat
  OBVIOUS
<1> HIDE DEF P
<1>3. PICK j \in P : \A m \in P : j <= m
  BY <1>2, LeastNumber
<1>4. j \in lo .. hi /\ ~Has(j) /\ j \in Nat
  BY DEF P
<1>5. CASE j = lo
  <2>1. \A k \in lo .. j : k = j /\ f[k] <= f[j]
    BY <1>4, <1>5
  <2>2. j \in lo .. j
    BY <1>4, <1>5
  <2> QED  BY <1>4, <2>1, <2>2
<1>6. CASE j # lo
  <2>1. j - 1 \in lo .. hi /\ j - 1 \notin P
    BY <1>3, <1>4, <1>6
  <2>2. PICK m \in lo .. j - 1 : \A k \in lo .. j - 1 : f[k] <= f[m]
    BY <2>1 DEF P
  <2>3. /\ m \in lo .. j /\ j \in lo .. j /\ f[m] \in Nat /\ f[j] \in Nat
        /\ \A k \in lo .. j : (k \in lo .. j - 1 \/ k = j) /\ f[k] \in Nat
    BY <1>4, <2>1
  <2>4. CASE f[j] <= f[m]
    BY <1>4, <2>2, <2>3, <2>4
  <2>5. CASE ~(f[j] <= f[m])
    <3>1. \A k \in lo .. j : f[k] <= f[j]
      BY <2>2, <2>3, <2>5
    <3> QED  BY <1>4, <2>3, <3>1
  <2> QED  BY <2>4, <2>5
<1> QED  BY <1>5, <1>6

\* The end of a sequence is a sequence of the same elements.
LEMMA LastOfType ==
  ASSUME NEW S, NEW s \in Seq(S), NEW n \in Nat \ {0}
  PROVE  LastOf(s, n) \in Seq(S)
<1>1. CASE Len(s) <= n
  BY <1>1 DEF LastOf
<1>2. CASE ~(Len(s) <= n)
  <2>1. Len(s) \in Nat /\ Len(s) - n + 1 \in 1..Len(s)
    BY <1>2
  <2> QED  BY <1>2, <2>1 DEF LastOf
<1> QED  BY <1>1, <1>2

\* The ATR multiple stays between Ultra and Wide: smoothing towards a target
\* in that range, from a multiple in that range or from the toxic override.
LEMMA MultInRange ==
  ASSUME NEW q, NEW t, q.mult \in Ultra..Wide
  PROVE  Mult(q, t) \in Ultra..Wide
<1>1. From(q, t) \in Ultra..Wide
  BY DEF From, Lower, Ultra, Wide
<1>2. Target(Book(q, t)) \in {Wide, Tight, Default}
  BY DEF Target
<1> QED  BY <1>1, <1>2 DEF Mult, Ultra, Wide, Tight, Default

\* A larger multiple of an ATR is a larger distance.
LEMMA Distance ==
  ASSUME NEW atr \in Nat, NEW mult \in Ultra..Wide
  PROVE  atr * mult \in Nat /\ atr * mult >= Ultra * atr
  BY DEF Ultra, Wide

\* A gain is an integer.
LEMMA GainType ==
  ASSUME NEW side, NEW entry \in Nat, NEW price \in Nat
  PROVE  Gain(side, entry, price) \in Int
  BY DEF Gain

-----------------------------------------------------------------------------
(***************************************************************************)
(* One position: what every step makes of its record.                      *)
(***************************************************************************)

\* What a tick carries.
LEMMA TickType ==
  ASSUME NEW t \in Ticks
  PROVE  /\ t.price \in Nat \ {0} /\ t.traded \in BOOLEAN /\ t.vpin \in Levels
         /\ t.obi \in Int /\ t.ghosts \in Seq(GhostEvent)
  BY TicksAssumption

\* What the fields of a position are.
LEMMA PositionFields ==
  ASSUME NEW q \in PositionType
  PROVE  /\ q.side \in {"LONG", "SHORT", "NONE"} /\ q.entry \in Nat
         /\ q.age \in 0..MaxAge /\ q.fed \in 0..TicksPerAge
         /\ q.price \in Nat /\ q.high \in Nat /\ q.low \in Nat /\ q.pnl \in Int
         /\ q.vpin \in Levels /\ q.atr \in Nat /\ q.mult \in Ultra..Wide
         /\ q.obi \in Seq(Int) /\ q.trailHigh \in Nat /\ q.trailLow \in Nat
         /\ q.stop \in Int /\ q.peak \in Nat
         /\ q.ghosts \in Seq([ghost : GhostEvent, age : 0..GhostWindow + 1])
         /\ q.reason \in ExitReason \cup {"none"}
  BY DEF PositionType

\* A registered position has its type, and its stop two ATR away.
LEMMA PositionIsTyped ==
  ASSUME NEW side \in {"LONG", "SHORT", "NONE"}, NEW entry \in Nat, NEW atr \in Nat
  PROVE  Position([side |-> side, entry |-> entry, atr |-> atr]) \in PositionType
<1> DEFINE a == Higher(atr, entry \div 1000)
<1>1. a \in Nat
  BY HigherLower DEF Higher
<1>2. a * Default \in Nat
  BY <1>1 DEF Default
<1>3. StopFrom(side, entry, a, Default) \in Int
  BY <1>2 DEF StopFrom
<1>4. 0 \in 0..MaxAge /\ 0 \in 0..TicksPerAge
  BY AgeAssumption, BoundAssumption DEF MaxAge, Higher
<1>5. Default \in Ultra..Wide
  BY DEF Default, Ultra, Wide
<1> HIDE DEF a
<1> QED
  BY <1>1, <1>3, <1>4, <1>5 DEF a, Position, PositionType, Levels

\* The record a tick makes keeps its type.
LEMMA TickedIsTyped ==
  ASSUME NEW q \in PositionType, NEW t \in Ticks, q.fed < TicksPerAge
  PROVE  Ticked(q, t) \in PositionType
<1>0. /\ t.price \in Nat /\ t.vpin \in Levels /\ t.obi \in Int
      /\ t.ghosts \in Seq(GhostEvent)
  BY TickType
<1> USE PositionFields
<1>1. /\ Higher(q.high, t.price) \in Nat /\ Lower(q.low, t.price) \in Nat
      /\ Gain(q.side, q.entry, t.price) \in Int
      /\ Level(q, t) \in Levels
  BY <1>0 DEF Higher, Lower, Gain, Level
<1>2. q.fed + 1 \in 0..TicksPerAge
  BY BoundAssumption
<1>3. Book(q, t) \in Seq(Int)
  <2>1. Append(q.obi, t.obi) \in Seq(Int)
    BY <1>0
  <2> QED  BY <2>1, LastOfType, BoundAssumption DEF Book
<1>4. Haunting(q, t) \in Seq([ghost : GhostEvent, age : 0..GhostWindow + 1])
  <2> DEFINE G == [ghost : GhostEvent, age : 0..GhostWindow + 1]
             new == [i \in 1..Len(t.ghosts) |-> [ghost |-> t.ghosts[i], age |-> 0]]
  <2>1. \A i \in 1..Len(t.ghosts) : [ghost |-> t.ghosts[i], age |-> 0] \in G
    BY <1>0, AgeAssumption
  <2>2. Len(t.ghosts) \in Nat
    BY <1>0
  <2>3. new \in Seq(G)
    BY <2>1, <2>2
  <2>4. q.ghosts \in Seq(G)
    OBVIOUS
  <2> HIDE DEF G, new
  <2>5. q.ghosts \o new \in Seq(G)
    BY <2>3, <2>4
  <2>6. LastOf(q.ghosts \o new, GhostCap) \in Seq(G)
    BY <2>5, LastOfType, BoundAssumption
  <2> QED  BY <2>6 DEF Haunting, G, new
<1>5. q.mult \in Ultra..Wide /\ Mult(q, t) \in Ultra..Wide
  BY MultInRange
<1>6. TrailHigh(q, t) \in Nat /\ TrailLow(q, t) \in Nat
  BY <1>0 DEF TrailHigh, TrailLow, Higher, Lower
<1>7. Stop(q, t) \in Int
  <2>1. q.atr * Mult(q, t) \in Nat
    BY <1>5, Distance
  <2>2. /\ 100 * TrailHigh(q, t) - q.atr * Mult(q, t) \in Int
        /\ 100 * TrailLow(q, t) + q.atr * Mult(q, t) \in Int
    BY <2>1, <1>6
  <2> QED  BY <2>2 DEF Stop, StopFrom, Higher, Lower
<1>8. Peak(q, t) \in Nat
  BY <1>1 DEF Peak, Higher
<1> QED
  BY <1>0, <1>1, <1>2, <1>3, <1>4, <1>5, <1>6, <1>7, <1>8 DEF Ticked, PositionType

\* So does what is left of a position that exits.
LEMMA RetiredIsTyped ==
  ASSUME NEW q \in PositionType, NEW reason \in ExitReason
  PROVE  /\ Retired(q, reason) \in PositionType
         /\ Retired(q, reason).reason = reason
         /\ Retired(q, reason).age = q.age /\ Retired(q, reason).entry = q.entry
         /\ Retired(q, reason).side = q.side
         /\ Retired(q, reason).high = q.high /\ Retired(q, reason).low = q.low
<1>1. 0 \in 0..TicksPerAge /\ Default \in Ultra..Wide
  BY BoundAssumption DEF Default, Ultra, Wide
<1>2. <<>> \in Seq(Int) /\ <<>> \in Seq([ghost : GhostEvent, age : 0..GhostWindow + 1])
  OBVIOUS
<1> QED  BY <1>1, <1>2 DEF Retired, PositionType, Levels

\* The first reason that is due is one of Priority, and it is due.
LEMMA FirstDue ==
  ASSUME NEW q, NEW t, AllDue(q, t) # {}
  PROVE  /\ Min(AllDue(q, t)) \in AllDue(q, t)
         /\ Priority[Min(AllDue(q, t))] \in ExitReason \ {"manual_exit"}
         /\ Due(Priority[Min(AllDue(q, t))], q, t)
<1> DEFINE S == AllDue(q, t)
<1>1. S \subseteq 1..8
  BY DEF AllDue, Priority
<1>2. \E x \in S : \A y \in S : x <= y
  <2>1. CASE 1 \in S  BY <2>1, <1>1
  <2>2. CASE 1 \notin S /\ 2 \in S  BY <2>2, <1>1
  <2>3. CASE S \subseteq 3..8 /\ 3 \in S  BY <2>3
  <2>4. CASE S \subseteq 4..8 /\ 4 \in S  BY <2>4
  <2>5. CASE S \subseteq 5..8 /\ 5 \in S  BY <2>5
  <2>6. CASE S \subseteq 6..8 /\ 6 \in S  BY <2>6
  <2>7. CASE S \subseteq 7..8  BY <2>7
  <2> QED  BY <1>1, <2>1, <2>2, <2>3, <2>4, <2>5, <2>6, <2>7
<1>3. Min(S) \in S
  BY <1>2 DEF Min
<1>4. \A i \in 1..8 : Priority[i] \in ExitReason \ {"manual_exit"}
  BY DEF Priority, ExitReason, ToSet
<1> QED  BY <1>1, <1>3, <1>4 DEF AllDue

-----------------------------------------------------------------------------
(***************************************************************************)
(* The inductive invariant.  A held position keeps its stop at a distance  *)
(* from the best price; if it has an entry price its weapons agree and it  *)
(* is within its limits.  The weapons' agreement is what turns the alpha   *)
(* timer's memory into a statement about the prices the position saw.      *)
(***************************************************************************)

Distant(q) ==
  IF q.side = "LONG" THEN q.stop <= 100 * q.trailHigh - Ultra * q.atr
                     ELSE q.stop >= 100 * q.trailLow + Ultra * q.atr

Agrees(q) ==
  /\ q.peak = Gain(q.side, q.entry, Best(q))
  /\ IF q.side = "LONG" THEN q.trailHigh = q.high ELSE q.trailLow = q.low

Within(q) ==
  /\ 100 * Gain(q.side, q.entry, Worst(q)) > -HardStopPct * q.entry
  /\ 100 * Gain(q.side, q.entry, Best(q)) < TakeProfitPct * q.entry
  /\ q.price > 0 => ~Triggered(q)

Stale(q) ==
  /\ q.age >= DecayAge
  /\ 1000 * Gain(q.side, q.entry, Best(q)) < MinMovePerMille * q.entry

PosInv(s, q) ==
  /\ q \in PositionType
  /\ s = "active" => /\ Distant(q)
                     /\ q.entry > 0 => Agrees(q) /\ Within(q)
  /\ IF s = "closed" THEN q.reason \in ExitReason ELSE q.reason = "none"
  /\ q.reason = "alpha_decay" => Stale(q)

IInv ==
  /\ status \in [Pids -> {"free", "active", "closed"}]
  /\ pos \in [Pids -> PositionType]
  /\ closed \in Seq(Pids)
  /\ totalExits \in Nat
  /\ reasonCounts \in [ExitReason -> Nat]
  /\ \A p \in Pids : PosInv(status[p], pos[p])

\* The invariant implies the properties.
LEMMA IInvImplies ==
  ASSUME IInv
  PROVE  TypeOK /\ HeldWithinLimits /\ StopKeepsDistance /\ WeaponsAgree /\ DecayIsTrue
<1>1. TypeOK
  BY DEF IInv, TypeOK
<1>2. HeldWithinLimits
  BY DEF IInv, PosInv, Within, HeldWithinLimits, Active
<1>3. StopKeepsDistance
  BY DEF IInv, PosInv, Distant, StopKeepsDistance, Active
<1>4. WeaponsAgree
  BY DEF IInv, PosInv, Agrees, WeaponsAgree, Active
<1>5. DecayIsTrue
  BY DEF IInv, PosInv, Stale, DecayIsTrue
<1> QED  BY <1>1, <1>2, <1>3, <1>4, <1>5

\* The product of two positive integers is positive.
LEMMA Positive ==
  ASSUME NEW a \in Nat \ {0}, NEW b \in Nat \ {0}
  PROVE  a * b \in Nat /\ a * b > 0
  OBVIOUS

\* A position starts out in the invariant, before its first price.
LEMMA RegisteredIsSound ==
  ASSUME NEW side \in {"LONG", "SHORT", "NONE"}, NEW entry \in Nat, NEW atr \in Nat,
         NEW s \in {"free", "active"}
  PROVE  PosInv(s, Position([side |-> side, entry |-> entry, atr |-> atr]))
<1> DEFINE a == Higher(atr, entry \div 1000)
           q == Position([side |-> side, entry |-> entry, atr |-> atr])
<1>1. q \in PositionType
  BY PositionIsTyped
<1>2. a \in Nat
  BY DEF Higher
<1>3. /\ q.side = side /\ q.entry = entry /\ q.price = 0 /\ q.high = entry /\ q.low = entry
      /\ q.atr = a /\ q.trailHigh = entry /\ q.trailLow = entry /\ q.peak = 0
      /\ q.stop = StopFrom(side, entry, a, Default) /\ q.reason = "none"
  BY DEF Position
<1>4. a * Default >= Ultra * a /\ a * Default \in Nat
  BY <1>2 DEF Default, Ultra
<1> HIDE DEF a, q
<1>5. Distant(q)
  BY <1>2, <1>3, <1>4 DEF Distant, StopFrom, Ultra
<1>6. Best(q) = entry /\ Worst(q) = entry /\ Gain(side, entry, entry) = 0
  BY <1>3 DEF Best, Worst, Gain
<1>7. Agrees(q)
  BY <1>3, <1>6 DEF Agrees
<1>8. entry > 0 => Within(q)
  <2> SUFFICES ASSUME entry > 0 PROVE Within(q)
    OBVIOUS
  <2>1. HardStopPct * entry > 0 /\ TakeProfitPct * entry > 0
    BY Positive, LimitsAssumption
  <2>2. -HardStopPct * entry = -(HardStopPct * entry)
    BY LimitsAssumption
  <2> QED  BY <2>1, <2>2, <1>3, <1>6, LimitsAssumption DEF Within
<1> QED
  BY <1>1, <1>3, <1>5, <1>7, <1>8 DEF PosInv, q

-----------------------------------------------------------------------------
(***************************************************************************)
(* A tick keeps each part of the invariant, exit or not.                   *)
(***************************************************************************)

\* The fields of a ticked position, without expanding the rest.
LEMMA TickedFields ==
  ASSUME NEW q, NEW t
  PROVE  /\ Ticked(q, t).side = q.side /\ Ticked(q, t).entry = q.entry
         /\ Ticked(q, t).age = q.age /\ Ticked(q, t).atr = q.atr
         /\ Ticked(q, t).price = t.price
         /\ Ticked(q, t).high = Higher(q.high, t.price)
         /\ Ticked(q, t).low = Lower(q.low, t.price)
         /\ Ticked(q, t).pnl = Gain(q.side, q.entry, t.price)
         /\ Ticked(q, t).trailHigh = TrailHigh(q, t)
         /\ Ticked(q, t).trailLow = TrailLow(q, t)
         /\ Ticked(q, t).stop = Stop(q, t) /\ Ticked(q, t).peak = Peak(q, t)
         /\ Ticked(q, t).reason = q.reason
  BY DEF Ticked

\* The old stop keeps its distance because the best price only improves, the
\* new one because its multiple is at least Ultra.
LEMMA TickKeepsDistance ==
  ASSUME NEW q \in PositionType, NEW t \in Ticks, Distant(q)
  PROVE  Distant(Ticked(q, t))
<1> USE PositionFields
<1>1. t.price \in Nat
  BY TickType
<1>2. Mult(q, t) \in Ultra..Wide
  BY MultInRange
<1>3. q.atr * Mult(q, t) \in Nat /\ q.atr * Mult(q, t) >= Ultra * q.atr
  BY <1>2, Distance
<1>4. Ultra * q.atr \in Nat
  BY DEF Ultra
<1>5. CASE q.side = "LONG"
  <2>1. TrailHigh(q, t) >= q.trailHigh /\ TrailHigh(q, t) \in Nat
    BY <1>1, <1>5 DEF TrailHigh, Higher
  <2>2. q.stop <= 100 * q.trailHigh - Ultra * q.atr
    BY <1>5 DEF Distant
  <2>3. Stop(q, t) = Higher(q.stop, 100 * TrailHigh(q, t) - q.atr * Mult(q, t))
    BY <1>5 DEF Stop, StopFrom
  <2>4. Stop(q, t) <= 100 * TrailHigh(q, t) - Ultra * q.atr
    BY <1>3, <1>4, <2>1, <2>2, <2>3 DEF Higher
  <2> QED  BY <1>5, <2>4, TickedFields DEF Distant
<1>6. CASE q.side # "LONG"
  <2>1. TrailLow(q, t) <= q.trailLow /\ TrailLow(q, t) \in Nat
    BY <1>1, <1>6 DEF TrailLow, Lower
  <2>2. q.stop >= 100 * q.trailLow + Ultra * q.atr
    BY <1>6 DEF Distant
  <2>3. Stop(q, t) = Lower(q.stop, 100 * TrailLow(q, t) + q.atr * Mult(q, t))
    BY <1>6 DEF Stop, StopFrom
  <2>4. Stop(q, t) >= 100 * TrailLow(q, t) + Ultra * q.atr
    BY <1>3, <1>4, <2>1, <2>2, <2>3 DEF Lower
  <2> QED  BY <1>6, <2>4, TickedFields DEF Distant
<1> QED  BY <1>5, <1>6

\* The weapons' memories move together.
LEMMA TickKeepsAgreement ==
  ASSUME NEW q \in PositionType, NEW t \in Ticks, Agrees(q)
  PROVE  Agrees(Ticked(q, t))
<1> DEFINE r == Ticked(q, t)
<1>1. t.price \in Nat
  BY TickType
<1>2. /\ r.side = q.side /\ r.entry = q.entry /\ r.peak = Peak(q, t)
      /\ r.high = Higher(q.high, t.price) /\ r.low = Lower(q.low, t.price)
      /\ r.trailHigh = TrailHigh(q, t) /\ r.trailLow = TrailLow(q, t)
  BY TickedFields
<1> HIDE DEF r
<1>3. q.entry \in Nat /\ q.high \in Nat /\ q.low \in Nat
  BY PositionFields
<1>4. CASE q.side = "LONG"
  <2>1. q.peak = q.high - q.entry /\ q.trailHigh = q.high
    BY <1>4 DEF Agrees, Best, Gain
  <2>2. Peak(q, t) = Higher(q.peak, t.price - q.entry)
    BY <1>4 DEF Peak, Gain
  <2>3. Peak(q, t) = Higher(q.high, t.price) - q.entry
    BY <1>1, <1>3, <2>1, <2>2 DEF Higher
  <2>4. r.trailHigh = r.high
    BY <1>2, <1>4, <2>1 DEF TrailHigh
  <2>5. r.side = "LONG" /\ r.peak = r.high - r.entry
    BY <1>2, <1>4, <2>3
  <2>6. Gain(r.side, r.entry, Best(r)) = r.high - r.entry
    BY <2>5 DEF Best, Gain
  <2> QED  BY <2>4, <2>5, <2>6 DEF Agrees, r
<1>5. CASE q.side # "LONG"
  <2>1. q.peak = q.entry - q.low /\ q.trailLow = q.low
    BY <1>5 DEF Agrees, Best, Gain
  <2>2. Peak(q, t) = Higher(q.peak, q.entry - t.price)
    BY <1>5 DEF Peak, Gain
  <2>3. Peak(q, t) = q.entry - Lower(q.low, t.price)
    BY <1>1, <1>3, <2>1, <2>2 DEF Higher, Lower
  <2>4. r.trailLow = r.low
    BY <1>2, <1>5, <2>1 DEF TrailLow
  <2>5. r.side # "LONG" /\ r.peak = r.entry - r.low
    BY <1>2, <1>5, <2>3
  <2>6. Gain(r.side, r.entry, Best(r)) = r.entry - r.low
    BY <2>5 DEF Best, Gain
  <2> QED  BY <2>4, <2>5, <2>6 DEF Agrees, r
<1> QED  BY <1>4, <1>5 DEF r

\* A tick that finds no reason to exit leaves the position within its limits.
LEMMA TickKeepsWithin ==
  ASSUME NEW q \in PositionType, NEW t \in Ticks, Within(q),
         AllDue(Ticked(q, t), t) = {}
  PROVE  Within(Ticked(q, t))
<1> DEFINE r == Ticked(q, t)
<1>1. /\ r.side = q.side /\ r.entry = q.entry /\ r.price = t.price
      /\ r.high = Higher(q.high, t.price) /\ r.low = Lower(q.low, t.price)
      /\ r.pnl = Gain(q.side, q.entry, t.price)
  BY TickedFields
<1>2. /\ ~Due("obi_trail_stop", r, t) /\ ~Due("take_profit", r, t)
      /\ ~Due("hard_stop", r, t)
  <2>1. \A i \in 1..8 : ~Due(Priority[i], r, t)
    BY DEF AllDue, Priority
  <2>2. Priority[4] = "obi_trail_stop" /\ Priority[6] = "take_profit"
        /\ Priority[7] = "hard_stop"
    BY DEF Priority
  <2> HIDE DEF r
  <2> QED  BY <2>1, <2>2
<1> HIDE DEF r
<1>3. /\ ~Triggered(r)
      /\ ~(100 * r.pnl >= TakeProfitPct * r.entry)
      /\ ~(100 * r.pnl <= -HardStopPct * r.entry)
  BY <1>2 DEF Due, SafetyNet
<1>4. /\ q.entry \in Nat /\ q.high \in Nat /\ q.low \in Nat /\ t.price \in Nat
      /\ TakeProfitPct * q.entry \in Int /\ -HardStopPct * q.entry \in Int
  BY PositionFields, TickType, LimitsAssumption
<1>5. /\ 100 * Gain(q.side, q.entry, t.price) < TakeProfitPct * q.entry
      /\ 100 * Gain(q.side, q.entry, t.price) > -HardStopPct * q.entry
  BY <1>1, <1>3, <1>4 DEF Gain
<1>6. 100 * Gain(r.side, r.entry, Worst(r)) > -HardStopPct * r.entry
  BY <1>1, <1>4, <1>5 DEF Within, Worst, Gain, Higher, Lower
<1>7. 100 * Gain(r.side, r.entry, Best(r)) < TakeProfitPct * r.entry
  BY <1>1, <1>4, <1>5 DEF Within, Best, Gain, Higher, Lower
<1> QED  BY <1>3, <1>6, <1>7 DEF Within, r

\* A ticked position that exits because of alpha decay is stale.
LEMMA DecayedIsStale ==
  ASSUME NEW r, NEW t, Agrees(r), Due("alpha_decay", r, t),
         r.peak \in Int, r.entry \in Nat
  PROVE  Stale(r)
<1>1. ~Moved(r) /\ r.age >= DecayAge
  BY DEF Due, SafetyNet
<1>2. MinMovePerMille * r.entry \in Int
  BY LimitsAssumption
<1> QED  BY <1>1, <1>2 DEF Moved, Agrees, Stale

-----------------------------------------------------------------------------
(***************************************************************************)
(* Every action preserves the invariant.                                   *)
(***************************************************************************)

\* A step that changes one position, to one that is sound.
LEMMA OneChanges ==
  ASSUME IInv, NEW p \in Pids, NEW s \in {"free", "active", "closed"}, NEW q,
         status' = [status EXCEPT ![p] = s], pos' = [pos EXCEPT ![p] = q],
         PosInv(s, q), closed' \in Seq(Pids), totalExits' \in Nat,
         reasonCounts' \in [ExitReason -> Nat]
  PROVE  IInv'
<1>1. status' \in [Pids -> {"free", "active", "closed"}]
  BY DEF IInv
<1>2. pos' \in [Pids -> PositionType]
  BY DEF IInv, PosInv
<1>3. \A r \in Pids : PosInv(status'[r], pos'[r])
  BY DEF IInv
<1> QED  BY <1>1, <1>2, <1>3 DEF IInv

\* An exit closes the position and counts it.
LEMMA ExitKeepsInv ==
  ASSUME IInv, NEW p \in Pids, NEW q \in PositionType, NEW reason \in ExitReason,
         Exit(p, q, reason), reason = "alpha_decay" => Stale(q)
  PROVE  IInv'
<1> DEFINE r == Retired(q, reason)
<1>1. /\ r \in PositionType /\ r.reason = reason /\ r.age = q.age /\ r.entry = q.entry
      /\ r.side = q.side /\ r.high = q.high /\ r.low = q.low
  BY RetiredIsTyped
<1> HIDE DEF r
<1>2. Best(r) = Best(q)
  BY <1>1 DEF Best
<1>3. reason = "alpha_decay" => Stale(r)
  BY <1>1, <1>2 DEF Stale
<1>4. PosInv("closed", r)
  BY <1>1, <1>3 DEF PosInv
<1>5. /\ status' = [status EXCEPT ![p] = "closed"] /\ pos' = [pos EXCEPT ![p] = r]
      /\ closed' = LastOf(Append(closed, p), ClosedCap)
      /\ totalExits' = totalExits + 1
      /\ reasonCounts' = [reasonCounts EXCEPT ![reason] = @ + 1]
  BY DEF Exit, r
<1>6. closed' \in Seq(Pids)
  <2>1. Append(closed, p) \in Seq(Pids)
    BY DEF IInv
  <2> QED  BY <1>5, <2>1, LastOfType, BoundAssumption
<1>7. totalExits' \in Nat /\ reasonCounts' \in [ExitReason -> Nat]
  BY <1>5 DEF IInv
<1> QED  BY <1>4, <1>5, <1>6, <1>7, OneChanges

\* What may be registered.
AnyOffer == [side : {"LONG", "SHORT", "NONE"}, entry : Nat, atr : Nat]

\* Registration adds a sound position.
LEMMA RegisterKeepsInv ==
  ASSUME IInv, NEW p \in Pids, NEW o \in AnyOffer, Register(p, o)
  PROVE  IInv'
<1>1. PICK side \in {"LONG", "SHORT", "NONE"}, entry \in Nat, atr \in Nat :
        o = [side |-> side, entry |-> entry, atr |-> atr]
  BY DEF AnyOffer
<1>2. PosInv("active", Position(o))
  BY <1>1, RegisteredIsSound
<1>3. closed' \in Seq(Pids) /\ totalExits' \in Nat /\ reasonCounts' \in [ExitReason -> Nat]
  BY DEF Register, IInv
<1> QED  BY <1>2, <1>3, OneChanges DEF Register

\* A tick leaves a sound position, held or retired.
LEMMA TickKeepsInv ==
  ASSUME IInv, NEW p \in Pids, NEW t \in Ticks, Tick(p, t)
  PROVE  IInv'
<1> DEFINE old == pos[p]
           q   == Ticked(old, t)
<1>1. /\ status[p] = "active" /\ old \in PositionType /\ PosInv("active", old)
      /\ old.entry > 0 /\ old.fed < TicksPerAge
  <2>1. old \in PositionType /\ PosInv(status[p], old)
    BY DEF IInv
  <2>2. status[p] = "active" /\ old.entry # 0 /\ old.fed < TicksPerAge
    BY DEF Tick
  <2> QED  BY <2>1, <2>2, PositionFields
<1>2. Distant(old) /\ Agrees(old) /\ Within(old) /\ old.reason = "none"
  BY <1>1 DEF PosInv
<1>3. q \in PositionType
  BY <1>1, TickedIsTyped
<1>4. q.reason = "none" /\ q.entry = old.entry
  BY <1>2, TickedFields
<1>5. Distant(q) /\ Agrees(q)
  BY <1>1, <1>2, TickKeepsDistance, TickKeepsAgreement
<1>6. CASE AllDue(q, t) # {} /\ Exit(p, q, Priority[Min(AllDue(q, t))])
  <2> DEFINE reason == Priority[Min(AllDue(q, t))]
  <2>1. reason \in ExitReason /\ Due(reason, q, t)
    BY <1>6, FirstDue
  <2>2. reason = "alpha_decay" => Stale(q)
    <3>1. q.peak \in Int /\ q.entry \in Nat
      BY <1>3, PositionFields
    <3> HIDE DEF q, reason
    <3> QED  BY <1>5, <2>1, <3>1, DecayedIsStale
  <2>3. Exit(p, q, reason)
    BY <1>6
  <2> HIDE DEF q, reason
  <2> QED  BY <1>3, <2>1, <2>2, <2>3, ExitKeepsInv
<1>7. CASE /\ AllDue(q, t) = {} /\ pos' = [pos EXCEPT ![p] = q]
           /\ UNCHANGED <<status, closed, totalExits, reasonCounts>>
  <2>1. Within(q)
    BY <1>1, <1>2, <1>7, TickKeepsWithin
  <2> HIDE DEF q
  <2>2. PosInv("active", q)
    BY <1>3, <1>4, <1>5, <2>1 DEF PosInv
  <2>3. status' = [status EXCEPT ![p] = "active"]
    BY <1>1, <1>7 DEF IInv
  <2>4. closed' \in Seq(Pids) /\ totalExits' \in Nat /\ reasonCounts' \in [ExitReason -> Nat]
    BY <1>7 DEF IInv
  <2> QED  BY <1>7, <2>2, <2>3, <2>4, OneChanges
<1> QED  BY <1>6, <1>7 DEF Tick

\* A tick that raises has moved the price and its extremes, which the
\* invariant says nothing about without an entry price.
LEMMA RaiseKeepsInv ==
  ASSUME IInv, NEW p \in Pids, NEW t \in Ticks, TickRaises(p, t)
  PROVE  IInv'
<1> DEFINE old == pos[p]
           high == Higher(old.high, t.price)
           low  == Lower(old.low, t.price)
           q == Begun(old, t)
<1>1. /\ status[p] = "active" /\ old \in PositionType /\ PosInv("active", old)
      /\ old.entry = 0 /\ old.fed < TicksPerAge
  BY DEF IInv, TickRaises
<1>2. /\ old.fed + 1 \in 0..TicksPerAge /\ t.price \in Nat
      /\ high \in Nat /\ low \in Nat
  BY <1>1, PositionFields, TickType, BoundAssumption DEF Higher, Lower
<1> HIDE DEF high, low
<1>3. q \in PositionType
  BY <1>1, <1>2 DEF PositionType, Begun, high, low
<1>4. /\ q.side = old.side /\ q.entry = 0 /\ q.atr = old.atr /\ q.stop = old.stop
      /\ q.trailHigh = old.trailHigh /\ q.trailLow = old.trailLow
      /\ q.reason = old.reason
  BY <1>1 DEF PositionType, Begun
<1>5. pos' = [pos EXCEPT ![p] = q]
  BY DEF TickRaises
<1> HIDE DEF q
<1>6. PosInv("active", q)
  BY <1>1, <1>3, <1>4 DEF PosInv, Distant
<1>7. status' = [status EXCEPT ![p] = "active"]
  BY <1>1 DEF IInv, TickRaises
<1>8. closed' \in Seq(Pids) /\ totalExits' \in Nat /\ reasonCounts' \in [ExitReason -> Nat]
  BY DEF IInv, TickRaises
<1> QED  BY <1>5, <1>6, <1>7, <1>8, OneChanges

\* A manual exit retires a position of the invariant.
LEMMA ForceExitKeepsInv ==
  ASSUME IInv, NEW p \in Pids, NEW price \in Nat, ForceExit(p, price)
  PROVE  IInv'
<1> DEFINE old == pos[p]
           gain == Gain(old.side, old.entry, price)
           q == [old EXCEPT !.pnl = gain]
<1>1. old \in PositionType
  BY DEF IInv
<1>2. gain \in Int
  BY <1>1, PositionFields, GainType
<1> HIDE DEF gain
<1>3. q \in PositionType
  BY <1>1, <1>2 DEF PositionType
<1>4. Exit(p, q, "manual_exit") /\ "manual_exit" \in ExitReason
  BY DEF ForceExit, ExitReason, gain
<1> HIDE DEF q
<1> QED  BY <1>3, <1>4, ExitKeepsInv

\* The clock ages held positions and their ghosts.
LEMMA ClockKeepsInv ==
  ASSUME IInv, Clock
  PROVE  IInv'
<1>1. \A p \in Pids : PosInv(status'[p], pos'[p])
  <2> SUFFICES ASSUME NEW p \in Pids PROVE PosInv(status'[p], pos'[p])
    OBVIOUS
  <2> DEFINE old == pos[p]
             age == Lower(old.age + 1, MaxAge)
             ghosts == Older(old.ghosts)
             q == [old EXCEPT !.age = age, !.fed = 0, !.ghosts = ghosts]
  <2>1. old \in PositionType /\ PosInv(status[p], old)
    BY DEF IInv
  <2>2. CASE p \notin Active
    BY <2>1, <2>2 DEF Clock
  <2>3. CASE p \in Active
    <3>1. MaxAge \in Nat /\ age \in 0..MaxAge
      BY <2>1, PositionFields, AgeAssumption DEF MaxAge, Higher, Lower
    <3>2. ghosts \in Seq([ghost : GhostEvent, age : 0..GhostWindow + 1])
      <4> DEFINE G == [ghost : GhostEvent, age : 0..GhostWindow + 1]
      <4>1. old.ghosts \in Seq(G)
        BY <2>1, PositionFields
      <4>2. Len(old.ghosts) \in Nat /\ \A i \in 1..Len(old.ghosts) : old.ghosts[i] \in G
        <5> HIDE DEF G, old
        <5> QED  BY <4>1
      <4>3. \A i \in 1..Len(old.ghosts) :
              [old.ghosts[i] EXCEPT !.age = Lower(@ + 1, GhostWindow + 1)] \in G
        <5> TAKE i \in 1..Len(old.ghosts)
        <5>1. old.ghosts[i] \in G
          BY <4>2
        <5>2. Lower(old.ghosts[i].age + 1, GhostWindow + 1) \in 0..GhostWindow + 1
          BY <5>1, AgeAssumption DEF Lower
        <5> QED  BY <5>1, <5>2
      <4> QED  BY <4>2, <4>3 DEF Older
    <3>3. 0 \in 0..TicksPerAge
      BY BoundAssumption
    <3> HIDE DEF age, ghosts
    <3>4. q \in PositionType
      BY <2>1, <3>1, <3>2, <3>3 DEF PositionType
    <3>5. /\ q.side = old.side /\ q.entry = old.entry /\ q.price = old.price
          /\ q.high = old.high /\ q.low = old.low /\ q.atr = old.atr
          /\ q.stop = old.stop /\ q.trailHigh = old.trailHigh
          /\ q.trailLow = old.trailLow /\ q.peak = old.peak /\ q.reason = old.reason
      BY <2>1 DEF PositionType
    <3>6. pos'[p] = q /\ status'[p] = status[p] /\ status[p] = "active"
      BY <2>3 DEF Clock, Active, age, ghosts
    <3> HIDE DEF q
    <3>7. Distant(q) /\ old.reason = "none"
      BY <2>1, <3>5, <3>6 DEF PosInv, Distant
    <3>8. q.entry > 0 => Agrees(q) /\ Within(q)
      BY <2>1, <3>5, <3>6 DEF PosInv, Agrees, Within, Best, Worst, Triggered
    <3> QED  BY <3>4, <3>5, <3>6, <3>7, <3>8 DEF PosInv
  <2> QED  BY <2>2, <2>3
<1>2. pos' \in [Pids -> PositionType]
  <2>1. \A p \in Pids : pos'[p] \in PositionType
    BY <1>1 DEF PosInv
  <2>2. pos' = [p \in Pids |-> pos'[p]]
    BY DEF Clock
  <2> QED  BY <2>1, <2>2
<1>3. /\ status' \in [Pids -> {"free", "active", "closed"}] /\ closed' \in Seq(Pids)
      /\ totalExits' \in Nat /\ reasonCounts' \in [ExitReason -> Nat]
  BY DEF Clock, IInv
<1> QED  BY <1>1, <1>2, <1>3 DEF IInv

\* The invariant holds at the start.
LEMMA InitInv == Init => IInv
<1> SUFFICES ASSUME Init PROVE IInv
  OBVIOUS
<1>1. PosInv("free", Unused)
  BY RegisteredIsSound DEF Unused
<1>2. Unused \in PositionType
  BY <1>1 DEF PosInv
<1> QED  BY <1>1, <1>2 DEF Init, IInv

\* The manager at work, whoever drives it: Next with any offer.
Work ==
  \/ \E p \in Pids, o \in AnyOffer : Register(p, o)
  \/ \E p \in Pids : Feed(p)
  \/ \E p \in Pids, t \in Ticks : ForceExit(p, t.price)
  \/ Clock

Driven == Init /\ [][Work]_vars

LEMMA SpecIsDriven == Spec => Driven
<1>1. [Next]_vars => [Work]_vars
  BY OffersAssumption DEF Next, Work, AnyOffer
<1> QED  BY <1>1, PTL DEF Spec, Driven

\* Every step preserves the invariant: one step per action.
LEMMA NextInv == IInv /\ [Work]_vars => IInv'
<1> SUFFICES ASSUME IInv, [Work]_vars PROVE IInv'
  OBVIOUS
<1>1. ASSUME NEW p \in Pids, NEW o \in AnyOffer, Register(p, o) PROVE IInv'
  BY <1>1, RegisterKeepsInv
<1>2. ASSUME NEW p \in Pids, NEW t \in Ticks, Tick(p, t) PROVE IInv'
  BY <1>2, TickKeepsInv
<1>3. ASSUME NEW p \in Pids, NEW t \in Ticks, TickRaises(p, t) PROVE IInv'
  BY <1>3, RaiseKeepsInv
<1>4. ASSUME NEW p \in Pids, NEW t \in Ticks, ForceExit(p, t.price) PROVE IInv'
  BY <1>4, TickType, ForceExitKeepsInv
<1>5. CASE Clock
  BY <1>5, ClockKeepsInv
<1>6. CASE UNCHANGED vars
  BY <1>6 DEF vars, IInv
<1> QED  BY <1>1, <1>2, <1>3, <1>4, <1>5, <1>6 DEF Work, Feed

\* The inductive invariant holds throughout.
LEMMA DrivenInv == Driven => []IInv
  BY InitInv, NextInv, PTL DEF Driven

THEOREM Invariance == Spec => []IInv
  BY SpecIsDriven, DrivenInv, PTL

-----------------------------------------------------------------------------
(***************************************************************************)
(* The theorems.                                                           *)
(***************************************************************************)

\* The manager's variables keep their types.
THEOREM TypeCorrect == Spec => []TypeOK
  BY Invariance, IInvImplies, PTL

\* A held position has shown no price beyond its limits.
THEOREM HeldIsWithinLimits == Spec => []HeldWithinLimits
  BY Invariance, IInvImplies, PTL

\* The stop keeps at least half an ATR from the best price, whatever the order
\* book and VPIN have done to its distance.
THEOREM StopIsDistant == Spec => []StopKeepsDistance
  BY Invariance, IInvImplies, PTL

\* The weapons and the position agree on the best price so far.
THEOREM WeaponsShareTheirMemory == Spec => []WeaponsAgree
  BY Invariance, IInvImplies, PTL

\* A position given up as stale was stale.
THEOREM DecayIsHonest == Spec => []DecayIsTrue
  BY Invariance, IInvImplies, PTL

\* What a tick does to the stop of a position that stays.
LEMMA TickRatchets ==
  ASSUME NEW q \in PositionType, NEW t \in Ticks
  PROVE  /\ Stop(q, t) \in Int
         /\ IF q.side = "LONG" THEN Stop(q, t) >= q.stop ELSE Stop(q, t) <= q.stop
<1> USE PositionFields
<1>1. t.price \in Nat
  BY TickType
<1>2. q.atr * Mult(q, t) \in Nat
  BY MultInRange, Distance
<1>3. TrailHigh(q, t) \in Nat /\ TrailLow(q, t) \in Nat
  BY <1>1 DEF TrailHigh, TrailLow, Higher, Lower
<1>4. /\ 100 * TrailHigh(q, t) - q.atr * Mult(q, t) \in Int
      /\ 100 * TrailLow(q, t) + q.atr * Mult(q, t) \in Int
  BY <1>2, <1>3
<1> QED  BY <1>4 DEF Stop, StopFrom, Higher, Lower

\* What a step does to the stop of one position.
Ratchets(p) ==
  status[p] = "active" /\ status'[p] = "active" =>
    IF pos[p].side = "LONG" THEN pos'[p].stop >= pos[p].stop
                            ELSE pos'[p].stop <= pos[p].stop

\* A position that no step touches, or whose stop no step moves.
LEMMA KeptRatchets ==
  ASSUME IInv, NEW p \in Pids, pos'[p].stop = pos[p].stop
  PROVE  Ratchets(p)
<1>1. pos[p].stop \in Int
  BY PositionFields DEF IInv
<1> QED  BY <1>1 DEF Ratchets

\* No step moves the stop of a position that stays held against it.
LEMMA NextRatchets == IInv /\ [Work]_vars => \A p \in Pids : Ratchets(p)
<1> SUFFICES ASSUME IInv, [Work]_vars, NEW r \in Pids PROVE Ratchets(r)
  OBVIOUS
<1>0. pos \in [Pids -> PositionType] /\ status \in [Pids -> {"free", "active", "closed"}]
  BY DEF IInv
<1>1. ASSUME NEW p \in Pids, NEW o \in AnyOffer, Register(p, o) PROVE Ratchets(r)
  <2>1. CASE r = p
    BY <1>0, <1>1, <2>1 DEF Register, Ratchets
  <2>2. CASE r # p
    BY <1>0, <1>1, <2>2, KeptRatchets DEF Register
  <2> QED  BY <2>1, <2>2
<1>2. ASSUME NEW p \in Pids, NEW q, NEW reason, Exit(p, q, reason) PROVE Ratchets(r)
  <2>1. CASE r = p
    BY <1>0, <1>2, <2>1 DEF Exit, Ratchets
  <2>2. CASE r # p
    BY <1>0, <1>2, <2>2, KeptRatchets DEF Exit
  <2> QED  BY <2>1, <2>2
<1>3. ASSUME NEW p \in Pids, NEW t \in Ticks, pos' = [pos EXCEPT ![p] = Ticked(pos[p], t)]
      PROVE  Ratchets(r)
  <2>1. CASE r = p
    <3>1. pos'[p].stop = Stop(pos[p], t)
      BY <1>0, <1>3, TickedFields
    <3> QED  BY <1>0, <2>1, <3>1, TickRatchets DEF Ratchets
  <2>2. CASE r # p
    BY <1>0, <1>3, <2>2, KeptRatchets
  <2> QED  BY <2>1, <2>2
<1>4. ASSUME NEW p \in Pids, NEW t \in Ticks, Tick(p, t) PROVE Ratchets(r)
  BY <1>2, <1>3, <1>4 DEF Tick
<1>5. ASSUME NEW p \in Pids, NEW t \in Ticks, TickRaises(p, t) PROVE Ratchets(r)
  <2>1. Begun(pos[p], t).stop = pos[p].stop
    BY <1>0 DEF Begun, PositionType
  <2>2. pos'[r].stop = pos[r].stop
    BY <1>0, <1>5, <2>1 DEF TickRaises
  <2> QED  BY <2>2, KeptRatchets
<1>6. ASSUME NEW p \in Pids, NEW t \in Ticks, ForceExit(p, t.price) PROVE Ratchets(r)
  BY <1>2, <1>6 DEF ForceExit
<1>7. CASE Clock
  <2>0. "stop" \in DOMAIN pos[r]
    BY <1>0 DEF PositionType
  <2>1. pos'[r].stop = pos[r].stop
    <3>1. CASE r \in Active
      <4>1. PICK age, ghosts : pos'[r] = [pos[r] EXCEPT !.age = age, !.fed = 0, !.ghosts = ghosts]
        BY <1>7, <3>1 DEF Clock
      <4> QED  BY <2>0, <4>1
    <3>2. CASE r \notin Active
      BY <1>7, <3>2 DEF Clock
    <3> QED  BY <3>1, <3>2
  <2> QED  BY <2>1, KeptRatchets
<1>8. CASE UNCHANGED vars
  BY <1>8, KeptRatchets DEF vars
<1> QED  BY <1>1, <1>4, <1>5, <1>6, <1>7, <1>8 DEF Work, Feed

LEMMA DrivenRatchets == Driven => StopRatchets
<1>1. IInv /\ [Work]_vars => [\A p \in Pids : Ratchets(p)]_vars
  BY NextRatchets
<1> QED  BY <1>1, DrivenInv, PTL DEF Driven, StopRatchets, Ratchets

\* The stop never moves against the position.
THEOREM StopNeverGivesWay == Spec => StopRatchets
  BY SpecIsDriven, DrivenRatchets

-----------------------------------------------------------------------------
(***************************************************************************)
(* The manager implements Positions.                                       *)
(***************************************************************************)

Guard   == [p \in Active |-> [side |-> pos[p].side, stop |-> pos[p].stop]]
LeftFor == [p \in Pids |-> pos[p].reason]

\* What a step does to the guards of the positions that it does not touch.
LEMMA OthersAreKept ==
  ASSUME NEW p \in Pids, NEW s \in {"free", "active", "closed"}, NEW q,
         pos \in [Pids -> PositionType], status \in [Pids -> {"free", "active", "closed"}],
         status' = [status EXCEPT ![p] = s], pos' = [pos EXCEPT ![p] = q]
  PROVE  /\ Active' = (Active \ {p}) \cup (IF s = "active" THEN {p} ELSE {})
         /\ \A r \in Active \ {p} : r \in Active' /\ Guard'[r] = Guard[r]
         /\ LeftFor' = [LeftFor EXCEPT ![p] = q.reason]
<1>1. Active' = (Active \ {p}) \cup (IF s = "active" THEN {p} ELSE {})
  BY DEF Active
<1>2. \A r \in Active \ {p} : r \in Active' /\ pos'[r] = pos[r]
  BY DEF Active
<1>3. \A r \in Active \ {p} : Guard'[r] = Guard[r]
  BY <1>2 DEF Guard
<1>4. LeftFor' = [LeftFor EXCEPT ![p] = q.reason]
  BY DEF LeftFor
<1> QED  BY <1>1, <1>2, <1>3, <1>4

\* At the start nothing is held.
LEMMA InitPromises == Init => Promise!Init
  BY DEF Init, Promise!Init, Promise!Held, Active, Unused, Position

\* Registration takes a position that was never held.
LEMMA RegisterTakes ==
  ASSUME IInv, NEW p \in Pids, NEW o \in AnyOffer, Register(p, o)
  PROVE  Promise!Take(p)
<1>0. pos \in [Pids -> PositionType] /\ status \in [Pids -> {"free", "active", "closed"}]
  BY DEF IInv
<1>1. status[p] = "free" /\ pos[p].reason = "none" /\ p \notin Active
  BY DEF Register, IInv, PosInv, Active
<1>2. /\ Active' = Active \cup {p}
      /\ \A r \in Active \ {p} : r \in Active' /\ Guard'[r] = Guard[r]
      /\ LeftFor' = [LeftFor EXCEPT ![p] = Position(o).reason]
  BY <1>0, <1>1, OthersAreKept DEF Register
<1>3. LeftFor' = LeftFor
  BY <1>1, <1>2 DEF LeftFor, Position
<1> QED
  BY <1>1, <1>2, <1>3
  DEF Promise!Take, Promise!Held, Promise!OthersKept, Guard, LeftFor

\* A tick without exit follows the price with a tighter stop.
LEMMA TickFollows ==
  ASSUME IInv, NEW p \in Active, NEW t \in Ticks,
         pos' = [pos EXCEPT ![p] = Ticked(pos[p], t)], UNCHANGED status
  PROVE  Promise!Follow(p)
<1> DEFINE q == Ticked(pos[p], t)
<1>0. /\ pos \in [Pids -> PositionType] /\ status \in [Pids -> {"free", "active", "closed"}]
      /\ p \in Pids /\ status' = [status EXCEPT ![p] = "active"]
  BY DEF IInv, Active
<1>1. q.side = pos[p].side /\ q.reason = pos[p].reason /\ q.stop = Stop(pos[p], t)
  BY TickedFields
<1> HIDE DEF q
<1>2. /\ Active' = Active
      /\ \A r \in Active \ {p} : r \in Active' /\ Guard'[r] = Guard[r]
      /\ LeftFor' = [LeftFor EXCEPT ![p] = q.reason]
  <2>1. pos' = [pos EXCEPT ![p] = q]
    BY DEF q
  <2>2. /\ Active' = (Active \ {p}) \cup (IF "active" = "active" THEN {p} ELSE {})
        /\ \A r \in Active \ {p} : r \in Active' /\ Guard'[r] = Guard[r]
        /\ LeftFor' = [LeftFor EXCEPT ![p] = q.reason]
    BY <1>0, <2>1, OthersAreKept
  <2> QED  BY <2>2
<1>3. LeftFor' = LeftFor
  BY <1>0, <1>1, <1>2 DEF LeftFor
<1>4. pos'[p] = q
  BY <1>0 DEF q
<1>5. Guard'[p] = [side |-> pos[p].side, stop |-> Stop(pos[p], t)]
  BY <1>1, <1>2, <1>4 DEF Guard
<1>6. Promise!Tighter(Guard[p], Guard'[p])
  BY <1>0, <1>5, TickRatchets DEF Promise!Tighter, Guard
<1> QED
  BY <1>2, <1>3, <1>6
  DEF Promise!Follow, Promise!Held, Promise!OthersKept, Guard, LeftFor

\* An exit leaves the position, for its reason.
LEMMA ExitLeaves ==
  ASSUME IInv, NEW p \in Active, NEW q, NEW reason \in ExitReason, Exit(p, q, reason)
  PROVE  Promise!Leave(p, reason)
<1>0. /\ pos \in [Pids -> PositionType] /\ status \in [Pids -> {"free", "active", "closed"}]
      /\ p \in Pids /\ status' = [status EXCEPT ![p] = "closed"]
      /\ pos' = [pos EXCEPT ![p] = Retired(q, reason)]
  BY DEF IInv, Active, Exit
<1>1. Retired(q, reason).reason = reason
  BY DEF Retired
<1>2. /\ Active' = Active \ {p}
      /\ \A r \in Active \ {p} : r \in Active' /\ Guard'[r] = Guard[r]
      /\ LeftFor' = [LeftFor EXCEPT ![p] = reason]
  <2> DEFINE r0 == Retired(q, reason)
  <2>1. r0.reason = reason /\ pos' = [pos EXCEPT ![p] = r0]
    BY <1>0, <1>1
  <2> HIDE DEF r0
  <2>2. /\ Active' = (Active \ {p}) \cup (IF "closed" = "active" THEN {p} ELSE {})
        /\ \A r \in Active \ {p} : r \in Active' /\ Guard'[r] = Guard[r]
        /\ LeftFor' = [LeftFor EXCEPT ![p] = r0.reason]
    BY <1>0, <2>1, OthersAreKept
  <2> QED  BY <2>1, <2>2
<1> QED
  BY <1>2 DEF Promise!Leave, Promise!Held, Promise!OthersKept, Guard, LeftFor

\* A step that changes no status, side, stop or reason is a stutter.
LEMMA Stutters ==
  ASSUME pos \in [Pids -> PositionType], Active' = Active,
         \A p \in Pids : /\ pos'[p].side = pos[p].side /\ pos'[p].stop = pos[p].stop
                         /\ pos'[p].reason = pos[p].reason
  PROVE  UNCHANGED <<Guard, LeftFor>>
<1>1. Active \subseteq Pids
  BY DEF Active
<1>2. Guard' = Guard
  BY <1>1 DEF Guard
<1>3. LeftFor' = LeftFor
  BY DEF LeftFor
<1> QED  BY <1>2, <1>3

\* Every step is a step of Positions or a stutter: ticks that raise and the
\* clock are stutters, exits of any kind leave.
LEMMA StepPromises == IInv /\ [Work]_vars => [Promise!Next]_(Promise!gvars)
<1> SUFFICES ASSUME IInv, [Work]_vars PROVE Promise!Next \/ UNCHANGED <<Guard, LeftFor>>
  BY DEF Promise!gvars, Guard, LeftFor
<1>0. pos \in [Pids -> PositionType]
  BY DEF IInv
<1>1. ASSUME NEW p \in Pids, NEW o \in AnyOffer, Register(p, o) PROVE Promise!Next
  BY <1>1, RegisterTakes DEF Promise!Next
<1>2. ASSUME NEW p \in Pids, NEW t \in Ticks, Tick(p, t) PROVE Promise!Next
  <2>1. p \in Active
    BY <1>2 DEF Tick, Active
  <2>2. CASE \E reason \in ExitReason, q \in {Ticked(pos[p], t)} : Exit(p, q, reason)
    BY <2>1, <2>2, ExitLeaves DEF Promise!Next
  <2>3. CASE pos' = [pos EXCEPT ![p] = Ticked(pos[p], t)] /\ UNCHANGED status
    BY <2>1, <2>3, TickFollows DEF Promise!Next
  <2>4. \/ \E reason \in ExitReason, q \in {Ticked(pos[p], t)} : Exit(p, q, reason)
        \/ pos' = [pos EXCEPT ![p] = Ticked(pos[p], t)] /\ UNCHANGED status
    BY <1>2, FirstDue DEF Tick
  <2> QED  BY <2>2, <2>3, <2>4
<1>3. ASSUME NEW p \in Pids, NEW price, ForceExit(p, price) PROVE Promise!Next
  <2>1. p \in Active /\ "manual_exit" \in ExitReason
    BY <1>3 DEF ForceExit, Active, ExitReason
  <2>2. Promise!Leave(p, "manual_exit")
    BY <1>3, <2>1, ExitLeaves DEF ForceExit
  <2> QED  BY <2>1, <2>2 DEF Promise!Next
<1>4. ASSUME NEW p \in Pids, NEW t \in Ticks, TickRaises(p, t)
      PROVE  UNCHANGED <<Guard, LeftFor>>
  <2>1. /\ Begun(pos[p], t).side = pos[p].side /\ Begun(pos[p], t).stop = pos[p].stop
        /\ Begun(pos[p], t).reason = pos[p].reason
    BY <1>0 DEF Begun, PositionType
  <2>2. Active' = Active
    BY <1>4 DEF TickRaises, Active
  <2>3. pos' = [pos EXCEPT ![p] = Begun(pos[p], t)]
    BY <1>4 DEF TickRaises
  <2> QED  BY <1>0, <2>1, <2>2, <2>3, Stutters
<1>5. CASE Clock
  <2>1. Active' = Active
    BY <1>5 DEF Clock, Active
  <2>2. \A p \in Pids : /\ pos'[p].side = pos[p].side /\ pos'[p].stop = pos[p].stop
                        /\ pos'[p].reason = pos[p].reason
    BY <1>0, <1>5 DEF Clock, PositionType
  <2> QED  BY <1>0, <2>1, <2>2, Stutters
<1>6. CASE UNCHANGED vars
  BY <1>6 DEF vars, Guard, LeftFor, Active
<1> QED  BY <1>1, <1>2, <1>3, <1>4, <1>5, <1>6 DEF Work, Feed

LEMMA DrivenPromise == Driven => KeepsPromise
<1>1. KeepsPromise <=> Promise!Init /\ [][Promise!Next]_(Promise!gvars)
  BY DEF KeepsPromise, Promise!Spec
<1> QED  BY <1>1, InitPromises, StepPromises, DrivenInv, PTL DEF Driven

\* No position is held again, left twice, or held behind a stop that gave way.
THEOREM ManagerKeepsPromise == Spec => KeepsPromise
  BY SpecIsDriven, DrivenPromise

-----------------------------------------------------------------------------
(***************************************************************************)
(* The books: positions enter the set of those gone one at a time and stay *)
(* in it with their reason.                                                *)
(***************************************************************************)

Gone == {p \in Pids : status[p] = "closed"}

GoneFor(reason) == {p \in Gone : pos[p].reason = reason}

Books ==
  /\ IsFiniteSet(Gone)
  /\ totalExits = Cardinality(Gone)
  /\ \A reason \in ExitReason : reasonCounts[reason] = Cardinality(GoneFor(reason))
  /\ Len(closed) = Lower(totalExits, ClosedCap)
  /\ ToSet(closed) \subseteq Gone
  /\ IsInjective(closed)

\* A log of different elements that takes up a new one and keeps the last n.
LEMMA LogTakesUp ==
  ASSUME NEW S, NEW s \in Seq(S), NEW e \in S, e \notin ToSet(s), IsInjective(s),
         NEW n \in Nat \ {0}
  PROVE  /\ Len(LastOf(Append(s, e), n)) = Lower(Len(s) + 1, n)
         /\ ToSet(LastOf(Append(s, e), n)) \subseteq ToSet(s) \cup {e}
         /\ IsInjective(LastOf(Append(s, e), n))
<1> DEFINE a == Append(s, e)
<1>1. /\ Len(s) \in Nat /\ DOMAIN s = 1..Len(s)
      /\ a \in Seq(S) /\ Len(a) = Len(s) + 1 /\ DOMAIN a = 1..Len(a)
      /\ a[Len(s) + 1] = e /\ \A i \in 1..Len(s) : a[i] = s[i]
  OBVIOUS
<1>2. \A i \in 1..Len(s) : s[i] \in ToSet(s) /\ s[i] # e
  BY <1>1 DEF ToSet
<1>3. \A i, j \in 1..Len(s) : s[i] = s[j] => i = j
  BY <1>1 DEF IsInjective
<1> HIDE DEF a
<1>4. \A i \in 1..Len(a) : i \in 1..Len(s) \/ i = Len(s) + 1
  BY <1>1
<1>5. \A i \in 1..Len(a) : a[i] \in ToSet(s) \cup {e}
  BY <1>1, <1>2, <1>4
<1>6. \A i, j \in 1..Len(a) : a[i] = a[j] => i = j
  BY <1>1, <1>2, <1>3, <1>4
<1>7. CASE Len(a) <= n
  <2>1. LastOf(a, n) = a /\ Lower(Len(s) + 1, n) = Len(a)
    BY <1>1, <1>7 DEF LastOf, Lower
  <2> QED  BY <1>1, <1>5, <1>6, <2>1 DEF ToSet, IsInjective, a
<1>8. CASE Len(a) > n
  <2> DEFINE d == Len(a) - n
             t == SubSeq(a, Len(a) - n + 1, Len(a))
  <2>1. LastOf(a, n) = t /\ Lower(Len(s) + 1, n) = n /\ d \in Nat /\ Len(a) \in Nat
    BY <1>1, <1>8 DEF LastOf, Lower
  <2>2. Len(t) = n /\ DOMAIN t = 1..n /\ \A k \in 1..n : t[k] = a[d + k]
    <3>1. Len(a) - n + 1 \in 1..Len(a) /\ Len(a) \in Nat
      BY <1>1, <1>8
    <3> QED  BY <1>1, <3>1
  <2>3. \A k \in 1..n : d + k \in 1..Len(a)
    BY <2>1, <1>8
  <2> HIDE DEF d, t
  <2>4. \A k \in 1..n : t[k] \in ToSet(s) \cup {e}
    BY <1>5, <2>2, <2>3
  <2>5. \A k, l \in 1..n : t[k] = t[l] => k = l
    <3> SUFFICES ASSUME NEW k \in 1..n, NEW l \in 1..n, t[k] = t[l] PROVE k = l
      OBVIOUS
    <3>1. d + k = d + l
      BY <1>6, <2>2, <2>3
    <3> QED  BY <2>1, <3>1
  <2> QED  BY <2>1, <2>2, <2>4, <2>5 DEF ToSet, IsInjective, a
<1> QED  BY <1>1, <1>7, <1>8

\* An exit adds the position to those gone, to those gone for its reason, to
\* both counts and to the log.
LEMMA ExitKeepsBooks ==
  ASSUME IInv, Books, NEW p \in Active, NEW q, NEW reason \in ExitReason, Exit(p, q, reason)
  PROVE  Books'
<1> DEFINE r0 == Retired(q, reason)
<1>0. /\ p \in Pids /\ p \notin Gone /\ r0.reason = reason
      /\ status \in [Pids -> {"free", "active", "closed"}] /\ pos \in [Pids -> PositionType]
      /\ reasonCounts \in [ExitReason -> Nat] /\ totalExits \in Nat /\ closed \in Seq(Pids)
  BY DEF IInv, Active, Gone, Retired
<1>1. /\ status' = [status EXCEPT ![p] = "closed"] /\ pos' = [pos EXCEPT ![p] = r0]
      /\ closed' = LastOf(Append(closed, p), ClosedCap)
      /\ totalExits' = totalExits + 1
      /\ reasonCounts' = [reasonCounts EXCEPT ![reason] = @ + 1]
  BY DEF Exit
<1> HIDE DEF r0
<1>2. Gone' = Gone \cup {p}
  BY <1>0, <1>1 DEF Gone
<1>3. IsFiniteSet(Gone') /\ totalExits' = Cardinality(Gone')
  BY <1>0, <1>1, <1>2, FS_AddElement DEF Books
<1>4. ASSUME NEW why \in ExitReason
      PROVE  reasonCounts'[why] = Cardinality(GoneFor(why)')
  <2>0. IsFiniteSet(GoneFor(why)) /\ p \notin GoneFor(why)
    <3>1. GoneFor(why) \subseteq Gone
      BY DEF GoneFor
    <3> QED  BY <1>0, <3>1, FS_Subset DEF Books
  <2>1. GoneFor(why)' = IF why = reason THEN GoneFor(why) \cup {p} ELSE GoneFor(why)
    BY <1>0, <1>1, <1>2 DEF GoneFor, Gone
  <2>2. CASE why = reason
    <3>1. Cardinality(GoneFor(why) \cup {p}) = Cardinality(GoneFor(why)) + 1
      BY <2>0, FS_AddElement
    <3> QED  BY <1>0, <1>1, <2>1, <2>2, <3>1 DEF Books
  <2>3. CASE why # reason
    BY <1>0, <1>1, <2>1, <2>3 DEF Books
  <2> QED  BY <2>2, <2>3
<1>5. /\ Len(closed') = Lower(Len(closed) + 1, ClosedCap)
      /\ ToSet(closed') \subseteq ToSet(closed) \cup {p}
      /\ IsInjective(closed')
  <2>1. p \notin ToSet(closed) /\ IsInjective(closed)
    BY <1>0 DEF Books
  <2> QED  BY <1>0, <1>1, <2>1, LogTakesUp, BoundAssumption
<1>6. Lower(Len(closed) + 1, ClosedCap) = Lower(totalExits', ClosedCap)
  BY <1>0, <1>1, BoundAssumption DEF Books, Lower
<1>7. ToSet(closed') \subseteq Gone'
  BY <1>2, <1>5 DEF Books
<1> QED  BY <1>3, <1>4, <1>5, <1>6, <1>7 DEF Books

\* A step that closes nothing and counts nothing, and lets those gone be.
LEMMA NothingBooked ==
  ASSUME Books, UNCHANGED <<closed, totalExits, reasonCounts>>, Gone' = Gone,
         \A p \in Gone : pos'[p] = pos[p]
  PROVE  Books'
<1>1. ASSUME NEW why \in ExitReason PROVE GoneFor(why)' = GoneFor(why)
  BY DEF GoneFor
<1> QED  BY <1>1 DEF Books

\* A position that is not closed changes, and is still not closed.
LEMMA OpenOneChanges ==
  ASSUME IInv, Books, NEW p \in Pids, NEW s, s \in {"free", "active"}, NEW q,
         status[p] # "closed", status' = [status EXCEPT ![p] = s],
         pos' = [pos EXCEPT ![p] = q], UNCHANGED <<closed, totalExits, reasonCounts>>
  PROVE  Books'
<1>1. Gone' = Gone /\ p \notin Gone
  BY DEF Gone, IInv
<1>2. \A r \in Gone : pos'[r] = pos[r]
  BY <1>1 DEF Gone, IInv
<1> QED  BY <1>1, <1>2, NothingBooked

\* Every step keeps the books: one step per action.
LEMMA NextBooks == IInv /\ Books /\ [Work]_vars => Books'
<1> SUFFICES ASSUME IInv, Books, [Work]_vars PROVE Books'
  OBVIOUS
<1>0. status \in [Pids -> {"free", "active", "closed"}]
  BY DEF IInv
<1>1. ASSUME NEW p \in Pids, NEW o \in AnyOffer, Register(p, o) PROVE Books'
  BY <1>1, OpenOneChanges DEF Register
<1>2. ASSUME NEW p \in Pids, NEW t \in Ticks, Tick(p, t) PROVE Books'
  <2>1. p \in Active /\ status' = status => status' = [status EXCEPT ![p] = "active"]
    BY <1>0 DEF Active
  <2>2. p \in Active /\ status[p] # "closed"
    BY <1>2 DEF Tick, Active
  <2>3. CASE \E reason \in ExitReason, q \in {Ticked(pos[p], t)} : Exit(p, q, reason)
    BY <2>2, <2>3, ExitKeepsBooks
  <2>4. CASE /\ pos' = [pos EXCEPT ![p] = Ticked(pos[p], t)]
             /\ UNCHANGED <<status, closed, totalExits, reasonCounts>>
    BY <2>1, <2>2, <2>4, OpenOneChanges
  <2>5. \/ \E reason \in ExitReason, q \in {Ticked(pos[p], t)} : Exit(p, q, reason)
        \/ /\ pos' = [pos EXCEPT ![p] = Ticked(pos[p], t)]
           /\ UNCHANGED <<status, closed, totalExits, reasonCounts>>
    BY <1>2, FirstDue DEF Tick
  <2> QED  BY <2>3, <2>4, <2>5
<1>3. ASSUME NEW p \in Pids, NEW t \in Ticks, TickRaises(p, t) PROVE Books'
  <2>1. status[p] # "closed" /\ status' = [status EXCEPT ![p] = "active"]
    BY <1>0, <1>3 DEF TickRaises
  <2> QED  BY <1>3, <2>1, OpenOneChanges DEF TickRaises
<1>4. ASSUME NEW p \in Pids, NEW price, ForceExit(p, price) PROVE Books'
  <2>1. p \in Active /\ "manual_exit" \in ExitReason
    BY <1>4 DEF ForceExit, Active, ExitReason
  <2> QED  BY <1>4, <2>1, ExitKeepsBooks DEF ForceExit
<1>5. CASE Clock
  <2>1. Gone' = Gone /\ \A p \in Gone : pos'[p] = pos[p]
    BY <1>5 DEF Clock, Gone, Active
  <2> QED  BY <1>5, <2>1, NothingBooked DEF Clock
<1>6. CASE UNCHANGED vars
  BY <1>6, NothingBooked DEF vars, Gone
<1> QED  BY <1>1, <1>2, <1>3, <1>4, <1>5, <1>6 DEF Work, Feed

LEMMA DrivenBooks == Driven => []BooksAgree
<1>1. Init => Books
  <2> SUFFICES ASSUME Init PROVE Books
    OBVIOUS
  <2>1. Gone = {} /\ \A reason : GoneFor(reason) = {}
    BY DEF Init, Gone, GoneFor
  <2>2. IsFiniteSet({}) /\ Cardinality({}) = 0
    BY FS_EmptySet
  <2>3. closed = <<>> /\ totalExits = 0 /\ \A reason \in ExitReason : reasonCounts[reason] = 0
    BY DEF Init
  <2>4. Len(closed) = Lower(totalExits, ClosedCap)
    BY <2>3, BoundAssumption DEF Lower
  <2>5. ToSet(closed) = {} /\ IsInjective(closed)
    BY <2>3 DEF ToSet, IsInjective
  <2> QED  BY <2>1, <2>2, <2>3, <2>4, <2>5 DEF Books
<1>2. Books => BooksAgree
  BY DEF Books, BooksAgree, Gone, GoneFor
<1> QED  BY <1>1, <1>2, NextBooks, DrivenInv, PTL DEF Driven

\* Every exit is counted once, under its reason, and the log holds the latest
\* exits, each position at most once.
THEOREM BooksAreKept == Spec => []BooksAgree
  BY SpecIsDriven, DrivenBooks, PTL

-----------------------------------------------------------------------------
(***************************************************************************)
(* The replay.  Its ledger and the manager's books tell of the same        *)
(* positions because every step of the loop writes to both.                *)
(***************************************************************************)

\* The ledger's name of a reason.
Named(reason) == IF reason = "manual_exit" THEN "forced_close_eod" ELSE reason

\* A record of a trade has the fields of one, and a position those the ledger
\* has a copy of.
IsTrade(r) ==
  /\ r = [side |-> r.side, entry |-> r.entry, in |-> r.in, out |-> r.out,
          gain |-> r.gain, reason |-> r.reason, best |-> r.best, worst |-> r.worst]
  /\ r.entry \in Nat /\ r.in \in Nat /\ r.best \in Int

IsPosition(q) == {"side", "entry", "pnl", "peak"} \subseteq DOMAIN q

\* The loop is somewhere on the tape.
OnTape ==
  /\ tape \in Tapes /\ strategy \in Strategies
  /\ at \in 1 .. Len(tape) /\ phase \in {"visit", "close", "done"}
  /\ phase # "visit" => todo = <<>>

\* The manager's books, as far as the ledger repeats them.
Managed ==
  /\ status \in [Pids -> {"free", "active", "closed"}]
  /\ pos = [p \in Pids |-> pos[p]] /\ \A p \in Pids : IsPosition(pos[p])
  /\ totalExits \in Nat /\ reasonCounts \in [ExitReason -> Nat]

\* What the loop has still to visit at this tick is part of what is open, and
\* that is what the manager holds.
Lists ==
  /\ open \in Seq(Pids) /\ todo \in Seq(Pids) /\ trades \in Seq(Pids)
  /\ IsInjective(open) /\ IsInjective(todo)
  /\ ToSet(todo) \subseteq ToSet(open) /\ ToSet(open) = Active
  /\ Len(open) <= MaxConcurrent

\* A position that is held has been swung to the price of every tick it was
\* given, the last of them this one unless it is still to be visited.
SwungUp ==
  /\ trade = [p \in Pids |-> trade[p]] /\ \A p \in Pids : IsTrade(trade[p])
  /\ \A p \in Active :
       /\ trade[p].side = pos[p].side /\ trade[p].entry = pos[p].entry
       /\ trade[p].best = pos[p].peak /\ trade[p].in <= at
       /\ p \notin ToSet(todo) =>
            Unrealized(trade[p], Price(at)) <= Higher(0, trade[p].best)

\* What the ledger says of the positions that are gone.
Ledger ==
  /\ ToSet(trades) = {p \in Pids : status[p] = "closed"} /\ Len(trades) = totalExits
  /\ \A k \in DOMAIN trades :
       /\ trade[trades[k]].gain = pos[trades[k]].pnl
       /\ trade[trades[k]].gain <= Higher(0, trade[trades[k]].best)
       /\ trade[trades[k]].in <= trade[trades[k]].out
  /\ \A r \in ExitReason :
       reasonCounts[r] = Breakdown(Named(r))

RInv == OnTape /\ Managed /\ Lists /\ SwungUp /\ Ledger

-----------------------------------------------------------------------------
\* What is left of a list of different elements without the first of them, and
\* without one of them, and what becomes of it with another.
LEMMA TailOf ==
  ASSUME NEW S, NEW s \in Seq(S), s # <<>>, IsInjective(s)
  PROVE  /\ Head(s) \in ToSet(s) /\ Tail(s) \in Seq(S) /\ IsInjective(Tail(s))
         /\ ToSet(Tail(s)) = ToSet(s) \ {Head(s)} /\ Len(Tail(s)) = Len(s) - 1
<1> DEFINE t == Tail(s)
<1>1. /\ Len(s) \in Nat \ {0} /\ DOMAIN s = 1 .. Len(s) /\ Head(s) = s[1]
      /\ t \in Seq(S) /\ Len(t) = Len(s) - 1 /\ DOMAIN t = 1 .. Len(t)
      /\ \A i \in 1 .. Len(t) : t[i] = s[i + 1]
  OBVIOUS
<1> HIDE DEF t
<1>2. \A i, j \in 1 .. Len(s) : s[i] = s[j] => i = j
  BY <1>1 DEF IsInjective
<1>3. \A i \in 1 .. Len(t) : i + 1 \in 1 .. Len(s) /\ i + 1 # 1
  BY <1>1
<1>4. \A i \in 1 .. Len(s) : i # 1 => i - 1 \in 1 .. Len(t) /\ t[i - 1] = s[i]
  BY <1>1
<1>5. IsInjective(t)
  <2> SUFFICES ASSUME NEW i \in 1 .. Len(t), NEW j \in 1 .. Len(t), t[i] = t[j] PROVE i = j
    BY <1>1 DEF IsInjective
  <2>1. i + 1 = j + 1
    BY <1>1, <1>2, <1>3
  <2> QED  BY <2>1
<1>6. 1 \in 1 .. Len(s) /\ Head(s) \in ToSet(s)
  BY <1>1 DEF ToSet
<1>7. ToSet(t) \subseteq ToSet(s) \ {Head(s)}
  <2> SUFFICES ASSUME NEW i \in 1 .. Len(t) PROVE t[i] \in ToSet(s) /\ t[i] # Head(s)
    BY <1>1 DEF ToSet
  <2>1. t[i] = s[i + 1] /\ i + 1 \in 1 .. Len(s) /\ i + 1 # 1
    BY <1>1, <1>3
  <2> QED  BY <1>1, <1>2, <1>6, <2>1 DEF ToSet
<1>8. ToSet(s) \ {Head(s)} \subseteq ToSet(t)
  <2> SUFFICES ASSUME NEW i \in 1 .. Len(s), s[i] # Head(s) PROVE s[i] \in ToSet(t)
    BY <1>1 DEF ToSet
  <2>1. i # 1
    BY <1>1
  <2> QED  BY <1>1, <1>4, <2>1 DEF ToSet
<1> QED  BY <1>1, <1>5, <1>6, <1>7, <1>8 DEF t

LEMMA AppendOf ==
  ASSUME NEW S, NEW s \in Seq(S), NEW e \in S
  PROVE  /\ Append(s, e) \in Seq(S) /\ ToSet(Append(s, e)) = ToSet(s) \cup {e}
         /\ Len(Append(s, e)) = Len(s) + 1
         /\ IsInjective(s) /\ e \notin ToSet(s) => IsInjective(Append(s, e))
<1> DEFINE a == Append(s, e)
<1>1. /\ Len(s) \in Nat /\ DOMAIN s = 1 .. Len(s)
      /\ a \in Seq(S) /\ Len(a) = Len(s) + 1 /\ DOMAIN a = 1 .. Len(a)
      /\ a[Len(s) + 1] = e /\ \A i \in 1 .. Len(s) : a[i] = s[i]
  OBVIOUS
<1> HIDE DEF a
<1>2. /\ \A i \in 1 .. Len(a) : i \in 1 .. Len(s) \/ i = Len(s) + 1
      /\ \A i \in 1 .. Len(s) : i \in 1 .. Len(a)
      /\ Len(s) + 1 \in 1 .. Len(a)
  BY <1>1
<1>3. ToSet(a) \subseteq ToSet(s) \cup {e}
  BY <1>1, <1>2 DEF ToSet
<1>4. ToSet(s) \cup {e} \subseteq ToSet(a)
  <2>1. \A i \in 1 .. Len(s) : s[i] \in ToSet(a)
    BY <1>1, <1>2 DEF ToSet
  <2>2. e \in ToSet(a)
    BY <1>1, <1>2 DEF ToSet
  <2> QED  BY <1>1, <2>1, <2>2 DEF ToSet
<1>5. ASSUME IsInjective(s), e \notin ToSet(s) PROVE IsInjective(a)
  <2>1. \A i \in 1 .. Len(s) : s[i] # e
    BY <1>1, <1>5 DEF ToSet
  <2>2. \A i, j \in 1 .. Len(s) : s[i] = s[j] => i = j
    BY <1>1, <1>5 DEF IsInjective
  <2>3. \A i, j \in 1 .. Len(a) : a[i] = a[j] => i = j
    BY <1>1, <1>2, <2>1, <2>2
  <2> QED  BY <1>1, <2>3 DEF IsInjective
<1> QED  BY <1>1, <1>3, <1>4, <1>5 DEF a

LEMMA RemoveOf ==
  ASSUME NEW S, NEW s \in Seq(S), IsInjective(s), NEW e \in ToSet(s)
  PROVE  /\ RemoveFirst(s, e) \in Seq(S) /\ IsInjective(RemoveFirst(s, e))
         /\ ToSet(RemoveFirst(s, e)) = ToSet(s) \ {e}
         /\ Len(RemoveFirst(s, e)) = Len(s) - 1
<1>1. Len(s) \in Nat /\ DOMAIN s = 1 .. Len(s)
  OBVIOUS
<1>2. PICK k \in 1 .. Len(s) : s[k] = e
  BY <1>1 DEF ToSet
<1>3. \A i, j \in 1 .. Len(s) : s[i] = s[j] => i = j
  BY <1>1 DEF IsInjective
<1>4. {i \in 1 .. Len(s) : s[i] = e} = {k}
  BY <1>2, <1>3
<1>5. SelectInSeq(s, LAMBDA v : v = e) = k
  <2>1. Min({k}) = k
    BY DEF Min
  <2>2. SelectInSeq(s, LAMBDA v : v = e)
        = LET I == {i \in 1 .. Len(s) : s[i] = e} IN IF I # {} THEN Min(I) ELSE 0
    BY DEF SelectInSeq
  <2> QED  BY <1>4, <2>1, <2>2
<1>6. RemoveFirst(s, e) = RemoveAt(s, k)
  BY <1>2, <1>5 DEF RemoveFirst
<1> DEFINE t == RemoveAt(s, k)
<1>7. /\ t \in Seq(S) /\ Len(t) = Len(s) - 1
      /\ \A i \in 1 .. Len(t) : t[i] = IF i < k THEN s[i] ELSE s[i + 1]
  <2> DEFINE a == SubSeq(s, 1, k - 1)
             b == SubSeq(s, k + 1, Len(s))
  <2>1. a \in Seq(S) /\ Len(a) = k - 1 /\ \A i \in 1 .. k - 1 : a[i] = s[i]
    BY <1>1, <1>2
  <2>2. b \in Seq(S) /\ Len(b) = Len(s) - k /\ \A i \in 1 .. Len(s) - k : b[i] = s[k + i]
    <3> DEFINE m == k + 1
               n == Len(s)
    <3>1. m \in Int /\ n \in Int /\ \A i \in m .. n : s[i] \in S
      BY <1>1, <1>2
    <3> HIDE DEF m, n
    <3>2. /\ SubSeq(s, m, n) \in Seq(S)
          /\ Len(SubSeq(s, m, n)) = IF m <= n THEN n - m + 1 ELSE 0
          /\ \A i \in 1 .. n - m + 1 : SubSeq(s, m, n)[i] = s[m + i - 1]
      BY <3>1, SubSeqProperties
    <3>3. \A i \in 1 .. n - m + 1 : m + i - 1 = k + i
      BY <1>1, <1>2 DEF m, n
    <3>4. n - m + 1 = Len(s) - k /\ (IF m <= n THEN n - m + 1 ELSE 0) = Len(s) - k
      <4>1. k \in Int /\ Len(s) \in Int /\ k <= Len(s) /\ m = k + 1 /\ n = Len(s)
        BY <1>1, <1>2 DEF m, n
      <4>2. n - m + 1 = Len(s) - k
        BY <4>1
      <4>3. CASE m <= n
        BY <4>1, <4>3
      <4>4. CASE ~(m <= n)
        BY <4>1, <4>4
      <4> QED  BY <4>2, <4>3, <4>4
    <3>5. b = SubSeq(s, m, n)
      BY DEF m, n
    <3> HIDE DEF b
    <3> QED  BY <3>2, <3>3, <3>4, <3>5
  <2>3. t = a \o b
    BY DEF RemoveAt
  <2> HIDE DEF a, b, t
  <2>4. /\ t \in Seq(S) /\ Len(t) = Len(a) + Len(b)
        /\ \A i \in 1 .. Len(t) : t[i] = IF i <= Len(a) THEN a[i] ELSE b[i - Len(a)]
    <3>1. /\ a \o b \in Seq(S) /\ Len(a \o b) = Len(a) + Len(b)
          /\ \A i \in 1 .. Len(a) + Len(b) :
               (a \o b)[i] = IF i <= Len(a) THEN a[i] ELSE b[i - Len(a)]
      <4>1. a \in Seq(S) /\ b \in Seq(S)
        BY <2>1, <2>2
      <4> QED  BY <4>1, ConcatProperties
    <3> QED  BY <2>3, <3>1
  <2>5. Len(t) = Len(s) - 1
    BY <1>1, <1>2, <2>1, <2>2, <2>4
  <2>6. ASSUME NEW i \in 1 .. Len(t) PROVE t[i] = IF i < k THEN s[i] ELSE s[i + 1]
    <3>1. CASE i < k
      <4>1. i \in 1 .. k - 1 /\ i <= Len(a)
        BY <1>1, <1>2, <2>1, <3>1
      <4> QED  BY <2>1, <2>4, <3>1, <4>1
    <3>2. CASE ~(i < k)
      <4>1. i - Len(a) \in 1 .. Len(s) - k /\ ~(i <= Len(a)) /\ k + (i - Len(a)) = i + 1
        BY <1>1, <1>2, <2>1, <2>5, <3>2
      <4> QED  BY <2>2, <2>4, <3>2, <4>1
    <3> QED  BY <3>1, <3>2
  <2> QED  BY <2>4, <2>5, <2>6
<1> HIDE DEF t
<1>8. DOMAIN t = 1 .. Len(t)
  BY <1>7
<1>9. \A i \in 1 .. Len(t) :
        /\ i < k => i \in 1 .. Len(s) /\ i # k
        /\ ~(i < k) => i + 1 \in 1 .. Len(s) /\ i + 1 # k
  BY <1>1, <1>2, <1>7
<1>10. IsInjective(t)
  <2> SUFFICES ASSUME NEW i \in 1 .. Len(t), NEW j \in 1 .. Len(t), t[i] = t[j] PROVE i = j
    BY <1>8 DEF IsInjective
  <2> QED  BY <1>1, <1>2, <1>3, <1>7, <1>9
<1>11. ToSet(t) \subseteq ToSet(s) \ {e}
  <2> SUFFICES ASSUME NEW i \in 1 .. Len(t) PROVE t[i] \in ToSet(s) /\ t[i] # e
    BY <1>8 DEF ToSet
  <2>1. PICK j \in 1 .. Len(s) : t[i] = s[j] /\ j # k
    BY <1>7, <1>9
  <2> QED  BY <1>1, <1>2, <1>3, <2>1 DEF ToSet
<1>12. ToSet(s) \ {e} \subseteq ToSet(t)
  <2> SUFFICES ASSUME NEW i \in 1 .. Len(s), s[i] # e PROVE s[i] \in ToSet(t)
    BY <1>1 DEF ToSet
  <2>1. i # k
    BY <1>2
  <2>2. CASE i < k
    <3>1. i \in 1 .. Len(t) /\ t[i] = s[i]
      BY <1>1, <1>2, <1>7, <2>2
    <3> QED  BY <1>8, <3>1 DEF ToSet
  <2>3. CASE i > k
    <3>1. i - 1 \in 1 .. Len(t) /\ ~(i - 1 < k) /\ (i - 1) + 1 = i
      BY <1>1, <1>2, <1>7, <2>3
    <3>2. t[i - 1] = s[i]
      BY <1>7, <3>1
    <3> QED  BY <1>8, <3>1, <3>2 DEF ToSet
  <2> QED  BY <1>2, <2>1, <2>2, <2>3
<1> QED  BY <1>6, <1>7, <1>10, <1>11, <1>12 DEF t

-----------------------------------------------------------------------------
\* The report counts a new trade under its reason, and the others as before.
LEMMA BreakdownGrows ==
  ASSUME NEW p \in Pids, NEW r, trades \in Seq(Pids), p \notin ToSet(trades),
         trade = [o \in Pids |-> trade[o]], trade' = [trade EXCEPT ![p] = r],
         trades' = Append(trades, p), NEW why
  PROVE  /\ Breakdown(why) \in Nat
         /\ Breakdown(why)' = IF r.reason = why THEN Breakdown(why) + 1 ELSE Breakdown(why)
<1> DEFINE n == Len(trades)
           K == {k \in DOMAIN trades : trade[trades[k]].reason = why}
           L == {k \in DOMAIN trades' : trade'[trades'[k]].reason = why}
<1>1. /\ n \in Nat /\ DOMAIN trades = 1 .. n /\ DOMAIN trades' = 1 .. n + 1
      /\ trades'[n + 1] = p /\ \A k \in 1 .. n : trades'[k] = trades[k]
      /\ \A k \in 1 .. n : trades[k] \in Pids
  OBVIOUS
<1>2. \A k \in 1 .. n : trades[k] # p
  BY <1>1 DEF ToSet
<1>3. trade'[p] = r /\ \A k \in 1 .. n : trade'[trades[k]] = trade[trades[k]]
  BY <1>1, <1>2
<1> HIDE DEF n
<1>4. L = IF r.reason = why THEN K \cup {n + 1} ELSE K
  <2>1. \A k : k \in 1 .. n + 1 <=> k \in 1 .. n \/ k = n + 1
    BY <1>1
  <2>2. \A k : k \in L <=> k \in K \/ (k = n + 1 /\ r.reason = why)
    BY <1>1, <1>3, <2>1
  <2> HIDE DEF K, L
  <2> QED  BY <2>2
<1>5. IsFiniteSet(K) /\ n + 1 \notin K
  <2>1. IsFiniteSet(1 .. n)
    <3>1. 1 \in Int /\ n \in Int
      BY <1>1
    <3> QED  BY <3>1, FS_Interval
  <2>2. K \subseteq 1 .. n
    BY <1>1
  <2>3. n + 1 \notin 1 .. n
    BY <1>1
  <2> HIDE DEF K
  <2> QED  BY <2>1, <2>2, <2>3, FS_Subset
<1>6. Breakdown(why) = Cardinality(K) /\ Breakdown(why)' = Cardinality(L)
  BY DEF Breakdown
<1> HIDE DEF K, L
<1>7. Cardinality(K) \in Nat
  BY <1>5, FS_CardinalityType
<1>8. Cardinality(K \cup {n + 1}) = Cardinality(K) + 1
  BY <1>5, FS_AddElement
<1> QED  BY <1>4, <1>6, <1>7, <1>8

\* An exit that both books write down.
LEMMA ExitRecorded ==
  ASSUME Managed, Lists, SwungUp, Ledger, NEW p \in Active, NEW q, IsPosition(q),
         NEW reason \in ExitReason, Exit(p, q, reason), NEW r, IsTrade(r),
         trade' = [trade EXCEPT ![p] = r], trades' = Append(trades, p),
         r.gain = q.pnl, r.gain <= Higher(0, r.best), r.in <= r.out,
         r.reason = Named(reason)
  PROVE  /\ Managed' /\ Ledger' /\ trades' \in Seq(Pids)
         /\ Active' = Active \ {p}
         /\ trade' = [o \in Pids |-> trade'[o]] /\ \A o \in Pids : IsTrade(trade'[o])
         /\ \A o \in Active' : pos'[o] = pos[o] /\ trade'[o] = trade[o]
<1> DEFINE old == Retired(q, reason)
<1>1. /\ p \in Pids /\ status[p] = "active"
      /\ status \in [Pids -> {"free", "active", "closed"}]
      /\ pos = [o \in Pids |-> pos[o]] /\ trade = [o \in Pids |-> trade[o]]
      /\ totalExits \in Nat /\ reasonCounts \in [ExitReason -> Nat]
      /\ trades \in Seq(Pids)
  BY DEF Active, Managed, SwungUp, Lists
<1>2. /\ status' = [status EXCEPT ![p] = "closed"] /\ pos' = [pos EXCEPT ![p] = old]
      /\ totalExits' = totalExits + 1
      /\ reasonCounts' = [reasonCounts EXCEPT ![reason] = @ + 1]
  BY DEF Exit
<1>3. IsPosition(old) /\ old.pnl = q.pnl
  BY DEF Retired, IsPosition
<1> HIDE DEF old
<1>4. /\ pos'[p] = old /\ trade'[p] = r /\ pos' = [o \in Pids |-> pos'[o]]
      /\ trade' = [o \in Pids |-> trade'[o]]
      /\ \A o \in Pids : o # p => pos'[o] = pos[o] /\ trade'[o] = trade[o] /\ status'[o] = status[o]
      /\ status' \in [Pids -> {"free", "active", "closed"}] /\ status'[p] = "closed"
  BY <1>1, <1>2
<1>5. Managed'
  BY <1>1, <1>2, <1>3, <1>4 DEF Managed
<1>6. Active' = Active \ {p}
  BY <1>1, <1>4 DEF Active
<1>7. \A o \in Pids : IsTrade(trade'[o])
  BY <1>4 DEF SwungUp
<1>8. \A o \in Active' : pos'[o] = pos[o] /\ trade'[o] = trade[o]
  BY <1>4, <1>6 DEF Active
<1>9. p \notin ToSet(trades)
  BY <1>1 DEF Ledger
<1>10. trades' \in Seq(Pids) /\ ToSet(trades') = ToSet(trades) \cup {p} /\ Len(trades') = Len(trades) + 1
  BY <1>1, AppendOf
<1>11. ToSet(trades') = {o \in Pids : status'[o] = "closed"} /\ Len(trades') = totalExits'
  <2>1. {o \in Pids : status'[o] = "closed"} = {o \in Pids : status[o] = "closed"} \cup {p}
    BY <1>1, <1>4
  <2> QED  BY <1>2, <1>10, <2>1 DEF Ledger
<1>12. ASSUME NEW k \in DOMAIN trades'
       PROVE  /\ trade'[trades'[k]].gain = pos'[trades'[k]].pnl
              /\ trade'[trades'[k]].gain <= Higher(0, trade'[trades'[k]].best)
              /\ trade'[trades'[k]].in <= trade'[trades'[k]].out
  <2>1. /\ DOMAIN trades = 1 .. Len(trades) /\ DOMAIN trades' = 1 .. Len(trades) + 1
        /\ trades'[Len(trades) + 1] = p /\ \A i \in DOMAIN trades : trades'[i] = trades[i]
        /\ Len(trades) \in Nat /\ \A i \in DOMAIN trades : trades[i] \in Pids
    BY <1>1
  <2>2. CASE k = Len(trades) + 1
    BY <1>3, <1>4, <2>1, <2>2
  <2>3. CASE k \in DOMAIN trades
    <3>1. trades[k] # p
      BY <1>9, <2>3 DEF ToSet
    <3>2. trade'[trades'[k]] = trade[trades[k]] /\ pos'[trades'[k]] = pos[trades[k]]
      BY <1>4, <2>1, <2>3, <3>1
    <3> QED  BY <2>3, <3>2 DEF Ledger
  <2> QED  BY <2>1, <2>2, <2>3
<1>13. ASSUME NEW why \in ExitReason PROVE reasonCounts'[why] = Breakdown(Named(why))'
  <2> DEFINE name == Named(why)
  <2>1. Named(why) = Named(reason) <=> why = reason
    BY DEF Named, ExitReason, Priority, ToSet
  <2>2. Breakdown(name) \in Nat
        /\ Breakdown(name)' = IF r.reason = name THEN Breakdown(name) + 1 ELSE Breakdown(name)
    <3> HIDE DEF name
    <3> QED  BY <1>1, <1>9, BreakdownGrows
  <2>3. reasonCounts[why] = Breakdown(name)
    BY DEF Ledger
  <2>4. reasonCounts'[why] = IF why = reason THEN reasonCounts[why] + 1 ELSE reasonCounts[why]
    BY <1>1, <1>2
  <2>5. Breakdown(Named(why))' = Breakdown(name)'
    OBVIOUS
  <2> HIDE DEF name
  <2> QED  BY <2>1, <2>2, <2>3, <2>4, <2>5 DEF name
<1>14. Ledger'
  BY <1>11, <1>12, <1>13 DEF Ledger
<1> QED  BY <1>4, <1>5, <1>6, <1>7, <1>8, <1>10, <1>14

\* A step of the loop that closes nothing.
LEMMA NothingRecorded ==
  ASSUME Ledger, SwungUp, UNCHANGED <<totalExits, reasonCounts, trades>>, trades \in Seq(Pids),
         {o \in Pids : status'[o] = "closed"} = {o \in Pids : status[o] = "closed"},
         \A o \in Pids : status[o] = "closed" => pos'[o] = pos[o] /\ trade'[o] = trade[o]
  PROVE  Ledger'
<1>1. \A k \in DOMAIN trades : trades[k] \in Pids /\ status[trades[k]] = "closed"
  BY DEF Ledger, ToSet
<1>2. \A k \in DOMAIN trades :
        trade'[trades[k]] = trade[trades[k]] /\ pos'[trades[k]] = pos[trades[k]]
  BY <1>1
<1>3. ASSUME NEW why PROVE Breakdown(why)' = Breakdown(why)
  <2>1. {k \in DOMAIN trades' : trade'[trades'[k]].reason = why}
        = {k \in DOMAIN trades : trade[trades[k]].reason = why}
    BY <1>2
  <2> QED  BY <2>1 DEF Breakdown
<1>4. \A why \in ExitReason : reasonCounts'[why] = Breakdown(Named(why))'
  BY <1>3 DEF Ledger, Named
<1>5. /\ ToSet(trades') = {o \in Pids : status'[o] = "closed"} /\ Len(trades') = totalExits'
  BY DEF Ledger
<1>6. \A k \in DOMAIN trades' :
       /\ trade'[trades'[k]].gain = pos'[trades'[k]].pnl
       /\ trade'[trades'[k]].gain <= Higher(0, trade'[trades'[k]].best)
       /\ trade'[trades'[k]].in <= trade'[trades'[k]].out
  BY <1>2 DEF Ledger
<1> QED  BY <1>4, <1>5, <1>6 DEF Ledger

\* A tick exits for a reason of its own, or keeps the ticked position.
LEMMA TickEither ==
  ASSUME NEW p, NEW t, Tick(p, t)
  PROVE  \/ \E reason \in ExitReason \ {"manual_exit"} : Exit(p, Ticked(pos[p], t), reason)
         \/ /\ pos' = [pos EXCEPT ![p] = Ticked(pos[p], t)]
            /\ UNCHANGED <<status, closed, totalExits, reasonCounts>>
  BY FirstDue DEF Tick

\* A visit gives the position the tick, and the record its price.
LEMMA VisitKeepsRInv ==
  ASSUME RInv, Visit
  PROVE  RInv'
<1> USE DEF RInv
<1>1. PICK p \in {Head(todo)} : \E r \in {Swung(trade[p], Price(at))} :
        /\ Tick(p, tape[at].tick)
        /\ IF status'[p] = "closed"
           THEN /\ trade' = [trade EXCEPT ![p] = Left(r, at, pos'[p].reason)]
                /\ trades' = Append(trades, p)
                /\ open' = RemoveFirst(open, p)
           ELSE /\ trade' = [trade EXCEPT ![p] = r]
                /\ UNCHANGED <<trades, open>>
  BY DEF Visit
<1> DEFINE t == tape[at].tick
           q == Ticked(pos[p], t)
           r == Swung(trade[p], Price(at))
<1>2. /\ phase = "visit" /\ todo # <<>> /\ todo' = Tail(todo)
      /\ tape' = tape /\ strategy' = strategy /\ at' = at /\ phase' = phase
  BY DEF Visit
<1>3. OnTape' /\ Price(at)' = Price(at) /\ at \in Nat /\ Price(at) \in Nat /\ t.price = Price(at)
  <2>1. tape \in Seq([tick : Ticks, volume : Nat]) /\ at \in 1 .. Len(tape)
    BY TapesAssumption DEF OnTape
  <2>2. tape[at].tick \in Ticks
    <3> DEFINE Row == [tick : Ticks, volume : Nat]
    <3>1. tape \in Seq(Row) /\ \A x \in Row : x.tick \in Ticks
      BY <2>1
    <3> HIDE DEF Row
    <3>2. tape[at] \in Row
      BY <2>1, <3>1
    <3> QED  BY <3>1, <3>2
  <2>3. tape[at].tick.price \in Nat
    BY <2>2, TicksAssumption
  <2> QED  BY <1>2, <2>1, <2>3 DEF OnTape, Price
<1>4. /\ p \in ToSet(todo) /\ todo' \in Seq(Pids) /\ IsInjective(todo')
      /\ ToSet(todo') = ToSet(todo) \ {p}
  BY <1>2, TailOf DEF Lists
<1>5. /\ p \in Active /\ p \in Pids /\ p \in ToSet(open) /\ status[p] = "active"
      /\ open \in Seq(Pids) /\ IsInjective(open) /\ trades \in Seq(Pids)
      /\ Len(open) <= MaxConcurrent /\ Len(open) \in Nat
  BY <1>4 DEF Lists, Active
<1>6. /\ IsTrade(trade[p]) /\ trade[p].side = pos[p].side /\ trade[p].entry = pos[p].entry
      /\ trade[p].best = pos[p].peak /\ trade[p].in <= at
  BY <1>5 DEF SwungUp
<1> DEFINE u == Unrealized(trade[p], Price(at))
<1>7. u \in Int /\ u = Gain(pos[p].side, pos[p].entry, t.price)
  BY <1>3, <1>6 DEF Unrealized, Gain, IsTrade
<1>8. /\ IsTrade(r) /\ r.side = trade[p].side /\ r.entry = trade[p].entry
      /\ r.in = trade[p].in /\ r.best = Higher(trade[p].best, u) /\ r.best >= u
      /\ Unrealized(r, Price(at)) = u
  <2>1. r = [side |-> trade[p].side, entry |-> trade[p].entry, in |-> trade[p].in,
             out |-> trade[p].out, gain |-> trade[p].gain, reason |-> trade[p].reason,
             best |-> Higher(trade[p].best, u), worst |-> Lower(trade[p].worst, u)]
    BY DEF Swung
  <2>2. Higher(trade[p].best, u) \in Int /\ Higher(trade[p].best, u) >= u
    BY <1>6, <1>7 DEF Higher, IsTrade
  <2> HIDE DEF r, u
  <2>3. IsTrade(r)
    BY <1>6, <2>1, <2>2 DEF IsTrade
  <2>4. Unrealized(r, Price(at)) = u
    BY <2>1 DEF Unrealized, u
  <2> QED  BY <2>1, <2>2, <2>3, <2>4
<1>9. /\ IsPosition(q) /\ q.pnl = u /\ q.peak = r.best /\ q.side = pos[p].side
      /\ q.entry = pos[p].entry
  BY <1>6, <1>7, <1>8 DEF Ticked, IsPosition, Peak
<1>10. ASSUME status'[p] = "closed" PROVE RInv'
  <2> DEFINE rec == Left(r, at, pos'[p].reason)
  <2>1. PICK reason \in ExitReason \ {"manual_exit"} : Exit(p, q, reason)
    BY <1>1, <1>5, <1>10, TickEither
  <2>2. pos'[p].reason = reason
    BY <1>5, <2>1 DEF Exit, Retired, Managed
  <2>3. /\ IsTrade(rec) /\ rec.gain = u /\ rec.best = r.best /\ rec.in = trade[p].in
        /\ rec.out = at /\ rec.reason = reason
    <3>1. rec = [side |-> r.side, entry |-> r.entry, in |-> r.in, out |-> at,
                 gain |-> u, reason |-> reason, best |-> r.best, worst |-> r.worst]
      <4> HIDE DEF r, u
      <4>1. Left(r, at, reason) = [side |-> r.side, entry |-> r.entry, in |-> r.in,
              out |-> at, gain |-> Unrealized(r, Price(at)), reason |-> reason,
              best |-> r.best, worst |-> r.worst]
        BY DEF Left
      <4> QED  BY <1>8, <2>2, <4>1
    <3> HIDE DEF rec, r, u
    <3> QED  BY <1>8, <3>1 DEF IsTrade
  <2>4. rec.gain <= Higher(0, rec.best) /\ rec.in <= rec.out
    BY <1>6, <1>7, <1>8, <2>3 DEF Higher, IsTrade
  <2>5. trade' = [trade EXCEPT ![p] = rec] /\ trades' = Append(trades, p)
        /\ open' = RemoveFirst(open, p)
    BY <1>1, <1>10
  <2>6. rec.reason = Named(reason)
    BY <2>3 DEF Named
  <2> HIDE DEF rec, q, r, u
  <2>7. /\ Managed' /\ Ledger' /\ trades' \in Seq(Pids)
        /\ Active' = Active \ {p}
        /\ trade' = [o \in Pids |-> trade'[o]] /\ \A o \in Pids : IsTrade(trade'[o])
        /\ \A o \in Active' : pos'[o] = pos[o] /\ trade'[o] = trade[o]
    BY <1>5, <1>9, <2>1, <2>3, <2>4, <2>5, <2>6, ExitRecorded
  <2>8. /\ open' \in Seq(Pids) /\ IsInjective(open') /\ ToSet(open') = ToSet(open) \ {p}
        /\ Len(open') = Len(open) - 1
    BY <1>5, <2>5, RemoveOf
  <2>9. Lists'
    <3>1. Len(open') <= MaxConcurrent
      BY <1>5, <2>8, ReplayAssumption
    <3> QED  BY <1>4, <2>7, <2>8, <3>1 DEF Lists
  <2>10. SwungUp'
    <3> SUFFICES ASSUME NEW o \in Active'
                 PROVE  /\ trade'[o].side = pos'[o].side /\ trade'[o].entry = pos'[o].entry
                        /\ trade'[o].best = pos'[o].peak /\ trade'[o].in <= at'
                        /\ o \notin ToSet(todo') =>
                             Unrealized(trade'[o], Price(at)') <= Higher(0, trade'[o].best)
      BY <2>7 DEF SwungUp
    <3>1. o \in Active /\ o # p /\ pos'[o] = pos[o] /\ trade'[o] = trade[o]
      BY <2>7
    <3> QED  BY <1>2, <1>3, <1>4, <3>1 DEF SwungUp
  <2> QED  BY <1>3, <2>7, <2>9, <2>10
<1>11. ASSUME status'[p] # "closed" PROVE RInv'
  <2>1. /\ pos' = [pos EXCEPT ![p] = q] /\ status' = status /\ totalExits' = totalExits
        /\ reasonCounts' = reasonCounts
    <3>1. \A reason : ~Exit(p, q, reason)
      BY <1>5, <1>11 DEF Exit, Managed
    <3> QED  BY <1>1, <3>1, TickEither
  <2>2. trade' = [trade EXCEPT ![p] = r] /\ trades' = trades /\ open' = open
    BY <1>1, <1>11
  <2> HIDE DEF q, r, u
  <2>3. /\ pos = [o \in Pids |-> pos[o]] /\ trade = [o \in Pids |-> trade[o]]
    BY DEF Managed, SwungUp
  <2>4. /\ pos'[p] = q /\ trade'[p] = r
        /\ \A o \in Pids : o # p => pos'[o] = pos[o] /\ trade'[o] = trade[o]
        /\ pos' = [o \in Pids |-> pos'[o]] /\ trade' = [o \in Pids |-> trade'[o]]
    BY <1>5, <2>1, <2>2, <2>3
  <2>5. Managed'
    BY <1>9, <2>1, <2>4 DEF Managed
  <2>6. Active' = Active
    BY <2>1 DEF Active
  <2>7. Lists'
    BY <1>4, <2>2, <2>6 DEF Lists
  <2>8. SwungUp'
    <3>1. \A o \in Pids : IsTrade(trade'[o])
      BY <1>8, <2>4 DEF SwungUp
    <3> SUFFICES ASSUME NEW o \in Active
                 PROVE  /\ trade'[o].side = pos'[o].side /\ trade'[o].entry = pos'[o].entry
                        /\ trade'[o].best = pos'[o].peak /\ trade'[o].in <= at'
                        /\ o \notin ToSet(todo') =>
                             Unrealized(trade'[o], Price(at)') <= Higher(0, trade'[o].best)
      BY <2>4, <2>6, <3>1 DEF SwungUp
    <3>2. CASE o = p
      <4>1. Unrealized(r, Price(at)) <= Higher(0, r.best)
        BY <1>7, <1>8 DEF Higher, IsTrade
      <4> QED  BY <1>2, <1>3, <1>6, <1>8, <1>9, <2>4, <3>2, <4>1
    <3>3. CASE o # p
      <4>1. o \in Pids /\ (o \notin ToSet(todo') => o \notin ToSet(todo))
        BY <1>4, <3>3 DEF Active
      <4> QED  BY <1>2, <1>3, <2>4, <3>3, <4>1 DEF SwungUp
    <3> QED  BY <3>2, <3>3
  <2>9. Ledger'
    <3>1. \A o \in Pids : status[o] = "closed" => pos'[o] = pos[o] /\ trade'[o] = trade[o]
      BY <1>5, <2>4
    <3> QED  BY <1>5, <2>1, <2>2, <3>1, NothingRecorded
  <2> QED  BY <1>3, <2>5, <2>7, <2>8, <2>9
<1> QED  BY <1>10, <1>11

\* When every position has had the tick there may be a new one, with the price
\* of this tick as its entry, and the loop goes on.
LEMMA AdvanceKeepsRInv ==
  ASSUME RInv, Advance
  PROVE  RInv'
<1> USE DEF RInv
<1>1. /\ phase = "visit" /\ todo = <<>> /\ tape' = tape /\ strategy' = strategy
      /\ trades' = trades
      /\ \/ at < Len(tape) /\ at' = at + 1 /\ todo' = open' /\ phase' = "visit"
         \/ at' = at /\ todo' = todo /\ phase' = "close"
  BY DEF Advance
<1>2. at \in 1 .. Len(tape) /\ Len(tape) \in Nat
  BY TapesAssumption DEF OnTape
<1>3. OnTape' /\ at <= at' /\ (todo' = open' \/ (at' = at /\ todo' = <<>>))
      /\ (at' = at => Price(at)' = Price(at))
  BY <1>1, <1>2 DEF OnTape, Price
<1>4. /\ open \in Seq(Pids) /\ IsInjective(open) /\ ToSet(open) = Active
      /\ Len(open) \in Nat /\ Len(open) <= MaxConcurrent /\ trades \in Seq(Pids)
      /\ MaxConcurrent \in Nat
  BY ReplayAssumption DEF Lists
<1>5. \A o \in Active : Unrealized(trade[o], Price(at)) <= Higher(0, trade[o].best)
  BY <1>1 DEF SwungUp, ToSet
<1>6. ASSUME UNCHANGED <<vars, trade, open>> PROVE RInv'
  <2>1. Managed' /\ Active' = Active
    BY <1>6 DEF vars, Managed, Active
  <2>2. Lists'
    <3>1. todo' \in Seq(Pids) /\ IsInjective(todo') /\ ToSet(todo') \subseteq ToSet(open)
      BY <1>1, <1>4, <1>6 DEF Lists
    <3> QED  BY <1>1, <1>4, <1>6, <2>1, <3>1 DEF Lists
  <2>3. SwungUp'
    <3>1. /\ trade' = [o \in Pids |-> trade'[o]] /\ \A o \in Pids : IsTrade(trade'[o])
      BY <1>6 DEF SwungUp
    <3> SUFFICES ASSUME NEW o \in Active
                 PROVE  /\ trade'[o].side = pos'[o].side /\ trade'[o].entry = pos'[o].entry
                        /\ trade'[o].best = pos'[o].peak /\ trade'[o].in <= at'
                        /\ o \notin ToSet(todo') =>
                             Unrealized(trade'[o], Price(at)') <= Higher(0, trade'[o].best)
      BY <2>1, <3>1 DEF SwungUp
    <3>2. pos' = pos /\ trade' = trade /\ open' = open /\ o \in Pids
      BY <1>6 DEF vars, Active
    <3>3. trade[o].in \in Nat /\ trade[o].in <= at
      BY <3>2 DEF SwungUp, IsTrade
    <3>4. trade[o].in <= at'
      BY <1>1, <1>2, <3>3
    <3>5. o \notin ToSet(todo') => at' = at
      BY <1>3, <1>4, <3>2
    <3>6. /\ trade'[o].side = pos'[o].side /\ trade'[o].entry = pos'[o].entry
          /\ trade'[o].best = pos'[o].peak
      BY <3>2 DEF SwungUp
    <3> QED  BY <1>3, <1>5, <3>2, <3>4, <3>5, <3>6
  <2>4. Ledger'
    BY <1>1, <1>4, <1>6, NothingRecorded DEF vars
  <2> QED  BY <1>3, <2>1, <2>2, <2>3, <2>4
<1>7. ASSUME Room, NEW side, Enter(side) PROVE RInv'
  <2> DEFINE p == Fresh
             q == Position([side |-> side, entry |-> Price(at), atr |-> EstimatedAtr(at)])
             r == Entered(side, Price(at), at)
  <2>1. p \in Pids /\ status[p] = "free"
    BY <1>7 DEF Enter, Fresh, Unspent
  <2>2. /\ status' = [status EXCEPT ![p] = "active"] /\ pos' = [pos EXCEPT ![p] = q]
        /\ totalExits' = totalExits /\ reasonCounts' = reasonCounts
        /\ trade' = [trade EXCEPT ![p] = r] /\ open' = Append(open, p)
    BY <1>7 DEF Enter, Register
  <2>3. Price(at) \in Nat
    <3>1. tape \in Seq([tick : Ticks, volume : Nat]) /\ at \in 1 .. Len(tape)
      BY TapesAssumption DEF OnTape
    <3>2. tape[at].tick \in Ticks
      <4> DEFINE Row == [tick : Ticks, volume : Nat]
      <4>1. tape \in Seq(Row) /\ \A x \in Row : x.tick \in Ticks
        BY <3>1
      <4> HIDE DEF Row
      <4>2. tape[at] \in Row
        BY <3>1, <4>1
      <4> QED  BY <4>1, <4>2
    <3> QED  BY <3>2, TicksAssumption DEF Price
  <2>4. /\ r.side = side /\ r.entry = Price(at) /\ r.in = at /\ r.best = 0 /\ IsTrade(r)
    BY <1>2, <2>3 DEF Entered, IsTrade
  <2>5. /\ q.side = side /\ q.entry = Price(at) /\ q.peak = 0 /\ IsPosition(q)
    BY DEF Position, IsPosition
  <2>6. Unrealized(r, Price(at)) <= Higher(0, r.best)
    <3>1. Unrealized(r, Price(at)) = 0
      BY <2>3, <2>4 DEF Unrealized
    <3> QED  BY <2>4, <3>1 DEF Higher
  <2> HIDE DEF p, q, r
  <2>7. /\ pos = [o \in Pids |-> pos[o]] /\ trade = [o \in Pids |-> trade[o]]
        /\ status \in [Pids -> {"free", "active", "closed"}]
    BY DEF Managed, SwungUp
  <2>8. /\ pos'[p] = q /\ trade'[p] = r /\ status'[p] = "active"
        /\ \A o \in Pids : o # p =>
             pos'[o] = pos[o] /\ trade'[o] = trade[o] /\ status'[o] = status[o]
        /\ pos' = [o \in Pids |-> pos'[o]] /\ trade' = [o \in Pids |-> trade'[o]]
        /\ status' \in [Pids -> {"free", "active", "closed"}]
    BY <2>1, <2>2, <2>7
  <2>9. Managed'
    BY <2>2, <2>5, <2>8 DEF Managed
  <2>10. Active' = Active \cup {p} /\ p \notin Active
    BY <2>1, <2>8 DEF Active
  <2>11. /\ open' \in Seq(Pids) /\ IsInjective(open') /\ ToSet(open') = Active'
         /\ Len(open') = Len(open) + 1
    <3>1. p \notin ToSet(open)
      BY <1>4, <2>10
    <3>2. /\ Append(open, p) \in Seq(Pids) /\ ToSet(Append(open, p)) = ToSet(open) \cup {p}
          /\ Len(Append(open, p)) = Len(open) + 1
          /\ IsInjective(open) /\ p \notin ToSet(open) => IsInjective(Append(open, p))
      BY <1>4, <2>1, AppendOf
    <3> QED  BY <1>4, <2>2, <2>10, <3>1, <3>2
  <2>12. Lists'
    <3>1. Len(open') <= MaxConcurrent
      BY <1>4, <1>7, <2>11 DEF Room
    <3>2. todo' \in Seq(Pids) /\ IsInjective(todo') /\ ToSet(todo') \subseteq ToSet(open')
      <4>1. CASE todo' = open'
        BY <2>11, <4>1
      <4>2. CASE todo' = <<>>
        BY <4>2 DEF IsInjective, ToSet
      <4> QED  BY <1>3, <4>1, <4>2
    <3> QED  BY <1>1, <1>4, <2>11, <3>1, <3>2 DEF Lists
  <2>13. SwungUp'
    <3>1. \A o \in Pids : IsTrade(trade'[o])
      BY <2>4, <2>8 DEF SwungUp
    <3> SUFFICES ASSUME NEW o \in Active'
                 PROVE  /\ trade'[o].side = pos'[o].side /\ trade'[o].entry = pos'[o].entry
                        /\ trade'[o].best = pos'[o].peak /\ trade'[o].in <= at'
                        /\ o \notin ToSet(todo') =>
                             Unrealized(trade'[o], Price(at)') <= Higher(0, trade'[o].best)
      BY <2>8, <3>1 DEF SwungUp
    <3>2. o \notin ToSet(todo') => at' = at
      BY <1>3, <2>11
    <3>3. CASE o = p
      <4>1. trade'[o].in <= at'
        BY <1>3, <2>4, <2>8, <3>3
      <4>2. trade'[o] = r /\ pos'[o] = q
        BY <2>8, <3>3
      <4> QED  BY <1>3, <2>4, <2>5, <2>6, <3>2, <4>1, <4>2
    <3>4. CASE o # p
      <4>1. o \in Active /\ o \in Pids
        BY <2>10, <3>4 DEF Active
      <4>2. trade'[o] = trade[o] /\ pos'[o] = pos[o]
        BY <2>8, <3>4, <4>1
      <4>3. trade[o].in \in Nat /\ trade[o].in <= at
        BY <4>1 DEF SwungUp, IsTrade
      <4>4. trade[o].in <= at'
        BY <1>1, <1>2, <4>3
      <4>5. /\ trade[o].side = pos[o].side /\ trade[o].entry = pos[o].entry
            /\ trade[o].best = pos[o].peak
        BY <4>1 DEF SwungUp
      <4> QED  BY <1>3, <1>5, <3>2, <4>1, <4>2, <4>4, <4>5
    <3> QED  BY <3>3, <3>4
  <2>14. Ledger'
    <3>1. {o \in Pids : status'[o] = "closed"} = {o \in Pids : status[o] = "closed"}
      BY <2>1, <2>8
    <3>2. \A o \in Pids : status[o] = "closed" => pos'[o] = pos[o] /\ trade'[o] = trade[o]
      BY <2>1, <2>8
    <3> QED  BY <1>1, <1>4, <2>2, <3>1, <3>2, NothingRecorded
  <2> QED  BY <1>3, <2>9, <2>12, <2>13, <2>14
<1> QED  BY <1>6, <1>7 DEF Advance

\* What is left open at the end of the tape goes into both books as well, under
\* two names.
LEMMA ForceCloseKeepsRInv ==
  ASSUME RInv, ForceClose
  PROVE  RInv'
<1> USE DEF RInv
<1> DEFINE p == Head(open)
           gain == Gain(pos[p].side, pos[p].entry, Price(at))
           q == [pos[p] EXCEPT !.pnl = gain]
           rec == Left(trade[p], at, "forced_close_eod")
<1>1. /\ phase = "close" /\ open # <<>> /\ open' = Tail(open)
      /\ Exit(p, q, "manual_exit") /\ trades' = Append(trades, p)
      /\ trade' = [trade EXCEPT ![p] = rec]
      /\ tape' = tape /\ strategy' = strategy /\ at' = at /\ phase' = phase /\ todo' = todo
  BY DEF ForceClose, NothingLeft, ForceExit
<1>2. todo = <<>> /\ at \in Nat /\ OnTape' /\ Price(at)' = Price(at)
  BY <1>1, TapesAssumption DEF OnTape, Price
<1>3. /\ open \in Seq(Pids) /\ IsInjective(open) /\ ToSet(open) = Active
      /\ Len(open) \in Nat /\ Len(open) <= MaxConcurrent /\ MaxConcurrent \in Nat
  BY ReplayAssumption DEF Lists
<1>4. /\ p \in ToSet(open) /\ open' \in Seq(Pids) /\ IsInjective(open')
      /\ ToSet(open') = ToSet(open) \ {p} /\ Len(open') = Len(open) - 1
  BY <1>1, <1>3, TailOf
<1>5. /\ p \in Active /\ p \in Pids /\ IsTrade(trade[p]) /\ IsPosition(pos[p])
      /\ trade[p].side = pos[p].side /\ trade[p].entry = pos[p].entry /\ trade[p].in <= at
      /\ Unrealized(trade[p], Price(at)) <= Higher(0, trade[p].best)
  BY <1>2, <1>3, <1>4 DEF SwungUp, Managed, Active, ToSet
<1>6. IsPosition(q) /\ q.pnl = gain
  <2> HIDE DEF gain
  <2> QED  BY <1>5 DEF IsPosition
<1>7. /\ IsTrade(rec) /\ rec.gain = Unrealized(trade[p], Price(at)) /\ rec.best = trade[p].best
      /\ rec.in = trade[p].in /\ rec.out = at /\ rec.reason = "forced_close_eod"
  BY <1>2, <1>5 DEF Left, IsTrade
<1>8. rec.gain = gain
  BY <1>5, <1>7 DEF Unrealized, Gain
<1>9. /\ rec.gain = q.pnl /\ rec.gain <= Higher(0, rec.best) /\ rec.in <= rec.out
      /\ rec.reason = Named("manual_exit") /\ "manual_exit" \in ExitReason
  BY <1>5, <1>6, <1>7, <1>8 DEF Named, ExitReason
<1> HIDE DEF p, gain, q, rec
<1>10. /\ Managed' /\ Ledger' /\ trades' \in Seq(Pids)
       /\ Active' = Active \ {p}
       /\ trade' = [o \in Pids |-> trade'[o]] /\ \A o \in Pids : IsTrade(trade'[o])
       /\ \A o \in Active' : pos'[o] = pos[o] /\ trade'[o] = trade[o]
  BY <1>1, <1>5, <1>6, <1>7, <1>9, ExitRecorded
<1>11. Lists'
  <2>1. Len(open') <= MaxConcurrent
    BY <1>3, <1>4
  <2>2. todo' \in Seq(Pids) /\ IsInjective(todo') /\ ToSet(todo') = {}
    BY <1>1, <1>2 DEF IsInjective, ToSet
  <2> QED  BY <1>3, <1>4, <1>10, <2>1, <2>2 DEF Lists
<1>12. SwungUp'
  <2> SUFFICES ASSUME NEW o \in Active'
               PROVE  /\ trade'[o].side = pos'[o].side /\ trade'[o].entry = pos'[o].entry
                      /\ trade'[o].best = pos'[o].peak /\ trade'[o].in <= at'
                      /\ o \notin ToSet(todo') =>
                           Unrealized(trade'[o], Price(at)') <= Higher(0, trade'[o].best)
    BY <1>10 DEF SwungUp
  <2>1. o \in Active /\ pos'[o] = pos[o] /\ trade'[o] = trade[o]
    BY <1>10
  <2> QED  BY <1>1, <1>2, <2>1 DEF SwungUp
<1> QED  BY <1>2, <1>10, <1>11, <1>12

\* The clock moves nothing the ledger has a copy of.
LEMMA WallClockKeepsRInv ==
  ASSUME RInv, WallClock
  PROVE  RInv'
<1> USE DEF RInv
<1>1. /\ Clock /\ tape' = tape /\ strategy' = strategy /\ at' = at /\ phase' = phase
      /\ todo' = todo /\ open' = open /\ trade' = trade /\ trades' = trades
      /\ status' = status /\ totalExits' = totalExits /\ reasonCounts' = reasonCounts
  BY DEF WallClock, Clock, engine
<1>2. Active' = Active
  BY <1>1 DEF Active
<1>3. ASSUME NEW o \in Pids
      PROVE  /\ IsPosition(pos'[o]) /\ pos'[o].side = pos[o].side
             /\ pos'[o].entry = pos[o].entry /\ pos'[o].peak = pos[o].peak
             /\ o \notin Active => pos'[o] = pos[o]
  <2>1. IsPosition(pos[o])
    BY DEF Managed
  <2>2. CASE o \in Active
    <3>1. PICK age, ghosts : pos'[o] = [pos[o] EXCEPT !.age = age, !.fed = 0, !.ghosts = ghosts]
      BY <1>1, <2>2 DEF Clock
    <3> QED  BY <2>1, <2>2, <3>1 DEF IsPosition
  <2>3. CASE o \notin Active
    BY <1>1, <2>1, <2>3 DEF Clock
  <2> QED  BY <2>2, <2>3
<1>4. pos' = [o \in Pids |-> pos'[o]]
  BY <1>1 DEF Clock
<1>5. OnTape' /\ Price(at)' = Price(at)
  BY <1>1 DEF OnTape, Price
<1>6. Managed'
  BY <1>1, <1>3, <1>4 DEF Managed
<1>7. Lists'
  BY <1>1, <1>2 DEF Lists
<1>8. SwungUp'
  <2> SUFFICES ASSUME NEW o \in Active
               PROVE  /\ trade'[o].side = pos'[o].side /\ trade'[o].entry = pos'[o].entry
                      /\ trade'[o].best = pos'[o].peak /\ trade'[o].in <= at'
                      /\ o \notin ToSet(todo') =>
                           Unrealized(trade'[o], Price(at)') <= Higher(0, trade'[o].best)
    BY <1>1, <1>2 DEF SwungUp
  <2>1. o \in Pids
    BY DEF Active
  <2> QED  BY <1>1, <1>3, <1>5, <2>1 DEF SwungUp
<1>9. Ledger'
  <2>1. \A o \in Pids : status[o] = "closed" => pos'[o] = pos[o] /\ trade'[o] = trade[o]
    BY <1>1, <1>3 DEF Active
  <2>2. trades \in Seq(Pids)
    BY DEF Lists
  <2> QED  BY <1>1, <2>1, <2>2, NothingRecorded
<1> QED  BY <1>5, <1>6, <1>7, <1>8, <1>9

LEMMA InitRInv == InitReplay => RInv
<1> SUFFICES ASSUME InitReplay PROVE RInv
  OBVIOUS
<1>1. OnTape
  <2>1. tape \in Tapes /\ Len(tape) \in Nat /\ tape # <<>>
    BY TapesAssumption DEF InitReplay
  <2>2. 1 \in 1 .. Len(tape)
    BY <2>1, TapesAssumption DEF InitReplay
  <2> QED  BY <2>1, <2>2 DEF OnTape, InitReplay
<1>2. Managed
  <2>1. IsPosition(Unused)
    BY DEF Unused, Position, IsPosition
  <2> HIDE DEF Unused
  <2> QED  BY <2>1 DEF InitReplay, Init, Managed
<1>3. Active = {}
  BY DEF InitReplay, Init, Active
<1>4. /\ open = <<>> /\ todo = <<>> /\ trades = <<>> /\ ToSet(<<>>) = {} /\ IsInjective(<<>>)
      /\ Len(<<>>) = 0 /\ DOMAIN <<>> = {}
  BY DEF InitReplay, ToSet, IsInjective
<1>5. Lists
  BY <1>3, <1>4, ReplayAssumption DEF Lists
<1>6. SwungUp
  <2>1. IsTrade(NoTrade)
    BY DEF NoTrade, Entered, IsTrade
  <2> QED  BY <1>3, <2>1 DEF InitReplay, SwungUp
<1>7. Ledger
  <2>1. \A why : Breakdown(why) = 0
    <3> TAKE why
    <3>1. {k \in DOMAIN trades : trade[trades[k]].reason = why} = {}
      BY <1>4
    <3> QED  BY <3>1, FS_EmptySet DEF Breakdown
  <2>2. {p \in Pids : status[p] = "closed"} = {}
    BY DEF InitReplay, Init
  <2>3. /\ totalExits = 0 /\ \A r \in ExitReason : reasonCounts[r] = 0
    BY DEF InitReplay, Init
  <2> QED  BY <1>4, <2>1, <2>2, <2>3 DEF Ledger
<1> QED  BY <1>1, <1>2, <1>5, <1>6, <1>7 DEF RInv

LEMMA NextRInv == RInv /\ [NextReplay]_<<vars, engine>> => RInv'
<1> SUFFICES ASSUME RInv, [NextReplay]_<<vars, engine>> PROVE RInv'
  OBVIOUS
<1>1. CASE Visit
  BY <1>1, VisitKeepsRInv
<1>2. CASE Advance
  BY <1>2, AdvanceKeepsRInv
<1>3. CASE ForceClose
  BY <1>3, ForceCloseKeepsRInv
<1>4. ASSUME UNCHANGED <<vars, tape, strategy, at, todo, open, trade, trades>>,
             phase' \in {phase, "done"}, phase' = "done" => todo = <<>>
      PROVE  RInv'
  <2>1. OnTape' /\ Managed' /\ Lists'
    BY <1>4 DEF RInv, OnTape, Managed, Lists, vars, Active
  <2>2. SwungUp'
    BY <1>4 DEF RInv, SwungUp, vars, Active, Price
  <2>3. Ledger'
    BY <1>4 DEF RInv, Ledger, vars, Breakdown, Named
  <2> QED  BY <2>1, <2>2, <2>3 DEF RInv
<1>5. CASE Return
  BY <1>4, <1>5 DEF Return, RInv, OnTape
<1>6. CASE WallClock
  BY <1>6, WallClockKeepsRInv
<1>7. CASE UNCHANGED <<vars, engine>>
  BY <1>4, <1>7 DEF engine, RInv, OnTape
<1> QED  BY <1>1, <1>2, <1>3, <1>5, <1>6, <1>7 DEF NextReplay, Step

\* The replay's two books always agree.
THEOREM LedgerIsRight == SpecReplay => []LedgerAgrees
<1>1. RInv => LedgerAgrees
  BY DEF RInv, Lists, SwungUp, Ledger, LedgerAgrees, Named
<1> QED  BY <1>1, InitRInv, NextRInv, PTL DEF SpecReplay

-----------------------------------------------------------------------------
(***************************************************************************)
(* The replay drives the manager by its own operations alone, with offers  *)
(* that are offers, so that what is true of the manager is true of it.     *)
(***************************************************************************)

\* The tick the loop has come to.
LEMMA TickOnTape ==
  ASSUME OnTape
  PROVE  /\ \A k \in 1 .. Len(tape) : tape[k].tick \in Ticks /\ Price(k) \in Nat \ {0}
         /\ at \in 1 .. Len(tape) /\ at \in Nat
<1> DEFINE Row == [tick : Ticks, volume : Nat]
<1>1. tape \in Seq(Row) /\ at \in 1 .. Len(tape) /\ \A x \in Row : x.tick \in Ticks
  BY TapesAssumption DEF OnTape
<1> HIDE DEF Row
<1>2. \A k \in 1 .. Len(tape) : tape[k] \in Row
  BY <1>1
<1>3. \A t \in Ticks : t.price \in Nat \ {0}
  BY TicksAssumption
<1>4. \A k \in 1 .. Len(tape) : Price(k) \in Nat \ {0}
  BY <1>1, <1>2, <1>3 DEF Price
<1> QED  BY <1>1, <1>2, <1>4

\* The estimate of the range is a natural number, and divides by none that is 0.
LEMMA AtrIsNat ==
  ASSUME OnTape
  PROVE  EstimatedAtr(at) \in Nat
<1>1. at \in 1 .. Len(tape) /\ at \in Nat /\ \A k \in 1 .. Len(tape) : Price(k) \in Nat \ {0}
  BY TickOnTape
<1>2. CASE at = 1
  <2> DEFINE price == Price(at)
  <2>1. price \in Nat
    BY <1>1
  <2> HIDE DEF price
  <2>2. (2 * price) \div 100 \in Nat
    BY <2>1
  <2> QED  BY <1>2, <2>2 DEF EstimatedAtr, price
<1>3. CASE at # 1
  <2> DEFINE lo == Higher(1, at - AtrWindow)
             f == [k \in lo .. at |-> Price(k)]
             seen == {Price(k) : k \in lo .. at}
             a == Max(seen)
             b == Min(seen)
             price == Price(at)
  <2>1. lo \in Nat /\ lo >= 1 /\ lo <= at
    BY <1>1, ReplayAssumption DEF Higher
  <2>2. EstimatedAtr(at) = (2 * price * (a - b)) \div (a + b)
    BY <1>3 DEF EstimatedAtr
  <2> HIDE DEF lo
  <2>3. \A k \in lo .. at : f[k] = Price(k) /\ Price(k) \in Nat \ {0}
    BY <1>1, <2>1
  <2>4. \E m \in lo .. at : \A k \in lo .. at : f[k] <= f[m]
    <3>1. at \in Nat /\ lo \in Nat /\ lo <= at /\ \A k \in lo .. at : f[k] \in Nat
      BY <1>1, <2>1, <2>3
    <3> HIDE DEF f
    <3> QED  BY <3>1, GreatestValue
  <2>5. \E x \in seen : \A y \in seen : x >= y
    BY <2>3, <2>4
  <2>6. seen \subseteq Nat \ {0} /\ seen # {}
    BY <1>1, <2>1, <2>3
  <2> HIDE DEF seen, f
  <2>7. a \in seen /\ \A y \in seen : a >= y
    BY <2>5 DEF Max
  <2>8. b \in seen
    <3>1. \E n \in seen : \A m \in seen : n <= m
      BY <2>6, LeastNumber
    <3> QED  BY <3>1 DEF Min
  <2> HIDE DEF a, b
  <2>9. a \in Nat \ {0} /\ b \in Nat \ {0} /\ a >= b /\ price \in Nat
    BY <1>1, <2>6, <2>7, <2>8
  <2> HIDE DEF price
  <2>10. a - b \in Nat /\ a + b \in Nat \ {0} /\ 2 * price \in Nat
    BY <2>9
  <2>11. 2 * price * (a - b) \in Nat
    BY <2>10
  <2> DEFINE n == 2 * price * (a - b)
             d == a + b
  <2>12. n \in Nat /\ d \in Nat \ {0}
    BY <2>10, <2>11
  <2> HIDE DEF n, d
  <2>13. n \div d \in Nat
    BY <2>12
  <2> QED  BY <2>2, <2>13 DEF n, d
<1> QED  BY <1>2, <1>3

\* A strategy enters on a side, or not.
LEMMA SignalIsSide ==
  ASSUME OnTape
  PROVE  Signal(at) \in {"LONG", "SHORT", "none"}
<1> DEFINE Sides == {"LONG", "SHORT", "none"}
<1>1. Momentum(at) \in Sides /\ FixedInterval(at) \in Sides
  BY ReplayAssumption DEF Momentum, FixedInterval
<1>2. ObiReversal(at) \in Sides
  <2>1. at \in Int /\ Lookback \in Int /\ (at <= Lookback + 1 \/ at > Lookback + 1)
    BY TickOnTape, ReplayAssumption
  <2> QED  BY <2>1 DEF ObiReversal
<1> DEFINE sides == <<Momentum(at), ObiReversal(at), FixedInterval(at)>>
<1>3. DOMAIN sides = 1 .. 3 /\ \A k \in 1 .. 3 : sides[k] \in Sides
  BY <1>1, <1>2
<1>4. FirstOf(sides) \in Sides
  <2> HIDE DEF sides
  <2> DEFINE S == {k \in DOMAIN sides : sides[k] # "none"}
  <2>1. CASE S # {}
    <3>1. S \subseteq Nat /\ S \subseteq 1 .. 3
      BY <1>3
    <3>2. FirstOf(sides) = sides[Min(S)]
      BY <2>1 DEF FirstOf
    <3> HIDE DEF S
    <3>3. \E n \in S : \A m \in S : n <= m
      BY <2>1, <3>1, LeastNumber
    <3>4. Min(S) \in S
      BY <3>3 DEF Min
    <3> QED  BY <1>3, <3>1, <3>2, <3>4
  <2>2. CASE S = {}
    BY <2>2 DEF FirstOf
  <2> QED  BY <2>1, <2>2
<1>5. strategy \in {"momentum", "obi", "fixed", "multi"}
  BY ReplayAssumption DEF OnTape
<1> HIDE DEF sides
<1> QED  BY <1>1, <1>2, <1>4, <1>5 DEF Signal, sides

\* Every step of the replay is a step of the manager or leaves it alone.
LEMMA ReplayWorks == RInv /\ [NextReplay]_<<vars, engine>> => [Work]_vars
<1> SUFFICES ASSUME RInv, [NextReplay]_<<vars, engine>> PROVE Work \/ UNCHANGED vars
  OBVIOUS
<1>0. /\ tape[at].tick \in Ticks /\ Price(at) \in Nat /\ Price(at) = tape[at].tick.price
      /\ EstimatedAtr(at) \in Nat /\ Signal(at) \in {"LONG", "SHORT", "none"}
  BY TickOnTape, AtrIsNat, SignalIsSide DEF RInv, Price
<1>1. CASE Visit
  <2>1. todo # <<>> /\ \E p \in {Head(todo)} : Tick(p, tape[at].tick)
    BY <1>1 DEF Visit
  <2>2. Head(todo) \in Pids
    BY <2>1 DEF RInv, Lists
  <2> QED  BY <1>0, <2>1, <2>2 DEF Work, Feed
<1>2. CASE Advance
  <2>1. CASE UNCHANGED vars
    BY <2>1
  <2>2. CASE Signal(at) # "none" /\ Enter(Signal(at))
    <3> DEFINE side == Signal(at)
               atr == EstimatedAtr(at)
               o == [side |-> side, entry |-> Price(at), atr |-> atr]
    <3>1. Fresh \in Pids
      BY <2>2 DEF Enter, Fresh, Unspent
    <3>2. side \in {"LONG", "SHORT", "NONE"} /\ Price(at) \in Nat /\ atr \in Nat
      BY <1>0, <2>2
    <3>3. Register(Fresh, o)
      BY <2>2 DEF Enter
    <3> HIDE DEF side, atr
    <3>4. o \in AnyOffer
      BY <3>2 DEF AnyOffer
    <3> HIDE DEF o
    <3> QED  BY <3>1, <3>3, <3>4 DEF Work
  <2> QED  BY <1>2, <2>1, <2>2 DEF Advance
<1>3. CASE ForceClose
  <2>1. open # <<>> /\ \E p \in {Head(open)} : ForceExit(p, Price(at))
    BY <1>3 DEF ForceClose, NothingLeft
  <2>2. Head(open) \in Pids
    BY <2>1 DEF RInv, Lists
  <2> QED  BY <1>0, <2>1, <2>2 DEF Work
<1>4. CASE Return
  BY <1>4 DEF Return
<1>5. CASE WallClock
  BY <1>5 DEF WallClock, Work
<1>6. CASE UNCHANGED <<vars, engine>>
  BY <1>6
<1> QED  BY <1>1, <1>2, <1>3, <1>4, <1>5, <1>6 DEF NextReplay, Step

LEMMA ReplayIsDriven == SpecReplay => Driven
<1>1. InitReplay => Init
  BY DEF InitReplay
<1> QED  BY <1>1, InitRInv, NextRInv, ReplayWorks, PTL DEF SpecReplay, Driven

\* What is promised of a live position holds of a replayed one: its limits, its
\* stop's distance and ratchet, the weapons' memory, and the manager's books.
THEOREM ReplayKeepsTheManagersWord ==
  SpecReplay => /\ [](HeldWithinLimits /\ StopKeepsDistance /\ WeaponsAgree /\ DecayIsTrue)
                /\ []BooksAgree /\ StopRatchets /\ KeepsPromise
<1>1. Driven => [](HeldWithinLimits /\ StopKeepsDistance /\ WeaponsAgree /\ DecayIsTrue)
  BY DrivenInv, IInvImplies, PTL
<1> QED  BY <1>1, ReplayIsDriven, DrivenBooks, DrivenRatchets, DrivenPromise
=============================================================================
