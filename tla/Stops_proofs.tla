---------------------------- MODULE Stops_proofs ----------------------------
(***************************************************************************)
(* Stops keeps its types, a contagion rests on news and the kill switch on *)
(* the last levels known, for any assets, klines, correlations, thresholds *)
(* and levels.  That old klines read again are no contagion needs two      *)
(* facts about every pair: its force is that of the klines in hand, and it *)
(* rises only with news.  That the kill switch is backed needs the         *)
(* defaults a poll starts from: a level that is not at its default was     *)
(* heard, and is the last one known.                                       *)
(***************************************************************************)
EXTENDS Stops, TLAPS

USE DEF gravity, store, vars

\* The engine's part: what a pair remembers against the klines in hand.
PairsOnNews ==
  \A p \in Pairs :
    /\ pair[p].gap > 0 => pair[p].force = GForce(klines[p[1]], klines[p[2]])
    /\ pair[p].rise > 0 => news \cap {p[1], p[2]} # {}
    /\ pair[p].regime = "CONTAGION" => pair[p].rise > 0

\* The poller's part: what was not heard is at its default.
Defaulted(s) ==
  /\ "vix" \notin s.heard => s.vix = 0
  /\ "fear" \notin s.heard => s.fear = 50

\* The store's part: what is not at its default is the last level known.
StoreOfKnown ==
  /\ macro.vix # 0 => macro.vix = known.vix
  /\ macro.fear # 50 => macro.fear = known.fear

IInv == TypeOK /\ PairsOnNews /\ Defaulted(vals) /\ StoreOfKnown

-----------------------------------------------------------------------------
(***************************************************************************)
(* The engine.                                                             *)
(***************************************************************************)

\* The two assets of a pair are tracked.
LEMMA PairOfAssets == \A p \in Pairs : p[1] \in Assets /\ p[2] \in Assets
  <1> SUFFICES ASSUME NEW p \in Pairs PROVE p[1] \in Assets /\ p[2] \in Assets
    OBVIOUS
  <1>1. PICK k \in (DOMAIN Tracked) \X (DOMAIN Tracked) : p = <<Tracked[k[1]], Tracked[k[2]]>>
    BY DEF Pairs
  <1>2. \A i \in DOMAIN Tracked : Tracked[i] \in Assets
    BY GravityAssumption
  <1> QED BY <1>1, <1>2

\* A quotient of natural numbers is one.
LEMMA Quotient == ASSUME NEW m \in Nat, NEW n \in Nat \ {0} PROVE m \div n \in Nat
  OBVIOUS

\* What the constants give are integers.
LEMMA ConstantsAreNumbers ==
  /\ \A a, b \in Batches : Correlation[<<a, b>>] \in Int
  /\ \A g \in Gaps : g \in Nat
  <1>1. ASSUME NEW a \in Batches, NEW b \in Batches PROVE Correlation[<<a, b>>] \in Int
    <2>1. Correlation[<<a, b>>] \in -100 .. 100
      BY GravityAssumption
    <2> QED BY <2>1
  <1> QED BY <1>1, GravityAssumption

\* The force of two batches is a natural number: its distance is not zero.
LEMMA ForceIsNat == \A a, b \in Batches : GForce(a, b) \in Nat
  <1> SUFFICES ASSUME NEW a \in Batches, NEW b \in Batches PROVE GForce(a, b) \in Nat
    OBVIOUS
  <1> DEFINE d == AtLeast(100 - Size(Correlation[<<a, b>>]), 5)
  <1>1. Correlation[<<a, b>>] \in -100 .. 100
    BY GravityAssumption
  <1>2. d \in Nat \ {0}
    BY <1>1 DEF AtLeast, Size
  <1>3. Mass[a] \in Nat /\ Mass[b] \in Nat
    BY GravityAssumption
  <1> HIDE DEF d
  <1>4. 10000 * Mass[a] * Mass[b] \in Nat
    BY <1>3
  <1>5. d * d \in Nat \ {0}
    BY <1>2
  <1>6. (10000 * Mass[a] * Mass[b]) \div (d * d) \in Nat
    BY <1>4, <1>5, Quotient
  <1> QED BY <1>6 DEF GForce, d

\* A contagion is a rise.
LEMMA ContagionRises ==
  ASSUME NEW corr \in Int, NEW rise \in Int, NEW gap \in Nat,
         Regime(corr, rise, gap) = "CONTAGION"
  PROVE  rise > 0
  <1> DEFINE limit == Multiplier * Threshold * gap
  <1>1. limit \in Nat
    BY GravityAssumption
  <1>2. 100 * rise > limit
    BY DEF Regime, Soaring
  <1> HIDE DEF limit
  <1> QED BY <1>1, <1>2

\* A recomputed pair is a pair.
LEMMA RecomputedIsPair ==
  ASSUME NEW q \in Pair, NEW a \in Batches, NEW b \in Batches, NEW gap \in Gaps
  PROVE  Recomputed(q, a, b, gap) \in Pair
  <1>1. GForce(a, b) \in Nat
    BY ForceIsNat
  <1>2. Correlation[<<a, b>>] \in -100 .. 100
    BY GravityAssumption
  <1>3. Rise(q, GForce(a, b)) \in Int
    BY <1>1 DEF Rise, Pair
  <1>4. gap \in Nat
    BY GravityAssumption
  <1>5. Regime(Correlation[<<a, b>>], Rise(q, GForce(a, b)), gap) \in Regimes
    BY DEF Regime, Regimes
  <1> QED BY <1>1, <1>2, <1>3, <1>4, <1>5 DEF Recomputed, Pair

\* An epoch keeps the types and the engine's part.
LEMMA EpochKeeps ==
  ASSUME IInv, NEW fetched \in SUBSET Assets, Epoch(fetched)
  PROVE  /\ klines' \in [Assets -> Batches] /\ pair' \in [Pairs -> Pair] /\ news' \subseteq Assets
         /\ PairsOnNews'
  <1>1. PICK new \in [fetched -> Klines], gap \in Gaps :
          /\ klines' = [a \in Assets |-> IF a \in fetched THEN new[a] ELSE klines[a]]
          /\ pair' = [p \in Pairs |-> Recomputed(pair[p], klines'[p[1]], klines'[p[2]], gap)]
          /\ news' = fetched
    BY DEF Epoch
  <1>2. klines \in [Assets -> Batches] /\ pair \in [Pairs -> Pair]
    BY DEF IInv, TypeOK
  <1>3. klines' \in [Assets -> Batches]
    BY <1>1, <1>2 DEF Batches
  <1>4. \A p \in Pairs : klines'[p[1]] \in Batches /\ klines'[p[2]] \in Batches
    BY <1>3, PairOfAssets
  <1>5. pair' \in [Pairs -> Pair]
    BY <1>1, <1>2, <1>4, RecomputedIsPair
  <1>6. ASSUME NEW p \in Pairs
        PROVE  /\ pair'[p].gap > 0 => pair'[p].force = GForce(klines'[p[1]], klines'[p[2]])
               /\ pair'[p].rise > 0 => news' \cap {p[1], p[2]} # {}
               /\ pair'[p].regime = "CONTAGION" => pair'[p].rise > 0
    <2> DEFINE force == GForce(klines'[p[1]], klines'[p[2]])
    <2>1. pair'[p] = Recomputed(pair[p], klines'[p[1]], klines'[p[2]], gap)
      BY <1>1
    <2>2. pair'[p].force = force
      BY <2>1 DEF Recomputed
    <2>3. /\ pair'[p].rise = Rise(pair[p], force)
          /\ pair'[p].regime = Regime(Correlation[<<klines'[p[1]], klines'[p[2]]>>],
                                      Rise(pair[p], force), gap)
      BY <2>1 DEF Recomputed
    <2>4. pair[p] \in Pair /\ force \in Nat
      BY <1>2, <1>4, ForceIsNat
    <2>5. ASSUME news' \cap {p[1], p[2]} = {} PROVE ~(pair'[p].rise > 0)
      <3>1. klines'[p[1]] = klines[p[1]] /\ klines'[p[2]] = klines[p[2]]
        BY <1>1, <2>5, PairOfAssets
      <3>2. pair[p].gap > 0 => pair[p].force = force
        BY <3>1 DEF IInv, PairsOnNews
      <3> HIDE DEF force
      <3> QED BY <2>3, <2>4, <3>2 DEF Rise, Pair
    <2>6. pair'[p].regime = "CONTAGION" => pair'[p].rise > 0
      <3>1. Correlation[<<klines'[p[1]], klines'[p[2]]>>] \in Int /\ gap \in Nat
        BY <1>4, ConstantsAreNumbers
      <3>2. Rise(pair[p], force) \in Int
        BY <2>4 DEF Rise, Pair
      <3> QED BY <2>3, <3>1, <3>2, ContagionRises
    <2> QED BY <2>2, <2>5, <2>6
  <1>7. PairsOnNews'
    BY <1>6 DEF PairsOnNews
  <1> QED BY <1>1, <1>3, <1>5, <1>7

-----------------------------------------------------------------------------
(***************************************************************************)
(* The poller.                                                             *)
(***************************************************************************)

\* A source leaves what a poll knows well-formed, whatever it answers.
LEMMA HeardIsSnapshot ==
  ASSUME vals \in Snapshot, Defaulted(vals), NEW unsure \in BOOLEAN,
         NEW levels, NEW what \in {"vix", "fear"},
         what = "vix" => levels \subseteq Vixes, what = "fear" => levels \subseteq Fears,
         NEW s \in Heard(what, levels, unsure)
  PROVE  s \in Snapshot /\ Defaulted(s)
  <1>1. CASE s = vals
    BY <1>1
  <1>2. CASE \E v \in levels : s = [vals EXCEPT ![what] = v, !.heard = @ \cup {what}]
    <2>1. PICK v \in levels : s = [vals EXCEPT ![what] = v, !.heard = @ \cup {what}]
      BY <1>2
    <2>2. CASE what = "vix"
      BY <2>1, <2>2 DEF Snapshot, Defaulted
    <2>3. CASE what = "fear"
      BY <2>1, <2>3 DEF Snapshot, Defaulted
    <2> QED BY <2>2, <2>3
  <1> QED BY <1>1, <1>2 DEF Heard

\* Each step of a poll keeps the types and the defaults, and what is known.
LEMMA PollKeeps ==
  ASSUME IInv, Poll
  PROVE  /\ stage' \in Stages /\ vals' \in Snapshot /\ macro' \in Snapshot
         /\ known' \in [vix : Vixes \cup {0}, fear : Fears \cup {50}]
         /\ Defaulted(vals)' /\ StoreOfKnown'
  <1> USE DEF IInv, TypeOK, Stages
  <1>1. VixNow \subseteq Vixes /\ FearNow \subseteq Fears
    BY DEF VixNow, FearNow
  <1>2. CASE Quotes
    <2>1. vals' \in Heard("vix", VixNow, TRUE)
      BY <1>2 DEF Quotes, AskQuotes
    <2>2. vals' \in Snapshot /\ Defaulted(vals')
      BY <1>1, <2>1, HeardIsSnapshot
    <2> QED BY <1>2, <2>2 DEF Quotes, AskQuotes, Defaulted, StoreOfKnown
  <1>3. CASE Fallback
    <2> DEFINE unsure == world = "crisis" => "vix" \in vals.heard
    <2>1. unsure \in BOOLEAN /\ (vals' = vals \/ vals' \in Heard("vix", VixNow, unsure))
      BY <1>3 DEF Fallback, AskFallback, Second
    <2>2. vals' \in Snapshot /\ Defaulted(vals')
      BY <1>1, <2>1, HeardIsSnapshot
    <2> QED BY <1>3, <2>2 DEF Fallback, AskFallback, Defaulted, StoreOfKnown
  <1>4. CASE Fear
    <2>1. vals' \in Heard("fear", FearNow, world # "crisis")
      BY <1>4 DEF Fear, AskFear
    <2>2. vals' \in Snapshot /\ Defaulted(vals')
      BY <1>1, <2>1, HeardIsSnapshot
    <2> QED BY <1>4, <2>2 DEF Fear, AskFear, Defaulted, StoreOfKnown
  <1>5. CASE Replace
    <2>1. /\ stage' = "quotes" /\ macro' = vals /\ vals' = Unheard
          /\ known' = [vix  |-> IF "vix" \in vals.heard THEN vals.vix ELSE known.vix,
                       fear |-> IF "fear" \in vals.heard THEN vals.fear ELSE known.fear]
      BY <1>5 DEF Replace, Store
    <2>2. vals' \in Snapshot /\ Defaulted(vals')
      BY <2>1 DEF Unheard, Snapshot, Defaulted
    <2>3. known' \in [vix : Vixes \cup {0}, fear : Fears \cup {50}]
      BY <2>1 DEF Snapshot
    <2>4. StoreOfKnown'
      BY <2>1 DEF Defaulted, StoreOfKnown
    <2> QED BY <2>1, <2>2, <2>3, <2>4 DEF Defaulted
  <1> QED BY <1>2, <1>3, <1>4, <1>5 DEF Poll

-----------------------------------------------------------------------------
\* The initial states satisfy the invariant.
LEMMA Initially == Init => IInv
  <1> SUFFICES ASSUME Init PROVE IInv
    OBVIOUS
  <1> USE DEF Init, InitGravity, InitStore
  <1>1. TypeOK
    BY DEF TypeOK, Batches, Pair, Regimes, Stages, Snapshot, Unheard
  <1>2. PairsOnNews
    BY DEF PairsOnNews
  <1> QED BY <1>1, <1>2 DEF IInv, Defaulted, StoreOfKnown, Unheard

\* Every step keeps it.
LEMMA Inductive == IInv /\ [Next]_vars => IInv'
  <1> SUFFICES ASSUME IInv, [Next]_vars PROVE IInv'
    OBVIOUS
  <1>1. CASE Poll
    <2>1. UNCHANGED <<klines, pair, news, world>>
      BY <1>1 DEF Poll, Quotes, Fallback, Fear, Replace
    <2> QED BY <1>1, <2>1, PollKeeps DEF IInv, TypeOK, PairsOnNews
  <1>2. CASE Compute
    <2>1. PICK fetched \in SUBSET Assets : Epoch(fetched)
      BY <1>2 DEF Compute
    <2> QED BY <1>2, <2>1, EpochKeeps DEF Compute, IInv, TypeOK, Defaulted, StoreOfKnown
  <1>3. CASE Turn
    BY <1>3 DEF Turn, IInv, TypeOK, PairsOnNews, Defaulted, StoreOfKnown
  <1>4. CASE UNCHANGED vars
    BY <1>4 DEF IInv, TypeOK, PairsOnNews, Defaulted, StoreOfKnown
  <1> QED BY <1>1, <1>2, <1>3, <1>4 DEF Next

\* In every reachable state the inductive invariant holds.
THEOREM Invariance == Spec => []IInv
  BY Initially, Inductive, PTL DEF Spec

\* The variables keep their types, for any assets, klines and levels.
THEOREM TypeCorrect == Spec => []TypeOK
  <1>1. IInv => TypeOK
    BY DEF IInv
  <1> QED BY <1>1, Invariance, PTL

\* An asset is killed only with news of one of its pairs.
THEOREM ContagionsAreNews == Spec => []ContagionIsNews
  <1>1. IInv => ContagionIsNews
    <2> SUFFICES ASSUME IInv, NEW a \in Assets, AnswerFor(a).action = "KILL"
                 PROVE  \E p \in PairsOf(a) : news \cap {p[1], p[2]} # {}
      BY DEF ContagionIsNews
    <2>1. PICK p \in PairsOf(a) : pair[p].regime = "CONTAGION"
      BY DEF AnswerFor, Answered
    <2>2. p \in Pairs
      BY DEF PairsOf
    <2> QED BY <2>1, <2>2 DEF IInv, PairsOnNews
  <1> QED BY <1>1, Invariance, PTL

\* The kill switch is on only when both of the last levels known are extreme.
THEOREM KillsAreBacked == Spec => []KillIsBacked
  <1>1. IInv => KillIsBacked
    <2> SUFFICES ASSUME IInv, MacroKill PROVE known.vix > 35 /\ known.fear < 20
      BY DEF KillIsBacked
    <2>1. macro.vix # 0 /\ macro.fear # 50 /\ macro.vix > 35 /\ macro.fear < 20
      BY MacroAssumption DEF MacroKill, IInv, TypeOK, Snapshot
    <2> QED BY <2>1 DEF IInv, StoreOfKnown
  <1> QED BY <1>1, Invariance, PTL
=============================================================================
