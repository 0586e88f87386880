------------------------------ MODULE Gravity ------------------------------
(***************************************************************************)
(* The gravity engine of newtonian.py: an epoch fetches the klines of      *)
(* every tracked asset, takes in those that came, and recomputes the       *)
(* correlation, force, acceleration and regime of every pair; the signal   *)
(* of an asset is made of its pairs and kills when one is contagious.      *)
(*                                                                         *)
(* A batch of klines stands for the returns and the mass they give; the    *)
(* correlation of two batches is a constant of the model.  Correlations,   *)
(* confidences and the threshold are in hundredths, quotients are rounded  *)
(* down.  An acceleration is kept as the rise of the force and the seconds *)
(* it took.  What reads the engine sees the pairs alone, and the           *)
(* computation, which changes them, holds the lock: an epoch is one        *)
(* action.                                                                 *)
(***************************************************************************)
EXTENDS Integers, FiniteSetsExt, SequencesExt

CONSTANTS
  Tracked,     \* TRACKED_ASSETS, in their order
  Klines,      \* batches an asset may be given
  NoKlines,    \* of an asset that never had any
  Mass,        \* market_cap_proxy of a batch, 0 of none
  Correlation, \* rolling_correlation of two batches
  Gaps,        \* seconds from an epoch to the next
  Threshold,   \* ACCEL_THRESHOLD
  Multiplier   \* CONTAGION_MULTIPLIER

Assets  == ToSet(Tracked)
Batches == Klines \cup {NoKlines}
Pairs   == {<<Tracked[k[1]], Tracked[k[2]]>> :
              k \in {i \in (DOMAIN Tracked) \X (DOMAIN Tracked) : i[1] < i[2]}}
Regimes == {"CONVERGENCE", "DIVERGENCE", "CONTAGION", "ISOLATION", "UNKNOWN"}

ASSUME GravityAssumption ==
  /\ Tracked \in Seq(Assets)
  /\ Mass \in [Batches -> Nat]
  /\ Correlation \in [Batches \X Batches -> -100 .. 100]
  /\ Gaps \subseteq Nat \ {0}
  /\ Threshold \in Nat /\ Multiplier \in Nat

VARIABLES
  klines,  \* the last batch of an asset
  pair,    \* pairs
  news     \* history: the assets the last epoch took in

gravity == <<klines, pair, news>>

Pair == [corr : -100 .. 100, force : Nat, before : Nat, rise : Int,
         gap : Nat, regime : Regimes]

InitGravity ==
  /\ klines = [a \in Assets |-> NoKlines]
  /\ pair = [p \in Pairs |-> [corr |-> 0, force |-> 0, before |-> 0, rise |-> 0,
                              gap |-> 0, regime |-> "UNKNOWN"]]
  /\ news = {}

-----------------------------------------------------------------------------
Size(n)        == IF n < 0 THEN -n ELSE n
AtLeast(n, m)  == IF n < m THEN m ELSE n
AtMost(n, m)   == IF n > m THEN m ELSE n

\* compute_g_force, the constant being 1: the distance is never below 0.05.
GForce(a, b) ==
  LET d == AtLeast(100 - Size(Correlation[<<a, b>>]), 5)
  IN  (10000 * Mass[a] * Mass[b]) \div (d * d)

\* The acceleration is above the contagion threshold, or below the negative one.
Soaring(rise, gap) == 100 * rise > Multiplier * Threshold * gap
Falling(rise, gap) == 100 * rise < -(Threshold * gap)

\* classify_regime.  An acceleration above the threshold needs no line of its
\* own: it is not falling, and a correlation above 0.5 converges anyway.
Regime(corr, rise, gap) ==
  IF Soaring(rise, gap) /\ corr > 70 THEN "CONTAGION"
  ELSE IF Size(corr) < 30 THEN "ISOLATION"
  ELSE IF Falling(rise, gap) THEN "DIVERGENCE"
  ELSE IF corr > 50 THEN "CONVERGENCE" ELSE "ISOLATION"

\* Slip: the force is saved after it was replaced, one epoch late.
RiseFromBefore(q, force) ==
  IF q.before > 0 /\ q.gap > 0 THEN force - q.before ELSE 0

\* What the force rose by since the last epoch; nothing when there was none.
Rise(q, force) == IF q.force > 0 /\ q.gap > 0 THEN force - q.force ELSE 0

Recomputed(q, a, b, gap) ==
  LET force == GForce(a, b)
      corr  == Correlation[<<a, b>>]
      rise  == Rise(q, force)
  IN  [corr |-> corr, force |-> force, before |-> q.force, rise |-> rise, gap |-> gap,
       regime |-> Regime(corr, rise, gap)]

\* One pass of epoch_loop, in which the klines of fetched came.
Epoch(fetched) ==
  \E new \in [fetched -> Klines], gap \in Gaps :
    /\ klines' = [a \in Assets |-> IF a \in fetched THEN new[a] ELSE klines[a]]
    /\ pair' = [p \in Pairs |-> Recomputed(pair[p], klines'[p[1]], klines'[p[2]], gap)]
    /\ news' = fetched

-----------------------------------------------------------------------------
(***************************************************************************)
(* signal_for_asset.                                                       *)
(***************************************************************************)

PairsOf(a) == {p \in Pairs : a \in {p[1], p[2]}}

\* The mean of a number of the pairs of an asset, rounded down.
MeanOf(a, f(_)) == MapThenSumSet(f, PairsOf(a)) \div Cardinality(PairsOf(a))

MeanCorrelation(a) == MeanOf(a, LAMBDA p : Size(pair[p].corr))

\* The gap is the same for all pairs, so the sum tells the sign of the mean.
Together(a)         == MapThenSumSet(LAMBDA p : pair[p].rise, PairsOf(a))
MeanAcceleration(a) == MeanOf(a, LAMBDA p : (100 * pair[p].rise) \div AtLeast(pair[p].gap, 1))

Answered(action, side, conf) ==
  [action |-> action, side |-> side, conf |-> AtMost(conf, 100)]

\* The answer for a symbol, in hundredths.  A symbol without a pair, which
\* every symbol of a trading pair is, waits.  No answer that trades has less
\* than the 0.40 below which it would wait.
AnswerFor(a) ==
  LET seen == {pair[p].regime : p \in PairsOf(a)}
      corr == MeanCorrelation(a)
      acc  == MeanAcceleration(a)
  IN  IF PairsOf(a) = {} THEN Answered("WAIT", "NONE", 0)
      ELSE IF "CONTAGION" \in seen THEN Answered("KILL", "NONE", 60 + (3 * corr) \div 10)
      ELSE IF seen = {"ISOLATION"} THEN Answered("WAIT", "NONE", 30)
      ELSE IF "CONVERGENCE" \in seen
      THEN IF Together(a) > 0
           THEN Answered("EXECUTE", "LONG", 50 + (3 * corr) \div 10 + Size(acc) \div 5)
           ELSE Answered("EXECUTE", "SHORT", 50 + corr \div 5)
      ELSE IF "DIVERGENCE" \in seen
      THEN Answered("EXECUTE", IF Together(a) < 0 THEN "LONG" ELSE "SHORT",
                    45 + (3 * Size(acc)) \div 10)
      ELSE Answered("WAIT", "NONE", 0)
=============================================================================
