------------------------------- MODULE Signals -------------------------------
(***************************************************************************)
(* What four of the nodes answer the orchestrator: the dreamer's heuristic *)
(* (dreamer.py), the divergence of sentiment and market (narrative.py),    *)
(* the ghost walls (spoofhunter.py) and the rug check (antirug_v3.py).     *)
(* The module has no state: what a node keeps reaches its answer as the    *)
(* few numbers below.                                                      *)
(*                                                                         *)
(* Numbers are hundredths and rounded down, which no comparison with a     *)
(* whole number of hundredths notices.  An observation of the dreamer is   *)
(* where each feature lies between the heuristic's thresholds, and the     *)
(* confidence that the softmax makes of the scores is any number.  The     *)
(* world model, which may stand in for the heuristic, ends in the same     *)
(* answer.  The probability of the rug classifier is any number.           *)
(***************************************************************************)
EXTENDS Confluence

CONSTANTS
  DivergenceThreshold, \* DIVERGENCE_THRESHOLD of the narrative
  GhostNotional,       \* GHOST_MIN_NOTIONAL_USD of SpoofHunter
  RugThreshold         \* RUG_THRESHOLD

ASSUME SignalsAssumption ==
  DivergenceThreshold \in Nat /\ GhostNotional \in Nat /\ RugThreshold \in 0 .. 100

Hundredths(n) == (n * Scale) \div 100

\* The keys of an answer the adapters read; no risk_multiplier is 1.0.
Voted(action, side, conf, risk) == Reply(action, side, Hundredths(conf), Hundredths(risk))
Abstains(conf, risk) == Voted("WAIT", "NONE", conf, risk)

Abs(n)       == IF n < 0 THEN -n ELSE n
AtMost(n, m) == IF n > m THEN m ELSE n

-----------------------------------------------------------------------------
(***************************************************************************)
(* The dreamer.                                                            *)
(***************************************************************************)

\* -1, 0 and 1 are below, between and above the two thresholds of a feature.
\* The trend is that of both returns when they agree.
Observation ==
  [trend : -1 .. 1, book : -1 .. 1, vpin : {"calm", "high", "toxic"}, ghosts : BOOLEAN,
   funding : -1 .. 1, interest : -1 .. 1, greed : -1 .. 1,
   regime : {"contagion", "divergence", "other"}, surge : BOOLEAN]

If(condition, points) == IF condition THEN points ELSE 0

LongScore(o) ==
  If(o.trend = 1, 200) + If(o.book = 1, 150) - If(o.vpin = "toxic", 100)
    - If(o.ghosts, 50) + If(o.funding = -1, 100) + If(o.interest = 1, 50)
    + If(o.greed = -1, 80) - If(o.regime = "contagion", 200)

ShortScore(o) ==
  If(o.trend = -1, 200) + If(o.book = -1, 150) + If(o.ghosts, 100)
    + If(o.funding = 1, 100) + If(o.interest = -1, 50) + If(o.greed = 1, 50)
    - If(o.regime = "contagion", 200)

FlatScore(o) ==
  If(o.trend = 0, 50)
    + (CASE o.vpin = "toxic" -> 300 [] o.vpin = "high" -> 100 [] OTHER -> 0)
    + (CASE o.regime = "contagion" -> 500 [] o.regime = "divergence" -> 100 [] OTHER -> 0)

\* A volume surge multiplies the score of the stronger side by 1.3.
Surged(score, surge) == IF surge THEN (13 * score) \div 10 ELSE score

\* The action of the largest score, the first of equal ones.
Dreamt(o) ==
  LET up    == LongScore(o) > ShortScore(o)
      long  == Surged(LongScore(o), o.surge /\ up)
      short == Surged(ShortScore(o), o.surge /\ ~up)
  IN  IF long >= short /\ long >= FlatScore(o) THEN "LONG"
      ELSE IF short >= FlatScore(o) THEN "SHORT" ELSE "FLAT"

\* imagine: no trade is no risk, and an unsure dream waits with its side on.
DreamerAnswer(choice, conf) ==
  IF choice = "FLAT" THEN Abstains(conf, 0)
  ELSE IF conf >= 55 THEN Voted("EXECUTE", choice, conf, AtMost(conf, 100))
  ELSE Voted("WAIT", choice, conf, 0)

\* Before the first tick of a symbol.
DreamlessAnswer == Abstains(0, 0)

DreamerAnswers(confidences) ==
  {DreamlessAnswer}
    \cup {DreamerAnswer(choice, conf) : choice \in Sides \cup {"FLAT"}, conf \in confidences}

-----------------------------------------------------------------------------
(***************************************************************************)
(* The narrative: a sentiment against the market trades with the           *)
(* sentiment, and so does a strong one that many share.                    *)
(***************************************************************************)

\* The side of a number.
SideOf(n) == IF n > 0 THEN "LONG" ELSE "SHORT"

Diverges(score, market) ==
  Abs(score - market) >= DivergenceThreshold /\ score * market < 0

NarrativeConf(score, volume, market) ==
  IF Diverges(score, market)
  THEN AtMost(40 + Abs(score - market) \div 2 + AtMost(volume, 30), 100)
  ELSE IF Abs(score) > 40 /\ volume > 10
  THEN AtMost((6 * Abs(score)) \div 10 + AtMost(volume, 20), 100)
  ELSE 0

NarrativeAnswer(score, volume, market) ==
  LET conf == NarrativeConf(score, volume, market) IN
  IF conf < 40 THEN Abstains(conf, 100) ELSE Voted("EXECUTE", SideOf(score), conf, 100)

-----------------------------------------------------------------------------
(***************************************************************************)
(* SpoofHunter: the ghosts of the window, how many and of what notional on *)
(* either side, and the imbalance of the book.                             *)
(***************************************************************************)

\* Fake bids are bearish, fake asks bullish.
GhostSide(bids, asks) ==
  IF 2 * bids > 3 * asks THEN "SHORT" ELSE IF 2 * asks > 3 * bids THEN "LONG" ELSE "NONE"

\* What an intensity of HIGH, MED or LOW adds.
Intensity(notional) ==
  IF notional > 5 * GhostNotional THEN 20
  ELSE IF notional > 2 * GhostNotional THEN 10 ELSE 0

GhostConf(n, notional) == AtMost(AtMost(30 + 10 * n, 100) + Intensity(notional), 100)

\* The book weighs more when it leans the way the ghosts say.
BlendedConf(n, bids, asks, imbalance) ==
  LET leans == Abs(imbalance) > 5 /\ SideOf(imbalance) = GhostSide(bids, asks)
      extra == IF leans THEN (3 * Abs(imbalance)) \div 10 + 10
                        ELSE (15 * Abs(imbalance)) \div 100
  IN  AtMost(GhostConf(n, bids + asks) + extra, 100)

SpoofAnswer(n, bids, asks, imbalance) ==
  LET ghostly == GhostSide(bids, asks) # "NONE"
      conf    == BlendedConf(n, bids, asks, imbalance)
  IN  IF n > 0 /\ ghostly
      THEN IF conf >= 45 THEN Voted("EXECUTE", GhostSide(bids, asks), conf, 100)
                         ELSE Abstains(conf, 100)
      ELSE IF Abs(imbalance) > 25
      THEN Voted("EXECUTE", SideOf(imbalance), AtMost((8 * Abs(imbalance)) \div 10, 65), 100)
      ELSE Abstains(0, 100)

-----------------------------------------------------------------------------
\* The status analyze_token gives a probability of a rug.
RugStatus(prob) == IF prob > RugThreshold THEN "REJEITADO" ELSE "APROVADO"
=============================================================================
