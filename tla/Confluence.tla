----------------------------- MODULE Confluence -----------------------------
(***************************************************************************)
(* The confluence gate engine, apex_common/confluence.py: what             *)
(* ConfluenceEngine.evaluate decides from one signal per node.  The module *)
(* has no state; Orchestrate evaluates it on the signals it gathered.      *)
(*                                                                         *)
(* Numbers in [0, 1] (confidences, risk multipliers, min_confidence) are   *)
(* integers in 0..Scale.  Averages are compared by cross-multiplication,   *)
(* so the gates are exact; where a quotient is passed on (to the order     *)
(* size) it is rounded down.  A node whose URL is not configured sends no  *)
(* signal in the code; every gate filters on s.available, so it is an      *)
(* unavailable signal here.                                                *)
(***************************************************************************)
EXTENDS Integers, FiniteSets, Functions

CONSTANTS
  Nodes,          \* signal nodes
  SurvivalNodes,  \* nodes with ROLE_SURVIVAL
  DirectionNodes, \* nodes with ROLE_DIRECTION
  RiskNodes,      \* nodes with ROLE_RISK
  RequiredNodes,  \* required_nodes
  Weight,         \* node_weights, 1 for a node that has none
  Scale,          \* what 1.0 is
  Fallback        \* fallback_on_timeout

ASSUME RolesAssumption ==
  /\ IsFiniteSet(Nodes)
  /\ SurvivalNodes \subseteq Nodes
  /\ DirectionNodes \subseteq Nodes
  /\ RiskNodes \subseteq Nodes
  /\ RequiredNodes \subseteq Nodes
ASSUME WeightAssumption == Weight \in [Nodes -> Nat]
ASSUME ScaleAssumption  == Scale \in Nat \ {0}

Modes   == {"AND", "OR", "MAJORITY", "WEIGHTED"}
Actions == {"EXECUTE", "WAIT", "KILL"}
Sides   == {"LONG", "SHORT"}

ASSUME FallbackAssumption == Fallback \in Actions

Signal == [available : BOOLEAN, action : Actions, side : Sides \cup {"NONE"},
           conf : Int, risk : Int]

Decision == [action : Actions, side : Sides \cup {"NONE"}, conf : Int, risk : Int]

Clamp(x, lo, hi) == IF x < lo THEN lo ELSE IF x > hi THEN hi ELSE x

\* A reply with the numbers the node sent.
Reply(action, side, conf, risk) ==
  [available |-> TRUE, action |-> action, side |-> side, conf |-> conf, risk |-> risk]

\* Slip: the numbers are taken as they come.
AsSignalRaw(reply) == reply

\* NodeSignal.__post_init__ clamps the confidence; the multiplier is clamped
\* where it is used.
AsSignal(reply) == [reply EXCEPT !.conf = Clamp(@, 0, Scale)]

\* NodeSignal(node=..., available=False).
Down == [available |-> FALSE, action |-> "WAIT", side |-> "NONE",
         conf |-> 0, risk |-> Scale]

-----------------------------------------------------------------------------
(***************************************************************************)
(* The gates.  sig is a function from nodes to signals.                    *)
(***************************************************************************)

WithRole(sig, role) == {n \in role : sig[n].available}

\* Killing only when every survival node that answered does.
KillersUnanimous(sig) ==
  {n \in WithRole(sig, SurvivalNodes) :
     \A m \in WithRole(sig, SurvivalNodes) : sig[m].action = "KILL"}

\* The survival gate fails when this set is not empty.
Killers(sig) == {n \in WithRole(sig, SurvivalNodes) : sig[n].action = "KILL"}

Executing(sig) ==
  {n \in WithRole(sig, DirectionNodes) :
     sig[n].action = "EXECUTE" /\ sig[n].side \in Sides}

Backing(sig, side) == {n \in Executing(sig) : sig[n].side = side}

\* What a node's vote weighs: weight * confidence.
Stake(sig) == [n \in Nodes |-> Weight[n] * sig[n].conf]

\* Weighted votes for a side.
Votes(sig, side) == SumFunctionOnSet(Stake(sig), Backing(sig, side))

Opposite(side) == IF side = "LONG" THEN "SHORT" ELSE "LONG"

\* Mode by mode, when the direction gate passes for a side.  OR breaks a tie
\* in favour of LONG.  WEIGHTED wants a normalised score of at least 0.1.
Chooses(mode, sig, side) ==
  LET For     == Cardinality(Backing(sig, side))
      Against == Cardinality(Backing(sig, Opposite(side)))
      Score   == Votes(sig, side) - Votes(sig, Opposite(side))
      Total   == Votes(sig, side) + Votes(sig, Opposite(side)) IN
  /\ Executing(sig) # {}
  /\ \/ mode = "AND" /\ Against = 0
     \/ mode = "OR" /\ (For > Against \/ (For = Against /\ side = "LONG"))
     \/ mode = "MAJORITY" /\ 2 * For > For + Against
     \/ mode = "WEIGHTED" /\ Total > 0 /\ 10 * Score >= Total

\* MAJORITY with >= decides a tie, for LONG because it is looked at first.
TargetSideTieLong(mode, sig) ==
  CASE \/ Chooses(mode, sig, "LONG")
       \/ /\ mode = "MAJORITY" /\ Executing(sig) # {}
          /\ Cardinality(Backing(sig, "LONG")) = Cardinality(Backing(sig, "SHORT"))
         -> "LONG"
    [] OTHER -> IF Chooses(mode, sig, "SHORT") THEN "SHORT" ELSE "NONE"

\* OR that prefers SHORT whenever some node does.
TargetSideAnyShort(mode, sig) ==
  CASE mode = "OR" /\ Backing(sig, "SHORT") # {} -> "SHORT"
    [] Chooses(mode, sig, "LONG") -> "LONG"
    [] OTHER -> IF Chooses(mode, sig, "SHORT") THEN "SHORT" ELSE "NONE"

\* The direction gate: the chosen side, "NONE" when the gate fails.
TargetSide(mode, sig) ==
  CASE Chooses(mode, sig, "LONG")  -> "LONG"
    [] ~Chooses(mode, sig, "LONG") /\ Chooses(mode, sig, "SHORT") -> "SHORT"
    [] OTHER -> "NONE"

BackingWeight(sig, side) == SumFunctionOnSet(Weight, Backing(sig, side))

\* The average forgets the weights above the line but not below it.
ConfidentUnweightedSum(minConf, sig, side) ==
  /\ Backing(sig, side) # {}
  /\ SumFunctionOnSet([n \in Nodes |-> sig[n].conf], Backing(sig, side))
       >= minConf * BackingWeight(sig, side)

\* The confidence gate.  A total weight of zero makes the average 0 / 1e-9.
Confident(minConf, sig, side) ==
  /\ Backing(sig, side) # {}
  /\ IF BackingWeight(sig, side) > 0
       THEN Votes(sig, side) >= minConf * BackingWeight(sig, side)
       ELSE minConf = 0

AverageConf(sig, side) ==
  IF BackingWeight(sig, side) > 0
    THEN Votes(sig, side) \div BackingWeight(sig, side)
    ELSE 0

Multiplied(factor, nodes) ==
  FoldFunctionOnSet(LAMBDA f, acc : (acc * f) \div Scale, Scale, factor, nodes)

\* The product without the clamps.
RiskMultiplierUnclamped(sig) ==
  Multiplied([n \in Nodes |-> sig[n].risk], WithRole(sig, RiskNodes))

\* The product of the clamped multipliers of the risk nodes that answered.
RiskMultiplier(sig) ==
  Multiplied([n \in Nodes |-> Clamp(sig[n].risk, 0, Scale)], WithRole(sig, RiskNodes))

Missing(sig) == {n \in RequiredNodes : ~sig[n].available}

-----------------------------------------------------------------------------

NoTrade(action, side) ==
  [action |-> action, side |-> side, conf |-> 0, risk |-> 0]

\* The confidence gate is consulted but its verdict is not.
EvaluateIgnoringConfidence(mode, minConf, sig) ==
  LET side == TargetSide(mode, sig) IN
  CASE Missing(sig) # {} -> NoTrade(Fallback, "NONE")
    [] Missing(sig) = {} /\ Killers(sig) # {} -> NoTrade("KILL", "NONE")
    [] Missing(sig) = {} /\ Killers(sig) = {} /\ side = "NONE" ->
         NoTrade("WAIT", "NONE")
    [] OTHER -> [action |-> "EXECUTE", side |-> side,
                 conf |-> AverageConf(sig, side), risk |-> RiskMultiplier(sig)]

\* evaluate: required nodes, survival, direction, confidence, in this order.
Evaluate(mode, minConf, sig) ==
  LET side == TargetSide(mode, sig) IN
  CASE Missing(sig) # {} -> NoTrade(Fallback, "NONE")
    [] Missing(sig) = {} /\ Killers(sig) # {} -> NoTrade("KILL", "NONE")
    [] Missing(sig) = {} /\ Killers(sig) = {} /\ side = "NONE" ->
         NoTrade("WAIT", "NONE")
    [] Missing(sig) = {} /\ Killers(sig) = {} /\ side # "NONE"
         /\ ~Confident(minConf, sig, side) ->
         [NoTrade("WAIT", side) EXCEPT !.conf = AverageConf(sig, side)]
    [] OTHER -> [action |-> "EXECUTE", side |-> side,
                 conf |-> AverageConf(sig, side), risk |-> RiskMultiplier(sig)]

-----------------------------------------------------------------------------
(***************************************************************************)
(* What a decision promises.                                               *)
(***************************************************************************)

\* The reasons there must be behind a decision to trade on a side.
Justified(minConf, sig, side) ==
  /\ \A n \in RequiredNodes : sig[n].available
  /\ \A n \in SurvivalNodes : ~(sig[n].available /\ sig[n].action = "KILL")
  /\ \E n \in DirectionNodes :
       sig[n].available /\ sig[n].action = "EXECUTE" /\ sig[n].side = side
  /\ Confident(minConf, sig, side)

\* The same signals with LONG and SHORT exchanged.
Mirror(sig) ==
  [n \in Nodes |-> IF sig[n].side \in Sides
                     THEN [sig[n] EXCEPT !.side = Opposite(@)]
                     ELSE sig[n]]

\* sig with node n now supporting side at least at the required confidence.
Supported(sig, n, side, conf) ==
  [sig EXCEPT ![n] = Reply("EXECUTE", side, conf, Scale)]
=============================================================================
