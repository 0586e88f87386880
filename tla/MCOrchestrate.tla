---------------------------- MODULE MCOrchestrate ----------------------------
(***************************************************************************)
(* TLC instances of Orchestrate: four or five of the code's nodes with the *)
(* roles of DEFAULT_NODE_ROLES, and for each the answers that its gates    *)
(* tell apart, computed by Signals where the node is modelled.  Scale 100, *)
(* so a confidence is a percentage.                                        *)
(***************************************************************************)
EXTENDS Orchestrate, Signals

FourNodes == {"brain", "shadowglass", "newtonian", "antirug_v3"}
DreamerNodes == {"brain", "shadowglass", "spoofhunter", "narrative", "dreamer"}

Surviving(nodes) == nodes \cap {"brain", "spoofhunter", "antirug_v3"}
Directing(nodes) ==
  nodes \cap {"brain", "shadowglass", "spoofhunter", "newtonian", "narrative", "dreamer"}
Risking(nodes) == nodes \cap {"brain", "dreamer"}

FourSurvival  == Surviving(FourNodes)
FourDirection == Directing(FourNodes)
FourRisk      == Risking(FourNodes)
DreamerSurvival  == Surviving(DreamerNodes)
DreamerDirection == Directing(DreamerNodes)
DreamerRisk      == Risking(DreamerNodes)

\* The brain's word counts double; its answers include out-of-range numbers.
FourWeight    == [n \in FourNodes |-> IF n = "brain" THEN 2 ELSE 1]
DreamerWeight == [n \in DreamerNodes |-> 1]

Waits == Reply("WAIT", "NONE", 30, 100)
Kills == Reply("KILL", "NONE", 70, 0)

FourReplies ==
  [n \in FourNodes |->
     CASE n = "brain" ->
            {Waits, Kills, Reply("EXECUTE", "NONE", 90, 100)}
              \cup {Reply("EXECUTE", side, conf, risk) :
                      side \in Sides, conf \in {40, 130}, risk \in {0, 150}}
       [] n = "shadowglass" -> {ShadowSignal(i) : i \in {-90, -40, 10, 40, 90}}
       [] n = "newtonian" ->
            {Waits, Kills} \cup {Reply("EXECUTE", side, 60, 100) : side \in Sides}
       [] OTHER -> {RugSignal(RugStatus(prob), prob) : prob \in {10, 40, 90}}]

DreamerReplies ==
  [n \in DreamerNodes |->
     CASE n = "brain" -> {Waits, Reply("EXECUTE", "LONG", 80, 100)}
       [] n = "shadowglass" -> {ShadowSignal(i) : i \in {-90, 10, 90}}
       [] n = "spoofhunter" ->
            {SpoofAnswer(g[1], g[2], g[3], i) :
               g \in {<<0, 0, 0>>, <<1, 5, 0>>, <<2, 0, 30>>}, i \in {-60, 0, 30}}
       [] n = "narrative" ->
            {NarrativeAnswer(score, 10, market) :
               score \in {-50, 5, 60}, market \in {-40, 0, 20}}
       [] OTHER -> DreamerAnswers({40, 70})]

V3(mode, dry) ==
  [pipeline |-> "v3", dry |-> dry, mode |-> mode, minConf |-> 30, scaled |-> TRUE]
V2(dry) ==
  [pipeline |-> "v2", dry |-> dry, mode |-> "DEFAULT", minConf |-> 55, scaled |-> TRUE]

AllRequests ==
  {V3(mode, FALSE) : mode \in Modes \cup {"DEFAULT"}}
    \cup {V3("OR", TRUE), V2(FALSE), V2(TRUE)}
V3Requests == {V3("DEFAULT", FALSE)}

NoneRequired == {}
ShadowRequired == {"shadowglass"}

-----------------------------------------------------------------------------
(***************************************************************************)
(* Facts about the answers, over all their inputs or a grid of them.       *)
(***************************************************************************)

\* Contagion is to "KILL everything" (dreamer.py:474), and it stops every long; a
\* short gets through when nearly all else speaks for it and the volume surges.
ASSUME ContagionStopsLongs ==
  \A o \in Observation :
    o.regime = "contagion" /\ Dreamt(o) # "FLAT" =>
      /\ Dreamt(o) = "SHORT" /\ o.surge
      /\ o.trend = -1 /\ o.book = -1 /\ o.vpin = "calm" /\ o.ghosts

Mirrored(r) ==
  [r EXCEPT !.side = CASE r.side = "LONG" -> "SHORT" [] r.side = "SHORT" -> "LONG"
                        [] OTHER -> "NONE"]

\* The narrative and SpoofHunter have no bias: numbers of the opposite sign, and
\* asks for bids, get the mirrored answer, thresholds and blends included.
ASSUME AnswersMirrored ==
  LET tens == {10 * k + d : k \in -10 .. 10, d \in {-5, 0, 1}} IN
  \A i, j \in tens :
    /\ \A v \in {0, 10, 11, 40} : NarrativeAnswer(-i, v, -j) = Mirrored(NarrativeAnswer(i, v, j))
    /\ \A n \in {0, 1, 9} : i >= 0 /\ j >= 0 =>
         \A m \in tens : SpoofAnswer(n, j, i, -m) = Mirrored(SpoofAnswer(n, i, j, m))
=============================================================================
