------------------------------- MODULE Stops -------------------------------
(***************************************************************************)
(* The two nodes with a brake: Newtonian, whose KILL takes back the vote   *)
(* it had for an entry (it has no survival role, so it vetoes nobody       *)
(* else's), and EconoPredator, whose kill switch makes the babysit loop    *)
(* close every held position.  Both poll sources that may be late or       *)
(* silent, each on its own, and this module is the two of them in one      *)
(* world, which changes between any two of their steps.                    *)
(***************************************************************************)
EXTENDS Gravity, MacroStore

VARIABLE world  \* "mixed": a source answers anything or nothing; "crisis":
                \* one of the two sources of the VIX answers, and so does the
                \* index, and extremes; "outage": nothing answers

vars == <<gravity, store, world>>

Worlds == {"mixed", "crisis", "outage"}

Init == InitGravity /\ InitStore /\ world \in Worlds

VixNow  == IF world = "outage" THEN {} ELSE {v \in Vixes : world = "crisis" => v > 35}
FearNow == IF world = "outage" THEN {} ELSE {f \in Fears : world = "crisis" => f < 20}

Quotes   == AskQuotes(VixNow, TRUE) /\ UNCHANGED <<gravity, world>>
Fallback == /\ AskFallback(VixNow, world = "crisis" => "vix" \in vals.heard)
            /\ UNCHANGED <<gravity, world>>
Fear     == AskFear(FearNow, world # "crisis") /\ UNCHANGED <<gravity, world>>
Replace  == Store /\ UNCHANGED <<gravity, world>>
Poll     == Quotes \/ Fallback \/ Fear \/ Replace

Compute ==
  /\ \E fetched \in SUBSET {a \in Assets : world # "outage"} : Epoch(fetched)
  /\ UNCHANGED <<store, world>>

Turn == world' \in Worlds /\ UNCHANGED <<gravity, store>>

Next == Poll \/ Compute \/ Turn

Spec == Init /\ [][Next]_vars

\* Both loops sleep for a fixed time, and every request has a timeout.
FairSpec == Spec /\ WF_vars(Poll) /\ WF_vars(Compute)

-----------------------------------------------------------------------------
TypeOK ==
  /\ klines \in [Assets -> Batches] /\ pair \in [Pairs -> Pair] /\ news \subseteq Assets
  /\ stage \in Stages /\ vals \in Snapshot /\ macro \in Snapshot /\ world \in Worlds
  /\ known \in [vix : Vixes \cup {0}, fear : Fears \cup {50}]

\* A contagion rests on news: an asset is killed only if the last epoch took in
\* klines of one of the assets of its pairs, so old numbers read again are none.
ContagionIsNews ==
  \A a \in Assets :
    AnswerFor(a).action = "KILL" => \E p \in PairsOf(a) : news \cap {p[1], p[2]} # {}

\* The kill switch is backed by what the sources said: both of the last levels
\* they answered, be it in different polls, are extreme.  A level nobody answered
\* never stands in for one.
KillIsBacked == MacroKill => known.vix > 35 /\ known.fear < 20

\* A crisis that lasts turns the kill switch on, and it does not flicker,
\* whichever of its two sources answers the VIX, the other being asked or not,
\* and whatever a poll had heard before.
CrisisStops == <>[](world = "crisis") => <>[]MacroKill
=============================================================================
