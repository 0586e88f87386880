------------------------------ MODULE Positions ------------------------------
(***************************************************************************)
(* What a position manager promises of each position it is given: it holds *)
(* the position behind a stop that only ever tightens, it lets go of it    *)
(* once, for one reason, and never takes it up again.                      *)
(***************************************************************************)
EXTENDS Integers

CONSTANTS
  Pids,    \* positions
  Reasons  \* reasons to leave one

VARIABLES
  guard,   \* guard[p]: side and stop of a held position p
  left     \* left[p]: why p was left, "none" if it was not

gvars == <<guard, left>>

Held == DOMAIN guard

Init ==
  /\ Held = {}
  /\ left = [p \in Pids |-> "none"]

OthersKept(p) ==
  \A q \in Held \ {p} : q \in DOMAIN guard' /\ guard'[q] = guard[q]

Take(p) ==
  /\ p \notin Held /\ left[p] = "none"
  /\ DOMAIN guard' = Held \cup {p}
  /\ OthersKept(p)
  /\ UNCHANGED left

\* A stop below the price of a LONG rises, any other one falls.
Tighter(g, h) ==
  /\ h.side = g.side
  /\ IF g.side = "LONG" THEN h.stop >= g.stop ELSE h.stop <= g.stop

Follow(p) ==
  /\ p \in Held
  /\ DOMAIN guard' = Held
  /\ OthersKept(p)
  /\ Tighter(guard[p], guard'[p])
  /\ UNCHANGED left

Leave(p, reason) ==
  /\ p \in Held
  /\ DOMAIN guard' = Held \ {p}
  /\ OthersKept(p)
  /\ left' = [left EXCEPT ![p] = reason]

Next ==
  \E p \in Pids :
    \/ Take(p)
    \/ Follow(p)
    \/ \E reason \in Reasons : Leave(p, reason)

Spec == Init /\ [][Next]_gvars
=============================================================================
