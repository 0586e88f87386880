------------------------------- MODULE MCApm -------------------------------
(***************************************************************************)
(* TLC instances of Apm.  Entry at 100: hard stop at 3%, take profit at    *)
(* 5%, and one unit of price is more than the 0.5% that keep a position    *)
(* from going stale.  With an ATR of 1 the first stop lies within the hard *)
(* stop, with an ATR of 2 beyond it.                                       *)
(***************************************************************************)
EXTENDS Apm

Quiet == [price |-> 100, traded |-> FALSE, vpin |-> "low", obi |-> 0,
          ghosts |-> <<>>, macro |-> FALSE]

Offer(side, entry) == [side |-> side, entry |-> entry, atr |-> 1]

\* One position of each side and one without a price.
SideOffers ==
  {Offer("LONG", 100), [Offer("SHORT", 100) EXCEPT !.atr = 2], Offer("NONE", 100),
   Offer("SHORT", 0)}

Bid(n) == <<[side |-> "bid", notional |-> n]>>
Ask(n) == <<[side |-> "ask", notional |-> n]>>

CloseTicks ==
  {[Quiet EXCEPT !.price = price, !.obi = obi] :
     price \in {94, 97, 99, 101, 103}, obi \in {-90, 90}}
  \cup {[Quiet EXCEPT !.price = 101, !.traded = TRUE, !.vpin = level] :
           level \in {"toxic", "critical"}}
  \cup {[Quiet EXCEPT !.ghosts = g] : g \in {Bid(1), Ask(1)}}
=============================================================================
