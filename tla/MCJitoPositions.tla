--------------------------- MODULE MCJitoPositions ---------------------------
(***************************************************************************)
(* TLC instance of JitoPositions: three requests for two mints, with and   *)
(* without the data the screens need; for an entry at 10, a price below    *)
(* the stop, one between, and two above.                                   *)
(***************************************************************************)
EXTENDS JitoPositions, TLC

Plain == [mint |-> "A", entry |-> 10, atr1m |-> 1, atr5m |-> 0, metrics |-> FALSE]

Bought ==
  {Plain, [Plain EXCEPT !.metrics = TRUE, !.atr5m = 1, !.mint = "B"],
   [Plain EXCEPT !.atr5m = 2]}

Alike == Permutations(Requests)
=============================================================================
