----------------------------- MODULE MCBacktest -----------------------------
(***************************************************************************)
(* TLC instance of Backtest: every tape of five ticks that starts quietly  *)
(* and then rises, falls, crashes or turns its book, so that each strategy *)
(* enters and positions leave by their stops, their targets, their age or  *)
(* the end of the tape, several of them at one tick.                       *)
(***************************************************************************)
EXTENDS Backtest

At(price, obi) == [price |-> price, traded |-> FALSE, vpin |-> "low", obi |-> obi,
                   ghosts |-> <<>>, macro |-> FALSE]

Moves ==
  {[tick |-> At(100, 90), volume |-> 1], [tick |-> At(101, 0), volume |-> 4],
   [tick |-> At(94, -90), volume |-> 1], [tick |-> At(107, 0), volume |-> 1]}

ReplayTicks == {m.tick : m \in Moves}

FiveTicks ==
  {<<[tick |-> At(100, 90), volume |-> 1]>> \o rest : rest \in [1 .. 4 -> Moves]}
=============================================================================
