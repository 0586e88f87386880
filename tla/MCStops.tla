------------------------------ MODULE MCStops ------------------------------
(***************************************************************************)
(* TLC instance of Stops: two assets, calm or crashing, and levels on both *)
(* sides of the two thresholds of the kill switch.                         *)
(***************************************************************************)
EXTENDS Stops

TwoAssets == <<"BTC", "ETH">>

MassOf == [b \in Batches |-> CASE b = "none" -> 0 [] b = "calm" -> 10 [] b = "crash" -> 20]

\* Assets that crash move together, a calm one against a crashing one.
Correlated ==
  [b \in Batches \X Batches |->
     CASE "none" \in {b[1], b[2]} -> 0
       [] "calm" \in {b[1], b[2]} -> IF b[1] = b[2] THEN 55 ELSE -40
       [] OTHER -> 90]
=============================================================================
