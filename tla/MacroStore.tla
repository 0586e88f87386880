----------------------------- MODULE MacroStore -----------------------------
(***************************************************************************)
(* The macro poller and the kill switch of econopredator.py: a poll asks   *)
(* one source after the other, with the world going on in between, and     *)
(* then replaces the whole snapshot; the switch is computed from the       *)
(* snapshot whenever the babysit loop asks.                                *)
(*                                                                         *)
(* The other tickers, the stablecoin sum and the risk score are reported   *)
(* and decide nothing, and so are the funding, open interest, long/short   *)
(* and on-chain stores, each of which its poller overwrites per symbol.    *)
(***************************************************************************)
EXTENDS Integers

CONSTANTS
  Vixes,  \* levels of the VIX a source may answer
  Fears,  \* levels of the fear and greed index
  HasKey  \* ALPHA_VANTAGE_KEY is set

ASSUME MacroAssumption ==
  /\ Vixes \subseteq Nat \ {0} /\ Fears \subseteq 0 .. 100 /\ HasKey \in BOOLEAN

Stages == {"quotes", "fallback", "fear", "store"}

VARIABLES
  stage,  \* the await poll_macro is at
  vals,   \* vals and fear_greed_val of this poll, and who answered (history)
  macro,  \* the snapshot of the store
  known   \* history: the last levels anyone answered, as of the last store

store == <<stage, vals, macro, known>>

\* Slip: no index is index 0, as no VIX is VIX 0.
UnheardAfraid == [vix |-> 0, fear |-> 0, heard |-> {}]

\* MacroSnapshot(), and what a poll has before anyone answered.
Unheard == [vix |-> 0, fear |-> 50, heard |-> {}]

Snapshot == [vix : Vixes \cup {0}, fear : Fears \cup {50}, heard : SUBSET {"vix", "fear"}]

InitStore ==
  /\ stage = "quotes" /\ vals = Unheard /\ macro = Unheard
  /\ known = [vix |-> 0, fear |-> 50]

\* What the poll knows after a source that may answer one of levels, or
\* nothing when it is unsure.
Heard(what, levels, unsure) ==
  {[vals EXCEPT ![what] = v, !.heard = @ \cup {what}] : v \in levels}
    \cup {vals : u \in {TRUE} \cap {unsure}}

-----------------------------------------------------------------------------
(***************************************************************************)
(* poll_macro, one action per await.                                       *)
(***************************************************************************)

\* The quotes come first.
AskQuotes(levels, unsure) ==
  /\ stage = "quotes"
  /\ vals' \in Heard("vix", levels, unsure)
  /\ stage' = "fallback"
  /\ UNCHANGED <<macro, known>>

\* Slip: the second source is asked in any case, and no price of it is price 0.
SecondOverwrites(levels, unsure) ==
  Heard("vix", levels, FALSE) \cup {[vals EXCEPT !.vix = 0] : u \in {TRUE} \cap {unsure}}

\* The second source is asked, with a key, when the first had no VIX.
Second(levels, unsure) ==
  IF HasKey /\ "vix" \notin vals.heard THEN Heard("vix", levels, unsure) ELSE {vals}

AskFallback(levels, unsure) ==
  /\ stage = "fallback"
  /\ vals' \in Second(levels, unsure)
  /\ stage' = "fear"
  /\ UNCHANGED <<macro, known>>

AskFear(levels, unsure) ==
  /\ stage = "fear"
  /\ vals' \in Heard("fear", levels, unsure)
  /\ stage' = "store"
  /\ UNCHANGED <<macro, known>>

\* What this poll did not hear is stored at its default.
Store ==
  /\ stage = "store"
  /\ macro' = vals
  /\ known' = [vix  |-> IF "vix" \in vals.heard THEN vals.vix ELSE known.vix,
               fear |-> IF "fear" \in vals.heard THEN vals.fear ELSE known.fear]
  /\ vals' = Unheard
  /\ stage' = "quotes"

\* macro_kill.
MacroKill == macro.vix > 35 /\ macro.fear < 20
=============================================================================
