------------------------------ MODULE Backtest ------------------------------
(***************************************************************************)
(* The replay of backtester.py: a tape of ticks driven through the         *)
(* position manager of Apm, with an entry strategy, a limit of concurrent  *)
(* positions and a ledger of its own beside the manager's books.           *)
(*                                                                         *)
(* The manager's actions are those of Apm, clock included: the replay      *)
(* computes simulated time and does not use it, so the manager ages its    *)
(* positions by the wall clock, however far the tape has come.  Gains are  *)
(* in price units; percentages, fees, the compounded equity and the        *)
(* statistics made of it are floating-point arithmetic and left out.       *)
(***************************************************************************)
EXTENDS Apm

CONSTANTS
  Tapes,          \* ticks that may be loaded, with the volume of each
  Strategies,     \* entry strategies that may be set
  MaxConcurrent,  \* max_concurrent
  Lookback,       \* of momentum and OBI reversal
  Every, FixedSide, \* every_n and side of the fixed interval
  AtrWindow       \* lookback of _estimate_atr, 50 in the code

ASSUME ReplayAssumption ==
  /\ MaxConcurrent \in Nat \ {0} /\ Lookback \in Nat \ {0} /\ Every \in Nat \ {0}
  /\ AtrWindow \in Nat \ {0} /\ FixedSide \in {"LONG", "SHORT"}
  /\ Strategies \subseteq {"momentum", "obi", "fixed", "multi"}
ASSUME TapesAssumption ==
  \A tape \in Tapes :
    /\ tape \in Seq([tick : Ticks, volume : Nat]) /\ tape # <<>>
    /\ Len(tape) <= TicksPerAge

VARIABLES
  tape, strategy,
  at,      \* idx of run, from 1
  phase,   \* where the loop is: "visit", "close" or "done"
  todo,    \* positions the loop still has to visit at this tick
  open,    \* active, in the order of the dictionary
  trade,   \* the TradeRecord of a position, with its excursions
  trades   \* all_trades

engine == <<tape, strategy, at, phase, todo, open, trade, trades>>

Entered(side, entry, i) ==
  [side |-> side, entry |-> entry, in |-> i, out |-> 0, gain |-> 0, reason |-> "",
   best |-> 0, worst |-> 0]
NoTrade == Entered("NONE", 0, 0)

InitReplay ==
  /\ Init
  /\ tape \in Tapes /\ strategy \in Strategies
  /\ at = 1 /\ phase = "visit" /\ todo = <<>> /\ open = <<>>
  /\ trade = [p \in Pids |-> NoTrade] /\ trades = <<>>

Price(i) == tape[i].tick.price

-----------------------------------------------------------------------------
(***************************************************************************)
(* Entry strategies: the side to enter at tick i, or "none".               *)
(***************************************************************************)

Before(i) == SubSeq(tape, i - Lookback, i - 1)

VolumeOf(s) == FoldSeq(LAMBDA x, sum : sum + x.volume, 0, s)
ObiOf(s)    == FoldSeq(LAMBDA x, sum : sum + x.tick.obi, 0, s)

\* A new high on more than one and a half times the usual volume.
Momentum(i) ==
  IF /\ i > Lookback
     /\ \A k \in 1 .. Lookback : Price(i) > Before(i)[k].tick.price
     /\ 2 * Lookback * tape[i].volume > 3 * VolumeOf(Before(i))
  THEN "LONG" ELSE "none"

\* The book turns from an extreme; imbalances are in hundredths.
ObiReversal(i) ==
  LET usual == ObiOf(Before(i))
      now   == Lookback * tape[i].tick.obi
  IN  CASE i <= Lookback + 1 -> "none"
        [] i > Lookback + 1 /\ usual < -70 * Lookback /\ now > usual + 30 * Lookback -> "LONG"
        [] i > Lookback + 1 /\ usual > 70 * Lookback /\ now < usual - 30 * Lookback -> "SHORT"
        [] OTHER -> "none"

FixedInterval(i) == IF i > 1 /\ (i - 1) % Every = 0 THEN FixedSide ELSE "none"

\* The first of several strategies that has a side.
FirstOf(sides) ==
  IF \E k \in DOMAIN sides : sides[k] # "none"
  THEN sides[Min({k \in DOMAIN sides : sides[k] # "none"})] ELSE "none"

Signal(i) ==
  CASE strategy = "momentum" -> Momentum(i)
    [] strategy = "obi"      -> ObiReversal(i)
    [] strategy = "fixed"    -> FixedInterval(i)
    [] strategy = "multi"    -> FirstOf(<<Momentum(i), ObiReversal(i), FixedInterval(i)>>)

\* _estimate_atr, of the price: the range of the last ticks, or 2% when there
\* are not two of them.
EstimatedAtr(i) ==
  LET seen == {Price(k) : k \in Higher(1, i - AtrWindow) .. i} IN
  IF i = 1 THEN (2 * Price(i)) \div 100
  ELSE (2 * Price(i) * (Max(seen) - Min(seen))) \div (Max(seen) + Min(seen))

-----------------------------------------------------------------------------
(***************************************************************************)
(* run.                                                                    *)
(***************************************************************************)

\* Slip: the gain of a LONG, whatever the side.
UnrealizedLong(r, price) == price - r.entry

Unrealized(r, price) == IF r.side = "LONG" THEN price - r.entry ELSE r.entry - price

\* The record of a trade that leaves at tick i.
Left(r, i, reason) ==
  [side |-> r.side, entry |-> r.entry, in |-> r.in, out |-> i,
   gain |-> Unrealized(r, Price(i)), reason |-> reason, best |-> r.best, worst |-> r.worst]

Swung(r, price) ==
  [side |-> r.side, entry |-> r.entry, in |-> r.in, out |-> r.out, gain |-> r.gain,
   reason |-> r.reason, best |-> Higher(r.best, Unrealized(r, price)),
   worst |-> Lower(r.worst, Unrealized(r, price))]

\* The next open position is given the tick, and recorded if the manager exits.
Visit ==
  /\ phase = "visit" /\ todo # <<>>
  /\ \E p \in {Head(todo)}, r \in {Swung(trade[Head(todo)], Price(at))} :
       /\ Tick(p, tape[at].tick)
       /\ IF status'[p] = "closed"
          THEN /\ trade' = [trade EXCEPT ![p] = Left(r, at, pos'[p].reason)]
               /\ trades' = Append(trades, p)
               /\ open' = RemoveFirst(open, p)
          ELSE /\ trade' = [trade EXCEPT ![p] = r]
               /\ UNCHANGED <<trades, open>>
  /\ todo' = Tail(todo)
  /\ UNCHANGED <<tape, strategy, at, phase>>

\* Position ids not used before, and the one that is drawn.
Unspent == {p \in Pids : status[p] = "free"}
Fresh   == CHOOSE p \in Unspent : TRUE

Enter(side) ==
  /\ Unspent # {}
  /\ Register(Fresh, [side |-> side, entry |-> Price(at), atr |-> EstimatedAtr(at)])
  /\ trade' = [trade EXCEPT ![Fresh] = Entered(side, Price(at), at)]
  /\ open' = Append(open, Fresh)

Room == Len(open) < MaxConcurrent

\* When every open position has had the tick, there may be an entry, and the
\* loop goes on to the next tick.
Advance ==
  /\ phase = "visit" /\ todo = <<>>
  /\ \/ Room /\ Signal(at) # "none" /\ Enter(Signal(at))
     \/ ~(Room /\ Signal(at) # "none") /\ UNCHANGED <<vars, trade, open>>
  /\ IF at < Len(tape)
     THEN at' = at + 1 /\ todo' = open' /\ phase' = "visit"
     ELSE phase' = "close" /\ UNCHANGED <<at, todo>>
  /\ UNCHANGED <<tape, strategy, trades>>

\* Slip: what is open at the end of the tape is left alone.
NothingToForce == TRUE

\* What is open at the end of the tape is closed.
NothingLeft == open = <<>>

ForceClose ==
  /\ phase = "close" /\ ~NothingLeft
  /\ \E p \in {Head(open)} :
       /\ ForceExit(p, Price(at))
       /\ trade' = [trade EXCEPT ![p] = Left(trade[p], at, "forced_close_eod")]
       /\ trades' = Append(trades, p)
  /\ open' = Tail(open)
  /\ UNCHANGED <<tape, strategy, at, phase, todo>>

Return ==
  /\ phase = "close" /\ NothingLeft
  /\ phase' = "done"
  /\ UNCHANGED <<vars, tape, strategy, at, todo, open, trade, trades>>

\* exit_reason_breakdown.
Breakdown(reason) == Cardinality({k \in DOMAIN trades : trade[trades[k]].reason = reason})

-----------------------------------------------------------------------------
Step == Visit \/ Advance \/ ForceClose \/ Return

WallClock == Clock /\ UNCHANGED engine

NextReplay == Step \/ WallClock

SpecReplay == InitReplay /\ [][NextReplay]_<<vars, engine>>

\* The replay waits for nothing but itself.
FairReplay == SpecReplay /\ WF_<<vars, engine>>(Step)

-----------------------------------------------------------------------------
(***************************************************************************)
(* Properties.                                                             *)
(***************************************************************************)

\* The ledger and the manager, which keep separate books, agree: the same
\* positions are held, no more than allowed; every position the manager closed
\* is recorded once, with the gain the manager computed; both know the same
\* best move of what is held; and the report counts an exit under the manager's
\* reason, the forced ones apart.
LedgerAgrees ==
  /\ ToSet(open) = Active /\ IsInjective(open) /\ Len(open) <= MaxConcurrent
  /\ ToSet(trades) = {p \in Pids : status[p] = "closed"} /\ Len(trades) = totalExits
  /\ \A k \in DOMAIN trades :
       /\ trade[trades[k]].gain = pos[trades[k]].pnl
       /\ trade[trades[k]].gain <= Higher(0, trade[trades[k]].best)
       /\ trade[trades[k]].in <= trade[trades[k]].out
  /\ \A p \in Active : trade[p].best = pos[p].peak
  /\ \A r \in ExitReason :
       reasonCounts[r] = Breakdown(IF r = "manual_exit" THEN "forced_close_eod" ELSE r)

\* The replay comes to its end, and then every position it ever opened is in
\* the ledger, none of them held by the manager.
AllRecorded ==
  <>[](/\ phase = "done"
       /\ ToSet(trades) = {p \in Pids : status[p] # "free"}
       /\ Active = {})
=============================================================================
