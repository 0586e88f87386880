--------------------------------- MODULE Apm ---------------------------------
(***************************************************************************)
(* The Active Position Manager, apm.py: the positions it manages, the tick *)
(* that runs the four exit weapons and the safety net over one of them,    *)
(* and the bookkeeping of exits.  Every method holds the manager's lock    *)
(* from its first read to its last write, so each is one action.           *)
(*                                                                         *)
(* Prices are integers; stops are in hundredths of a price and multiples   *)
(* of the ATR in hundredths, rounded down when smoothed.  Percentages are  *)
(* compared by cross-multiplication with the entry price.  Time is the age *)
(* of a position in units of the clock, counted up to MaxAge, beyond which *)
(* nothing in the code tells ages apart.                                   *)
(*                                                                         *)
(* VPIN is abstracted to its level: a traded tick may move it to any of    *)
(* the three, an untraded one leaves it alone.                             *)
(***************************************************************************)
EXTENDS Integers, FiniteSets, SequencesExt

CONSTANTS
  Pids,           \* position ids that may be drawn
  Offers,         \* positions that may be registered: side, entry, atr
  Ticks,          \* ticks that may be fed
  TakeProfitPct, HardStopPct,
  MinMovePerMille,\* ALPHA_MIN_MOVE_PCT, in tenths of a percent
  DecayAge,       \* ALPHA_DECAY_S
  LimitAge,       \* time_limit_s
  GhostWindow,    \* the 10 s of evaluate
  GhostMin,       \* min_notional
  GhostCap,       \* maxlen of _recent_ghosts
  Smooth,         \* OBI ticks averaged, 5 in the code
  ClosedCap,      \* maxlen of _closed
  TicksPerAge     \* ticks of a position between two steps of the clock

ASSUME LimitsAssumption ==
  /\ TakeProfitPct \in Nat \ {0} /\ HardStopPct \in Nat \ {0}
  /\ MinMovePerMille \in Nat \ {0}
ASSUME AgeAssumption ==
  DecayAge \in Nat \ {0} /\ LimitAge \in Nat \ {0} /\ GhostWindow \in Nat
ASSUME BoundAssumption ==
  /\ GhostMin \in Nat \ {0} /\ GhostCap \in Nat \ {0} /\ Smooth \in Nat \ {0}
  /\ ClosedCap \in Nat \ {0} /\ TicksPerAge \in Nat \ {0}

Levels == {"low", "toxic", "critical"}

GhostEvent == [side : {"bid", "ask"}, notional : Nat]

ASSUME OffersAssumption ==
  Offers \subseteq [side : {"LONG", "SHORT", "NONE"}, entry : Nat, atr : Nat]
ASSUME TicksAssumption ==
  Ticks \subseteq [price : Nat \ {0}, traded : BOOLEAN, vpin : Levels, obi : Int,
                   ghosts : Seq(GhostEvent), macro : BOOLEAN]

Wide    == 350  \* OBI_TRAIL_WIDE_ATR_MULT
Default == 200  \* OBI_TRAIL_DEFAULT_ATR_MULT
Tight   == 80   \* OBI_TRAIL_TIGHT_ATR_MULT
Ultra   == 50   \* the override when VPIN is toxic

\* Exit reasons of a tick, in the order in which process_tick looks at them.
Priority ==
  <<"macro_kill", "vpin_critical", "ghost_liquidity", "obi_trail_stop",
    "alpha_decay", "take_profit", "hard_stop", "time_limit">>

ExitReason == ToSet(Priority) \cup {"manual_exit"}

VARIABLES
  status,     \* "free", "active" (in _positions) or "closed"
  pos,        \* the ManagedPosition of an id
  closed,     \* _closed
  totalExits, \* total_exits
  reasonCounts

vars == <<status, pos, closed, totalExits, reasonCounts>>

Active == {p \in Pids : status[p] = "active"}

Higher(a, b) == IF a > b THEN a ELSE b
Lower(a, b)  == IF a < b THEN a ELSE b

MaxAge == Higher(LimitAge, DecayAge)

-----------------------------------------------------------------------------
(***************************************************************************)
(* Registration.                                                           *)
(***************************************************************************)

\* The stop below (LONG) or above a reference price.
StopFrom(side, ref, atr, mult) ==
  IF side = "LONG" THEN 100 * ref - atr * mult ELSE 100 * ref + atr * mult

\* register_position with its four weapons.  The ATR is at least a thousandth
\* of the entry price.
Position(o) ==
  LET atr == Higher(o.atr, o.entry \div 1000) IN
  [side |-> o.side, entry |-> o.entry, age |-> 0, fed |-> 0,
   price |-> 0, high |-> o.entry, low |-> o.entry, pnl |-> 0,
   vpin |-> "low",
   atr |-> atr, mult |-> Default, obi |-> <<>>,
   trailHigh |-> o.entry, trailLow |-> o.entry,
   stop |-> StopFrom(o.side, o.entry, atr, Default),
   ghosts |-> <<>>, peak |-> 0, reason |-> "none"]

Unused == Position([side |-> "NONE", entry |-> 0, atr |-> 0])

Init ==
  /\ status       = [p \in Pids |-> "free"]
  /\ pos          = [p \in Pids |-> Unused]
  /\ closed       = <<>>
  /\ totalExits   = 0
  /\ reasonCounts = [r \in ExitReason |-> 0]

Register(p, o) ==
  /\ status[p] = "free"
  /\ status' = [status EXCEPT ![p] = "active"]
  /\ pos' = [pos EXCEPT ![p] = Position(o)]
  /\ UNCHANGED <<closed, totalExits, reasonCounts>>

-----------------------------------------------------------------------------
(***************************************************************************)
(* The weapons: what a tick t makes of their fields of a position q.       *)
(***************************************************************************)

\* The move in the position's favour, in price units.
Gain(side, entry, price) == IF side = "LONG" THEN price - entry ELSE entry - price

\* Weapon 1.
Level(q, t) == IF t.traded THEN t.vpin ELSE q.vpin

LastOf(s, n) == IF Len(s) <= n THEN s ELSE SubSeq(s, Len(s) - n + 1, Len(s))

Total(s) == FoldSeq(LAMBDA x, sum : sum + x, 0, s)

\* Weapon 2: the ATR multiple moves by 0.3 towards its target, from at most
\* Ultra when VPIN is toxic; the stop is ratcheted.
Book(q, t) == LastOf(Append(q.obi, t.obi), Smooth)

Target(book) ==
  CASE Total(book) > 60 * Len(book)  -> Wide
    [] Total(book) < -30 * Len(book) -> Tight
    [] OTHER                         -> Default

\* The toxic override at a tenth of what it should be.
FromTenth(q, t) == IF Level(q, t) = "low" THEN q.mult ELSE Lower(q.mult, Ultra \div 10)

From(q, t) == IF Level(q, t) = "low" THEN q.mult ELSE Lower(q.mult, Ultra)

Mult(q, t) == (7 * From(q, t) + 3 * Target(Book(q, t))) \div 10

TrailHigh(q, t) == IF q.side = "LONG" THEN Higher(q.trailHigh, t.price) ELSE q.trailHigh
TrailLow(q, t)  == IF q.side = "LONG" THEN q.trailLow ELSE Lower(q.trailLow, t.price)

\* The stop at its distance, without the ratchet.
StopUnratcheted(q, t) ==
  IF q.side = "LONG"
    THEN StopFrom("LONG", TrailHigh(q, t), q.atr, Mult(q, t))
    ELSE StopFrom(q.side, TrailLow(q, t), q.atr, Mult(q, t))

Stop(q, t) ==
  IF q.side = "LONG"
    THEN Higher(q.stop, StopFrom("LONG", TrailHigh(q, t), q.atr, Mult(q, t)))
    ELSE Lower(q.stop, StopFrom(q.side, TrailLow(q, t), q.atr, Mult(q, t)))

\* Weapon 3.  Events carry their age since they were ingested; those older
\* than the window stay in the buffer and count for nothing.
Haunting(q, t) ==
  LastOf(q.ghosts \o [i \in 1..Len(t.ghosts) |-> [ghost |-> t.ghosts[i], age |-> 0]],
         GhostCap)

Notional(q, side) ==
  Total([i \in 1..Len(q.ghosts) |->
           IF q.ghosts[i].ghost.side = side /\ q.ghosts[i].age <= GhostWindow
             THEN q.ghosts[i].ghost.notional ELSE 0])

\* The pulled walls that hurt: support of a LONG, resistance of a SHORT.
Danger(q) ==
  CASE q.side = "LONG"  -> Notional(q, "bid")
    [] q.side = "SHORT" -> Notional(q, "ask")
    [] OTHER            -> 0

\* In percent; an exit wants 60.
GhostConfidence(q) == Lower(100, 50 + (20 * Danger(q)) \div GhostMin)

\* Weapon 4 with the last move instead of the best one.
PeakLast(q, t) == Higher(0, Gain(q.side, q.entry, t.price))

\* Weapon 4.
Peak(q, t) == Higher(q.peak, Gain(q.side, q.entry, t.price))

-----------------------------------------------------------------------------
(***************************************************************************)
(* The tick.                                                               *)
(***************************************************************************)

\* The position after a tick that runs to its end.
Ticked(q, t) ==
  [side |-> q.side, entry |-> q.entry, age |-> q.age, fed |-> q.fed + 1,
   price |-> t.price, high |-> Higher(q.high, t.price), low |-> Lower(q.low, t.price),
   pnl |-> Gain(q.side, q.entry, t.price),
   vpin |-> Level(q, t),
   atr |-> q.atr, mult |-> Mult(q, t), obi |-> Book(q, t),
   trailHigh |-> TrailHigh(q, t), trailLow |-> TrailLow(q, t), stop |-> Stop(q, t),
   ghosts |-> Haunting(q, t), peak |-> Peak(q, t), reason |-> q.reason]

Triggered(q) ==
  IF q.side = "LONG" THEN 100 * q.price <= q.stop ELSE 100 * q.price >= q.stop

\* Looking at the last price only.
MovedNow(q) == 1000 * q.pnl >= MinMovePerMille * q.entry

Moved(q) == 1000 * q.peak >= MinMovePerMille * q.entry

\* The safety net without the hard stop, and without the time limit.
SafetyNetNoStop(reason, q) ==
  \/ reason = "take_profit" /\ 100 * q.pnl >= TakeProfitPct * q.entry
  \/ reason = "time_limit"  /\ q.age >= LimitAge

SafetyNetNoLimit(reason, q) ==
  \/ reason = "take_profit" /\ 100 * q.pnl >= TakeProfitPct * q.entry
  \/ reason = "hard_stop"   /\ 100 * q.pnl <= -HardStopPct * q.entry

SafetyNet(reason, q) ==
  \/ reason = "take_profit" /\ 100 * q.pnl >= TakeProfitPct * q.entry
  \/ reason = "hard_stop"   /\ 100 * q.pnl <= -HardStopPct * q.entry
  \/ reason = "time_limit"  /\ q.age >= LimitAge

\* Whether a reason to exit holds of the ticked position.  A weapon reads
\* nothing that a later one writes.
Due(reason, q, t) ==
  \/ reason = "macro_kill"      /\ t.macro
  \/ reason = "vpin_critical"   /\ q.vpin = "critical"
  \/ reason = "ghost_liquidity" /\ t.ghosts # <<>> /\ Danger(q) >= GhostMin
                                /\ GhostConfidence(q) >= 60
  \/ reason = "obi_trail_stop"  /\ Triggered(q)
  \/ reason = "alpha_decay"     /\ ~Moved(q) /\ q.age >= DecayAge
  \/ SafetyNet(reason, q)

AllDue(q, t) == {i \in 1..Len(Priority) : Due(Priority[i], q, t)}

\* What is left of a position that exits: its weapons are never used again.
Retired(q, reason) ==
  [side |-> q.side, entry |-> q.entry, age |-> q.age, fed |-> 0,
   price |-> q.price, high |-> q.high, low |-> q.low, pnl |-> q.pnl,
   vpin |-> "low",
   atr |-> q.atr, mult |-> Default, obi |-> <<>>,
   trailHigh |-> 0, trailLow |-> 0, stop |-> 0,
   ghosts |-> <<>>, peak |-> 0, reason |-> reason]

\* An exit that forgets to take the position out of _positions.
ExitKeepsPosition(p, q, reason) ==
  /\ pos' = [pos EXCEPT ![p] = [q EXCEPT !.reason = reason]]
  /\ closed' = LastOf(Append(closed, p), ClosedCap)
  /\ totalExits' = totalExits + 1
  /\ reasonCounts' = [reasonCounts EXCEPT ![reason] = @ + 1]
  /\ UNCHANGED status

\* _exit.
Exit(p, q, reason) ==
  /\ status' = [status EXCEPT ![p] = "closed"]
  /\ pos' = [pos EXCEPT ![p] = Retired(q, reason)]
  /\ closed' = LastOf(Append(closed, p), ClosedCap)
  /\ totalExits' = totalExits + 1
  /\ reasonCounts' = [reasonCounts EXCEPT ![reason] = @ + 1]

\* What a tick has assigned before it divides by the entry price.
Begun(q, t) ==
  [q EXCEPT !.fed = @ + 1, !.price = t.price,
            !.high = Higher(@, t.price), !.low = Lower(@, t.price)]

\* Dividing by an entry price of zero.
TickRaises(p, t) ==
  /\ status[p] = "active" /\ pos[p].entry = 0 /\ pos[p].fed < TicksPerAge
  /\ pos' = [pos EXCEPT ![p] = Begun(pos[p], t)]
  /\ UNCHANGED <<status, closed, totalExits, reasonCounts>>

\* process_tick.
Tick(p, t) ==
  /\ status[p] = "active" /\ pos[p].entry # 0 /\ pos[p].fed < TicksPerAge
  /\ \E q \in {Ticked(pos[p], t)} :
       \/ /\ AllDue(q, t) # {}
          /\ Exit(p, q, Priority[Min(AllDue(q, t))])
       \/ /\ AllDue(q, t) = {}
          /\ pos' = [pos EXCEPT ![p] = q]
          /\ UNCHANGED <<status, closed, totalExits, reasonCounts>>

\* force_exit.
ForceExit(p, price) ==
  /\ status[p] = "active" /\ pos[p].entry # 0
  /\ Exit(p, [pos[p] EXCEPT !.pnl = Gain(pos[p].side, pos[p].entry, price)],
          "manual_exit")

Older(ghosts) ==
  [i \in 1..Len(ghosts) |->
     [ghosts[i] EXCEPT !.age = Lower(@ + 1, GhostWindow + 1)]]

\* The clock moves for all positions; a tick is fed every
\* APM_POLL_INTERVAL_S, so there are only so many in between.
Clock ==
  /\ pos' = [p \in Pids |->
               IF p \in Active
                 THEN [pos[p] EXCEPT !.age = Lower(@ + 1, MaxAge), !.fed = 0,
                                     !.ghosts = Older(@)]
                 ELSE pos[p]]
  /\ UNCHANGED <<status, closed, totalExits, reasonCounts>>

Feed(p) == \E t \in Ticks : Tick(p, t) \/ TickRaises(p, t)

Next ==
  \/ \E p \in Pids, o \in Offers : Register(p, o)
  \/ \E p \in Pids : Feed(p)
  \/ \E p \in Pids, t \in Ticks : ForceExit(p, t.price)
  \/ Clock

Spec == Init /\ [][Next]_vars

\* The clock runs.  Nobody promises ticks: the babysit loop passes a position
\* over that has no price, and a tick that raises keeps it from later ones.
FairSpec == Spec /\ WF_vars(Clock)

-----------------------------------------------------------------------------
(***************************************************************************)
(* Properties.                                                             *)
(***************************************************************************)

PositionType ==
  [side : {"LONG", "SHORT", "NONE"}, entry : Nat, age : 0..MaxAge, fed : 0..TicksPerAge,
   price : Nat, high : Nat, low : Nat, pnl : Int, vpin : Levels,
   atr : Nat, mult : Ultra..Wide, obi : Seq(Int),
   trailHigh : Nat, trailLow : Nat, stop : Int,
   ghosts : Seq([ghost : GhostEvent, age : 0..GhostWindow + 1]), peak : Nat,
   reason : ExitReason \cup {"none"}]

TypeOK ==
  /\ status \in [Pids -> {"free", "active", "closed"}]
  /\ pos \in [Pids -> PositionType]
  /\ closed \in Seq(Pids)
  /\ totalExits \in Nat
  /\ reasonCounts \in [ExitReason -> Nat]

\* The best and the worst price so far for the side of a position.
Best(q)  == IF q.side = "LONG" THEN q.high ELSE q.low
Worst(q) == IF q.side = "LONG" THEN q.low ELSE q.high

\* A position that is held has shown no price at which it should have been
\* closed: every price since its registration lies within its hard stop and
\* its take profit, and the last one on the good side of the stop.
HeldWithinLimits ==
  \A p \in Active :
    LET q == pos[p] IN
    q.entry > 0 =>
      /\ 100 * Gain(q.side, q.entry, Worst(q)) > -HardStopPct * q.entry
      /\ 100 * Gain(q.side, q.entry, Best(q)) < TakeProfitPct * q.entry
      /\ q.price > 0 => ~Triggered(q)

\* The stop only ever moves in the position's favour while it is held,
\* whatever the order book and VPIN do to its distance.
StopRatchets ==
  [][\A p \in Pids :
       status[p] = "active" /\ status'[p] = "active" =>
         IF pos[p].side = "LONG" THEN pos'[p].stop >= pos[p].stop
                                 ELSE pos'[p].stop <= pos[p].stop]_vars

\* The stop keeps at least half an ATR from the best price, so that no tick
\* at a new best price can trigger it.
StopKeepsDistance ==
  \A p \in Active :
    LET q == pos[p] IN
    IF q.side = "LONG" THEN q.stop <= 100 * q.trailHigh - Ultra * q.atr
                       ELSE q.stop >= 100 * q.trailLow + Ultra * q.atr

\* The weapons, each with a memory of its own, agree with the position on the
\* best price so far.
WeaponsAgree ==
  \A p \in Active :
    LET q == pos[p] IN
    q.entry > 0 =>
      /\ q.peak = Gain(q.side, q.entry, Best(q))
      /\ IF q.side = "LONG" THEN q.trailHigh = q.high ELSE q.trailLow = q.low

\* A position is given up as stale only if it is old and no price it ever saw
\* was a move of the size that would have kept it.
DecayIsTrue ==
  \A p \in Pids :
    LET q == pos[p] IN
    q.reason = "alpha_decay" =>
      /\ q.age >= DecayAge
      /\ 1000 * Gain(q.side, q.entry, Best(q)) < MinMovePerMille * q.entry

\* The books agree: every exit is counted once, under its reason, and the log
\* of closed positions holds the latest exits, each position at most once.
BooksAgree ==
  LET gone == {p \in Pids : status[p] = "closed"} IN
  /\ totalExits = Cardinality(gone)
  /\ \A r \in ExitReason : reasonCounts[r] = Cardinality({p \in gone : pos[p].reason = r})
  /\ Len(closed) = Lower(totalExits, ClosedCap)
  /\ ToSet(closed) \subseteq gone
  /\ IsInjective(closed)

\* Nothing that has an entry price and is fed again and again is held for
\* ever, whatever its weapons make of the ticks: a position that stays is one
\* its caller stopped feeding, with no tick any more between two steps of the
\* clock.  (Without an entry price every tick raises.)
EverythingEnds ==
  \A p \in Pids :
    <>[](status[p] = "active" /\ pos[p].entry # 0) => <>[](pos[p].fed = 0)

\* The manager keeps the promise of Positions.
Promise == INSTANCE Positions WITH
  Reasons <- ExitReason,
  guard   <- [p \in Active |-> [side |-> pos[p].side, stop |-> pos[p].stop]],
  left    <- [p \in Pids |-> pos[p].reason]

\* Every behaviour of the manager is one of Positions: no position is held
\* again, left twice, or held behind a stop that gave way.
KeepsPromise == Promise!Spec
=============================================================================
