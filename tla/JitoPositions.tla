---------------------------- MODULE JitoPositions ----------------------------
(***************************************************************************)
(* The Jito node, jito_spoof.py: requests that are screened, sent as a     *)
(* bundle and become positions, and the life of a position: the trailing   *)
(* stop, the time exit and the emergency exit.                             *)
(*                                                                         *)
(* A request is suspended only while it waits for the anti-rug engine and  *)
(* for the chain.  The lock of JitoEngine is never held across a           *)
(* suspension, so whatever lies between two of them is one step.  A        *)
(* position goes by the name of the request that opened it.                *)
(*                                                                         *)
(* Prices are integers, so the stop, price * (1 - mult * atr / price), is  *)
(* price - mult * atr.  The size is capped by the request's validation,    *)
(* and the choice of an RPC among equals shows nowhere: both are left out. *)
(* The repository has no caller of update_trail_stop outside its tests:    *)
(* any price may be fed at any time.                                       *)
(***************************************************************************)
EXTENDS Integers, FiniteSets, SequencesExt

CONSTANTS
  Requests,      \* requests of /execute_bundle
  Orders,        \* what they may ask for
  Modes,         \* settings of JITO_EXEC_MODE, with "dry_run" for DRY_RUN
  Prices,        \* prices that may be fed to update_trail_stop
  Rugs,          \* rug_probability_pct the anti-rug engine may answer
  RugMax,        \* RUG_PROB_THRESHOLD, in percent
  VolMin, VolMax,\* ATR_VOLATILITY_MIN and _MAX, per mille
  TrailMult,     \* TRAIL_STOP_ATR_MULT
  AutoExit,      \* AUTO_EXIT_MINUTES
  ClosedCap,     \* maxlen of closed_positions
  Depth          \* calls of submit_bundle Python nests

Mints == {o.mint : o \in Orders}

ASSUME RequestsAssumption == IsFiniteSet(Requests)
ASSUME OrdersAssumption ==
  \A o \in Orders : o.entry \in Nat \ {0} /\ o.atr1m \in Nat \ {0} /\ o.atr5m \in Nat
                    /\ o.metrics \in BOOLEAN
ASSUME NumbersAssumption ==
  /\ Prices \subseteq Nat /\ Rugs \subseteq Nat
  /\ RugMax \in Nat /\ VolMin \in Nat /\ VolMax \in Nat
  /\ TrailMult \in Nat \ {0} /\ AutoExit \in Nat \ {0}
  /\ ClosedCap \in Nat \ {0} /\ Depth \in Nat

VARIABLES
  mode,       \* EXEC_MODE
  call,       \* where a request is, what it asked for, what it was told
  pos,        \* the ActivePosition of a request, with the best price ever fed
              \* to it and whether the last one should have ended it (history)
  closed,     \* closed_positions
  submitted,  \* bundles_submitted
  succeeded   \* bundles_succeeded

vars == <<mode, call, pos, closed, submitted, succeeded>>

NoOrder == [mint |-> "none", entry |-> 1, atr1m |-> 1, atr5m |-> 0, metrics |-> FALSE]

Idle == [at |-> "new", order |-> NoOrder, rug |-> 0, nested |-> 0, answer |-> "none"]

\* open_position.
Position(o) ==
  [status |-> "OPEN", mint |-> o.mint, entry |-> o.entry, atr |-> o.atr1m,
   high |-> o.entry, stop |-> o.entry - TrailMult * o.atr1m, age |-> 0,
   exit |-> 0, reason |-> "none", best |-> o.entry, due |-> FALSE]

Unopened == [Position(NoOrder) EXCEPT !.status = "none"]

Init ==
  /\ mode \in Modes
  /\ call = [r \in Requests |-> Idle]
  /\ pos  = [r \in Requests |-> Unopened]
  /\ closed = <<>>
  /\ submitted = 0 /\ succeeded = 0

Held == {p \in Requests : pos[p].status \in {"OPEN", "TRAILING"}}

Higher(a, b) == IF a > b THEN a ELSE b
Lower(a, b)  == IF a < b THEN a ELSE b
LastOf(s, n) == IF Len(s) <= n THEN s ELSE SubSeq(s, Len(s) - n + 1, Len(s))

-----------------------------------------------------------------------------
(***************************************************************************)
(* execute_bundle.  c is the call of r so far.                             *)
(***************************************************************************)

Answer(r, c, answer) ==
  call' = [call EXCEPT ![r] = [c EXCEPT !.at = "done", !.answer = answer]]

Wait(r, c, at) ==
  /\ call' = [call EXCEPT ![r] = [c EXCEPT !.at = at]]
  /\ UNCHANGED <<mode, pos, closed, submitted, succeeded>>

Reject(r, c) ==
  /\ Answer(r, c, "REJECTED")
  /\ UNCHANGED <<mode, pos, closed, submitted, succeeded>>

\* Slip: the position is tracked whatever became of the bundle.
FailTracked(r, c) ==
  /\ Answer(r, c, "BUNDLE_FAILED")
  /\ submitted' = submitted + 1
  /\ pos' = [pos EXCEPT ![r] = Position(c.order)]
  /\ UNCHANGED <<mode, closed, succeeded>>

\* The bundle came back without success.
Fail(r, c) ==
  /\ Answer(r, c, "BUNDLE_FAILED")
  /\ submitted' = submitted + 1
  /\ UNCHANGED <<mode, pos, closed, succeeded>>

\* It came back with success, and its position is opened.
Open(r, c) ==
  /\ Answer(r, c, "EXECUTED")
  /\ submitted' = submitted + 1
  /\ succeeded' = succeeded + 1
  /\ pos' = [pos EXCEPT ![r] = Position(c.order)]
  /\ UNCHANGED <<mode, closed>>

\* volatility_gate, when there is data for it.
Calm(o) ==
  o.atr5m > 0 => 1000 * o.atr5m >= VolMin * o.entry /\ 1000 * o.atr5m <= VolMax * o.entry

\* The request after the anti-rug screen, up to the first call of
\* submit_bundle that waits.
Send(r, c) ==
  \/ ~Calm(c.order) /\ Reject(r, c)
  \/ Calm(c.order) /\ mode = "dry_run" /\ Open(r, c)
  \/ Calm(c.order) /\ mode \in {"guard", "jito"} /\ Wait(r, c, "sending")
  \/ Calm(c.order) /\ mode \notin {"dry_run", "guard", "jito"} /\ Fail(r, c)

Receive(r, o) ==
  /\ call[r].at = "new"
  /\ \E c \in {[call[r] EXCEPT !.order = o]} :
       \/ o.metrics /\ Wait(r, c, "screening")
       \/ ~o.metrics /\ Send(r, c)

\* pre_screen; no answer counts as a certain rug.
Screen(r, rug) ==
  /\ call[r].at = "screening"
  /\ \E c \in {[call[r] EXCEPT !.rug = rug]} :
       \/ rug > RugMax /\ Reject(r, c)
       \/ rug <= RugMax /\ Send(r, c)

\* submit_bundle is answered.  In guard mode no transactions are handed over,
\* and a blockhash is all it asks for.
Answered(r) ==
  call[r].at = "sending" /\ (Open(r, call[r]) \/ Fail(r, call[r]))

\* It is not: guard mode gives up; jito mode calls itself, in the same mode,
\* as deep as Python lets it.
Unanswered(r) ==
  /\ call[r].at = "sending"
  /\ \/ mode = "guard" /\ Fail(r, call[r])
     \/ /\ mode = "jito" /\ call[r].nested < Depth
        /\ Wait(r, [call[r] EXCEPT !.nested = @ + 1], "sending")
     \/ /\ mode = "jito" /\ call[r].nested >= Depth
        /\ Answer(r, call[r], "error")
        /\ UNCHANGED <<mode, pos, closed, submitted, succeeded>>

-----------------------------------------------------------------------------
(***************************************************************************)
(* The life of a position.                                                 *)
(***************************************************************************)

\* _close_position.
Exited(q, price, reason) ==
  [q EXCEPT !.status = "EXITED", !.exit = price, !.reason = reason]

Closing(order) == closed' = LastOf(closed \o order, ClosedCap)

\* Slip: any first move of the price starts the trailing.
MovedEitherWay(q, price) ==
  IF price # q.high
  THEN [q EXCEPT !.high = price, !.status = "TRAILING",
                 !.stop = Higher(@, price - TrailMult * q.atr)]
  ELSE q

\* A price moves the stop and the high, the first time it is a new high.
Moved(q, price) ==
  IF price > q.high
  THEN [q EXCEPT !.high = price, !.status = "TRAILING",
                 !.stop = Higher(@, price - TrailMult * q.atr)]
  ELSE q

\* History: the best price, and whether this one is at the stop or past the time.
Fed(q, price) ==
  [q EXCEPT !.best = Higher(@, price),
            !.due = price <= Moved(q, price).stop \/ q.age >= AutoExit]

\* A position that trails is not looked at.
Followed(q) == q.status = "OPEN"

\* update_trail_stop.
Update(p, price) ==
  /\ p \in Held
  /\ \E q \in {Fed(pos[p], price)} :
       \E m \in {Moved(q, price)} :
         \/ /\ ~Followed(q)
            /\ pos' = [pos EXCEPT ![p] = q]
            /\ UNCHANGED closed
         \/ /\ Followed(q) /\ price <= m.stop
            /\ pos' = [pos EXCEPT ![p] = Exited(m, price, "trail_stop")]
            /\ Closing(<<p>>)
         \/ /\ Followed(q) /\ price > m.stop /\ q.age >= AutoExit
            /\ pos' = [pos EXCEPT ![p] = Exited(m, price, "auto_exit_timeout")]
            /\ Closing(<<p>>)
         \/ /\ Followed(q) /\ price > m.stop /\ q.age < AutoExit
            /\ pos' = [pos EXCEPT ![p] = m]
            /\ UNCHANGED closed
  /\ UNCHANGED <<mode, call, submitted, succeeded>>

OfMint(mint) == {p \in Held : pos[p].mint = mint}

\* emergency_exit.
EmergencyExit(mint) ==
  /\ \E gone \in {OfMint(mint)} :
       /\ pos' = [p \in Requests |->
                    IF p \in gone THEN Exited(pos[p], 0, "emergency_exit")
                    ELSE pos[p]]
       /\ \E order \in SetToSeqs(gone) : Closing(order)
  /\ UNCHANGED <<mode, call, submitted, succeeded>>

\* time.time moves on, for the positions that are held.
Clock ==
  /\ pos' = [p \in Requests |->
               IF p \in Held THEN [pos[p] EXCEPT !.age = Lower(@ + 1, AutoExit)]
                             ELSE pos[p]]
  /\ UNCHANGED <<mode, call, closed, submitted, succeeded>>

-----------------------------------------------------------------------------
Next ==
  \/ \E r \in Requests :
       \/ \E o \in Orders : Receive(r, o)
       \/ \E rug \in Rugs \cup {100} : Screen(r, rug)
       \/ Answered(r)
       \/ Unanswered(r)
       \/ \E price \in Prices : Update(r, price)
  \/ \E mint \in Mints : EmergencyExit(mint)
  \/ Clock

Spec == Init /\ [][Next]_vars

-----------------------------------------------------------------------------
(***************************************************************************)
(* Properties.                                                             *)
(***************************************************************************)

Told(answers) == {r \in Requests : call[r].answer \in answers}

Opened == {p \in Requests : pos[p].status # "none"}

TypeOK ==
  /\ mode \in Modes
  /\ call \in [Requests ->
       [at : {"new", "screening", "sending", "done"}, order : Orders \cup {NoOrder},
        rug : Nat, nested : 0 .. Depth,
        answer : {"none", "REJECTED", "BUNDLE_FAILED", "EXECUTED", "error"}]]
  /\ pos \in [Requests ->
       [status : {"none", "OPEN", "TRAILING", "EXITED"}, mint : Mints \cup {"none"},
        entry : Nat \ {0}, atr : Nat \ {0}, high : Nat, stop : Int, age : 0 .. AutoExit,
        exit : Nat, best : Nat, due : BOOLEAN,
        reason : {"none", "trail_stop", "auto_exit_timeout", "emergency_exit"}]]
  /\ closed \in Seq(Requests)
  /\ submitted \in Nat /\ succeeded \in Nat

\* The books agree: a request was told EXECUTED exactly if it has a position,
\* for the mint and the price it asked for and past the screens it asked for;
\* the counters count the bundles that came back and those that succeeded; and
\* the log holds the latest exits, each position once.
Accounted ==
  LET gone == {p \in Opened : pos[p].status = "EXITED"} IN
  /\ Opened = Told({"EXECUTED"})
  /\ \A p \in Opened :
       /\ pos[p].mint = call[p].order.mint /\ pos[p].entry = call[p].order.entry
       /\ call[p].rug <= RugMax /\ Calm(call[p].order)
  /\ succeeded = Cardinality(Opened)
  /\ submitted = Cardinality(Told({"EXECUTED", "BUNDLE_FAILED"}))
  /\ Len(closed) = Lower(Cardinality(gone), ClosedCap)
  /\ ToSet(closed) \subseteq gone
  /\ IsInjective(closed)

\* How a position ends tells how it lived.  The trailing stop closes it a full
\* distance below the best price ever fed to it, the time exit closes it above
\* that and not before its time, and an emergency exit at no price.  A position
\* that is still OPEN never saw a price above its entry, and one that is TRAILING
\* did, and its stop has followed its high.
ExitsTellHistory ==
  \A p \in Opened :
    LET q == pos[p]
        floor == q.best - TrailMult * q.atr
    IN
    /\ q.reason = "trail_stop" => q.exit <= floor
    /\ q.reason = "auto_exit_timeout" => q.age >= AutoExit /\ q.exit > floor
    /\ q.reason = "emergency_exit" => q.exit = 0
    /\ q.status = "OPEN" => q.best = q.entry
    /\ q.status = "TRAILING" => q.best > q.entry /\ q.stop = q.high - TrailMult * q.atr

\* A price at or below the stop, or one that comes when the time is up, ends the
\* position it is fed to, as the comments of update_trail_stop have it.  It does
\* not: the first new high makes the position TRAILING, and an update looks at
\* OPEN ones only.
ExitsWhenDue == \A p \in Held : ~pos[p].due
=============================================================================
