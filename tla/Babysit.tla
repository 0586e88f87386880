------------------------------- MODULE Babysit -------------------------------
(***************************************************************************)
(* Who looks after a position once it is open: the babysit loop of         *)
(* maestro_v3.py, the requests that place orders and register positions    *)
(* meanwhile, the executioner that is asked to close them, and the process *)
(* that may die with all its memory.                                       *)
(*                                                                         *)
(* The loop and the requests share an event loop and interleave at every   *)
(* await; one action is what happens between two awaits that matter.  The  *)
(* position manager is reduced to what the loop can see of it (Apm models  *)
(* the rest): a tick holds or exits, exits at the latest when the time     *)
(* limit has passed, and raises if the position has no entry price.  The   *)
(* exchange may close a position on its own, by the order's brackets.      *)
(***************************************************************************)
EXTENDS Naturals

CONSTANTS
  Pids,       \* positions that may be opened
  Symbol,     \* Symbol[p]: the exec_symbol of a position
  Quoted,     \* symbols that SpoofHunter and the ticker know by that name
  Side,       \* Side[p]: the side the decision gave it
  Priced,     \* positions registered with an entry price
  Limit,      \* time_limit_s
  MaxCrashes  \* how often the process may die

ASSUME PositionsAssumption ==
  /\ Side \in [Pids -> {"LONG", "SHORT", "NONE"}]
  /\ Priced \subseteq Pids
ASSUME BoundsAssumption == Limit \in Nat \ {0} /\ MaxCrashes \in Nat

VARIABLES
  request,  \* request[p]: "none", "placed" (order open, not registered), "settled"
  open,     \* positions open at the exchange
  held,     \* keys of the manager's _positions
  turn,     \* order of registration, in which the loop visits positions
  served,   \* how many were registered
  age,      \* age[p] of a held position, up to Limit
  seen,     \* held positions with a current_price
  stage,    \* where the loop is, "down" when there is no process
  todo,     \* positions of this cycle's snapshot still to be visited
  sent,     \* sent[p]: close orders sent for p
  unwatched,\* positions whose order was never meant to be registered (history)
  excused,  \* positions lost to a fault outside the loop (history)
  crashes

history == <<unwatched, excused>>

vars == <<request, open, held, turn, served, age, seen, stage, todo, sent,
          unwatched, excused, crashes>>

Stages == {"look", "price", "tick", "close", "wait", "down"}

Init ==
  /\ request = [p \in Pids |-> "none"]
  /\ open = {} /\ held = {} /\ seen = {} /\ todo = {}
  /\ unwatched = {} /\ excused = {}
  /\ turn = [p \in Pids |-> 0]
  /\ age = [p \in Pids |-> 0]
  /\ sent = [p \in Pids |-> 0]
  /\ served = 0 /\ crashes = 0
  /\ stage = "look"

Running == stage # "down"

-----------------------------------------------------------------------------
(***************************************************************************)
(* Requests.                                                               *)
(***************************************************************************)

\* The executioner places the order of /orchestrate, which goes on to register
\* the position.
Place(p) ==
  /\ Running /\ request[p] = "none"
  /\ request' = [request EXCEPT ![p] = "placed"]
  /\ open' = open \cup {p}
  /\ UNCHANGED <<held, turn, served, age, seen, stage, todo, sent, history, crashes>>

\* It places one that nobody registers: that of /orchestrate_v2, any with
\* APM_ENABLED off (the loop is not started then; with nothing held it would
\* do nothing), and one it reports in other words than SUCCESS or EXECUTED.
PlaceUnwatched(p) ==
  /\ Running /\ request[p] = "none"
  /\ request' = [request EXCEPT ![p] = "settled"]
  /\ open' = open \cup {p}
  /\ unwatched' = unwatched \cup {p}
  /\ UNCHANGED <<held, turn, served, age, seen, stage, todo, sent, excused, crashes>>

Register(p) ==
  /\ request[p] = "placed"
  /\ request' = [request EXCEPT ![p] = "settled"]
  /\ held' = held \cup {p}
  /\ served' = served + 1
  /\ turn' = [turn EXCEPT ![p] = served + 1]
  /\ UNCHANGED <<open, age, seen, stage, todo, sent, history, crashes>>

\* The answer to the order got lost in every attempt, or the registration
\* raised: the request ends, the position stays.
Abandon(p) ==
  /\ request[p] = "placed"
  /\ request' = [request EXCEPT ![p] = "settled"]
  /\ excused' = excused \cup {p}
  /\ UNCHANGED <<open, held, turn, served, age, seen, stage, todo, sent, unwatched,
                 crashes>>

-----------------------------------------------------------------------------
(***************************************************************************)
(* The loop: a cycle visits a snapshot of the held positions in the order  *)
(* of their registration, each with a price, a tick and, on an exit, a     *)
(* close order.                                                            *)
(***************************************************************************)

\* p is the position the loop is at.
Current(p) == p \in todo /\ \A q \in todo : turn[p] <= turn[q]

Look ==
  /\ stage = "look" /\ held # {}
  /\ todo' = held
  /\ stage' = "price"
  /\ UNCHANGED <<request, open, held, turn, served, age, seen, sent, history, crashes>>

\* On to the next position of the snapshot.
GoOn(p) ==
  /\ todo' = todo \ {p}
  /\ stage' = IF todo' = {} THEN "wait" ELSE "price"

\* A price from SpoofHunter, failing that the last one, failing that the
\* exchange's ticker.
PriceKnown(p) ==
  /\ stage = "price" /\ Current(p)
  /\ Symbol[p] \in Quoted \/ p \in seen
  /\ stage' = "tick"
  /\ UNCHANGED <<request, open, held, turn, served, age, seen, todo, sent, history, crashes>>

\* Nobody answers, or not for that name: the position is passed over.
PriceUnknown(p) ==
  /\ stage = "price" /\ Current(p)
  /\ p \notin seen
  /\ GoOn(p)
  /\ UNCHANGED <<request, open, held, turn, served, age, seen, sent, history, crashes>>

\* A tick that knows no time limit.
TickHoldsUnlimited(p) ==
  /\ stage = "tick" /\ Current(p) /\ p \in Priced
  /\ seen' = seen \cup {p}
  /\ GoOn(p)
  /\ UNCHANGED <<request, open, held, turn, served, age, sent, history, crashes>>

TickHolds(p) ==
  /\ stage = "tick" /\ Current(p) /\ p \in Priced
  /\ age[p] < Limit
  /\ seen' = seen \cup {p}
  /\ GoOn(p)
  /\ UNCHANGED <<request, open, held, turn, served, age, sent, history, crashes>>

\* Exits that leave the position with the manager, that take everything of
\* the symbol from it, and that are not followed by a close order.
TickExitsKeeping(p) ==
  /\ stage = "tick" /\ Current(p) /\ p \in Priced
  /\ stage' = "close"
  /\ UNCHANGED <<request, open, held, turn, served, age, seen, todo, sent, history, crashes>>

TickExitsSymbol(p) ==
  /\ stage = "tick" /\ Current(p) /\ p \in Priced
  /\ \E gone \in {{q \in held : Symbol[q] = Symbol[p]}} :
       /\ held' = held \ gone
       /\ seen' = seen \ gone
       /\ age' = [q \in Pids |-> IF q \in gone THEN 0 ELSE age[q]]
  /\ stage' = "close"
  /\ UNCHANGED <<request, open, turn, served, todo, sent, history, crashes>>

TickExitsUnclosed(p) ==
  /\ stage = "tick" /\ Current(p) /\ p \in Priced
  /\ held' = held \ {p}
  /\ seen' = seen \ {p}
  /\ age' = [age EXCEPT ![p] = 0]
  /\ GoOn(p)
  /\ UNCHANGED <<request, open, turn, served, sent, history, crashes>>

\* The manager has removed the position before the close order goes out.
TickExits(p) ==
  /\ stage = "tick" /\ Current(p) /\ p \in Priced
  /\ held' = held \ {p}
  /\ seen' = seen \ {p}
  /\ age' = [age EXCEPT ![p] = 0]
  /\ stage' = "close"
  /\ UNCHANGED <<request, open, turn, served, todo, sent, history, crashes>>

\* The exception ends the cycle for everyone after p.
TickRaises(p) ==
  /\ stage = "tick" /\ Current(p) /\ p \notin Priced
  /\ seen' = seen \cup {p}
  /\ todo' = {}
  /\ stage' = "wait"
  /\ UNCHANGED <<request, open, held, turn, served, age, sent, history, crashes>>

\* A side of NONE is bought, and closed by buying.
OrderSide(p) == IF Side[p] = "SHORT" THEN "sell" ELSE "buy"
CloseSide(p) == IF Side[p] = "LONG" THEN "sell" ELSE "buy"

\* What a reduce-only order without a quantity closes: whatever is open in
\* its symbol the other way.
Reduced(p) == {q \in open : Symbol[q] = Symbol[p] /\ OrderSide(q) # CloseSide(p)}

Closes(p) ==
  /\ stage = "close" /\ Current(p)
  /\ sent' = [sent EXCEPT ![p] = @ + 1]
  /\ open' = open \ Reduced(p)
  /\ GoOn(p)
  /\ UNCHANGED <<request, held, turn, served, age, seen, history, crashes>>

\* The executioner fails or cannot be reached: logged, and never tried again.
CloseFails(p) ==
  /\ stage = "close" /\ Current(p)
  /\ sent' = [sent EXCEPT ![p] = @ + 1]
  /\ excused' = excused \cup {p}
  /\ GoOn(p)
  /\ UNCHANGED <<request, open, held, turn, served, age, seen, unwatched, crashes>>

Wake ==
  /\ stage = "wait"
  /\ stage' = "look"
  /\ UNCHANGED <<request, open, held, turn, served, age, seen, todo, sent, history, crashes>>

-----------------------------------------------------------------------------
(***************************************************************************)
(* The world around it.                                                    *)
(***************************************************************************)

\* Take profit or stop loss at the exchange.
Bracket(p) ==
  /\ p \in open
  /\ open' = open \ {p}
  /\ UNCHANGED <<request, held, turn, served, age, seen, stage, todo, sent, history, crashes>>

Clock ==
  /\ age' = [p \in Pids |-> IF p \in held /\ age[p] < Limit THEN age[p] + 1 ELSE age[p]]
  /\ UNCHANGED <<request, open, held, turn, served, seen, stage, todo, sent, history, crashes>>

\* The process is killed, or shut down: the loop is cancelled wherever it is.
Crash ==
  /\ Running /\ crashes < MaxCrashes
  /\ crashes' = crashes + 1
  /\ stage' = "down"
  /\ held' = {} /\ todo' = {} /\ seen' = {} /\ served' = 0
  /\ turn' = [p \in Pids |-> 0]
  /\ age' = [p \in Pids |-> 0]
  /\ request' = [p \in Pids |-> IF request[p] = "placed" THEN "settled" ELSE request[p]]
  /\ excused' = excused \cup open
  /\ UNCHANGED <<open, sent, unwatched>>

\* Nothing is fetched from the exchange: the manager starts empty.
Restart ==
  /\ stage = "down"
  /\ stage' = "look"
  /\ UNCHANGED <<request, open, held, turn, served, age, seen, todo, sent, history, crashes>>

Visit(p) ==
  \/ PriceKnown(p) \/ PriceUnknown(p)
  \/ TickHolds(p) \/ TickExits(p) \/ TickRaises(p)
  \/ Closes(p) \/ CloseFails(p)

Loop == Look \/ Wake \/ \E p \in Pids : Visit(p)

Next ==
  \/ Loop
  \/ \E p \in Pids : \/ Place(p) \/ PlaceUnwatched(p) \/ Register(p) \/ Abandon(p)
                     \/ Bracket(p)
  \/ Clock \/ Crash \/ Restart

Spec == Init /\ [][Next]_vars

\* Every wait of the loop has a timeout, so it keeps going; time passes; and
\* a price that one of the services knows is got again and again.
FairSpec ==
  /\ Spec /\ WF_vars(Loop) /\ WF_vars(Clock)
  /\ \A p \in Pids : SF_vars(PriceKnown(p))

-----------------------------------------------------------------------------
(***************************************************************************)
(* Properties.                                                             *)
(***************************************************************************)

TypeOK ==
  /\ request \in [Pids -> {"none", "placed", "settled"}]
  /\ open \subseteq Pids /\ held \subseteq Pids /\ seen \subseteq held
  /\ todo \subseteq Pids /\ unwatched \subseteq Pids /\ excused \subseteq Pids
  /\ turn \in [Pids -> Nat] /\ served \in Nat
  /\ age \in [Pids -> 0..Limit]
  /\ stage \in Stages
  /\ todo # {} <=> stage \in {"price", "tick", "close"}
  /\ sent \in [Pids -> Nat]
  /\ crashes \in 0..MaxCrashes

\* The position whose close order is under way.
Closing(p) == stage = "close" /\ Current(p)

\* A position that is open at the exchange has somebody who will see to it:
\* the request that is about to register it, the manager, or a close order
\* under way.  Where nobody does, either its order was never meant to be
\* registered (/orchestrate_v2, APM off, an unknown report), or a fault outside
\* the loop is the reason: an answer or a close order lost, or the death of the
\* process.  (A position of side NONE is closed in the direction it was opened
\* in.)
OrphansExplained ==
  \A p \in open :
    Side[p] \in {"LONG", "SHORT"} =>
      \/ p \in held \/ request[p] = "placed" \/ Closing(p)
      \/ p \in unwatched \cup excused

\* No two close orders go out for one position, so none goes out when the
\* position is gone already on account of another one.  (The one there is
\* names a symbol and can still close what was opened in it since.)
ClosedOnce == \A p \in Pids : sent[p] <= 1

\* The snapshot of a cycle does not go stale over its awaits: a position
\* still to be visited is still held, but for the one being closed.
SnapshotIsLive == \A p \in todo : p \in held \/ Closing(p)

\* A position without an entry price that the loop visits before p.
Shadowed(p) == \E q \in held \ Priced : turn[q] < turn[p]

\* A held position with a price is closed at the exchange, unless an earlier
\* one without entry price keeps the loop from getting there, or a fault
\* outside the loop loses it.
EveryoneIsReached ==
  \A p \in Pids :
    p \in held \cap Priced /\ Symbol[p] \in Quoted /\ Side[p] \in {"LONG", "SHORT"}
      ~> p \notin open \/ p \in excused \/ Shadowed(p)

(***************************************************************************)
(* What the loop's docstring says and the code does not do (a violation    *)
(* run).                                                                   *)
(***************************************************************************)

\* maestro_v3.py:175-180: every interval everything is fed to process_tick,
\* so a held position gets a first tick.
EveryoneIsFed == \A p \in Pids : p \in held ~> p \in seen \/ p \notin held
=============================================================================
