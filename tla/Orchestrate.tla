----------------------------- MODULE Orchestrate -----------------------------
(***************************************************************************)
(* One request to the orchestrator: POST /orchestrate (v3 confluence) or   *)
(* POST /orchestrate_v2 (the legacy linear pipeline) of maestro_v3.py, up  *)
(* to its answer.  It gathers the signals, decides, sends the order to the *)
(* executioner with retries and registers the position with the APM.       *)
(*                                                                         *)
(* What is outside: the signal nodes (any reply their adapter can turn     *)
(* into a signal, a failure, or silence until the deadline; the circuit    *)
(* breaker and the rate limiter only add ways of being unavailable) and    *)
(* the executioner, which may have placed the order although its answer    *)
(* was an error or got lost.  The process may crash at any step; what it   *)
(* had placed stays placed.                                                *)
(***************************************************************************)
EXTENDS Confluence

CONSTANTS
  Brain, Shadow,  \* the two nodes the code treats specially
  Replies,        \* Replies[n]: what node n may answer
  Requests,       \* requests that may arrive
  ConfigMode,     \* cfg.confluence_mode
  ConfigMinConf,  \* cfg.min_confidence
  Attempts,       \* cfg.attempts
  BaseRisk,       \* req.base_risk_pct
  Floor, Cap,     \* the bounds 0.0005 and 0.05 of the order size
  LegacyMinConf   \* 0.55, what v2 takes a min_confidence of zero for

\* A request: which endpoint, dry_run, its own mode (or "DEFAULT" when it
\* has none or an invalid one), min_confidence and scale_by_confidence.
Request == [pipeline : {"v3", "v2"}, dry : BOOLEAN, mode : Modes \cup {"DEFAULT"},
            minConf : 0..Scale, scaled : BOOLEAN]

ASSUME NodesAssumption   == {Brain, Shadow} \subseteq Nodes /\ Brain # Shadow
ASSUME RepliesAssumption == Replies \in [Nodes -> SUBSET Signal]
ASSUME RequestAssumption == Requests \subseteq Request
ASSUME ConfigAssumption  == ConfigMode \in Modes /\ ConfigMinConf \in 0..Scale
ASSUME SizeAssumption    ==
  /\ Attempts \in Nat \ {0}
  /\ BaseRisk \in Nat /\ Floor \in Nat /\ Cap \in Nat /\ Floor <= Cap
  /\ LegacyMinConf \in 0..Scale

VARIABLES
  phase,     \* where the handler is
  req,       \* the request
  pending,   \* gathered nodes that have not answered yet
  sig,       \* signals so far, Down for the rest
  decision,  \* the ConfluenceResult, or v2's reading of the brain
  attempts,  \* POSTs to /execute_strike so far
  unclear,   \* how many of them left it open whether an order was placed
  orders,    \* orders placed at the exchange
  tracked,   \* whether the APM holds the position
  reply      \* the status the client reads

vars == <<phase, req, pending, sig, decision, attempts, unclear, orders,
          tracked, reply>>

Phases == {"gather", "brain", "decide", "execute", "register", "done", "crashed"}

ReplyStatus ==
  {"none", "WAIT", "KILL", "SKIPPED", "DRY_RUN", "EXECUTED", "REJECTED", "400", "502"}

Gathered == Nodes \ {Brain}

\* v2 asks shadowglass only, then the brain.
AskedFirst(r) == IF r.pipeline = "v3" THEN Gathered ELSE {Shadow}

Init ==
  /\ phase    = "gather"
  /\ req      \in Requests
  /\ pending  = AskedFirst(req)
  /\ sig      = [n \in Nodes |-> Down]
  /\ decision = NoTrade("WAIT", "NONE")
  /\ attempts = 0
  /\ unclear  = 0
  /\ orders   = 0
  /\ tracked  = FALSE
  /\ reply    = "none"

-----------------------------------------------------------------------------
(***************************************************************************)
(* What adapters make of an answer (node_adapters.py).                     *)
(***************************************************************************)

\* call_shadowglass: an imbalance above 0.15 is a vote, its size the
\* confidence.
ShadowSignal(imbalance) ==
  LET size == IF imbalance < 0 THEN -imbalance ELSE imbalance IN
  IF 100 * size > 15 * Scale
    THEN Reply("EXECUTE", IF imbalance > 0 THEN "LONG" ELSE "SHORT", size, Scale)
    ELSE Reply("WAIT", "NONE", 0, Scale)

\* call_antirug: a veto or nothing.
RugSignal(status, rugProb) ==
  Reply(IF status = "REJEITADO" THEN "KILL" ELSE "WAIT", "NONE",
        Scale - rugProb, Scale)

-----------------------------------------------------------------------------
(***************************************************************************)
(* Gathering: the parallel part ends when all have answered or at the      *)
(* deadline, the brain is asked after it.                                  *)
(***************************************************************************)

Answer(n) ==
  /\ phase = "gather"
  /\ n \in pending
  /\ pending' = pending \ {n}
  /\ \E r \in Replies[n] : sig' = [sig EXCEPT ![n] = AsSignal(r)]
  /\ UNCHANGED <<phase, req, decision, attempts, unclear, orders, tracked, reply>>

\* Waiting for every node, without a deadline.
GatherDoneAll ==
  /\ phase = "gather"
  /\ pending = {}
  /\ phase' = "brain"
  /\ UNCHANGED <<req, pending, sig, decision, attempts, unclear, orders, tracked, reply>>

\* The deadline cancels the stragglers; a node the breaker refused or whose
\* call failed is Down just the same.  v2 has no deadline and no breaker.
GatherDone ==
  /\ phase = "gather"
  /\ req.pipeline = "v3" \/ pending = {}
  /\ pending' = {}
  /\ phase' = "brain"
  /\ UNCHANGED <<req, sig, decision, attempts, unclear, orders, tracked, reply>>

Finish(status) ==
  /\ phase' = "done"
  /\ reply' = status

\* A ValueError is answered with 400, any other exception with 502.
Raise == Finish("400") \/ Finish("502")

\* v2: shadowglass failing all its attempts fails the request.
V2ShadowFails ==
  /\ phase = "gather" /\ req.pipeline = "v2" /\ pending # {}
  /\ Raise
  /\ UNCHANGED <<req, pending, sig, decision, attempts, unclear, orders, tracked>>

\* v3 may find the brain unavailable; v2 reads its numbers as they are.
AskBrain ==
  /\ phase = "brain"
  /\ phase' = "decide"
  /\ \/ /\ req.pipeline = "v3"
        /\ \E r \in Replies[Brain] \cup {Down} :
             sig' = [sig EXCEPT ![Brain] = AsSignal(r)]
     \/ /\ req.pipeline = "v2"
        /\ \E r \in Replies[Brain] : sig' = [sig EXCEPT ![Brain] = r]
  /\ UNCHANGED <<req, pending, decision, attempts, unclear, orders, tracked, reply>>

\* A brain answer that does not parse raises out of the handler, in v2 also
\* a brain that fails all attempts.
BrainRaises ==
  /\ phase = "brain"
  /\ Raise
  /\ UNCHANGED <<req, pending, sig, decision, attempts, unclear, orders, tracked>>

-----------------------------------------------------------------------------
(***************************************************************************)
(* Deciding.                                                               *)
(***************************************************************************)

\* The engine of the request.  Only a request that overrides the mode gets
\* an engine with its own min_confidence.
EngineMode(r)    == IF r.mode = "DEFAULT" THEN ConfigMode ELSE r.mode
EngineMinConf(r) == IF r.mode = "DEFAULT" THEN ConfigMinConf ELSE r.minConf

V3Decision(r) == Evaluate(EngineMode(r), EngineMinConf(r), sig)

\* The brain's confidence is not looked at.
V2DecisionNoMin(r) ==
  LET b == sig[Brain] IN
  IF b.action = "EXECUTE"
    THEN [action |-> "EXECUTE", side |-> b.side, conf |-> b.conf, risk |-> b.risk]
    ELSE NoTrade("WAIT", "NONE")

V2MinConf(r) == IF r.minConf = 0 THEN LegacyMinConf ELSE r.minConf

\* run_pipeline's reading of the brain alone.
V2Decision(r) ==
  LET b == sig[Brain] IN
  IF b.action = "EXECUTE" /\ b.conf >= V2MinConf(r)
    THEN [action |-> "EXECUTE", side |-> b.side, conf |-> b.conf, risk |-> b.risk]
    ELSE NoTrade("WAIT", "NONE")

\* The client's status of a request that does not go to the executioner.
StatusOf(r, d) ==
  CASE r.pipeline = "v3" /\ d.action # "EXECUTE" -> d.action
    [] r.pipeline = "v2" /\ d.action # "EXECUTE" -> "SKIPPED"
    [] r.pipeline = "v2" /\ d.action = "EXECUTE" /\ d.side \notin Sides -> "400"
    [] OTHER -> "DRY_RUN"

\* map_side refuses a side that is neither LONG nor SHORT in v2; v3 sends
\* it as "buy".
GoesToExecutioner(r, d) ==
  /\ d.action = "EXECUTE"
  /\ ~r.dry
  /\ r.pipeline = "v3" \/ d.side \in Sides

Decide ==
  LET d == IF req.pipeline = "v3" THEN V3Decision(req) ELSE V2Decision(req) IN
  /\ phase = "decide"
  /\ decision' = d
  /\ IF GoesToExecutioner(req, d)
       THEN phase' = "execute" /\ UNCHANGED reply
       ELSE Finish(StatusOf(req, d))
  /\ UNCHANGED <<req, pending, sig, attempts, unclear, orders, tracked>>

\* The order's size.
ConfidenceScale(r, d) ==
  CASE ~r.scaled -> Scale
    [] r.scaled /\ r.pipeline = "v3" -> d.conf
    [] OTHER -> Clamp(d.conf, Scale \div 4, Scale)

OrderRisk(r, d) ==
  Clamp((BaseRisk * d.risk * ConfidenceScale(r, d)) \div (Scale * Scale), Floor, Cap)

-----------------------------------------------------------------------------
(***************************************************************************)
(* Executing: retry_with_backoff around one POST to /execute_strike.       *)
(***************************************************************************)

\* The loop goes on after an attempt that succeeded.
StrikeRetriedAfterSuccess ==
  /\ phase = "execute" /\ attempts < Attempts
  /\ attempts' = attempts + 1
  /\ orders' = orders + 1
  /\ IF attempts' = Attempts THEN phase' = "register" ELSE UNCHANGED phase
  /\ UNCHANGED <<req, pending, sig, decision, unclear, tracked, reply>>

\* One attempt that the executioner answered with 200: it accepted the
\* order, or refused it with a status of its own.
StrikeAccepted ==
  /\ phase = "execute"
  /\ attempts' = attempts + 1
  /\ orders' = orders + 1
  /\ IF req.pipeline = "v3"
       THEN phase' = "register" /\ UNCHANGED reply
       ELSE Finish("EXECUTED")
  /\ UNCHANGED <<req, pending, sig, decision, unclear, tracked>>

StrikeRefused ==
  /\ phase = "execute"
  /\ attempts' = attempts + 1
  /\ Finish("REJECTED")
  /\ UNCHANGED <<req, pending, sig, decision, unclear, orders, tracked>>

\* The last failure is swallowed.
StrikeUnclearSwallowed ==
  /\ phase = "execute"
  /\ attempts' = attempts + 1
  /\ unclear' = unclear + 1
  /\ \E placed \in {0, 1} : orders' = orders + placed
  /\ IF attempts' < Attempts
       THEN UNCHANGED <<phase, reply>>
       ELSE Finish("EXECUTED")
  /\ UNCHANGED <<req, pending, sig, decision, tracked>>

\* A timeout, a connection error, one of 429, 500, 502, 503, 504 or a body
\* that is no JSON: the order may have been placed.  It is tried again unless
\* this was the last attempt.
StrikeUnclear ==
  /\ phase = "execute"
  /\ attempts' = attempts + 1
  /\ unclear' = unclear + 1
  /\ \E placed \in {0, 1} : orders' = orders + placed
  /\ IF attempts' < Attempts
       THEN UNCHANGED <<phase, reply>>
       ELSE Raise
  /\ UNCHANGED <<req, pending, sig, decision, tracked>>

\* Any other error status is raised at once.
StrikeRaises ==
  /\ phase = "execute"
  /\ attempts' = attempts + 1
  /\ Finish("502")
  /\ UNCHANGED <<req, pending, sig, decision, unclear, orders, tracked>>

\* Registration with the APM; an exception in it is logged, the trade stays.
Register ==
  /\ phase = "register"
  /\ tracked' \in BOOLEAN
  /\ Finish("EXECUTED")
  /\ UNCHANGED <<req, pending, sig, decision, attempts, unclear, orders>>

\* The process dies; its positions are in memory only.
Crash ==
  /\ phase # "crashed"
  /\ phase' = "crashed"
  /\ tracked' = FALSE
  /\ UNCHANGED <<req, pending, sig, decision, attempts, unclear, orders, reply>>

Progress ==
  \/ GatherDone \/ V2ShadowFails
  \/ AskBrain \/ BrainRaises
  \/ Decide
  \/ StrikeAccepted \/ StrikeRefused \/ StrikeUnclear \/ StrikeRaises
  \/ Register

Next == (\E n \in Nodes : Answer(n)) \/ Progress \/ Crash

\* A gathered node may never answer; every other wait of the handler has a
\* timeout of its own, so it keeps going.
Spec == Init /\ [][Next]_vars /\ WF_vars(Progress)

-----------------------------------------------------------------------------
(***************************************************************************)
(* Properties of a request.                                                *)
(***************************************************************************)

TypeOK ==
  /\ phase \in Phases
  /\ req \in Requests
  /\ pending \subseteq Nodes
  /\ sig \in [Nodes -> Signal]
  /\ decision \in Decision
  /\ attempts \in 0..Attempts
  /\ unclear \in 0..Attempts
  /\ orders \in 0..Attempts
  /\ req.pipeline = "v3" =>
       /\ decision.conf \in 0..Scale /\ decision.risk \in 0..Scale
       /\ \A n \in Nodes : sig[n].conf \in 0..Scale
  /\ tracked \in BOOLEAN
  /\ reply \in ReplyStatus

\* Whatever the order of answers, deadline, retries and crashes: an order
\* exists only for a request that was no dry run and whose signals justify
\* it.  In v3 no required node was missing, no survival node killed, and
\* enough confidence stood behind the side; in v2 the brain alone did.
OrderJustified ==
  orders > 0 =>
    /\ ~req.dry
    /\ \/ /\ req.pipeline = "v3"
          /\ Justified(EngineMinConf(req), sig, decision.side)
       \/ /\ req.pipeline = "v2"
          /\ sig[Brain].action = "EXECUTE"
          /\ sig[Brain].side = decision.side /\ decision.side \in Sides
          /\ sig[Brain].conf >= V2MinConf(req)

\* A request places at most one order more than the number of attempts whose
\* outcome it could not know: retries add orders only through lost answers.
DuplicatesExplained == orders <= unclear + 1

\* The status the client reads never hides an order: anything but an error
\* (400 and 502 alike) and a refusal after an unclear attempt says whether
\* one was placed.
StatusTellsOrders ==
  /\ reply \in {"WAIT", "KILL", "SKIPPED", "DRY_RUN"} => orders = 0
  /\ reply = "EXECUTED" => orders >= 1
  /\ reply = "REJECTED" => orders <= unclear

\* Only a position that was ordered is tracked by the APM.
TrackedWasOrdered == tracked => orders >= 1 /\ decision.action = "EXECUTE"

\* A v3 order never risks more than the request asked for (except that the
\* floor may lift it), whatever multipliers the nodes sent.
RiskWithinRequest ==
  orders > 0 /\ req.pipeline = "v3" =>
    OrderRisk(req, decision) <= (IF BaseRisk > Floor THEN BaseRisk ELSE Floor)

\* Every request is answered, unless the process dies.
AlwaysAnswered == phase = "gather" ~> phase \in {"done", "crashed"}

(***************************************************************************)
(* Properties of the engine, on the signals of every request.              *)
(***************************************************************************)

\* No directional bias: with LONG and SHORT exchanged the decision is the
\* mirror image, in every mode but OR (whose tie is broken for LONG).
SideSymmetric ==
  phase = "decide" =>
    \A mode \in Modes \ {"OR"} :
      LET d == Evaluate(mode, ConfigMinConf, sig)
          m == Evaluate(mode, ConfigMinConf, Mirror(sig)) IN
      /\ m.action = d.action
      /\ m.side = (IF d.side \in Sides THEN Opposite(d.side) ELSE d.side)
      /\ m.conf = d.conf /\ m.risk = d.risk

\* The modes are ordered by strictness: what AND trades MAJORITY trades, and
\* what MAJORITY trades OR trades, on the same side.
ModesNested ==
  phase = "decide" /\ Fallback # "EXECUTE" =>
    \A minConf \in {0, ConfigMinConf} :
      LET d(mode) == Evaluate(mode, minConf, sig) IN
      /\ d("AND").action = "EXECUTE" => d("MAJORITY") = d("AND")
      /\ d("MAJORITY").action = "EXECUTE" => d("OR") = d("MAJORITY")

\* A node that did not back the trade and now does, at or above the required
\* confidence, never turns the trade into none: agreement cannot hurt,
\* whatever the weights, and whichever way the node was leaning before.  The
\* engine only sees clamped confidences, those of a v3 request; v2 takes the
\* brain's number as it comes and asks no engine.
SupportNeverHurts ==
  phase = "decide" /\ req.pipeline = "v3" /\ Fallback # "EXECUTE" =>
    \A mode \in Modes, conf \in {ConfigMinConf, Scale} :
      LET d == Evaluate(mode, ConfigMinConf, sig) IN
      d.action = "EXECUTE" =>
        \A n \in DirectionNodes \ Backing(sig, d.side) :
          LET e == Evaluate(mode, ConfigMinConf, Supported(sig, n, d.side, conf)) IN
          e.action = "EXECUTE" /\ e.side = d.side

(***************************************************************************)
(* What a comment says and the code does not do (a violation run).         *)
(***************************************************************************)

\* dreamer.py:578, a risk multiplier of 0 means no trade.
ZeroRiskNoTrade == orders > 0 => decision.risk > 0
=============================================================================
