--------------------------- MODULE CircuitBreaker ---------------------------
(***************************************************************************)
(* The circuit breaker every upstream call of the orchestrator goes        *)
(* through: apex_common/circuit_breaker.py (the registry) together with    *)
(* _safe_call of apex_common/node_adapters.py (its only caller) and the    *)
(* cancellation of stragglers in maestro_v3.py.                            *)
(*                                                                         *)
(* Every method of the registry runs under one asyncio lock and never      *)
(* awaits inside it, so each is one atomic step.  What interleaves is the  *)
(* time between a call's admission (is_available) and its outcome          *)
(* (record_success, record_failure, or cancellation, which records         *)
(* nothing): other calls to the same node, the clock and the admin         *)
(* operations happen in between.                                           *)
(*                                                                         *)
(* Time is relative.  The code compares time.monotonic() - opened_at with  *)
(* cooldown_s and nothing else, so an age that counts up to Cooldown and   *)
(* stays there tells apart exactly what the code tells apart.  In the same *)
(* way consecutive_failures is counted up to Threshold.                    *)
(***************************************************************************)
EXTENDS Naturals, FiniteSets

CONSTANTS
  Nodes,       \* upstream nodes ("brain", "shadowglass", ...)
  Gathered,    \* the nodes called in parallel, under the gather deadline
  Calls,       \* concurrent executions of _safe_call
  Idle,        \* a call slot that is not in flight
  Threshold,   \* failure_threshold
  Cooldown     \* cooldown_s, in ticks

ASSUME IdleAssumption      == Idle \notin Nodes
ASSUME GatheredAssumption  == Gathered \subseteq Nodes
ASSUME ThresholdAssumption == Threshold \in Nat \ {0}
ASSUME CooldownAssumption  == Cooldown \in Nat \ {0}

VARIABLES
  state,       \* state[n]: CBState of node n's breaker
  failures,    \* failures[n]: consecutive_failures, counted up to Threshold
  openedAgo,   \* openedAgo[n]: age of opened_at, counted up to Cooldown
  failedAgo,   \* failedAgo[n]: age of last_failure_ts, up to Cooldown
  inflight,    \* inflight[c]: the node call c is waiting for, or Idle
  probes,      \* calls admitted while the breaker was (or became) HALF_OPEN
  health       \* health[n]: how node n answers (environment)

breakerVars == <<state, failures, openedAgo, failedAgo>>
vars == <<state, failures, openedAgo, failedAgo, inflight, probes, health>>

States == {"CLOSED", "OPEN", "HALF_OPEN"}

\* An upstream answers, answers with an error, or does not answer at all.
\* How long it takes is not part of its health: a gathered call may be cut
\* off by the deadline whatever the answer would have been.
Healths == {"up", "failing", "hanging"}

Least(i, j) == IF i <= j THEN i ELSE j

Init ==
  /\ state     = [n \in Nodes |-> "CLOSED"]
  /\ failures  = [n \in Nodes |-> 0]
  /\ openedAgo = [n \in Nodes |-> Cooldown]
  /\ failedAgo = [n \in Nodes |-> Cooldown]
  /\ inflight  = [c \in Calls |-> Idle]
  /\ probes    = {}
  /\ health    \in [Nodes -> Healths]

-----------------------------------------------------------------------------
(***************************************************************************)
(* The registry's methods, as relations on one node's breaker.             *)
(***************************************************************************)

\* The mutated forms below (and in the other modules) are what a slip in the
\* definition after them would look like; PROJECT.json pairs each with the
\* property that notices it.
CooledAtOnce(n) == TRUE

Cooled(n) == openedAgo[n] >= Cooldown

\* is_available answers True: CLOSED, HALF_OPEN, or OPEN and cooled down.
Available(n) == state[n] # "OPEN" \/ Cooled(n)

\* ... and when it answers True for an OPEN breaker, it becomes HALF_OPEN.
AdmitTo(n) ==
  /\ Available(n)
  /\ state' = [state EXCEPT ![n] = IF @ = "OPEN" THEN "HALF_OPEN" ELSE @]
  /\ UNCHANGED <<failures, openedAgo, failedAgo>>

RecordSuccessKeepsHalfOpen(n) ==
  /\ failures' = [failures EXCEPT ![n] = 0]
  /\ UNCHANGED <<state, openedAgo, failedAgo>>

RecordSuccess(n) ==
  /\ failures' = [failures EXCEPT ![n] = 0]
  /\ state' = [state EXCEPT ![n] = "CLOSED"]
  /\ UNCHANGED <<openedAgo, failedAgo>>

RecordFailureRestartsCount(n) ==
  /\ failures' = [failures EXCEPT ![n] = 1]
  /\ failedAgo' = [failedAgo EXCEPT ![n] = 0]
  /\ state' = [state EXCEPT ![n] = IF Threshold = 1 THEN "OPEN" ELSE @]
  /\ openedAgo' = [openedAgo EXCEPT ![n] = IF Threshold = 1 THEN 0 ELSE @]

RecordFailureKeepsOpenedAt(n) ==
  LET count == Least(failures[n] + 1, Threshold)
      trips == state[n] = "HALF_OPEN" \/ count >= Threshold IN
  /\ failures' = [failures EXCEPT ![n] = count]
  /\ failedAgo' = [failedAgo EXCEPT ![n] = 0]
  /\ state' = [state EXCEPT ![n] = IF trips THEN "OPEN" ELSE @]
  /\ openedAgo' = [openedAgo EXCEPT ![n] =
                     IF trips /\ state[n] = "CLOSED" THEN 0 ELSE @]

\* A probe's failure reopens the breaker whatever the count; otherwise the
\* count decides.  Either way opened_at becomes now, also when the breaker
\* is OPEN already (a call admitted before it tripped fails late).
RecordFailure(n) ==
  LET count == Least(failures[n] + 1, Threshold)
      trips == state[n] = "HALF_OPEN" \/ count >= Threshold IN
  /\ failures' = [failures EXCEPT ![n] = count]
  /\ failedAgo' = [failedAgo EXCEPT ![n] = 0]
  /\ state' = [state EXCEPT ![n] = IF trips THEN "OPEN" ELSE @]
  /\ openedAgo' = [openedAgo EXCEPT ![n] = IF trips THEN 0 ELSE @]

-----------------------------------------------------------------------------
(***************************************************************************)
(* _safe_call: admission, then exactly one of three outcomes.  A refused   *)
(* call returns (False, None) at once and changes nothing.                 *)
(***************************************************************************)

Begin(c, n) ==
  /\ inflight[c] = Idle
  /\ AdmitTo(n)
  /\ inflight' = [inflight EXCEPT ![c] = n]
  /\ probes' = IF state[n] = "CLOSED" THEN probes ELSE probes \cup {c}
  /\ UNCHANGED health

Return(c) ==
  /\ inflight' = [inflight EXCEPT ![c] = Idle]
  /\ probes' = probes \ {c}
  /\ UNCHANGED health

Succeed(c) ==
  /\ inflight[c] \in Nodes
  /\ health[inflight[c]] = "up"
  /\ RecordSuccess(inflight[c])
  /\ Return(c)

\* All attempts failed.  For a node called outside the gather (the brain) a
\* node that hangs fails too, by the HTTP timeout of the last attempt.
Fail(c) ==
  /\ inflight[c] \in Nodes
  /\ \/ health[inflight[c]] = "failing"
     \/ health[inflight[c]] = "hanging" /\ inflight[c] \notin Gathered
  /\ RecordFailure(inflight[c])
  /\ Return(c)

\* The gather deadline, one second after the first attempt's HTTP timeout,
\* cancels every call that is not done: one that hangs, one that answers
\* errors slowly and is backing off for its next attempt, one that still
\* waits in the rate limiter.  CancelledError is not an Exception: _safe_call
\* records nothing.
Cancel(c) ==
  /\ inflight[c] \in Gathered
  /\ Return(c)
  /\ UNCHANGED breakerVars

-----------------------------------------------------------------------------
(***************************************************************************)
(* Admin operations, the clock and the upstream nodes.                     *)
(***************************************************************************)

ForceCloseKeepsCount(n) ==
  /\ state' = [state EXCEPT ![n] = "CLOSED"]
  /\ UNCHANGED <<failures, openedAgo, failedAgo, inflight, probes, health>>

ForceClose(n) ==
  /\ state' = [state EXCEPT ![n] = "CLOSED"]
  /\ failures' = [failures EXCEPT ![n] = 0]
  /\ UNCHANGED <<openedAgo, failedAgo, inflight, probes, health>>

ForceOpen(n) ==
  /\ state' = [state EXCEPT ![n] = "OPEN"]
  /\ openedAgo' = [openedAgo EXCEPT ![n] = 0]
  /\ UNCHANGED <<failures, failedAgo, inflight, probes, health>>

Tick ==
  /\ openedAgo' = [n \in Nodes |-> Least(openedAgo[n] + 1, Cooldown)]
  /\ failedAgo' = [n \in Nodes |-> Least(failedAgo[n] + 1, Cooldown)]
  /\ UNCHANGED <<state, failures, inflight, probes, health>>

HealthChange(n) ==
  /\ \E h \in Healths \ {health[n]} : health' = [health EXCEPT ![n] = h]
  /\ UNCHANGED <<state, failures, openedAgo, failedAgo, inflight, probes>>

CallNext ==
  \/ \E c \in Calls : \/ \E n \in Nodes : Begin(c, n)
                      \/ Succeed(c)
                      \/ Fail(c)
                      \/ Cancel(c)
  \/ Tick
  \/ \E n \in Nodes : HealthChange(n)

AdminNext == \E n \in Nodes : ForceClose(n) \/ ForceOpen(n)

Next == CallNext \/ AdminNext

Spec == Init /\ [][Next]_vars

(***************************************************************************)
(* Fairness.  The clock runs; a call in flight gets its answer, its error  *)
(* or its cancellation (the gather deadline is unconditional); and traffic *)
(* goes on: a node that is available again and again is called again.      *)
(* An admin may reset and open breakers at any time and need not.          *)
(***************************************************************************)
Outcome(c) == Succeed(c) \/ Fail(c) \/ Cancel(c)

Fairness ==
  /\ WF_vars(Tick)
  /\ \A c \in Calls : WF_vars(Outcome(c))
  /\ \A n \in Nodes : SF_vars(\E c \in Calls : Begin(c, n))

FairSpec == Spec /\ Fairness

AdminsStop == <>[][~AdminNext]_vars

-----------------------------------------------------------------------------
(***************************************************************************)
(* Properties.                                                             *)
(***************************************************************************)

TypeOK ==
  /\ state     \in [Nodes -> States]
  /\ failures  \in [Nodes -> 0..Threshold]
  /\ openedAgo \in [Nodes -> 0..Cooldown]
  /\ failedAgo \in [Nodes -> 0..Cooldown]
  /\ inflight  \in [Calls -> Nodes \cup {Idle}]
  /\ probes    \in SUBSET Calls
  /\ health    \in [Nodes -> Healths]

\* A breaker that lets everything through has seen fewer than Threshold
\* failures since the last success or reset: whichever way it came back to
\* CLOSED (a probe, a late success, an admin), it got its whole allowance
\* back, and it never stays CLOSED at the threshold.
ClosedBelowThreshold ==
  \A n \in Nodes : state[n] = "CLOSED" => failures[n] < Threshold

\* A breaker probes only after it has been open for a whole cooldown: no
\* interleaving of late outcomes and admin operations leaves it HALF_OPEN
\* with a younger opened_at.
ProbeAfterCooldown ==
  \A n \in Nodes : state[n] = "HALF_OPEN" => openedAgo[n] >= Cooldown

\* A breaker that failures (not only an admin) hold open probes a node only
\* when none of its calls has failed for a whole cooldown: failures that
\* arrive late, while it is already OPEN, restart the wait.
QuietBeforeProbe ==
  \A n \in Nodes :
    state[n] = "HALF_OPEN" /\ failures[n] >= Threshold
      => failedAgo[n] >= Cooldown

\* The age of the opening never overtakes the age of the last failure
\* while failures hold the breaker open (what makes QuietBeforeProbe
\* inductive).
OpenedSinceLastFailure ==
  \A n \in Nodes :
    state[n] # "CLOSED" /\ failures[n] >= Threshold
      => openedAgo[n] <= failedAgo[n]

Inv ==
  /\ TypeOK
  /\ ClosedBelowThreshold
  /\ ProbeAfterCooldown
  /\ OpenedSinceLastFailure

FailureOf(n) == \E c \in Calls : inflight[c] = n /\ Fail(c)
SuccessOf(n) == \E c \in Calls : inflight[c] = n /\ Succeed(c)

\* A node that has started failing for good is cut off for good: its
\* breaker ends up never CLOSED again, whatever calls were still in flight
\* and whatever an admin did before, and each probe puts it back to OPEN.
\* The one way out is the gather deadline: a gathered node whose failures
\* it forestalls from some time on, all of them.  Cancellations in between
\* do not help the node, they neither restart the count nor close anything.
FailingIsCutOff ==
  \A n \in Nodes :
    <>[](health[n] = "failing") /\ AdminsStop =>
      \/ <>[](state[n] # "CLOSED") /\ []<>(state[n] = "OPEN")
      \/ n \in Gathered /\ <>[][~FailureOf(n)]_vars

\* A node that has recovered for good is used again for good: late outcomes
\* and concurrent probes cannot keep its breaker open.  Here too the gather
\* deadline is the one way out: it may forestall every answer of the node.
RecoveredIsClosed ==
  \A n \in Nodes :
    <>[](health[n] = "up") /\ AdminsStop =>
      \/ <>[](state[n] = "CLOSED")
      \/ n \in Gathered /\ <>[][~SuccessOf(n)]_vars
=============================================================================
