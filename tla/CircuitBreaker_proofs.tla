------------------------ MODULE CircuitBreaker_proofs ------------------------
(***************************************************************************)
(* Proofs about CircuitBreaker, for every set of nodes and calls, every    *)
(* threshold and every cooldown.  Inv is inductive: TypeOK alone says      *)
(* nothing about the counter at the moment a breaker closes, and           *)
(* QuietBeforeProbe needs the order of the two ages.                       *)
(***************************************************************************)
EXTENDS CircuitBreaker, TLAPS

\* Counting up to a bound stays within the bound and never loses order.
LEMMA LeastFacts ==
  ASSUME NEW bound \in Nat, NEW i \in 0..bound
  PROVE  /\ Least(i + 1, bound) \in 0..bound
         /\ Least(i + 1, bound) >= i
         /\ Least(i + 1, bound) < bound => Least(i + 1, bound) = i + 1
  BY DEF Least

\* Inv holds initially: every breaker starts CLOSED with nothing counted.
LEMMA InitInv == Init => Inv
  BY ThresholdAssumption, CooldownAssumption
  DEF Init, Inv, TypeOK, States, ClosedBelowThreshold, ProbeAfterCooldown,
      OpenedSinceLastFailure

\* The part of Inv that speaks of breakers, one node at a time.
BreakerOK(n) ==
  /\ state[n] = "CLOSED" => failures[n] < Threshold
  /\ state[n] = "HALF_OPEN" => openedAgo[n] >= Cooldown
  /\ state[n] # "CLOSED" /\ failures[n] >= Threshold
       => openedAgo[n] <= failedAgo[n]

\* Inv is TypeOK and every breaker being OK.
LEMMA InvByNode == Inv <=> TypeOK /\ \A n \in Nodes : BreakerOK(n)
  BY DEF Inv, BreakerOK, ClosedBelowThreshold, ProbeAfterCooldown,
         OpenedSinceLastFailure

\* Admitting a call keeps every breaker OK: HALF_OPEN is entered cooled.
LEMMA AdmitOK ==
  ASSUME Inv, NEW n \in Nodes, AdmitTo(n)
  PROVE  /\ \A m \in Nodes : BreakerOK(m)'
         /\ state' \in [Nodes -> States]
  BY InvByNode DEF AdmitTo, Available, Cooled, BreakerOK, TypeOK, States

\* Recording a success closes the breaker with the whole allowance back.
LEMMA SuccessOK ==
  ASSUME Inv, NEW n \in Nodes, RecordSuccess(n)
  PROVE  /\ \A m \in Nodes : BreakerOK(m)'
         /\ state' \in [Nodes -> States]
         /\ failures' \in [Nodes -> 0..Threshold]
  BY InvByNode, ThresholdAssumption
  DEF RecordSuccess, BreakerOK, TypeOK, States

\* Recording a failure either stays below the threshold or opens the
\* breaker and restarts both ages together.
LEMMA FailureOK ==
  ASSUME Inv, NEW n \in Nodes, RecordFailure(n)
  PROVE  /\ \A m \in Nodes : BreakerOK(m)'
         /\ state' \in [Nodes -> States]
         /\ failures' \in [Nodes -> 0..Threshold]
         /\ openedAgo' \in [Nodes -> 0..Cooldown]
         /\ failedAgo' \in [Nodes -> 0..Cooldown]
<1> DEFINE count == Least(failures[n] + 1, Threshold)
           trips == state[n] = "HALF_OPEN" \/ count >= Threshold
<1>1. TypeOK /\ \A m \in Nodes : BreakerOK(m)
  BY InvByNode
<1>2. count \in 0..Threshold
  BY <1>1, LeastFacts, ThresholdAssumption DEF TypeOK
<1>3. /\ failures' = [failures EXCEPT ![n] = count]
      /\ failedAgo' = [failedAgo EXCEPT ![n] = 0]
      /\ state' = [state EXCEPT ![n] = IF trips THEN "OPEN" ELSE @]
      /\ openedAgo' = [openedAgo EXCEPT ![n] = IF trips THEN 0 ELSE @]
  BY DEF RecordFailure
<1> HIDE DEF count
<1>4. /\ state' \in [Nodes -> States]
      /\ failures' \in [Nodes -> 0..Threshold]
      /\ openedAgo' \in [Nodes -> 0..Cooldown]
      /\ failedAgo' \in [Nodes -> 0..Cooldown]
  BY <1>1, <1>2, <1>3, CooldownAssumption DEF TypeOK, States
<1>5. ASSUME NEW m \in Nodes, m # n
      PROVE  BreakerOK(m)'
  BY <1>1, <1>3, <1>5 DEF BreakerOK, TypeOK
<1>6. BreakerOK(n)'
  <2>1. CASE trips
    BY <2>1, <1>1, <1>2, <1>3, CooldownAssumption DEF BreakerOK, TypeOK, States
  <2>2. CASE ~trips
    <3>1. count < Threshold /\ state'[n] = state[n] /\ failures'[n] = count
      BY <2>2, <1>1, <1>2, <1>3, ThresholdAssumption DEF TypeOK
    <3>2. state[n] # "HALF_OPEN"
      BY <2>2
    <3>3. QED
      BY <3>1, <3>2, <1>2, ThresholdAssumption DEF BreakerOK
  <2>3. QED
    BY <2>1, <2>2
<1>7. QED
  BY <1>4, <1>5, <1>6

\* A tick of the clock ages both timestamps alike.
LEMMA TickOK ==
  ASSUME Inv, Tick
  PROVE  Inv'
<1>1. TypeOK /\ \A m \in Nodes : BreakerOK(m)
  BY InvByNode
<1>2. ASSUME NEW m \in Nodes
      PROVE  /\ openedAgo'[m] = Least(openedAgo[m] + 1, Cooldown)
             /\ failedAgo'[m] = Least(failedAgo[m] + 1, Cooldown)
             /\ openedAgo[m] \in 0..Cooldown /\ failedAgo[m] \in 0..Cooldown
  BY <1>1 DEF Tick, TypeOK
<1>3. TypeOK'
  <2>1. \A m \in Nodes : Least(openedAgo[m] + 1, Cooldown) \in 0..Cooldown
    BY <1>2, LeastFacts, CooldownAssumption
  <2>2. \A m \in Nodes : Least(failedAgo[m] + 1, Cooldown) \in 0..Cooldown
    BY <1>2, LeastFacts, CooldownAssumption
  <2>3. QED
    BY <1>1, <2>1, <2>2 DEF Tick, TypeOK
<1>4. ASSUME NEW m \in Nodes
      PROVE  BreakerOK(m)'
  BY <1>1, <1>2, CooldownAssumption DEF Tick, BreakerOK, Least
<1>5. QED
  BY <1>3, <1>4, InvByNode DEF Inv, BreakerOK, ClosedBelowThreshold,
     ProbeAfterCooldown, OpenedSinceLastFailure

\* Every step preserves Inv.
LEMMA NextInv == Inv /\ [Next]_vars => Inv'
<1> SUFFICES ASSUME Inv, [Next]_vars
             PROVE  TypeOK' /\ \A n \in Nodes : BreakerOK(n)'
  BY DEF Inv, BreakerOK, ClosedBelowThreshold, ProbeAfterCooldown,
         OpenedSinceLastFailure
<1>1. TypeOK /\ \A n \in Nodes : BreakerOK(n)
  BY InvByNode
<1>2. ASSUME NEW c \in Calls, NEW n \in Nodes, Begin(c, n)
      PROVE  TypeOK' /\ \A m \in Nodes : BreakerOK(m)'
  <2>1. /\ \A m \in Nodes : BreakerOK(m)'
        /\ state' \in [Nodes -> States]
    BY <1>2, AdmitOK DEF Begin
  <2>2. QED
    BY <1>1, <1>2, <2>1 DEF Begin, AdmitTo, TypeOK
<1>3. ASSUME NEW c \in Calls, Succeed(c)
      PROVE  TypeOK' /\ \A m \in Nodes : BreakerOK(m)'
  <2>1. /\ \A m \in Nodes : BreakerOK(m)'
        /\ state' \in [Nodes -> States]
        /\ failures' \in [Nodes -> 0..Threshold]
    BY <1>3, SuccessOK DEF Succeed
  <2>2. QED
    BY <1>1, <1>3, <2>1 DEF Succeed, RecordSuccess, Return, TypeOK
<1>4. ASSUME NEW c \in Calls, Fail(c)
      PROVE  TypeOK' /\ \A m \in Nodes : BreakerOK(m)'
  <2>1. inflight[c] \in Nodes /\ RecordFailure(inflight[c])
    BY <1>4 DEF Fail
  <2>2. /\ \A m \in Nodes : BreakerOK(m)'
        /\ state' \in [Nodes -> States]
        /\ failures' \in [Nodes -> 0..Threshold]
        /\ openedAgo' \in [Nodes -> 0..Cooldown]
        /\ failedAgo' \in [Nodes -> 0..Cooldown]
    BY <2>1, FailureOK
  <2>3. QED
    BY <1>1, <1>4, <2>2 DEF Fail, Return, TypeOK
<1>5. ASSUME NEW c \in Calls, Cancel(c)
      PROVE  TypeOK' /\ \A m \in Nodes : BreakerOK(m)'
  BY <1>1, <1>5 DEF Cancel, Return, breakerVars, TypeOK, BreakerOK
<1>6. ASSUME Tick
      PROVE  TypeOK' /\ \A m \in Nodes : BreakerOK(m)'
  BY <1>6, TickOK DEF Inv, BreakerOK, ClosedBelowThreshold,
     ProbeAfterCooldown, OpenedSinceLastFailure
<1>7. ASSUME NEW n \in Nodes, HealthChange(n)
      PROVE  TypeOK' /\ \A m \in Nodes : BreakerOK(m)'
  BY <1>1, <1>7 DEF HealthChange, TypeOK, BreakerOK
<1>8. ASSUME NEW n \in Nodes, ForceClose(n)
      PROVE  TypeOK' /\ \A m \in Nodes : BreakerOK(m)'
  BY <1>1, <1>8, ThresholdAssumption DEF ForceClose, TypeOK, BreakerOK, States
<1>9. ASSUME NEW n \in Nodes, ForceOpen(n)
      PROVE  TypeOK' /\ \A m \in Nodes : BreakerOK(m)'
  BY <1>1, <1>9, CooldownAssumption DEF ForceOpen, TypeOK, BreakerOK, States
<1>10. CASE UNCHANGED vars
  BY <1>1, <1>10 DEF vars, TypeOK, BreakerOK
<1>11. QED
  BY <1>2, <1>3, <1>4, <1>5, <1>6, <1>7, <1>8, <1>9, <1>10
  DEF Next, CallNext, AdminNext

\* Inv is an invariant of the circuit breaker.
THEOREM Invariance == Spec => []Inv
  BY InitInv, NextInv, PTL DEF Spec

\* The variables keep their types (record_success, record_failure,
\* is_available, force_close, force_open, circuit_breaker.py:61-148).
THEOREM TypeCorrect == Spec => []TypeOK
<1>1. Inv => TypeOK
  BY DEF Inv
<1>2. QED
  BY <1>1, Invariance, PTL

\* A CLOSED breaker always has allowance left, whichever way it closed.
THEOREM ClosedHasAllowance == Spec => []ClosedBelowThreshold
<1>1. Inv => ClosedBelowThreshold
  BY DEF Inv
<1>2. QED
  BY <1>1, Invariance, PTL

\* A HALF_OPEN breaker has been open for a whole cooldown.
THEOREM CooldownHonoured == Spec => []ProbeAfterCooldown
<1>1. Inv => ProbeAfterCooldown
  BY DEF Inv
<1>2. QED
  BY <1>1, Invariance, PTL

\* A breaker held open by failures probes a node only after a whole
\* cooldown without a recorded failure, late failures included.
THEOREM ProbeIsQuiet == Spec => []QuietBeforeProbe
<1>1. Inv => QuietBeforeProbe
  <2> SUFFICES ASSUME Inv, NEW n \in Nodes, state[n] = "HALF_OPEN",
                      failures[n] >= Threshold
               PROVE  failedAgo[n] >= Cooldown
    BY DEF QuietBeforeProbe
  <2>1. openedAgo[n] >= Cooldown /\ openedAgo[n] <= failedAgo[n]
    BY DEF Inv, ProbeAfterCooldown, OpenedSinceLastFailure
  <2>2. openedAgo[n] \in 0..Cooldown /\ failedAgo[n] \in 0..Cooldown
    BY DEF Inv, TypeOK
  <2>3. QED
    BY <2>1, <2>2, CooldownAssumption
<1>2. QED
  BY <1>1, Invariance, PTL
=============================================================================
