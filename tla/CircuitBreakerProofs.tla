------------------------ MODULE CircuitBreakerProofs ------------------------
(***************************************************************************)
(* Invariants of CircuitBreaker, for any number of callers, any threshold  *)
(* and any cooldowns.                                                      *)
(***************************************************************************)
EXTENDS CircuitBreaker, TLAPS

USE DEF CircuitValue

-----------------------------------------------------------------------------
\* What the methods of BackendHealthTracker do to one circuit.

\* State and counter of one circuit agree.
Agrees(c) ==
  /\ c.state = "closed" <=> c.failure_count < Threshold
  /\ c.state = "closed" => c.cooldown = BaseCooldown

\* is_available keeps a circuit a circuit and its state in step with its
\* counter: it only turns open into half-open.
LEMMA CheckKeeps ==
  ASSUME NEW c \in CircuitValue, NEW e \in Int
  PROVE  /\ AfterCheck(c, e) \in CircuitValue
         /\ AfterCheck(c, e).failure_count = c.failure_count
         /\ Agrees(c) => Agrees(AfterCheck(c, e))
<1>1. CASE c.state = "open" /\ IsAvailable(c, e)
  <2>1. AfterCheck(c, e) = [c EXCEPT !.state = "half-open"]
    BY <1>1 DEF AfterCheck
  <2> QED
    BY <2>1, <1>1 DEF Agrees
<1>2. CASE ~(c.state = "open" /\ IsAvailable(c, e))
  BY <1>2 DEF AfterCheck
<1> QED
  BY <1>1, <1>2

\* record_success and a new entry give a closed circuit without failures.
LEMMA ClosedFits ==
  /\ Closed \in CircuitValue /\ Closed.failure_count = 0
  /\ Agrees(Closed)
BY ThresholdAssumption, CooldownAssumption DEF Closed, Agrees

\* record_failure gives a circuit again: the doubled cooldown is capped.
LEMMA FailureFits ==
  ASSUME NEW c \in CircuitValue
  PROVE  AfterFailure(c) \in CircuitValue
BY CooldownAssumption DEF AfterFailure

\* record_failure, with the counter stopped at the bound of the model.
LEMMA FailureKeeps ==
  ASSUME NEW c \in CircuitValue, c.failure_count <= MaxFailures, Agrees(c),
         NEW d,
         d = [AfterFailure(c) EXCEPT !.failure_count = IF @ > MaxFailures THEN MaxFailures ELSE @]
  PROVE  d \in CircuitValue /\ d.failure_count <= MaxFailures /\ Agrees(d)
<1> DEFINE failures == c.failure_count + 1
           doubled  == IF c.cooldown * 2 <= MaxCooldown THEN c.cooldown * 2 ELSE MaxCooldown
           capped   == IF failures > MaxFailures THEN MaxFailures ELSE failures
           state    == IF c.state # "closed" \/ failures >= Threshold THEN "open" ELSE "closed"
           cooldown == IF c.state = "half-open" THEN doubled ELSE c.cooldown
<1>1. d = [state |-> state, failure_count |-> capped, cooldown |-> cooldown]
  BY DEF AfterFailure
<1>2. cooldown \in BaseCooldown .. MaxCooldown
  BY CooldownAssumption
<1>3. capped \in Nat /\ capped <= MaxFailures
  BY MaxFailuresAssumption
<1>4. state = "closed" <=> capped < Threshold
  BY ThresholdAssumption, MaxFailuresAssumption DEF Agrees
<1>5. state = "closed" => cooldown = BaseCooldown
  BY DEF Agrees
<1>6. state \in {"closed", "open", "half-open"}
  OBVIOUS
<1> HIDE DEF state, capped, cooldown
<1>7. d.state = state /\ d.failure_count = capped /\ d.cooldown = cooldown
  BY <1>1
<1>8. [state |-> state, failure_count |-> capped, cooldown |-> cooldown] \in CircuitValue
  BY ONLY <1>2, <1>3, <1>6 DEF CircuitValue
<1>9. Agrees(d)
  BY <1>4, <1>5, <1>7 DEF Agrees
<1> QED
  BY <1>1, <1>3, <1>7, <1>8, <1>9

-----------------------------------------------------------------------------
\* The invariant: ClosedBelowThreshold is inductive once types are known.

IInv == TypeOK /\ ClosedBelowThreshold

LEMMA InitEstablishes == Init => IInv
BY ClosedFits, MaxFailuresAssumption, ThresholdAssumption, CooldownAssumption
   DEF Init, IInv, TypeOK, ClosedBelowThreshold, Agrees

LEMMA StepPreserves == IInv /\ [Next]_vars => IInv'
<1> SUFFICES ASSUME IInv, [Next]_vars PROVE IInv'
  OBVIOUS
<1> USE DEF IInv
<1>0. Agrees(circuit)
  BY DEF ClosedBelowThreshold, Agrees
<1>a. ASSUME Agrees(circuit') PROVE ClosedBelowThreshold'
  BY <1>a DEF ClosedBelowThreshold, Agrees
<1>b. circuit \in CircuitValue /\ circuit.failure_count <= MaxFailures /\ elapsed \in Int
  BY DEF TypeOK
<1>1. ASSUME NEW c \in Caller, Send(c) PROVE IInv'
  <2>1. circuit' \in CircuitValue /\ circuit'.failure_count <= MaxFailures /\ Agrees(circuit')
    BY <1>0, <1>1, <1>b, CheckKeeps DEF Send
  <2>2. TypeOK'
    BY <1>1, <2>1 DEF Send, TypeOK
  <2> QED
    BY <2>1, <2>2, <1>a
<1>2. ASSUME NEW c \in Caller, Succeed(c) PROVE IInv'
  <2>1. circuit' \in CircuitValue /\ circuit'.failure_count <= MaxFailures /\ Agrees(circuit')
    BY <1>2, ClosedFits, MaxFailuresAssumption DEF Succeed, AfterSuccess
  <2>2. TypeOK'
    BY <1>2, <2>1 DEF Succeed, Land, TypeOK
  <2> QED
    BY <2>1, <2>2, <1>a
<1>3. ASSUME NEW c \in Caller, FailCall(c) PROVE IInv'
  <2>1. circuit' \in CircuitValue /\ circuit'.failure_count <= MaxFailures /\ Agrees(circuit')
    BY <1>0, <1>3, <1>b, FailureKeeps DEF FailCall
  <2>2. TypeOK'
    BY <1>3, <2>1, CooldownAssumption DEF FailCall, Land, TypeOK
  <2> QED
    BY <2>1, <2>2, <1>a
<1>4. ASSUME NEW c \in Caller, Drop(c) PROVE IInv'
  BY <1>4 DEF Drop, Land, TypeOK, ClosedBelowThreshold
<1>5. CASE Crash
  BY <1>5 DEF Crash, TypeOK, ClosedBelowThreshold
<1>6. CASE Restart
  BY <1>6 DEF Restart, TypeOK, ClosedBelowThreshold
<1>7. CASE Tick
  BY <1>7, CooldownAssumption DEF Tick, TypeOK, ClosedBelowThreshold
<1>8. CASE UNCHANGED vars
  BY <1>8 DEF vars, TypeOK, ClosedBelowThreshold
<1> QED
  BY <1>1, <1>2, <1>3, <1>4, <1>5, <1>6, <1>7, <1>8 DEF Next

-----------------------------------------------------------------------------
\* The circuit, the callers and the clock keep their types; the cooldown stays
\* between its base and its maximum (BackendHealthTracker).
THEOREM BreakerTypeCorrect == Spec => []TypeOK
<1>1. IInv => TypeOK
  BY DEF IInv
<1> QED
  BY InitEstablishes, StepPreserves, <1>1, PTL DEF Spec

\* The circuit is closed exactly while the failures in a row stay below the
\* threshold, in whatever order record_success and record_failure are called.
THEOREM StateAgreesWithCounter == Spec => []ClosedBelowThreshold
<1>1. IInv => ClosedBelowThreshold
  BY DEF IInv
<1> QED
  BY InitEstablishes, StepPreserves, <1>1, PTL DEF Spec

=============================================================================
