------------------------------ MODULE Circuit ------------------------------
(***************************************************************************)
(* One backend's entry in BackendHealthTracker (src/api/health_tracker.py) *)
(* as a value, with what each method makes of it.  A backend without an    *)
(* entry behaves like a closed circuit with no failures.                   *)
(***************************************************************************)
EXTENDS Integers

CONSTANTS
  Threshold,     \* failures in a row that open the circuit
  BaseCooldown,  \* cooldown of a circuit that opens for the first time
  MaxCooldown    \* MAX_COOLDOWN_S

ASSUME ThresholdAssumption == Threshold \in Nat \ {0}
ASSUME CooldownAssumption ==
  /\ BaseCooldown \in Nat \ {0} /\ MaxCooldown \in Nat
  /\ BaseCooldown <= MaxCooldown

CircuitValue ==
  [state : {"closed", "open", "half-open"}, failure_count : Nat,
   cooldown : BaseCooldown .. MaxCooldown]

Closed == [state |-> "closed", failure_count |-> 0, cooldown |-> BaseCooldown]

\* Bug: an open circuit is never looked at again.
IsAvailableUnlessOpen(c, elapsed) == c.state # "open"

\* is_available, elapsed being the time since the last failure: the answer ...
IsAvailable(c, elapsed) == c.state # "open" \/ elapsed >= c.cooldown

\* ... and what it does to the circuit.
AfterCheck(c, elapsed) ==
  IF c.state = "open" /\ IsAvailable(c, elapsed) THEN [c EXCEPT !.state = "half-open"] ELSE c

\* Bug: a success closes the circuit and leaves the rest as it is.
AfterSuccessStateOnly(c) == [c EXCEPT !.state = "closed"]

\* Bug: a successful probe is not acted on.
AfterSuccessWhenClosed(c) == IF c.state = "closed" THEN Closed ELSE c

\* record_success, from whatever state.
AfterSuccess(c) == Closed

\* Bug: the doubled cooldown is not capped.
AfterFailureUncapped(c) ==
  LET failures == c.failure_count + 1 IN
  [state         |-> IF c.state # "closed" \/ failures >= Threshold THEN "open" ELSE "closed",
   failure_count |-> failures,
   cooldown      |-> IF c.state = "half-open" THEN c.cooldown * 2 ELSE c.cooldown]

\* record_failure: a failed probe doubles the cooldown; a failure that comes in
\* while the circuit is open only counts.
AfterFailure(c) ==
  LET failures == c.failure_count + 1
      doubled  == IF c.cooldown * 2 <= MaxCooldown THEN c.cooldown * 2 ELSE MaxCooldown IN
  [state         |-> IF c.state # "closed" \/ failures >= Threshold THEN "open" ELSE "closed",
   failure_count |-> failures,
   cooldown      |-> IF c.state = "half-open" THEN doubled ELSE c.cooldown]

=============================================================================
