-------------------------- MODULE EscalationPolicy --------------------------
(***************************************************************************)
(* EscalationPolicy.decide (src/escalation.py): what to do about a failure *)
(* of a role.  The streaming endpoints ask it; the graph decides by itself *)
(* (OrchestrationGraph).                                                   *)
(***************************************************************************)
EXTENDS Roles, Naturals

CONSTANTS MaxRetries, MaxEscalations

ASSUME PolicyAssumption ==
  /\ MaxRetries \in Nat \ {0}
  /\ MaxEscalations \in Nat

\* Role.from_string knows the draft roles as well; they escalate to none.
KnownRole == Role \cup {"draft_coder", "draft_general"}

\* ErrorCategory up to what decide tells apart: CODE, LOGIC, INFRASTRUCTURE,
\* UNKNOWN and most timeouts are "standard", a timeout of an optional gate is
\* not; a SCHEMA error shows a gap in the model's capability or does not.
Category == {"standard", "optional_timeout", "schema", "schema_gap", "format", "early_abort"}

\* A failure: who failed, in which way, for the how-manieth time in a row, and
\* how often the task has escalated according to the caller.
Failure == [role : KnownRole, category : Category, failures : Nat, escalations : Nat]

\* Bug: one failure too many.
ExhaustedLate(f) == f.failures > MaxRetries

Exhausted(f) == f.failures >= MaxRetries

Escalates(f) ==
  /\ EscalatesTo(f.role) # None
  /\ f.escalations < MaxEscalations
  /\ \/ f.category = "early_abort"
     \/ f.category \in {"standard", "schema_gap"} /\ Exhausted(f)

ThinksHarder(f) == f.category = "standard" /\ f.failures = MaxRetries - 1

Retries(f) == f.category # "early_abort" /\ ~Exhausted(f)

\* At the top of a chain: "fall back to REPL exploration".
Explores(f) == f.category = "standard" /\ EscalatesTo(f.role) = None /\ Exhausted(f)

Decide(f) ==
  IF f.role \notin KnownRole THEN "fail" ELSE
  IF f.category = "optional_timeout" THEN "skip" ELSE
  IF Escalates(f) THEN "escalate" ELSE
  IF ThinksHarder(f) THEN "think_harder" ELSE
  IF Retries(f) THEN "retry" ELSE
  IF Explores(f) THEN "explore" ELSE "fail"

=============================================================================
