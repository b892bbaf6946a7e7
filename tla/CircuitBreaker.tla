--------------------------- MODULE CircuitBreaker ---------------------------
(***************************************************************************)
(* One backend behind its circuit breaker over time                        *)
(* (src/api/health_tracker.py, as src/llm_primitives/inference.py uses     *)
(* it).  Callers ask is_available, then send their request (they may wait  *)
(* long for the inference lock in between) and report how it went.  Many   *)
(* may be under way at once, so reports reach the breaker late and in any  *)
(* order.  Lock timeouts, cancellations and HTTP error statuses leave as   *)
(* exceptions and report nothing.                                          *)
(***************************************************************************)
EXTENDS Circuit

CONSTANTS
  Caller,
  MaxFailures   \* bound: the count of failures in a row stops here

\* Beyond the threshold the count makes no difference to anything.
ASSUME MaxFailuresAssumption == MaxFailures \in Nat /\ MaxFailures >= Threshold

VARIABLES
  circuit,
  elapsed,  \* time since the last failure, up to MaxCooldown
  flight,   \* per caller: not calling, sent to a healthy backend, or doomed
  healthy   \* the backend answers and calls are left to finish

vars == <<circuit, elapsed, flight, healthy>>

Init ==
  /\ circuit = Closed
  /\ elapsed = 0
  /\ flight = [c \in Caller |-> "none"]
  /\ healthy \in BOOLEAN

\* is_available says yes, and the request goes out.
Send(c) ==
  /\ flight[c] = "none"
  /\ IsAvailable(circuit, elapsed)
  /\ circuit' = AfterCheck(circuit, elapsed)
  /\ flight' = [flight EXCEPT ![c] = IF healthy THEN "sent" ELSE "doomed"]
  /\ UNCHANGED <<elapsed, healthy>>

Land(c) == flight' = [flight EXCEPT ![c] = "none"]

Succeed(c) ==
  /\ flight[c] = "sent"
  /\ Land(c)
  /\ circuit' = AfterSuccess(circuit)
  /\ UNCHANGED <<elapsed, healthy>>

FailCall(c) ==
  /\ flight[c] = "doomed"
  /\ Land(c)
  /\ circuit' = [AfterFailure(circuit) EXCEPT !.failure_count = IF @ > MaxFailures THEN MaxFailures ELSE @]
  /\ elapsed' = 0
  /\ UNCHANGED healthy

\* An exception: nothing is recorded.
Drop(c) ==
  /\ flight[c] # "none" /\ (flight[c] = "sent" => ~healthy)
  /\ Land(c)
  /\ UNCHANGED <<circuit, elapsed, healthy>>

\* The backend goes down, dooming what it is working on, or comes back.
Crash ==
  /\ healthy
  /\ healthy' = FALSE
  /\ \E hit \in SUBSET {c \in Caller : flight[c] = "sent"} :
       flight' = [c \in Caller |-> IF c \in hit THEN "doomed" ELSE flight[c]]
  /\ UNCHANGED <<circuit, elapsed>>

Restart == ~healthy /\ healthy' = TRUE /\ UNCHANGED <<circuit, elapsed, flight>>

Tick == elapsed < MaxCooldown /\ elapsed' = elapsed + 1 /\ UNCHANGED <<circuit, flight, healthy>>

Next ==
  \/ \E c \in Caller : Send(c) \/ Succeed(c) \/ FailCall(c) \/ Drop(c)
  \/ Crash \/ Restart \/ Tick

\* Time passes, callers keep coming, and every request ends: HTTP timeouts
\* bound it.
Fairness ==
  /\ WF_vars(Tick)
  /\ \A c \in Caller : WF_vars(Send(c)) /\ WF_vars(Succeed(c)) /\ WF_vars(FailCall(c) \/ Drop(c))

Spec == Init /\ [][Next]_vars /\ Fairness

-----------------------------------------------------------------------------
\* Properties.

\* Every variable has the type the code gives it.
TypeOK ==
  /\ circuit \in CircuitValue /\ circuit.failure_count <= MaxFailures
  /\ elapsed \in 0 .. MaxCooldown
  /\ flight \in [Caller -> {"none", "sent", "doomed"}]
  /\ healthy \in BOOLEAN

\* The state and the counter agree whatever the order in which reports arrive:
\* the circuit is closed exactly as long as the failures in a row stay below
\* the threshold, and a closed circuit starts from the base cooldown.
ClosedBelowThreshold ==
  /\ circuit.state = "closed" <=> circuit.failure_count < Threshold
  /\ circuit.state = "closed" => circuit.cooldown = BaseCooldown

\* Backing off never ends in shutting a backend out: however late failures of
\* old requests push the cooldown ahead, an open circuit is tried again.
OpenIsTriedAgain == circuit.state = "open" ~> circuit.state # "open"

\* Once the backend is healthy for good, its circuit closes for good.
Recovers == <>[]healthy => <>[](circuit.state = "closed")

=============================================================================
