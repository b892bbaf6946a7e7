------------------------- MODULE OrchestrationGraph -------------------------
(***************************************************************************)
(* One task on the orchestration graph (src/graph/nodes.py, helpers.py,    *)
(* graph.py): seven node classes share one TaskState; a node's run() plays *)
(* one LLM/REPL turn and then retries, thinks harder, escalates or ends.   *)
(*                                                                         *)
(* What a turn yields is the environment's choice: an answer, plain output, *)
(* a nudge, or an error of one of the categories the decisions tell apart. *)
(* The process may die during a turn; run_task then restarts the task from *)
(* a resume token, the projection of TaskState saved at a node boundary.   *)
(* Saving may fail silently, so the token may be an old one.               *)
(***************************************************************************)
EXTENDS Roles, Integers, Sequences

CONSTANTS
  StartRoles,       \* roles a request may be routed to
  MaxTurns,         \* TaskState.max_turns
  MaxRetries,       \* GraphConfig.max_retries
  MaxEscalations,   \* GraphConfig.max_escalations
  MaxNudges,        \* MAX_CONSECUTIVE_NUDGES
  Cooldown,         \* TaskState.think_harder_cooldown_turns
  MaxResumes        \* bound: how often the process dies and is resumed

ASSUME StartRolesAssumption == StartRoles \subseteq Role
ASSUME LimitsAssumption ==
  /\ MaxTurns \in Nat
  /\ MaxRetries \in Nat \ {0}
  /\ MaxEscalations \in Nat
  /\ MaxNudges \in Nat \ {0}
  /\ Cooldown \in Nat
  /\ MaxResumes \in Nat

VARIABLES
  node,                   \* node class about to run, or "End"
  current_role, role_history,
  turns, consecutive_failures, consecutive_nudges, escalation_count,
  rescuable,              \* last_output holds something _rescue_from_last_output finds
  think_harder_config,    \* a boosted configuration waits for the next turn
  think_harder_attempted,
  think_harder_succeeded, \* "unset" | "yes" | "no"
  last_attempt_turn,      \* per role: think_harder_roi_by_role[role]["last_attempt_turn"]
  escalation_requested,   \* repl.artifacts holds the flag set by escalate()
  result,                 \* the TaskResult and the think-harder statistics, once ended
  token,                  \* the last resume token that reached the store
  resumes

control  == <<node, current_role, role_history, escalation_count>>
counters == <<turns, consecutive_failures, consecutive_nudges>>
boost    == <<think_harder_config, think_harder_attempted, think_harder_succeeded,
              last_attempt_turn>>
vars == <<control, counters, boost, rescuable, escalation_requested, result, token, resumes>>

-----------------------------------------------------------------------------

\* ErrorCategory up to what the decisions tell apart: CODE, LOGIC,
\* INFRASTRUCTURE and UNKNOWN are "standard"; a SCHEMA error either carries
\* a capability-gap signature ("schema_gap") or does not.
Category == {"standard", "schema", "schema_gap", "format", "timeout", "early_abort"}

\* The -9999 of the code: no think-harder attempt by this role yet.
Never == -9999

\* credited: the role whose statistics _update_think_harder_stats charges with
\* an attempt (None if it charges nobody), and whether it counts as a success.
Result == [success : BOOLEAN, credited : Role \cup {None}, counted : BOOLEAN]
\* Before the task has ended.
NoResult == [success |-> FALSE, credited |-> None, counted |-> FALSE]

Token == [current_role : Role, turns : 0 .. MaxTurns, escalation_count : Nat,
          consecutive_failures : Nat, role_history : Seq(Role)]

-----------------------------------------------------------------------------

\* Bug: the token forgets how often the task has escalated.
FromStateForgetsEscalations ==
  [current_role |-> current_role, turns |-> turns, escalation_count |-> 0,
   consecutive_failures |-> consecutive_failures, role_history |-> role_history]

\* ResumeToken.from_state, with the fields that steer the graph.
FromState ==
  [current_role |-> current_role, turns |-> turns, escalation_count |-> escalation_count,
   consecutive_failures |-> consecutive_failures, role_history |-> role_history]

\* snapshot_node before the next node: _write swallows a failing store, and
\* snapshot_end writes no token.
Snapshot == token' \in {token} \cup (IF node' = "End" THEN {} ELSE {FromState'})

Init ==
  /\ current_role \in StartRoles
  /\ node = StartNode(current_role)
  /\ role_history = <<current_role>>
  /\ turns = 0 /\ consecutive_failures = 0 /\ consecutive_nudges = 0
  /\ escalation_count = 0
  /\ rescuable = FALSE
  /\ think_harder_config = FALSE
  /\ think_harder_attempted = FALSE
  /\ think_harder_succeeded = "unset"
  /\ last_attempt_turn = [r \in Role |-> Never]
  /\ escalation_requested = FALSE
  /\ result = NoResult
  /\ token = FromState
  /\ resumes = 0

\* _detect_role_cycle: the last two or three roles repeat the ones before them.
DetectRoleCycle(h) ==
  LET n == Len(h) IN
  \/ n >= 4 /\ h[n] = h[n-2] /\ h[n-1] = h[n-3]
  \/ n >= 6 /\ h[n] = h[n-3] /\ h[n-1] = h[n-4] /\ h[n-2] = h[n-5]

-----------------------------------------------------------------------------
\* The decisions, for an error of category c that is the f-th failure in a row.

AbortsEarly(c) == c = "early_abort" /\ NodeTarget(node) # None

\* Bug: the flag that the role has thought harder is not looked at.
ShouldThinkHarderAgain(c, f) ==
  /\ c \notin {"format", "schema", "schema_gap", "timeout"}
  /\ turns + 1 - last_attempt_turn[current_role] >= Cooldown
  /\ f = MaxRetries - 1

ShouldThinkHarder(c, f) ==
  /\ c \notin {"format", "schema", "schema_gap", "timeout"}
  /\ ~think_harder_attempted
  /\ turns + 1 - last_attempt_turn[current_role] >= Cooldown
  /\ f = MaxRetries - 1

\* Bug: one failure too many before escalating.
ShouldEscalateLate(c, f) ==
  /\ NodeTarget(node) # None
  /\ c \notin {"format", "schema"}
  /\ escalation_count < MaxEscalations
  /\ f > MaxRetries
  /\ c = "schema_gap" \/ ~DetectRoleCycle(role_history)

ShouldEscalate(c, f) ==
  /\ NodeTarget(node) # None
  /\ c \notin {"format", "schema"}
  /\ escalation_count < MaxEscalations
  /\ f >= MaxRetries
  /\ c = "schema_gap" \/ ~DetectRoleCycle(role_history)

\* Bug: one retry too many.
ShouldRetryOnceMore(c, f) == c # "timeout" /\ f <= MaxRetries

ShouldRetry(c, f) == c # "timeout" /\ f < MaxRetries

\* Bug: one nudge too many.
PromotedLate == consecutive_nudges + 1 > MaxNudges

\* The nudge just given is the last one that passes for progress.
Promoted == consecutive_nudges + 1 >= MaxNudges

-----------------------------------------------------------------------------
\* Parts of the node actions.

\* Bug: the turn is not counted.
ExecuteTurnUncounted(asks) ==
  /\ node # "End" /\ turns < MaxTurns
  /\ turns' = turns
  /\ escalation_requested' = (escalation_requested \/ asks)

\* _execute_turn: the turn is counted, and the code the model wrote may have
\* called escalate(); that flag stays in repl.artifacts.  (The third thing the
\* function does to the task, using up a pending boost, is ClearBoost.)
ExecuteTurn(asks) ==
  /\ node # "End" /\ turns < MaxTurns
  /\ turns' = turns + 1
  /\ escalation_requested' = (escalation_requested \/ asks)

\* Bug: the boosted configuration is used and kept.
KeepBoost == UNCHANGED think_harder_config

ClearBoost == think_harder_config' = FALSE

\* CoderNode alone looks for the flag, in the artifacts the turn returns; a
\* nudge or a failed LLM call returns none.
SeesRequest(asks, artifacts) ==
  node = "CoderNode" /\ artifacts /\ (escalation_requested \/ asks)

\* Bug: the new role is not recorded.
EscalateTaskUnrecorded ==
  /\ escalation_count' = escalation_count + 1
  /\ current_role' = NodeTarget(node)
  /\ UNCHANGED role_history
  /\ node' = NextNode(node)
  /\ consecutive_failures' = 0
  /\ UNCHANGED result

\* record_role, escalation_count += 1, return the next tier's node.
EscalateTask ==
  /\ escalation_count' = escalation_count + 1
  /\ current_role' = NodeTarget(node)
  /\ role_history' = Append(role_history, NodeTarget(node))
  /\ node' = NextNode(node)
  /\ consecutive_failures' = 0
  /\ UNCHANGED result

\* return the same node class.
RunAgain == UNCHANGED <<control, result>>

\* _make_end_result with _update_think_harder_stats, which charges whatever
\* role is current at the end.
MakeEndResult(success) ==
  LET attempted == think_harder_attempted \/ think_harder_succeeded = "no" IN
  /\ node' = "End"
  /\ result' = [success  |-> success,
                credited |-> IF attempted THEN current_role ELSE None,
                counted  |-> attempted /\ think_harder_succeeded = "yes"]
  /\ UNCHANGED <<current_role, role_history, escalation_count>>

-----------------------------------------------------------------------------
\* The node actions.

\* turns >= max_turns on entry: rescue an answer from the last output, or fail.
MaxTurnsReached ==
  /\ node # "End" /\ turns >= MaxTurns
  /\ MakeEndResult(rescuable)
  /\ UNCHANGED <<counters, boost, rescuable, escalation_requested, resumes>>

\* The model called escalate() and a CoderNode sees it: honoured before
\* anything else the turn produced, an answer included.
ModelEscalation ==
  /\ \E asks \in BOOLEAN : ExecuteTurn(asks) /\ SeesRequest(asks, TRUE)
  /\ ClearBoost
  /\ EscalateTask
  /\ UNCHANGED <<consecutive_nudges, think_harder_attempted, think_harder_succeeded,
                 last_attempt_turn, rescuable, resumes>>

\* FINAL() was called, or an answer was rescued from the turn.
FinalAnswer ==
  /\ \E asks \in BOOLEAN : ExecuteTurn(asks) /\ ~SeesRequest(asks, TRUE)
  /\ ClearBoost
  /\ MakeEndResult(TRUE)
  /\ UNCHANGED <<consecutive_failures, consecutive_nudges, think_harder_attempted,
                 think_harder_succeeded, last_attempt_turn, rescuable, resumes>>

\* A turn that ends in an error, up to the decision.  A failed LLM call
\* returns no artifacts and no output.
ErrorTurn ==
  /\ \E asks, artifacts \in BOOLEAN :
       /\ asks => artifacts
       /\ ExecuteTurn(asks)
       /\ ~SeesRequest(asks, artifacts)
       /\ rescuable' \in {FALSE, artifacts}
  /\ UNCHANGED <<consecutive_nudges, resumes>>

Failures == consecutive_failures + 1

\* ErrorCategory.EARLY_ABORT escalates at once.
EarlyAbort(c) ==
  /\ AbortsEarly(c)
  /\ ErrorTurn /\ ClearBoost
  /\ EscalateTask
  /\ UNCHANGED <<think_harder_attempted, think_harder_succeeded, last_attempt_turn>>

\* Run the same role once more with the boosted configuration.
ThinkHarder(c) ==
  /\ ~AbortsEarly(c) /\ ShouldThinkHarder(c, Failures)
  /\ ErrorTurn
  /\ think_harder_config' = TRUE
  /\ think_harder_attempted' = TRUE
  /\ last_attempt_turn' = [last_attempt_turn EXCEPT ![current_role] = turns + 1]
  /\ consecutive_failures' = Failures
  /\ RunAgain
  /\ UNCHANGED think_harder_succeeded

\* Retries exhausted: hand the task to the next tier.
Escalate(c) ==
  /\ ~AbortsEarly(c) /\ ~ShouldThinkHarder(c, Failures)
  /\ ShouldEscalate(c, Failures)
  /\ ErrorTurn /\ ClearBoost
  /\ think_harder_succeeded' = IF think_harder_attempted THEN "no" ELSE think_harder_succeeded
  /\ think_harder_attempted' = FALSE
  /\ EscalateTask
  /\ UNCHANGED last_attempt_turn

Retry(c) ==
  /\ ~AbortsEarly(c) /\ ~ShouldThinkHarder(c, Failures) /\ ~ShouldEscalate(c, Failures)
  /\ ShouldRetry(c, Failures)
  /\ ErrorTurn /\ ClearBoost
  /\ consecutive_failures' = Failures
  /\ RunAgain
  /\ UNCHANGED <<think_harder_attempted, think_harder_succeeded, last_attempt_turn>>

Fail(c) ==
  /\ ~AbortsEarly(c) /\ ~ShouldThinkHarder(c, Failures) /\ ~ShouldEscalate(c, Failures)
  /\ ~ShouldRetry(c, Failures)
  /\ ErrorTurn /\ ClearBoost
  /\ consecutive_failures' = Failures
  /\ MakeEndResult(FALSE)
  /\ UNCHANGED <<think_harder_attempted, think_harder_succeeded, last_attempt_turn>>

\* A turn without error or answer.  Whatever it was, a pending think-harder
\* attempt is taken to have worked.
QuietTurn ==
  /\ ClearBoost
  /\ think_harder_succeeded' = IF think_harder_attempted /\ think_harder_succeeded = "unset"
                               THEN "yes" ELSE think_harder_succeeded
  /\ RunAgain
  /\ UNCHANGED <<think_harder_attempted, last_attempt_turn, resumes>>

\* The turn printed something: progress, the counters start over.
Output ==
  /\ \E asks \in BOOLEAN : ExecuteTurn(asks) /\ ~SeesRequest(asks, TRUE)
  /\ rescuable' \in BOOLEAN
  /\ consecutive_failures' = 0
  /\ consecutive_nudges' = 0
  /\ QuietTurn

\* The turn did nothing useful (comments only, silent, a status phrase as the
\* answer).  Every node but FrontdoorNode has reset consecutive_failures by the
\* time it counts the nudge; the last of a run of nudges counts as a failure.
Nudge ==
  LET failures == IF node = "FrontdoorNode" THEN consecutive_failures ELSE 0 IN
  /\ \E asks \in BOOLEAN : ExecuteTurn(asks)
  /\ rescuable' = FALSE
  /\ consecutive_failures' = failures + (IF Promoted THEN 1 ELSE 0)
  /\ consecutive_nudges' = IF Promoted THEN 0 ELSE consecutive_nudges + 1
  /\ QuietTurn

Error(c) == EarlyAbort(c) \/ ThinkHarder(c) \/ Escalate(c) \/ Retry(c) \/ Fail(c)

\* One run() of the current node.
RunNode ==
  /\ \/ MaxTurnsReached
     \/ ModelEscalation
     \/ FinalAnswer
     \/ Output
     \/ Nudge
     \/ \E c \in Category : Error(c)
  /\ Snapshot

\* The process dies and run_task(TaskState(...), resume_token=token) takes the
\* task up again, with a new REPL: what the token does not carry is fresh.
Resume ==
  /\ node # "End" /\ resumes < MaxResumes
  /\ resumes' = resumes + 1
  /\ current_role' = token.current_role
  /\ node' = StartNode(token.current_role)
  /\ role_history' = token.role_history
  /\ turns' = token.turns
  /\ escalation_count' = token.escalation_count
  /\ consecutive_failures' = token.consecutive_failures
  /\ consecutive_nudges' = 0
  /\ rescuable' = FALSE
  /\ think_harder_config' = FALSE
  /\ think_harder_attempted' = FALSE
  /\ think_harder_succeeded' = "unset"
  /\ last_attempt_turn' = [r \in Role |-> Never]
  /\ escalation_requested' = FALSE
  /\ UNCHANGED <<result, token>>

\* The task has ended.
Ended == node = "End" /\ UNCHANGED vars

Next == RunNode \/ Resume \/ Ended

\* Weak fairness of RunNode: pydantic-graph calls the returned node at once, and
\* every LLM call and REPL execution inside a turn is bounded by a timeout.
Spec == Init /\ [][Next]_vars /\ WF_vars(RunNode)

-----------------------------------------------------------------------------
\* Properties.

\* Every variable has the type the code gives it; only an ended task has a
\* result.
TaskTypeOK ==
  /\ node \in NodeClass \cup {"End"}
  /\ current_role \in Role /\ role_history \in Seq(Role)
  /\ turns \in 0 .. MaxTurns
  /\ consecutive_failures \in Nat /\ consecutive_nudges \in 0 .. MaxNudges - 1
  /\ escalation_count \in Nat
  /\ rescuable \in BOOLEAN
  /\ think_harder_config \in BOOLEAN /\ think_harder_attempted \in BOOLEAN
  /\ think_harder_succeeded \in {"unset", "yes", "no"}
  /\ last_attempt_turn \in [Role -> Nat \cup {Never}]
  /\ escalation_requested \in BOOLEAN
  /\ result \in Result /\ (node # "End" => result = NoResult)
  /\ resumes \in 0 .. MaxResumes

TypeOK == TaskTypeOK /\ token \in Token

\* The bookkeeping of escalations agrees with itself at every node boundary:
\* the class about to run serves current_role, current_role is the last one
\* recorded, and every recorded hand-over was counted.  role_history[-2], which
\* _record_mitigation names as the role that failed, exists once the task has
\* escalated.
EscalationsAccounted ==
  /\ node # "End" => node = StartNode(current_role)
  /\ role_history # <<>>
  /\ current_role = role_history[Len(role_history)]
  /\ escalation_count = Len(role_history) - 1

\* _detect_role_cycle never fires in a task of the graph: the guard in
\* _should_escalate can be relied on not to strand a task below the top.
NoRoleCycle == ~DetectRoleCycle(role_history)

\* The failures a running task may carry.  Errors alone leave at most
\* MaxRetries - 1; a promoted run of nudges counts as one more, and only
\* FrontdoorNode lets these pile up.
FailureBudget ==
  node # "End" =>
    IF node = "FrontdoorNode"
    THEN consecutive_failures <= MaxRetries - 1 + turns \div MaxNudges
    ELSE consecutive_failures <= MaxRetries - 1 \/ consecutive_failures = 1

\* A boosted configuration waits only for the next turn of the role that asked
\* for it, and that role is one failure short of escalating.
BoostIsFresh ==
  think_harder_config =>
    /\ think_harder_attempted
    /\ last_attempt_turn[current_role] = turns
    /\ consecutive_failures = MaxRetries - 1

\* Every hand-over in the history is one of the escalation map.
HistoryClimbs ==
  \A i \in 1 .. Len(role_history) - 1 : role_history[i+1] = EscalatesTo(role_history[i])

IsPrefixOf(s, t) == Len(s) <= Len(t) /\ \A i \in 1 .. Len(s) : s[i] = t[i]

\* A resume token lies behind the task it was taken from: resuming repeats
\* turns and escalations, and never skips any or takes another path.
TokenIsBehind ==
  /\ token.turns <= turns
  /\ token.role_history # <<>> /\ IsPrefixOf(token.role_history, role_history)
  /\ token.current_role = token.role_history[Len(token.role_history)]
  /\ token.escalation_count = Len(token.role_history) - 1

\* Between two crashes a role thinks harder at most once.
ThinksHarderOnce ==
  [][\A r \in Role :
       last_attempt_turn'[r] \notin {last_attempt_turn[r], Never} => last_attempt_turn[r] = Never]_vars

\* A standard error ends a task only at the top of its chain or with the
\* escalation budget spent, never while a higher role is left to try.
GivesUpAtTheTop ==
  [][Fail("standard") => EscalatesTo(current_role) = None \/ escalation_count >= MaxEscalations]_vars

\* A task climbs the escalation map one role at a time, falls back only to a
\* role it had reached before, and ends once.
Ladder == INSTANCE EscalationLadder WITH
  climbed <- role_history,
  status  <- IF node # "End" THEN "running" ELSE
               IF result.success THEN "answered" ELSE "failed"
ImplementsLadder == Ladder!Spec

\* Every task ends: max_turns bounds the turns, and nothing else has to.
Termination == <>(node = "End")

=============================================================================
