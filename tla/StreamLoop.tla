----------------------------- MODULE StreamLoop -----------------------------
(***************************************************************************)
(* A request to the streaming endpoint in real mode: the loop of turns in  *)
(* _stream_repl (src/api/routes/chat_pipeline/stream_adapter.py) and its   *)
(* older twin in chat_stream (src/api/routes/chat.py).  It is a generator  *)
(* of events; the client may go away at any of them.  A turn is one LLM    *)
(* call and the execution of what it wrote; the model may ask for another  *)
(* role, and EscalationPolicy decides about errors.                        *)
(*                                                                         *)
(* Of the events only the last word is kept: an answer, an error, nothing. *)
(* A turn is one action, its outcome chosen by the environment.            *)
(***************************************************************************)
EXTENDS EscalationPolicy, Sequences

CONSTANTS
  StartRole,  \* what request.role may be
  Target,     \* what a model may name as a target, roles or not
  MaxTurns    \* request.max_turns

ASSUME StreamAssumption ==
  /\ MaxTurns \in Nat \ {0}
  /\ None \notin StartRole \cup Target

VARIABLES
  phase,                \* "looping", "leaving" (the loop is over), "done", "closed"
  turn,                 \* turns begun
  current_role, role_history,
  consecutive_failures,
  escalation_prompt,    \* what the next turn is given instead of the usual prompt
  result,               \* of the last execution; "none" before the first
  told,                 \* the last word to the client
  logged                \* the outcome of the task in the progress log

roles == <<current_role, role_history>>
vars  == <<phase, turn, roles, consecutive_failures, escalation_prompt, result, told, logged>>

Init ==
  /\ phase = "looping"
  /\ turn = 0
  /\ current_role \in StartRole
  /\ role_history = <<current_role>>
  /\ consecutive_failures = 0
  /\ escalation_prompt = "none"
  /\ result = "none"
  /\ told = "nothing"
  /\ logged = "no"

\* The next turn begins.
Turn ==
  /\ phase = "looping"
  /\ turn < MaxTurns
  /\ turn' = turn + 1

\* It is executed, which uses up the prompt the last turn has left for it, and
\* leaves prompt p.
Execute(r, p) ==
  /\ Turn
  /\ result' = r
  /\ escalation_prompt' = p

\* The call of the model raises: an error, a log entry, and no more.
LLMRaises ==
  /\ Turn
  /\ phase' = "done"
  /\ told' = "error"
  /\ logged' = "failure"
  /\ escalation_prompt' = "none"
  /\ UNCHANGED <<roles, consecutive_failures, result>>

\* A failure as the loop reports it; it counts no escalations.
Reported(c, n) ==
  [role |-> current_role, category |-> c, failures |-> n, escalations |-> 0]

SwitchTo(r) ==
  /\ current_role' = r
  /\ role_history' = Append(role_history, r)
  /\ consecutive_failures' = 0

\* Bug: the name is taken without looking whether there is such a role.
RequestedByName(t) == IF t # None THEN t ELSE EscalatesTo(current_role)

\* The role a model gets that asked for target t, or for none in particular.
Requested(t) ==
  IF t # None THEN (IF t \in KnownRole THEN t ELSE None) ELSE
  IF Decide(Reported("early_abort", 1)) = "escalate" THEN EscalatesTo(current_role) ELSE None

\* The request comes before everything else the turn has come to, be it an
\* answer.  A request for nothing or for the role it is changes nothing: the
\* turn counts as any other.
HandOver(t, r) ==
  /\ Requested(t) \notin {None, current_role}
  /\ Execute(r, "handover")
  /\ SwitchTo(Requested(t))
  /\ UNCHANGED <<phase, told, logged>>

Answer ==
  /\ Execute("final", "none")
  /\ told' = "final"
  /\ phase' = "leaving"
  /\ UNCHANGED <<roles, consecutive_failures, logged>>

Quiet ==
  /\ Execute("quiet", "none")
  /\ consecutive_failures' = 0
  /\ UNCHANGED <<phase, roles, told, logged>>

\* The categories of errors in a turn; there are no gates here.
TurnCategory == Category \ {"optional_timeout"}

\* What the policy says of an error of category c.
Decision(c) == Decide(Reported(c, consecutive_failures + 1))

Stay == UNCHANGED roles /\ consecutive_failures' = consecutive_failures + 1

ThinkHarder(c) ==
  /\ Decision(c) = "think_harder"
  /\ Execute("error", "cot")
  /\ Stay
  /\ UNCHANGED <<phase, told, logged>>

Escalate(c) ==
  /\ Decision(c) = "escalate"
  /\ Execute("error", "handover")
  /\ SwitchTo(EscalatesTo(current_role))
  /\ UNCHANGED <<phase, told, logged>>

Fail(c) ==
  /\ Decision(c) = "fail"
  /\ Execute("error", "none")
  /\ Stay
  /\ told' = "error"
  /\ phase' = "leaving"
  /\ UNCHANGED logged

\* The loop has no branch for any other decision: the role has another turn.
GoOn(c) ==
  /\ Decision(c) \in {"retry", "explore"}
  /\ Execute("error", "none")
  /\ Stay
  /\ UNCHANGED <<phase, told, logged>>

\* The turns are used up; the client is told nothing of it.
OutOfTurns ==
  /\ phase = "looping"
  /\ turn = MaxTurns
  /\ phase' = "leaving"
  /\ UNCHANGED <<turn, roles, consecutive_failures, escalation_prompt, result, told, logged>>

\* Bug: whatever did not end in an error is a success.
LeaveUnlessError ==
  /\ phase = "leaving"
  /\ phase' = "done"
  /\ logged' = IF told # "error" THEN "success" ELSE "failure"
  /\ UNCHANGED <<turn, roles, consecutive_failures, escalation_prompt, result, told>>

\* After the loop the outcome is logged, by the last result.
Leave ==
  /\ phase = "leaving"
  /\ phase' = "done"
  /\ logged' = IF result = "final" THEN "success" ELSE "failure"
  /\ UNCHANGED <<turn, roles, consecutive_failures, escalation_prompt, result, told>>

\* The client goes away and the generator is closed where it stands.
Disconnect ==
  /\ phase \in {"looping", "leaving"}
  /\ phase' = "closed"
  /\ UNCHANGED <<turn, roles, consecutive_failures, escalation_prompt, result, told, logged>>

Go ==
  \/ LLMRaises
  \/ \E t \in Target \cup {None}, r \in {"final", "error", "quiet"} : HandOver(t, r)
  \/ Answer
  \/ Quiet
  \/ \E c \in TurnCategory : ThinkHarder(c) \/ Escalate(c) \/ Fail(c) \/ GoOn(c)
  \/ OutOfTurns
  \/ Leave

\* Nothing more comes; a stream that stops anywhere else is a deadlock.
Ended ==
  /\ phase \in {"done", "closed"}
  /\ UNCHANGED vars

Next == Go \/ Disconnect \/ Ended

Spec == Init /\ [][Next]_vars

-----------------------------------------------------------------------------

\* Every variable has its type.
TypeOK ==
  /\ phase \in {"looping", "leaving", "done", "closed"}
  /\ turn \in 0 .. MaxTurns
  /\ current_role \in StartRole \cup KnownRole
  /\ role_history \in Seq(StartRole \cup KnownRole)
  /\ consecutive_failures \in 0 .. MaxTurns
  /\ escalation_prompt \in {"none", "cot", "handover"}
  /\ result \in {"none", "final", "error", "quiet"}
  /\ told \in {"nothing", "final", "error"}
  /\ logged \in {"no", "success", "failure"}

\* Whatever mixture of requests, errors and quiet turns a task has behind it, a
\* role that has used up its retries goes on only if nobody is above it.
RetriesAreBounded ==
  phase = "looping" /\ consecutive_failures >= MaxRetries => EscalatesTo(current_role) = None

\* A task counts as a success (the routing memory learns from it) only if the
\* client has the answer; the exception is an answer in the last turn by a model
\* that asks for another role in the same breath: it is counted and never sent.
SuccessIsTold ==
  phase = "done" =>
    /\ logged = "success" => told = "final" \/ escalation_prompt = "handover"
    /\ told = "final" => logged = "success"

=============================================================================
