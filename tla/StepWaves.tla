----------------------------- MODULE StepWaves -----------------------------
(***************************************************************************)
(* A plan of steps put into waves and executed wave by wave                *)
(* (src/parallel_step_executor.py).  compute_waves gives every step the    *)
(* first wave after those of its dependencies, then moves the members of a *)
(* parallel group to the latest of their waves.  StepExecutor runs the     *)
(* ordinary steps of a wave one at a time, then its burst steps, a few at  *)
(* a time; a step that failed makes those that depend on it be skipped.    *)
(*                                                                         *)
(* What a step computes is left out; its prompt is the set of steps whose  *)
(* output it could be given.                                               *)
(***************************************************************************)
EXTENDS Integers, FiniteSets

CONSTANTS
  Step,              \* step ids, in the order they are sorted in
  Group,             \* names of parallel groups
  MaxBurstConcurrent

ASSUME StepAssumption ==
  /\ Step \subseteq Nat
  /\ IsFiniteSet(Step)
  /\ MaxBurstConcurrent \in Nat \ {0}

NoGroup == "none"

VARIABLES
  depends_on,      \* the plan: what each step depends on,
  parallel_group,  \* its group, if any,
  burst,           \* and the steps whose role is a burst worker
  phase,           \* "sorting", "executing", "done", or "cycle" for ValueError
  remaining,       \* steps compute_waves has not placed
  wave_index,
  wave,            \* the wave being placed, then the one being executed
  open,            \* whether the steps of that wave have been looked through
  running,         \* steps whose LLM call is under way
  result,          \* what became of each step
  failed_steps,    \* failures of the earlier waves
  step_outputs,    \* steps whose output later prompts may include
  prompt           \* step_outputs at the time a step began

plan   == <<depends_on, parallel_group, burst>>
sorter == <<remaining, wave_index>>
runner == <<open, running, result, failed_steps, step_outputs, prompt>>
vars   == <<plan, phase, sorter, wave, runner>>

Result == {"none", "ok", "failed", "skipped"}

Init ==
  /\ depends_on \in [Step -> SUBSET Step]
  /\ parallel_group \in [Step -> Group \cup {NoGroup}]
  /\ burst \in SUBSET Step
  /\ phase = "sorting"
  /\ remaining = Step
  /\ wave_index = [s \in Step |-> 0]
  /\ wave = 0
  /\ open = FALSE
  /\ running = {}
  /\ result = [s \in Step |-> "none"]
  /\ failed_steps = {}
  /\ step_outputs = {}
  /\ prompt = [s \in Step |-> {}]

-----------------------------------------------------------------------------
\* compute_waves.

\* Bug: in-degrees come down to zero one dependency too soon.
ReadyStepsTooSoon == {s \in remaining : Cardinality(depends_on[s] \cap remaining) <= 1}

\* The steps whose in-degree has come down to zero.
ReadySteps == {s \in remaining : depends_on[s] \cap remaining = {}}

\* Bug: a step is given the number of the wave before its own.
PlaceWaveLower ==
  /\ phase = "sorting"
  /\ ReadySteps # {}
  /\ remaining' = remaining \ ReadySteps
  /\ wave_index' = [s \in Step |-> IF s \in ReadySteps THEN wave - 1 ELSE wave_index[s]]
  /\ wave' = wave + 1
  /\ UNCHANGED <<plan, phase, runner>>

PlaceWave ==
  /\ phase = "sorting"
  /\ ReadySteps # {}
  /\ remaining' = remaining \ ReadySteps
  /\ wave_index' = [s \in Step |-> IF s \in ReadySteps THEN wave ELSE wave_index[s]]
  /\ wave' = wave + 1
  /\ UNCHANGED <<plan, phase, runner>>

RejectCycle ==
  /\ phase = "sorting"
  /\ remaining # {}
  /\ ReadySteps = {}
  /\ phase' = "cycle"
  /\ UNCHANGED <<plan, sorter, wave, runner>>

Members(s) ==
  IF parallel_group[s] = NoGroup THEN {s}
  ELSE {t \in Step : parallel_group[t] = parallel_group[s]}

\* The latest wave of its group.
MergedWave(s) ==
  CHOOSE w \in {wave_index[t] : t \in Members(s)} : \A t \in Members(s) : wave_index[t] <= w

MergeGroups ==
  /\ phase = "sorting"
  /\ remaining = {}
  /\ phase' = "executing"
  /\ wave_index' = [s \in Step |-> MergedWave(s)]
  /\ wave' = 0
  /\ UNCHANGED <<plan, remaining, runner>>

-----------------------------------------------------------------------------
\* StepExecutor.execute_plan.

Wave == {s \in Step : wave_index[s] = wave}
Left == {s \in Wave : result[s] = "none" /\ s \notin running}

\* The steps to skip are found before any step of the wave begins.
OpenWave ==
  /\ phase = "executing"
  /\ ~open
  /\ Wave # {}
  /\ open' = TRUE
  /\ result' = [s \in Step |->
       IF s \in Wave /\ depends_on[s] \cap failed_steps # {} THEN "skipped" ELSE result[s]]
  /\ UNCHANGED <<plan, phase, sorter, wave, running, failed_steps, step_outputs, prompt>>

Begin(s) ==
  /\ open
  /\ s \in Left
  /\ running' = running \cup {s}
  /\ prompt' = [prompt EXCEPT ![s] = step_outputs]
  /\ UNCHANGED <<plan, phase, sorter, wave, open, result, failed_steps, step_outputs>>

\* One at a time, in order of their ids.
BeginSequential(s) ==
  /\ s \notin burst
  /\ running = {}
  /\ \A t \in Left \ burst : s <= t
  /\ Begin(s)

\* The semaphore lets them in in order; they start when the others are through.
BeginBurst(s) ==
  /\ s \in burst
  /\ Left \subseteq burst
  /\ running \subseteq burst
  /\ Cardinality(running) < MaxBurstConcurrent
  /\ \A t \in Left : s <= t
  /\ Begin(s)

\* The output of an ordinary step is stored at once, that of a burst step when
\* the whole gather is over.
Finish(s, r) ==
  /\ s \in running
  /\ running' = running \ {s}
  /\ result' = [result EXCEPT ![s] = r]
  /\ step_outputs' = IF r = "ok" /\ s \notin burst THEN step_outputs \cup {s} ELSE step_outputs
  /\ UNCHANGED <<plan, phase, sorter, wave, open, failed_steps, prompt>>

\* Approved, changes requested, escalated, or not reviewed.
StepSucceeds(s) == Finish(s, "ok")

\* The call raises, or the review rejects its output.
StepFails(s) == Finish(s, "failed")

\* Bug: the outputs of burst steps are not stored.
CloseWaveLosesOutputs ==
  /\ open
  /\ Left = {}
  /\ running = {}
  /\ open' = FALSE
  /\ failed_steps' = failed_steps \cup {s \in Wave : result[s] \in {"failed", "skipped"}}
  /\ wave' = wave + 1
  /\ UNCHANGED <<plan, phase, sorter, running, result, step_outputs, prompt>>

\* Bug: a skipped step does not count as failed.
CloseWaveForgetsSkipped ==
  /\ open
  /\ Left = {}
  /\ running = {}
  /\ open' = FALSE
  /\ step_outputs' = step_outputs \cup {s \in Wave : result[s] = "ok"}
  /\ failed_steps' = failed_steps \cup {s \in Wave : result[s] = "failed"}
  /\ wave' = wave + 1
  /\ UNCHANGED <<plan, phase, sorter, running, result, prompt>>

CloseWave ==
  /\ open
  /\ Left = {}
  /\ running = {}
  /\ open' = FALSE
  /\ step_outputs' = step_outputs \cup {s \in Wave : result[s] = "ok"}
  /\ failed_steps' = failed_steps \cup {s \in Wave : result[s] \in {"failed", "skipped"}}
  /\ wave' = wave + 1
  /\ UNCHANGED <<plan, phase, sorter, running, result, prompt>>

\* Merging may leave a wave without steps; there is no Wave object for it.
PassWave ==
  /\ phase = "executing"
  /\ Wave = {}
  /\ \E s \in Step : wave_index[s] > wave
  /\ wave' = wave + 1
  /\ UNCHANGED <<plan, phase, sorter, runner>>

EndPlan ==
  /\ phase = "executing"
  /\ \A s \in Step : wave_index[s] < wave
  /\ phase' = "done"
  /\ UNCHANGED <<plan, sorter, wave, runner>>

\* Nothing is left to do; a plan that stops anywhere else is a deadlock.
Ended ==
  /\ phase \in {"done", "cycle"}
  /\ UNCHANGED vars

Next ==
  \/ PlaceWave
  \/ RejectCycle
  \/ MergeGroups
  \/ OpenWave
  \/ \E s \in Step :
       \/ BeginSequential(s)
       \/ BeginBurst(s)
       \/ StepSucceeds(s)
       \/ StepFails(s)
  \/ CloseWave
  \/ PassWave
  \/ EndPlan
  \/ Ended

Spec == Init /\ [][Next]_vars

-----------------------------------------------------------------------------

\* Every variable has its type.
TypeOK ==
  /\ depends_on \in [Step -> SUBSET Step]
  /\ parallel_group \in [Step -> Group \cup {NoGroup}]
  /\ burst \subseteq Step
  /\ phase \in {"sorting", "executing", "done", "cycle"}
  /\ remaining \subseteq Step
  /\ wave_index \in [Step -> Nat]
  /\ wave \in Nat
  /\ open \in BOOLEAN
  /\ running \subseteq Step
  /\ result \in [Step -> Result]
  /\ failed_steps \subseteq Step
  /\ step_outputs \subseteq Step
  /\ prompt \in [Step -> SUBSET Step]

Sorted == phase \in {"executing", "done"}

\* What a step depends on and has to wait for.  Merging the groups may move a step
\* into the wave of one that depends on it, or beyond; the executor then runs the
\* two in the order of their waves and ids, whatever depends_on says.
Earlier(s) == {d \in depends_on[s] : wave_index[d] < wave_index[s]}

\* A step that got to run began after all it depends on in earlier waves had
\* succeeded, with their outputs at hand.  What it could read beyond that came from
\* steps that succeed, of earlier waves or before the burst steps of its own.
DependenciesFirst ==
  Sorted =>
    \A s \in Step :
      s \in running \/ result[s] \in {"ok", "failed"} =>
        /\ \A d \in Earlier(s) : result[d] = "ok" /\ d \in prompt[s]
        /\ \A d \in prompt[s] :
             /\ result[d] = "ok"
             /\ wave_index[d] <= wave_index[s]
             /\ d \in burst => wave_index[d] < wave_index[s]

\* In the end every step has a result, and it is skipped exactly if something it
\* depends on in an earlier wave did not succeed, however far up the failure was.
FailureSpreads ==
  phase = "done" =>
    \A s \in Step :
      /\ result[s] # "none"
      /\ result[s] = "skipped" <=> \E d \in Earlier(s) : result[d] # "ok"

\* Every step is in the earliest wave its dependencies allow, and a plan is
\* refused only if it has a cycle: judged by paths, not by the sorting.  Merging
\* then leaves a step in the earliest wave that its whole group allows.
Path(deps, s, n) ==
  {p \in [0 .. n -> Step] : p[0] = s /\ \A i \in 0 .. n - 1 : p[i + 1] \in deps[p[i]]}

Together(s) == {s} \cup {t \in Step : parallel_group[t] = parallel_group[s] /\ parallel_group[s] # NoGroup}

WavesAreDepths ==
  /\ \A s \in Step \ remaining :
       phase = "sorting" =>
         /\ Path(depends_on, s, wave_index[s]) # {}
         /\ Path(depends_on, s, wave_index[s] + 1) = {}
  /\ phase = "cycle" => \E s \in Step : Path(depends_on, s, Cardinality(Step)) # {}
  /\ Sorted => \A s \in Step :
       /\ \E t \in Together(s) : Path(depends_on, t, wave_index[s]) # {}
       /\ \A t \in Together(s) : Path(depends_on, t, wave_index[s] + 1) = {}

=============================================================================
