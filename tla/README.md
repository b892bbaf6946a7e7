# Verification of the orchestrator

Formal models of the orchestrator in `src/`: TLA+ modules translated from the
Python source, TLC configurations that model-check them, and theorems checked
by the TLA+ proof system. Paths below are relative to the repository root; the
Python package is `src/`.

## 1. The system

A request reaches one of six API worker processes, is routed to a *role*, and
runs as a *task* on a graph of seven node classes. Each turn of a task is one
LLM call followed by the execution of what the model wrote. LLM calls of all
tasks and all processes compete for a handful of llama-server processes that
share one machine.

| Component | State | Operations | Talks to | What makes it hard |
|---|---|---|---|---|
| Orchestration graph (`src/graph/nodes.py`, `helpers.py`, `graph.py`) | one `TaskState` per task: role, history, counters, think-harder bookkeeping | `run()` of each node class, `run_task` | inference calls, REPL, snapshots | four ways to leave a turn, three ways to escalate, counters that reset differently on each |
| Resume tokens and snapshots (`src/graph/resume_token.py`, `persistence.py`) | last token in the session store | `snapshot_node`, `from_state`, `decode` | graph, session store | crashes, silently lost writes |
| Roles and maps (`src/roles.py`) | static | `escalates_to`, `get_fallback_roles` | graph, inference | the node classes repeat the map as literals |
| Inference calls (`src/llm_primitives/`) | role semaphores, the call's own progress | `_real_call`, `_call_caching_backend` | admission, breaker, lock, backend | four shared resources, many error paths, fallback while holding one of them |
| Inference lock (`src/inference_lock.py`) | a flock shared by all processes | `inference_lock`, `_erase_port_slots` | llama-servers | processes, timeouts, clean-up after release |
| Admission (`src/api/admission.py`) | slots and waiters per backend | `acquire`, `release` | inference calls | polling, priorities, check then act |
| Health tracker (`src/api/health_tracker.py`) | a circuit per backend | `is_available`, `record_success`, `record_failure` | inference calls | reports in any order |
| Procedure scheduler (`orchestration/procedure_scheduler.py`) | job table, lists of ended jobs, persisted | `schedule`, `cancel`, `clear_completed`, `run_one`, `run_all` | procedure registry | threads, retries, torn files, restarts |
| Procedure execution (`orchestration/procedure_registry.py`) | one `_context` for all executions, checkpoint files | `execute` | shell, files, REPL tools | nested loops, five ways to fail, executions that overlap |
| Parallel step executor (`src/parallel_step_executor.py`) | steps and their waves | `compute_waves`, `execute_plan` | LLM primitives | dependencies against parallel groups, failures that spread |
| Worker pool (`src/services/worker_pool.py`) | hot and warm workers, shutdown timers, a semaphore | `call`, `batch`, idle shutdown | llama-servers | timers against requests, stale health flags, cancelled batches |
| Escalation policy (`src/escalation.py`) | none | `decide` | streaming endpoints | a second decision table beside the graph's |
| API and chat pipeline (`src/api/routes/`) | per request | streaming loop, routing | escalation policy, REPL, progress log | client may leave at any event; log and stream must agree |
| Sessions, delegation, executor, gates, REPL, caches, services, episodic memory, scripts | various | see `PROJECT.json` | | mostly sequential, I/O or numeric |

What correct means, component by component:

* **Graph.** The task's role, history, escalation count and node class tell one
  story; hand-overs climb the escalation map one tier at a time; a role gets its
  chances (retry, think harder) before the task is handed on or given up; a
  boosted configuration is never used by another role; every task ends.
* **Resume.** A resumed task is an earlier point of the same task.
* **Inference.** Nothing taken is ever leaked; a heavy model runs alone on the
  machine; background calls yield; every call returns.
* **Breaker.** State and count agree; a backend is neither shut out for ever nor
  kept out after it recovers.
* **Scheduler.** A job runs in one thread, ends once, and completes after what it
  depends on, whatever callers, crashes and files do; a cancelled job stays out.
* **Procedures.** An execution works on its own inputs and finds all it has
  captured, a rollback brings back the context it began with, and the verdict
  agrees with the steps' results.
* **Plans.** A step begins after its dependencies in earlier waves, with their
  outputs; a failure reaches everything below it and nothing else.
* **Pool.** No place leaks; a warm worker is never left up unwatched; every
  request comes back.
* **Streams.** Retries are bounded; a success in the log is an answer sent.

## 2. Modules

| Module | Models |
|---|---|
| `Roles` | `Role`, `_ESCALATION_MAP`, `select_start_node`, and the target role and node class written in each `run()` |
| `EscalationLadder` | abstract specification: what running a task promises |
| `OrchestrationGraph` | one task on the graph, snapshots, crash and resume |
| `OrchestrationGraphProofs` | the theorems about it |
| `Backends` | ports, heavy and light roles, admission limits, role limits, fallback roles |
| `Circuit` | one circuit as a value and what each tracker method does to it |
| `CircuitBreaker` | one backend behind its circuit: callers, time, crashes |
| `CircuitBreakerProofs` | what each method keeps of a circuit; the theorems about the breaker |
| `InferencePath` | calls of several processes through semaphore, admission, circuit, lock and servers |
| `InferencePathProofs` | the theorems about it |
| `ProcedureScheduler` | the job table, its callers, its runner threads, its file and restarts |
| `JobLedger` | abstract specification: what a scheduler of jobs promises |
| `ProcedureSchedulerProofs` | the theorems about it |
| `ProcedureRegistry` | `execute`: the step loop with conditions, retries, checkpoint and rollback |
| `ProcedureRegistryProofs` | the theorems about it |
| `StepWaves` | `compute_waves` and the execution of the waves |
| `StepWavesProofs` | the theorems about it |
| `WorkerPool` | hot and warm workers, calls, batches, timers |
| `WorkerPoolProofs` | the theorems about it |
| `EscalationPolicy` | `decide()` as an operator |
| `StreamLoop` | a request in the streaming loop, which asks `EscalationPolicy` |
| `StreamLoopProofs` | the theorems about it |
| `MC...` | constants for TLC |

`OrchestrationGraph` composes `Roles` with the task; `InferencePath` composes
`Backends` and `Circuit` with admission, lock and calls. `CircuitBreaker` uses
the same `Circuit` with time made explicit, which `InferencePath` leaves open.
`EscalationPolicy` and `StreamLoop` use the same `Roles` as the graph: two
decision makers over one escalation map. `ProcedureScheduler` implements
`JobLedger` as the graph implements `EscalationLadder`. It calls what
`ProcedureRegistry` models from several threads; each module keeps the other as
an outcome.

### OrchestrationGraph

`node` is the object returned by the last `run()`; the other variables are the
fields of `TaskState` that decide anything. An action is one whole `run()`:

| Action | Path through `run()` |
|---|---|
| `MaxTurnsReached` | entry check, answer rescued from `last_output` or failure |
| `ModelEscalation` | `CoderNode` finds `_escalation_requested` |
| `FinalAnswer` | `is_final`, `_make_end_result` |
| `EarlyAbort(c)`, `ThinkHarder(c)`, `Escalate(c)`, `Retry(c)`, `Fail(c)` | the five outcomes of the error branch, in the order of the code |
| `Output`, `Nudge` | the branch without error |
| `Resume` | the process died; `run_task(..., resume_token=...)` |

The seven node classes share the actions; where they differ (escalation target,
early abort only below the architects, the failure counter on a nudge, the
model's escalation request) the operators say so. `Snapshot` is conjoined to
every node action: the token is written, or the write is lost. What a turn
yields is chosen by the environment among the outcomes the decisions tell
apart; error categories the decisions treat alike are one value. The model's
`escalate()` is a flag that stays until a `CoderNode` looks at it, as in the
code.

Left out: the return-on-investment gate of thinking harder, which needs
`think_harder_min_samples` attempts in one task; approval gates, budgets and
other features that are off by default; everything inside `_execute_turn` that
only shapes the prompt; and its early return without primitives or REPL
(`helpers.py:855`, before the boosted configuration is cleared), a graph that is
not wired up.

The snapshots are a superset of what happens today. A write succeeds or is lost,
and resuming uses what reached the store, as `SQLiteStatePersistence` means it.
With the repository's own `SQLiteSessionStore` every write is lost, because the
two disagree on the signature of `save_checkpoint` (section 5), and `run_task` and
`iter_task` pass no persistence object to the graph. The invariants hold in every
subset of these behaviours.

### InferencePath and CircuitBreaker

A call of `InferencePath` is one `_real_call`. Each action touches one shared
object, so calls interleave wherever threads and processes can. The flock is
the set `holders`, common to all workers; semaphores are per primitives object,
admission and circuits per worker process. `generating` is what the servers are
working on, which outlives a client that times out. Servers are external: they
answer, fail, or go on. `tried` walks through the fallback roles. `Asked` says
which of the calls may come together: `Init` picks one such group, and the calls
outside it count as done from the start. Embedders have a lock file of their own
(`inference_lock.py:293-302`); none of the roles here is one, so there is one flock.

Streaming calls take the same gates in the same order and are not modelled
separately; batch calls and the content cache are not modelled.

`CircuitBreaker` gives one circuit a clock, a backend that goes down and comes
back, and callers whose reports come late. The time between the check and the
report is not bounded, because the wait for the lock lies in between.

### ProcedureScheduler and ProcedureRegistry

A critical section of the scheduler's lock is one action; a procedure executes
between `Take` (under the lock) and `Succeed`, `Fail` or `Raise` (under it
again). `Save` is part of each action that saves: the file gets the new state,
keeps the old one, or is torn, which loads as nothing. Taking a job saves
nothing, as in the code. Job ids are random and never repeat; here they grow.
`Named` are the jobs some caller runs by id, which the code does without looking
at status or dependencies: the properties exempt those jobs, and the run has one.
`clear_completed` is taken without its time limit. A job may be scheduled with ids
that do not exist; since jobs are issued in the order of their numbers, a number
passed over is such an id, and what depends on it waits for ever.

In `ProcedureRegistry` a context is the execution whose inputs it holds and the
outputs captured in it. Each execution goes through `Begin` (checkpoint),
`ResetContext` and then step by step through the outcomes of the loop body:
`PassOver`, `ConditionRaises`, `Interpolate` with `StepSucceeds`, `TryAgain`,
`StepFails`, `RestoreRaises` or `RetriesRaise`. Executions interleave between
these. `alone` and `found` are history variables: the executions that met no other,
and the context each found when it began. The output of a step that succeeds only
when tried again is not captured (`procedure_registry.py:726-733`), hence the
result "retried" beside "ok". Checkpoint files are named by
procedure and second; two of the same procedure in one second would share a file,
which the model leaves out, as it does `dry_run`, and the checkpoint action
inside a step, which no procedure uses. The call of `_log_to_memory` with a name
that does not exist (`procedure_registry.py:611`) has the effect of `SaveRaises`.

### StepWaves

`Init` takes every plan: any dependencies, groups and burst roles. `PlaceWave`
is one round of Kahn's algorithm, `MergeGroups` the merge, and `OpenWave`,
`BeginSequential`, `BeginBurst`, `Finish`, `CloseWave` the executor. `prompt` is
what a step could read when it began. Merging a group can move a step into the
wave of one that depends on it, or beyond (section 5). The executor does not wait
for such a dependency; `DependenciesFirst` and `FailureSpreads` speak, in every
plan, of the dependencies that lie in earlier waves (`Earlier`), and
`WavesAreDepths` says which wave a step is in before and after merging.

### WorkerPool

Actions are the stretches between two awaits. Ages and timers count ticks up to
`WarmTimeout`. A prompt whose connection is gone is "lost" until the client
notices. `healthy` is set and cleared where the code does it, and not when a
process dies. `CancelBatch` is the deadline in `_worker_pool_batch`; cancelling
a call is not modelled.

### EscalationPolicy and StreamLoop

A turn is one action with the outcome chosen by the environment; the decision is
`Decide`. `told` and `logged` are the last word to the client and the entry in
the progress log. The two copies of the loop (`stream_adapter.py`, `chat.py`)
agree in everything the module keeps.

## 3. Runs

| Run | Question | Result |
|---|---|---|
| `graph_core` | does a task keep its bookkeeping, climb the ladder, and end? | passes |
| `inference_path` | counters, exclusion, priorities, return of every call, also where calls queue for an architect or two architects stand in for each other | passes |
| `erase_spares` | does the clean-up erase only the failed call's slot? | violated |
| `cpu_exclusive` | does a heavy call have the machine to itself? | violated |
| `circuit` | does the breaker keep its state and recover? | passes |
| `scheduler` | one run, order, cancellation, the ledger of jobs, and `run_all` ending, across threads and a restart | passes |
| `registry` | own inputs and all captured outputs, the context a rollback brings back, verdict | passes |
| `procedure_deps` | does a step wait for its dependencies? | violated |
| `waves` | depth of the waves, order, outputs at hand, failures that spread | passes |
| `pool` | exact semaphore, watched warm workers, return of every client | passes |
| `warm_busy` | is a busy warm worker spared by its timer? | violated |
| `stream` | bounded retries, log and stream in agreement | passes |

**Bounds.** `graph_core`: four start roles reach all seven node classes and both
chains; `MaxTurns = 5` lets a task fail twice at two tiers and reach the third,
or be nudged past `MaxNudges = 3`, the code's value; `MaxRetries` and
`MaxEscalations` are the code's defaults; one crash, since a second resumes from
a state of the same kind. The cooldown of 2 is the default. `inference_path` has
three groups of calls. Two light calls of different priority share a process and a
port, one with a heavy fallback on that port, and a heavy call in another process:
the smallest instance in which every counter, the lock in both modes, a fallback
and every error path are exercised. Two calls for the one place of an architect:
the second waits, without limit, while the first goes through admission, the lock
and its fallback. One call for each of the two architects, which fall back to each
other's servers while they hold their own places. Three calls for architects at
once are more states than the run can afford (several millions), and nothing in a
call asks how many wait behind it. A threshold of one lets one failure open a
circuit.
The violation runs use two calls on a port with several slots. `circuit`:
threshold 2, so that failures below it matter; the cooldown doubles from 1 past
its maximum of 3; `MaxFailures` stops a count that makes no difference above the
threshold; three callers let an old failure and an old success overtake a probe.
`scheduler`: two jobs, apart or one after the other, and two runners; the later
one has priority and a retry, one may be run by id. A priority that contradicts
the dependency is the case worth having; one crash, since the second finds
a file of the same kind; `MaxEnded` stops jobs run by id; the second job may depend
on an id that never existed. `registry`:
one procedure without and one with rollback, together with every `on_failure`, a
condition, a retry and captured output. `waves`: every plan of three
steps, which has chains, forks, joins, cycles, groups that pull a step out of its
wave, and burst steps beside ordinary ones. `pool`: a hot and a warm worker, a
call and two batches that both expand the pool, one of a role served by each
worker, and a semaphore that can run out.
`stream`: `MaxTurns = 5` reaches a second role with its retries used up;
`MaxRetries` and `MaxEscalations` are the defaults; the start roles and targets
include a top, a dead end, a draft role and a name that is no role.

**Fairness.** `OrchestrationGraph`: weak fairness of `RunNode`; pydantic-graph
calls the returned node at once and every turn is bounded by timeouts. Resuming
is bounded, not fair. `InferencePath`: weak fairness of each call's step
(threads are scheduled, HTTP requests time out) and strong fairness of giving
up for background calls, which go back and forth between looking and polling,
because the loop compares its budget on every round. Acquiring the
lock, a slot or the role's place is never assumed fair: a call waits for its place
only while others have it, and a finite number of them give it back. `CircuitBreaker`: time passes, callers
keep asking, requests end; whether the backend recovers is left to chance and
is a hypothesis of `Recovers`. `ProcedureScheduler`: a runner goes on (threads
are scheduled, procedures end by their own timeouts); nobody has to call, and
the timeout of `run_all` is not assumed, so that `RunAllDrains` shows what the
loop does by itself: it ends, or every job that is left waits for one that has not
completed and is not being run (it failed, was cancelled or cleared, or never
was), and that stays so. `WorkerPool`: a client goes on when it can, as the event
loop and the timeout of the HTTP session see to; timers, crashes and
cancellations are not fair. The other modules state no liveness: their runs
check for deadlock instead (`waves`, `stream`), with an explicit step for a
system that has ended.

## 4. Proofs

`OrchestrationGraphProofs` proves, for every set of start roles and all limits:

* `TypeCorrect`, `EscalationsStayAccounted`, `TokenStaysBehind`,
  `RolesNeverCycle`, `BoostStaysFresh`, `FailuresStayInBudget`, each
  `Spec => []Inv`;
* `EachRoleThinksHarderOnce`, `TasksGiveUpAtTheTop`, each `Spec => [][A]_vars`;
* `GraphImplementsLadder`, `Spec => ImplementsLadder`.

Assumptions: `StartRolesAssumption` and `LimitsAssumption` of the module, no
more. The argument: a hand-over goes to `NodeTarget(node)`, and since the node
class serves the current role that is the role the escalation map names. That
needs `EscalationsAccounted`, which needs the token to be consistent because
resuming copies it; so the types, the accounting, the climbing of the history
and the token are proved together, one lemma per part of an action. A history
that climbs visits strictly higher tiers, hence no role twice, and the cycle
check has nothing to find. The stronger invariants of thinking harder relate
the attempt flag, the last attempt and the failure count and are proved on top.
`TasksGiveUpAtTheTop` uses `RolesNeverCycle`: without a cycle the only reasons
not to escalate are the top of the chain, the budget, and too few failures, and
the last leads to a retry. `FailureBudget` is not inductive at the front door,
where a run of nudges is promoted to a failure: what is preserved is that
failures times `MaxNudges` plus the nudges of the current run never exceed
`(MaxRetries - 1) * MaxNudges` plus the turns taken (`BudgetInv`), since each
nudge costs a turn and a promotion trades `MaxNudges` of them for one failure. It
is kept for the token as well, and needs that nudges never outnumber turns.

`InferencePathProofs` proves `PathTypeCorrect`, `CountersStayExact` and
`HeavyAlwaysRunsAlone`, each `Spec => []Inv`, for every finite set of calls with
any roles, priorities, processes and primitives objects (`CallAssumption`), and
any threshold and cooldowns (`ThresholdAssumption`, `CooldownAssumption`). The
tables of `Backends` are the code's and are expanded only where a limit must be
a number. `HeavyRunsAlone` is not inductive: it says nothing of a call that is
waiting for the lock. `Holding` is: the holders are exactly the calls between
lock and unlock, and a heavy holder has no company. The counters are inductive
with the sets they count made explicit: a step moves one call, so the set
`Inside`, `Slots` or `Waiters` gains it, loses it, or stays, and one lemma per
counter turns that into the change of the counter. A fallback changes the role,
and with it the port, of a call that is neither waiting, nor admitted, nor under
the lock, which is why the sets, indexed by port, do not change. That a waiter
count is never negative follows from its being exact; `max(0, ...)` in
`admission.py:158` therefore never acts.

`BackgroundAlwaysYields`, `Spec => BackgroundYields`, uses the same invariant: a
count of zero that is exact means that no interactive call polls.

`CircuitBreakerProofs` proves `BreakerTypeCorrect` and `StateAgreesWithCounter`
for any callers, threshold and cooldowns; `ClosedBelowThreshold` is inductive
given the types.

`ProcedureSchedulerProofs` proves `SchedulerTypeCorrect`, `NeverRunsTwice`,
`JobsCompleteInOrder` and `JobsEndOnce`, each `Spec => []Inv`, and
`CancelledJobsStayOut`, for any jobs, runners, priorities, retries and any number
of crashes, from `JobAssumption`. None of the three invariants is inductive: a
crash replaces memory by the file, which may be older, and a runner ends a job
whose entry was cancelled or cleared meanwhile. The invariant `IInv` therefore
says the same of memory and of the file (`Sound`): a job that waits is on
neither list, one that says completed is on the first, the lists are in order and
without repetition, and everything on them has been issued. `HeldIsSound` adds
what holds of a job between `Take` and its end: it is not up for another run, has
not ended, and what it depends on is on the list of completed jobs, which only a
crash shortens, and a crash leaves no runner. One lemma per way an image changes
(`StatusIsSound`, `EndIsSound`, `WaitIsSound`, `SoundStays`) carries the steps.

`SchedulerKeepsLedger`, `Spec => ImplementsLedger`, is the second refinement.
`JobLedger` knows no table, no file and no cancelling: jobs are issued, begin when
nobody has them, they have not ended and what they depend on has completed, and
end; a restart may forget ended jobs as long as what it remembers rests on nothing
forgotten. The mapping takes the two lists as sets and the runners as they are. A
step of the scheduler is a step of the ledger or stutters: `Take` begins a job
because a waiting job is on no list and in no hands (`IInv`), and a crash restarts
the ledger because the file is a sound image and never ahead of memory
(`FileIsBehind`).

`StreamLoopProofs` proves `StreamTypeCorrect`, `RetriesStayBounded` and
`SuccessIsAlwaysTold` for any limits and any number of turns, from
`StreamAssumption` and `PolicyAssumption`.

`ProcedureRegistryProofs` proves `RegistryTypeCorrect`, `VerdictsAreEarned`,
`AloneKeepsOwnContext` and `RollbacksRestore` for any executions and step lists,
from `ProcedureAssumption`. A verdict is earned because of what holds while the
loop goes on: no entry of `results` forbids it, and every step before the current
one has an entry (`Earning`); only the iteration that stops can add the first
entry that forbids, and it is the last. An execution that is alone has all others
idle or ended while it is under way (`AInv`), so nobody else touches the context
between its `ResetContext` and its end; what it captures grows with its results
(`ThisStepsCapture`: a result adds the one output that a capturing step owes, or
none), so that the context holds exactly `CapturedBy` of them. A rollback is right
because of `KInv`: the checkpoint of an execution is what it found, and holds
neither its inputs nor an output of it, since until `ResetContext` neither the
context nor any checkpoint does; a rollback restores the checkpoint, and after that
the execution only returns (`NotRolledBack`: while it goes on, none of its results
has rolled it back). Executions that meet others are promised nothing: their
contexts do mix, in the model as in the code.

`StepWavesProofs` proves `WavesTypeCorrect`, `PlansKeepOrder`, `FailuresSpread`,
`WavesAreAlwaysDepths` and `RefusedPlansHaveCycles` for every finite plan, from
`StepAssumption`. The sorter's invariant (`Placed`) gives a placed step a chain of
dependencies as long as its wave and none longer; merging then takes the longest
of the group (`Merged`), because the first part of a chain is one (`PathsBegin`).
The executor's (`Progress`, `SkipsFollow`, `Outputs`) says that the steps of
earlier waves have results and those of later waves have none, and that what
prompts may include comes from steps that succeeded, burst steps only once their
wave is over. `DependenciesFirst` then follows at `OpenWave`: what a step depends on
in earlier waves has its result, and the step is skipped unless all of them are
"ok". A refused plan has, from each
remaining step, chains of any length; one as long as there are steps meets itself.
Where this would be an induction over numbers, the proof takes a least or a
greatest element of a set of numbers instead (`LeastNatural`, `GreatestNatural`,
from the library's theorems about well-founded relations and finite sets).

`WorkerPoolProofs` proves `PoolTypeCorrect`, `SlotsStayExact`,
`WarmStaysWatched` and `TimersAreNotEarly` for any workers, roles, calls, batches
and batch sizes, from `PoolAssumption`. The semaphore is exact because the set of
requests under way gains or loses one pair, or all pairs of a cancelled batch,
with the semaphore; its bounds, part of `TypeOK`, follow from that.
`WarmIsWatched` is not inductive: that a timer is armed does not say that it will
find its worker idle for long enough. `DueInv` does: age plus time left on the
timer reach `WarmTimeout`, or a batch is using the worker and will arm another.
It needs to know that the lock is held only by a batch that starts workers
(`LInv`). The action theorem `TimersAreNotEarly` is the converse reading: a timer
that spares a worker that has served has found it in use.

Assumptions on constants are what the code guarantees: finite sets of calls,
workers and steps, positive limits where the settings are positive, disjoint
kinds of workers and clients, and values that stand for "nobody" and are nobody.

Model-checked only: `Termination`, `EveryCallReturns`, `OpenIsTriedAgain`,
`Recovers`, `RunAllDrains` and `EveryClientReturns`, the six liveness properties,
which are out of the prover's reach. Every other property of a passing run is
stated by a theorem.

## 5. Where documents and code differ

Four differences are runs of their own (section 3, and "findings" in
`PROJECT.json`). Others met while reading, without a run:

* `src/config/models.py:65`, "Maximum escalations per task.": early aborts
  (`nodes.py:113`) and requests of the model escalate without looking at the
  count. With the default of 2 no chain is longer.
* `src/graph/helpers.py:1341`: thinking harder is due once "for this role"; the
  flag is not reset by an early abort, so the next role misses its turn.
* `src/api/health_tracker.py:124`, "Allow one probe request through": every
  caller passes a half-open circuit.
* `src/graph/persistence.py:112` calls `save_checkpoint(session_id=..., data=...,
  checkpoint_type=...)`; `SQLiteSessionStore.save_checkpoint`
  (`src/session/sqlite_store.py:694`) takes one `Checkpoint`. With that store every
  write raises and is logged at debug level only.
* `src/inference_lock.py:422`: clean-up after a failure inside the lock does not
  happen for timeouts, which raise nothing (the cause of `cpu_exclusive`).
* `src/parallel_step_executor.py:66`, "Steps in the same wave have all their
  dependencies satisfied by prior waves": merging a group moves a step into, or
  past, the wave of a step that depends on it, which is then not waited for.
* `procedure_scheduler.py:188`, "True if cancelled": a running job is cancelled
  and then completes.
* `procedure_registry.py:741` uses a variable that the handler at 734 has
  unbound, so a step whose retries fail makes `execute` raise; line 611 names a
  variable that does not exist, so with memory enabled every execution raises.
* `src/escalation.py:366`, "The chat handler will switch to exploration mode":
  the streaming loops have no branch for it and give the role another turn; they
  count no escalations either, so `max_escalations` never binds there.
* In the streaming loops a request for another role is served before the answer
  of the same turn; if it was the last turn, the task is logged as a success and
  the answer is never sent. A stream out of turns tells the client nothing.

* `src/api/health_tracker.py:143,164`: "Closes circuit if half-open", "Doubles
  cooldown if already open/half-open"; a success closes an open circuit too and
  a failure doubles the cooldown only when half-open.
* `src/api/admission.py:3-6` limits requests "per backend URL"; the controller
  exists once per worker process.
* `src/graph/helpers.py:1265` promotes a run of nudges to an error; every node
  but `FrontdoorNode` sets the failure count to zero before.
* `src/graph/helpers.py:250` charges think-harder statistics to the role current
  at the end, not the one that tried.
* The clean-up after a lock timeout looks for `--port` on the command lines of
  the lock holders; these are API workers, so it asks the orchestrator's own
  port for `/slots`.

## 6. Plan

1. Orchestration graph, ladder, proofs: done.
2. Inference path and breaker: modelled, checked, invariants proved. To add:
   batch calls and the content cache.
3. Scheduler, procedures, plans, worker pool, policy and streams: modelled and
   checked.
4. Proofs of every safety invariant and action property of the runs: done, with two
   refinements, the ladder of roles and the ledger of jobs.
5. Sessions and delegation; prefix cache slots and radix tree; content cache.
   Each needs a run of its own.

Not modelled and not planned: text heuristics and prompt building, vision and
document services, the numeric learning of the episodic memory, launch scripts
and benchmarks. They are I/O, text or floating point, without the shared state
these tools are for. `PROJECT.json` lists every component with its reason.
