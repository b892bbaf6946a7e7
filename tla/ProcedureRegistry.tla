------------------------- MODULE ProcedureRegistry -------------------------
(***************************************************************************)
(* ProcedureRegistry.execute (orchestration/procedure_registry.py): the    *)
(* steps of a procedure one after another, with conditions, retries, and a *)
(* checkpoint to roll back to.  The scheduler calls execute outside its    *)
(* lock, so that several executions may be under way on one registry,      *)
(* which has a single _context for all of them.                            *)
(*                                                                         *)
(* A context stands for the execution whose inputs it holds and for the    *)
(* step outputs captured in it.  What a step does is its outcome.          *)
(***************************************************************************)
EXTENDS Integers, Sequences

CONSTANTS
  Execution,  \* calls of execute
  Steps,      \* the steps of the procedure each of them executes
  Rollback    \* those whose procedure has a rollback section

\* on_failure is one of four; only shell actions are retried in fact.
StepDefinition ==
  [on_failure : {"abort", "rollback", "continue", "retry"}, max_retries : Nat,
   depends_on : SUBSET Nat, shell : BOOLEAN, conditional : BOOLEAN, captures : BOOLEAN]

Nobody == "nobody"

ASSUME ProcedureAssumption ==
  /\ Steps \in [Execution -> Seq(StepDefinition)]
  /\ Rollback \subseteq Execution
  /\ Nobody \notin Execution

VARIABLES
  context,     \* _context
  pc,          \* where each execution is
  step,        \* the number of its step
  retries,     \* how often it has been tried again
  results,     \* step_results
  checkpoint,  \* the context in its checkpoint file
  verdict,     \* what the execution has come to
  inputs_of,   \* whose inputs the step under way was given
  alone,       \* executions that have met no other; no part of the program
  found        \* the context each has found when it began; no part of the program

own  == <<step, retries, results, checkpoint, inputs_of, alone, found>>
vars == <<context, pc, verdict, own>>

PC == {"called", "resetting", "stepping", "acting", "ending", "returned"}

NoContext == [owner |-> Nobody, captured |-> {}]

Init ==
  /\ context = NoContext
  /\ pc = [e \in Execution |-> "called"]
  /\ step = [e \in Execution |-> 1]
  /\ retries = [e \in Execution |-> 0]
  /\ results = [e \in Execution |-> <<>>]
  /\ checkpoint = [e \in Execution |-> NoContext]
  /\ verdict = [e \in Execution |-> "none"]
  /\ inputs_of = [e \in Execution |-> Nobody]
  /\ alone = {}
  /\ found = [e \in Execution |-> NoContext]

Under(e) == pc[e] \notin {"called", "returned"}

\* Execution e goes from one place to another and has come to v.
Goto(e, from, to, v) ==
  /\ pc[e] = from
  /\ pc' = [pc EXCEPT ![e] = to]
  /\ verdict' = [verdict EXCEPT ![e] = v]

Definition(e) == Steps[e][step[e]]

\* An unknown procedure, a role without permission, or bad inputs.
Reject(e) ==
  /\ Goto(e, "called", "returned", "failure")
  /\ UNCHANGED <<context, own>>

\* Execution e begins; it is alone if no other is under way.
Enter(e) ==
  /\ alone' = IF \E f \in Execution : Under(f) THEN {} ELSE alone \cup {e}
  /\ found' = [found EXCEPT ![e] = context]

\* Bug: the checkpoint is taken of the context that the execution sets up.
TakeCheckpointLate(e) ==
  checkpoint' = IF e \in Rollback
                THEN [checkpoint EXCEPT ![e] = [owner |-> e, captured |-> {}]]
                ELSE checkpoint

\* The checkpoint is made before the context is set up: it holds what the last
\* execution, or one still under way, has left there.
TakeCheckpoint(e) ==
  checkpoint' = IF e \in Rollback THEN [checkpoint EXCEPT ![e] = context] ELSE checkpoint

Begin(e) ==
  /\ Goto(e, "called", "resetting", "success")
  /\ Enter(e)
  /\ TakeCheckpoint(e)
  /\ UNCHANGED <<context, step, retries, results, inputs_of>>

\* The checkpoint file cannot be written.
CheckpointRaises(e) ==
  /\ e \in Rollback
  /\ Goto(e, "called", "returned", "exception")
  /\ UNCHANGED <<context, own>>

ResetContext(e) ==
  /\ Goto(e, "resetting", "stepping", verdict[e])
  /\ context' = [owner |-> e, captured |-> {}]
  /\ UNCHANGED own

AtStep(e) == pc[e] = "stepping" /\ step[e] <= Len(Steps[e])

Outcome(s, r) == [step |-> s, result |-> r]

\* A step succeeds at its first try, at a later one, or by being passed over.
Success == {"ok", "retried", "passed"}

\* The dependencies whose first result is not a success.
Unmet(e) ==
  {d \in Definition(e).depends_on :
     ~\E i \in DOMAIN results[e] :
        /\ results[e][i].step = d /\ results[e][i].result \in Success
        /\ \A k \in 1 .. i - 1 : results[e][k].step # d}

\* Skipping is noted (once here, for all of them) and nothing more: it is the
\* loop over the dependencies that goes on, not the one over the steps.
Noted(e) ==
  IF Unmet(e) = {} THEN results[e] ELSE Append(results[e], Outcome(step[e], "skipped"))

\* The step is done with; what comes of its failure is on_failure's business.
Proceed(e, from, rs) ==
  /\ Goto(e, from, "stepping", verdict[e])
  /\ results' = [results EXCEPT ![e] = rs]
  /\ step' = [step EXCEPT ![e] = @ + 1]
  /\ retries' = [retries EXCEPT ![e] = 0]

Stop(e, from, rs) ==
  /\ Goto(e, from, "ending", "failure")
  /\ results' = [results EXCEPT ![e] = rs]
  /\ UNCHANGED <<step, retries>>

\* The loop arrives at a step and there is a condition that is false.
PassOver(e) ==
  /\ AtStep(e)
  /\ Definition(e).conditional
  /\ Proceed(e, "stepping", Append(Noted(e), Outcome(step[e], "passed")))
  /\ UNCHANGED <<context, checkpoint, inputs_of, alone, found>>

\* Its evaluation raises.  Rolling back is not among the answers.
ConditionRaises(e) ==
  /\ AtStep(e)
  /\ Definition(e).conditional
  /\ LET rs == Append(Noted(e), Outcome(step[e], "raised"))
     IN  IF Definition(e).on_failure = "abort"
         THEN Stop(e, "stepping", rs)
         ELSE Proceed(e, "stepping", rs)
  /\ UNCHANGED <<context, checkpoint, inputs_of, alone, found>>

\* _execute_step puts the variables of the context into the action, once.
Interpolate(e) ==
  /\ AtStep(e)
  /\ Goto(e, "stepping", "acting", verdict[e])
  /\ results' = [results EXCEPT ![e] = Noted(e)]
  /\ inputs_of' = [inputs_of EXCEPT ![e] = context.owner]
  /\ UNCHANGED <<context, step, retries, checkpoint, alone, found>>

\* Its output is captured only when the first try succeeds.
Captures(e) == Definition(e).captures /\ retries[e] = 0

Succeeded(e) == Outcome(step[e], IF retries[e] = 0 THEN "ok" ELSE "retried")

\* Bug: the output takes the place of those captured before.
StepSucceedsAnew(e) ==
  /\ Proceed(e, "acting", Append(results[e], Succeeded(e)))
  /\ Captures(e) => context.owner # Nobody
  /\ context' = IF Captures(e) THEN [context EXCEPT !.captured = {<<e, step[e]>>}] ELSE context
  /\ UNCHANGED <<checkpoint, inputs_of, alone, found>>

\* To capture it in the empty context of the start, which another execution has
\* restored meanwhile, raises: the step fails.
StepSucceeds(e) ==
  /\ Proceed(e, "acting", Append(results[e], Succeeded(e)))
  /\ Captures(e) => context.owner # Nobody
  /\ context' = IF Captures(e)
                THEN [context EXCEPT !.captured = @ \cup {<<e, step[e]>>}]
                ELSE context
  /\ UNCHANGED <<checkpoint, inputs_of, alone, found>>

HasRetry(e) == Definition(e).shell /\ retries[e] < Definition(e).max_retries

\* Bug: the number of tries is counted down.
TryAgainCountingDown(e) ==
  /\ Goto(e, "acting", "acting", verdict[e])
  /\ HasRetry(e)
  /\ retries' = [retries EXCEPT ![e] = @ - 1]
  /\ UNCHANGED <<context, step, results, checkpoint, inputs_of, alone, found>>

TryAgain(e) ==
  /\ Goto(e, "acting", "acting", verdict[e])
  /\ HasRetry(e)
  /\ retries' = [retries EXCEPT ![e] = @ + 1]
  /\ UNCHANGED <<context, step, results, checkpoint, inputs_of, alone, found>>

\* Only a failing step with on_failure "rollback" restores the checkpoint.
Restored(e) ==
  IF Definition(e).on_failure = "rollback" /\ e \in Rollback THEN checkpoint[e] ELSE context

\* Bug: the execution goes on after it has been rolled back.
StepFailsGoesOn(e) ==
  /\ pc[e] = "acting"
  /\ ~HasRetry(e) /\ retries[e] = 0
  /\ LET rs == Append(results[e], Outcome(step[e], "failed"))
     IN  IF Definition(e).on_failure = "abort" THEN Stop(e, "acting", rs) ELSE Proceed(e, "acting", rs)
  /\ context' = Restored(e)
  /\ UNCHANGED <<checkpoint, inputs_of, alone, found>>

\* A failure is reported only when nothing was tried again.
StepFails(e) ==
  /\ pc[e] = "acting"
  /\ ~HasRetry(e) /\ retries[e] = 0
  /\ LET rs == Append(results[e], Outcome(step[e], "failed"))
     IN  IF Definition(e).on_failure \in {"abort", "rollback"}
         THEN Stop(e, "acting", rs)
         ELSE Proceed(e, "acting", rs)
  /\ context' = Restored(e)
  /\ UNCHANGED <<checkpoint, inputs_of, alone, found>>

\* The checkpoint to restore is not there or cannot be read: execute raises.
RestoreRaises(e) ==
  /\ Goto(e, "acting", "returned", "exception")
  /\ ~HasRetry(e) /\ retries[e] = 0
  /\ Definition(e).on_failure = "rollback" /\ e \in Rollback
  /\ UNCHANGED <<context, own>>

\* The last try fails too.  The handler of the tries has unbound the variable
\* the report is made of, so that execute raises: nothing is rolled back or saved.
RetriesRaise(e) ==
  /\ Goto(e, "acting", "returned", "exception")
  /\ ~HasRetry(e) /\ retries[e] > 0
  /\ UNCHANGED <<context, own>>

LoopEnds(e) ==
  /\ step[e] > Len(Steps[e])
  /\ Goto(e, "stepping", "ending", verdict[e])
  /\ UNCHANGED <<context, own>>

\* The state is saved, and with it the result is returned.
Return(e) ==
  /\ Goto(e, "ending", "returned", verdict[e])
  /\ UNCHANGED <<context, own>>

\* Saving the state raises, and the result is lost.
SaveRaises(e) ==
  /\ Goto(e, "ending", "returned", "exception")
  /\ UNCHANGED <<context, own>>

Advance(e) ==
  \/ ResetContext(e)
  \/ PassOver(e)
  \/ ConditionRaises(e)
  \/ Interpolate(e)
  \/ StepSucceeds(e)
  \/ TryAgain(e)
  \/ StepFails(e)
  \/ RestoreRaises(e)
  \/ RetriesRaise(e)
  \/ LoopEnds(e)
  \/ Return(e)
  \/ SaveRaises(e)

Next ==
  \E e \in Execution :
    \/ Reject(e)
    \/ Begin(e)
    \/ CheckpointRaises(e)
    \/ Advance(e)

Spec == Init /\ [][Next]_vars /\ \A e \in Execution : WF_vars(Advance(e))

-----------------------------------------------------------------------------

Context == [owner : Execution \cup {Nobody}, captured : SUBSET (Execution \X Nat)]

\* Every variable has its type.
TypeOK ==
  /\ context \in Context
  /\ pc \in [Execution -> PC]
  /\ step \in [Execution -> Nat]
  /\ retries \in [Execution -> Nat]
  /\ results \in [Execution -> Seq([step : Nat, result : Success \cup {"failed", "raised", "skipped"}])]
  /\ checkpoint \in [Execution -> Context]
  /\ verdict \in [Execution -> {"none", "success", "failure", "exception"}]
  /\ inputs_of \in [Execution -> Execution \cup {Nobody}]
  /\ alone \subseteq Execution /\ found \in [Execution -> Context]

\* The outputs an execution must have captured when it has these results: those
\* of the capturing steps that succeeded at once.
CapturedBy(e, rs) ==
  {<<e, rs[i].step>> :
     i \in {j \in DOMAIN rs : rs[j].result = "ok" /\ Steps[e][rs[j].step].captures}}

\* An execution that has met no other gives every step its own inputs, and has
\* in the context the outputs its steps so far had to leave there, all of them
\* and no others.  (Only its rollback, at the end, changes that.)
OwnContextWhenAlone ==
  \A e \in alone :
    /\ pc[e] = "acting" => inputs_of[e] = e
    /\ pc[e] \in {"stepping", "acting"} =>
         context = [owner |-> e, captured |-> CapturedBy(e, results[e])]

RollsBack(e, r) == r.result = "failed" /\ Steps[e][r.step].on_failure = "rollback"

\* The results that stop an execution.
Stops(e, r) ==
  \/ RollsBack(e, r)
  \/ r.result \in {"failed", "raised"} /\ Steps[e][r.step].on_failure = "abort"

StopsOf(e, rs) == {i \in DOMAIN rs : Stops(e, rs[i])}

\* A context in which nothing is execution e's, neither inputs nor outputs.
Without(e, c) == c.owner # e /\ \A x \in c.captured : x[1] # e

\* A rolled-back execution that has met no other leaves the very context that it
\* found when it began, and nothing of its own is in that.
RollbackRestores ==
  \A e \in alone \cap Rollback :
    /\ pc[e] = "ending"
    /\ \E i \in DOMAIN results[e] : RollsBack(e, results[e][i])
    => context = found[e] /\ Without(e, context)

\* An execution goes on to its last step, with an entry for every step, or stops
\* at the first failure that forbids to go on; it reports which of the two.
VerdictIsEarned ==
  \A e \in Execution :
    pc[e] = "ending" =>
      IF verdict[e] = "success"
      THEN /\ StopsOf(e, results[e]) = {}
           /\ \A s \in DOMAIN Steps[e] : \E i \in DOMAIN results[e] : results[e][i].step = s
      ELSE StopsOf(e, results[e]) = {Len(results[e])}

-----------------------------------------------------------------------------
\* What the documentation says and the code does not do.

\* depends_on: "Execute after S1 and S2 complete".  A step begins only when its
\* dependencies have succeeded.
RunsAfterDependencies ==
  [][\A e \in Execution : Interpolate(e) => Unmet(e) = {}]_vars

=============================================================================
