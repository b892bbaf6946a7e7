------------------------- MODULE ProcedureScheduler -------------------------
(***************************************************************************)
(* The scheduler of procedures (orchestration/procedure_scheduler.py).     *)
(* Callers schedule jobs that depend on earlier jobs, cancel them and      *)
(* clear the ended ones; runners are threads that run one job after        *)
(* another, the execution itself outside the lock.  The state is written   *)
(* to a file after most operations, as far as that succeeds, and read back *)
(* when the process starts again.                                          *)
(*                                                                         *)
(* A critical section of the lock is one action.  What a procedure does is *)
(* its outcome here: a result, good or bad, or an exception.               *)
(***************************************************************************)
EXTENDS Integers, Sequences, FiniteSets

CONSTANTS
  Job,         \* the ids schedule() gives out; a later job has a greater one
  Runner,      \* threads that call run_one and run_all
  Priority,    \* the priority each job is scheduled with
  MaxRetries,  \* and its max_retries
  Named,       \* jobs that callers run by their id, whatever state they are in
  MaxEnded,    \* bound: a job is not run by its id once so many runs have ended
  MaxCrashes   \* bound: how often the process dies

ASSUME JobAssumption ==
  /\ Job \subseteq Nat
  /\ Named \subseteq Job
  /\ Priority \in [Job -> Int]
  /\ MaxRetries \in [Job -> Nat]
  /\ MaxEnded \in Nat
  /\ MaxCrashes \in Nat

NoJob == -1

Status == {"absent", "pending", "blocked", "running", "completed", "failed", "cancelled"}

VARIABLES
  issued,          \* ids handed out so far; they are never handed out again
  depends_on,      \* what each job was scheduled to wait for; the file keeps it
  status,          \* "absent": not in the jobs dictionary
  retries_left,    \* max_retries - retry_count; the file has neither
  completed_jobs,
  failed_jobs,
  disk,            \* what loading the file would give
  runs,            \* the job each runner executes, outside the lock
  looping,         \* runners inside run_all
  crashes

memory == <<status, retries_left, completed_jobs, failed_jobs>>
caller == <<issued, depends_on>>
vars   == <<caller, memory, disk, runs, looping, crashes>>

\* The part of the state that reaches the file; a file that is missing or
\* cannot be parsed is loaded as Fresh.
State == [status : [Job -> Status], completed_jobs : Seq(Job), failed_jobs : Seq(Job)]
Fresh == [status |-> [j \in Job |-> "absent"], completed_jobs |-> <<>>, failed_jobs |-> <<>>]

Init ==
  /\ issued = {}
  /\ depends_on = [j \in Job |-> {}]
  /\ status = Fresh.status
  /\ retries_left = [j \in Job |-> 0]
  /\ completed_jobs = Fresh.completed_jobs
  /\ failed_jobs = Fresh.failed_jobs
  /\ disk = Fresh
  /\ runs = [r \in Runner |-> NoJob]
  /\ looping = {}
  /\ crashes = 0

\* _save_state at the end of an operation.  It may fail before it opens the
\* file, which leaves the old contents, or after, which leaves half a file.
Save ==
  \/ disk' = [status |-> status', completed_jobs |-> completed_jobs', failed_jobs |-> failed_jobs']
  \/ disk' = disk
  \/ disk' = Fresh

Elements(seq) == {seq[i] : i \in DOMAIN seq}

-----------------------------------------------------------------------------
\* Callers.

\* A dependency may be an id that was never handed out, and never will be once
\* a later one was: nobody looks whether there is such a job.
Schedule(j, deps) ==
  /\ \A i \in issued : i < j
  /\ issued' = issued \cup {j}
  /\ depends_on' = [depends_on EXCEPT ![j] = deps]
  /\ status' = [status EXCEPT ![j] = IF deps = {} THEN "pending" ELSE "blocked"]
  /\ retries_left' = [retries_left EXCEPT ![j] = MaxRetries[j]]
  /\ UNCHANGED <<completed_jobs, failed_jobs, runs, looping, crashes>>
  /\ Save

\* Refused for a job that is gone, completed or failed; a running job may be.
Cancel(j) ==
  /\ status[j] \in {"pending", "blocked", "running", "cancelled"}
  /\ status' = [status EXCEPT ![j] = "cancelled"]
  /\ UNCHANGED <<caller, retries_left, completed_jobs, failed_jobs, runs, looping, crashes>>
  /\ Save

Ended == {j \in Job : status[j] \in {"completed", "failed", "cancelled"}}

\* clear_completed() without a time limit.
ClearCompleted ==
  /\ status' = [j \in Job |-> IF j \in Ended THEN "absent" ELSE status[j]]
  /\ UNCHANGED <<caller, retries_left, completed_jobs, failed_jobs, runs, looping, crashes>>
  /\ Save

-----------------------------------------------------------------------------
\* Runners.

\* Bug: a job that is running is looked at again.
WaitingOrRunning == {j \in Job : status[j] \in {"pending", "blocked", "running"}}

\* Bug: a cancelled job is taken up again.
WaitingOrCancelled == {j \in Job : status[j] \in {"pending", "blocked", "cancelled"}}

Waiting == {j \in Job : status[j] \in {"pending", "blocked"}}

\* Bug: a dependency that has ended, however it did, counts as met.
MetOnceEnded(d) ==
  d \in Elements(completed_jobs) \/ status[d] \in {"completed", "failed", "cancelled"}

\* A dependency counts as met for good once it has completed, cleared or not.
Met(d) == d \in Elements(completed_jobs) \/ status[d] = "completed"

\* get_ready_jobs.
Ready == {j \in Waiting : \A d \in depends_on[j] : Met(d)}

\* It comes before k in the list get_ready_jobs returns.
Before(j, k) ==
  \/ Priority[j] > Priority[k]
  \/ /\ Priority[j] = Priority[k]
     /\ j <= k

\* Runner r marks j as running and leaves the lock.  Nothing is saved.
Take(r, j) ==
  /\ runs[r] = NoJob
  /\ runs' = [runs EXCEPT ![r] = j]
  /\ status' = [status EXCEPT ![j] = "running"]
  /\ UNCHANGED <<caller, retries_left, completed_jobs, failed_jobs, disk, looping, crashes>>

\* run_one(), called by itself or by run_all.  run_all looks for ready jobs
\* before it calls run_one, which looks again: only the second look counts.
RunNext(r) ==
  \E j \in Ready :
    /\ \A k \in Ready : Before(j, k)
    /\ Take(r, j)

\* run_one(job_id): no look at its status or its dependencies.
RunNamed(r, j) ==
  /\ j \in Named
  /\ status[j] # "absent"
  /\ r \notin looping
  /\ Len(completed_jobs) + Len(failed_jobs) < MaxEnded
  /\ Take(r, j)

\* Runner r is back under the lock and gives its job the status s.  A job that
\* was cancelled and cleared while it ran is no longer in the dictionary.
Finish(r, s) ==
  /\ runs[r] # NoJob
  /\ runs' = [runs EXCEPT ![r] = NoJob]
  /\ status' = [status EXCEPT ![runs[r]] = IF @ = "absent" THEN @ ELSE s]
  /\ UNCHANGED <<caller, looping, crashes>>

Succeed(r) ==
  /\ Finish(r, "completed")
  /\ completed_jobs' = Append(completed_jobs, runs[r])
  /\ UNCHANGED <<retries_left, failed_jobs>>
  /\ Save

\* Bug: one retry too many.
CanRetryOnceMore(j) == retries_left[j] >= 0

CanRetry(j) == retries_left[j] > 0

\* Bug: the failure is noted before the job is tried again.
RetryNoted(r) ==
  /\ Finish(r, "pending")
  /\ CanRetry(runs[r])
  /\ retries_left' = [retries_left EXCEPT ![runs[r]] = @ - 1]
  /\ failed_jobs' = Append(failed_jobs, runs[r])
  /\ UNCHANGED completed_jobs
  /\ Save

Retry(r) ==
  /\ Finish(r, "pending")
  /\ CanRetry(runs[r])
  /\ retries_left' = [retries_left EXCEPT ![runs[r]] = @ - 1]
  /\ UNCHANGED <<completed_jobs, failed_jobs>>
  /\ Save

GiveUp(r) ==
  /\ Finish(r, "failed")
  /\ failed_jobs' = Append(failed_jobs, runs[r])
  /\ UNCHANGED <<retries_left, completed_jobs>>
  /\ Save

\* The result says that the procedure failed.
Fail(r) ==
  \/ Retry(r)
  \/ /\ runs[r] # NoJob
     /\ ~CanRetry(runs[r])
     /\ GiveUp(r)

\* An exception fails a job at once, with retries left or not.
Raise(r) == GiveUp(r)

StartRunAll(r) ==
  /\ runs[r] = NoJob
  /\ r \notin looping
  /\ looping' = looping \cup {r}
  /\ UNCHANGED <<caller, memory, disk, runs, crashes>>

Leave(r) ==
  /\ runs[r] = NoJob
  /\ r \in looping
  /\ looping' = looping \ {r}
  /\ UNCHANGED <<caller, memory, disk, runs, crashes>>

\* Bug: run_all waits for running jobs too.
DrainedAndIdle(r) ==
  /\ \A j \in Job : status[j] \notin {"pending", "blocked", "running"}
  /\ Leave(r)

\* run_all finds nothing pending or blocked.
Drained(r) ==
  /\ Waiting = {}
  /\ Leave(r)

\* It is out of time; otherwise it sleeps and looks again.
TimeOut(r) == Leave(r)

\* The process dies and starts again with what the file holds.
Crash ==
  /\ crashes < MaxCrashes
  /\ crashes' = crashes + 1
  /\ status' = disk.status
  /\ completed_jobs' = disk.completed_jobs
  /\ failed_jobs' = disk.failed_jobs
  /\ retries_left' = [j \in Job |-> 0]
  /\ runs' = [r \in Runner |-> NoJob]
  /\ looping' = {}
  /\ UNCHANGED <<caller, disk>>

-----------------------------------------------------------------------------

Call ==
  \/ \E j \in Job \ issued : \E deps \in SUBSET {i \in Job : i < j} : Schedule(j, deps)
  \/ \E j \in Job : Cancel(j)
  \/ ClearCompleted

Execute(r) == Succeed(r) \/ Fail(r) \/ Raise(r)

Run(r) ==
  \/ RunNext(r)
  \/ \E j \in Named : RunNamed(r, j)
  \/ Execute(r)
  \/ StartRunAll(r)
  \/ Drained(r)
  \/ TimeOut(r)

Next ==
  \/ Call
  \/ \E r \in Runner : Run(r)
  \/ Crash

\* A runner goes on: its procedure ends, and run_all takes the next ready job or
\* finds none waiting.  At most one of the three is enabled at a time.
Proceed(r) ==
  \/ Execute(r)
  \/ r \in looping /\ RunNext(r)
  \/ Drained(r)

\* No caller has to call, and nothing has to time out.
Fairness == \A r \in Runner : WF_vars(Proceed(r))

Spec == Init /\ [][Next]_vars /\ Fairness

-----------------------------------------------------------------------------

\* Every variable has its type.
TypeOK ==
  /\ issued \subseteq Job
  /\ depends_on \in [Job -> SUBSET Job]
  /\ status \in [Job -> Status]
  /\ retries_left \in [Job -> Nat]
  /\ completed_jobs \in Seq(Job)
  /\ failed_jobs \in Seq(Job)
  /\ disk \in State
  /\ runs \in [Runner -> Job \cup {NoJob}]
  /\ looping \subseteq Runner
  /\ crashes \in 0 .. MaxCrashes

Held(j) == \E r \in Runner : runs[r] = j

\* Two threads never execute the same job, although a job is executed outside
\* the lock and can be cancelled, cleared and retried meanwhile.
NoDoubleRun ==
  \A r, s \in Runner : r # s /\ runs[r] = runs[s] => runs[r] \in Named \cup {NoJob}

InOrder(seq, deps) ==
  \A i \in DOMAIN seq :
    \A d \in deps[seq[i]] :
      \/ seq[i] \in Named
      \/ \E k \in 1 .. i - 1 : seq[k] = d

\* A job completes only after everything it depends on has completed, across
\* cancellations, clearing, retries, lost or torn files and restarts.
CompletedInOrder == InOrder(completed_jobs, depends_on)

OnceIn(seq) == \A i, k \in DOMAIN seq : i # k /\ seq[i] = seq[k] => seq[i] \in Named

\* The two lists never hold a job twice between them: it completes or fails,
\* and does so once.
EndsOnce ==
  /\ OnceIn(completed_jobs)
  /\ OnceIn(failed_jobs)
  /\ Elements(completed_jobs) \cap Elements(failed_jobs) \subseteq Named

\* A job cancelled before a runner took it is not run any more in the life of
\* the process.
CancelledStaysOut ==
  [][\A j \in Job \ Named :
       status[j] = "cancelled" /\ ~Held(j) /\ crashes' = crashes =>
         ~Held(j)' /\ status'[j] \in {"cancelled", "absent"}]_vars

\* The lists of ended jobs and what the runners hold are the ledger of jobs, in
\* spite of a table that says something else at times, a file that is lost, torn
\* or old, and restarts that load it: no job begins beside itself, after it has
\* ended, or before what it depends on has completed.
Ledger == INSTANCE JobLedger WITH
  completed <- Elements(completed_jobs),
  failed    <- Elements(failed_jobs)
ImplementsLedger == Ledger!Spec

\* It waits for a job that has not completed and is not being run.
Stuck(j) == \E d \in depends_on[j] : ~Met(d) /\ ~Held(d)

\* run_all ends by itself, without its timeout, unless jobs are left that wait
\* for one that will not complete: then it has had every other job run, also
\* those behind a job that was doomed and is gone, and never ends.
RunAllDrains ==
  \A r \in Runner :
    <>[](r \in looping) => <>[](Waiting # {} /\ \A j \in Waiting : Stuck(j))

=============================================================================
