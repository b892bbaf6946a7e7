----------------------------- MODULE WorkerPool -----------------------------
(***************************************************************************)
(* The pool of llama-server workers (src/services/worker_pool.py).  Hot    *)
(* workers stay up; warm ones are started for a batch that is large enough *)
(* and stopped by a timer when they have been idle for a while.  Calls and *)
(* batches are asyncio tasks: they interleave where the code awaits.       *)
(*                                                                         *)
(* Time is kept as ages: how long ago a worker was last used and how long  *)
(* its timer still sleeps, both up to WarmTimeout.                         *)
(***************************************************************************)
EXTENDS Integers, Sequences, FiniteSets

CONSTANTS
  Hot, Warm,    \* the workers of each tier
  Role,         \* worker roles, the values of TASK_ROUTING
  Serves,       \* the workers a role matches by name or task type
  Call, Batch,  \* calls of call() and of batch()
  RoleOf,       \* the role of each
  Size,         \* the number of prompts of each, 1 for a call
  Threshold,    \* expansion_threshold
  Slots,        \* the size of the semaphore
  WarmTimeout   \* warm_timeout_seconds, in ticks

Worker == Hot \cup Warm
Client == Call \cup Batch

Free  == "free"
Never == -1  \* no last_used yet, no timer

ASSUME PoolAssumption ==
  /\ IsFiniteSet(Worker) /\ IsFiniteSet(Client)
  /\ Hot \cap Warm = {} /\ Call \cap Batch = {}
  /\ Serves \in [Role -> SUBSET Worker]
  /\ RoleOf \in [Client -> Role]
  /\ Size \in [Client -> Nat]
  /\ \A c \in Call : Size[c] = 1
  /\ Threshold \in Nat \ {0}
  /\ Slots \in Nat \ {0}
  /\ WarmTimeout \in Nat \ {0}
  /\ Free \notin Client

VARIABLES
  process,   \* "none", "starting" (not healthy yet), "alive", or "dead"
  healthy,   \* _healthy; nothing clears it when a process dies
  age,       \* time since last_used, of the warm workers
  timer,     \* time until the shutdown task of each wakes up
  lock,      \* who holds the lock
  tending,   \* warm workers its holder has yet to see to
  pc,        \* where each client is
  workers,   \* the workers each has selected, in order
  prompts,   \* what has become of each prompt
  semaphore

pool   == <<process, healthy, age, timer>>
vars   == <<pool, lock, tending, pc, workers, prompts, semaphore>>

PC == {"idle", "expanding", "starting", "calling", "done", "failed", "cancelled"}

\* A "lost" prompt is one whose connection is gone but which does not know yet.
PromptState == {"queued", "sent", "lost", "ok", "failed"}

Prompts(c) == 1 .. Size[c]

\* After start_hot_workers, which may have failed for some.
Init ==
  /\ \E up \in SUBSET Hot :
       /\ process = [w \in Worker |-> IF w \in up THEN "alive" ELSE "none"]
       /\ healthy = [w \in Worker |-> w \in up]
  /\ age = [w \in Warm |-> Never]
  /\ timer = [w \in Warm |-> Never]
  /\ lock = Free
  /\ tending = {}
  /\ pc = [c \in Client |-> "idle"]
  /\ workers = [c \in Client |-> <<>>]
  /\ prompts = [c \in Client |-> [i \in Prompts(c) |-> "queued"]]
  /\ semaphore = Slots

Chosen(c) == {workers[c][i] : i \in DOMAIN workers[c]}

\* The worker of prompt i: workers[idx % len(workers)].
Target(c, i) == workers[c][((i - 1) % Len(workers[c])) + 1]

\* The lists of a set of workers.  The order is that of the configuration or,
\* for a call, what the round robin has come to.
Lists(S) == {l \in [1 .. Cardinality(S) -> S] : \A w \in S : \E i \in DOMAIN l : l[i] = w}

-----------------------------------------------------------------------------
\* _select_workers.

Healthy(S) == {w \in S : healthy[w]}

Candidates(c) ==
  LET matching == Healthy(Serves[RoleOf[c]])
  IN  IF matching # {} THEN matching ELSE Healthy(Hot)

Expands(c) == Size[c] > Threshold

NoneAvailable(c) ==
  /\ pc[c] = "idle"
  /\ Candidates(c) = {}
  /\ pc' = [pc EXCEPT ![c] = "failed"]
  /\ UNCHANGED <<pool, lock, tending, workers, prompts, semaphore>>

Select(c) ==
  /\ pc[c] = "idle"
  /\ Candidates(c) # {}
  /\ \E l \in Lists(Candidates(c)) : workers' = [workers EXCEPT ![c] = l]
  /\ pc' = [pc EXCEPT ![c] = IF Expands(c) THEN "expanding" ELSE "calling"]
  /\ UNCHANGED <<pool, lock, tending, prompts, semaphore>>

\* _ensure_warm_workers_running, under the lock.
Acquire(c) ==
  /\ pc[c] = "expanding"
  /\ lock = Free
  /\ lock' = c
  /\ tending' = Warm
  /\ pc' = [pc EXCEPT ![c] = "starting"]
  /\ UNCHANGED <<pool, workers, prompts, semaphore>>

\* Done with warm worker w: its shutdown is called off.
Tended(w) ==
  /\ tending' = tending \ {w}
  /\ timer' = [timer EXCEPT ![w] = Never]

\* It is healthy already, or starting it comes to nothing: a process that runs
\* is left as it is, and Popen may raise.
Pass(c, w) ==
  /\ lock = c
  /\ w \in tending
  /\ process[w] # "starting"
  /\ Tended(w)
  /\ process' = IF healthy[w] \/ process[w] = "alive" THEN process
                ELSE [process EXCEPT ![w] = "none"]
  /\ UNCHANGED <<healthy, age, lock, pc, workers, prompts, semaphore>>

Launch(c, w) ==
  /\ lock = c
  /\ w \in tending
  /\ ~healthy[w]
  /\ process[w] \in {"none", "dead"}
  /\ process' = [process EXCEPT ![w] = "starting"]
  /\ UNCHANGED <<healthy, age, timer, lock, tending, pc, workers, prompts, semaphore>>

\* It answers the health check, or is stopped.
Started(c, w, ok) ==
  /\ lock = c
  /\ w \in tending
  /\ process[w] = "starting"
  /\ Tended(w)
  /\ process' = [process EXCEPT ![w] = IF ok THEN "alive" ELSE "none"]
  /\ healthy' = [healthy EXCEPT ![w] = ok]
  /\ UNCHANGED <<age, lock, pc, workers, prompts, semaphore>>

\* Bug: the lock is not given back.
RescanUnderLock(c) ==
  /\ lock = c
  /\ tending = {}
  /\ pc[c] = "starting"
  /\ \E l \in Lists(Healthy(Warm) \ Chosen(c)) : workers' = [workers EXCEPT ![c] = @ \o l]
  /\ pc' = [pc EXCEPT ![c] = "calling"]
  /\ UNCHANGED <<pool, lock, tending, prompts, semaphore>>

\* The lock is given back, and healthy warm workers join the list.
Rescan(c) ==
  /\ lock = c
  /\ tending = {}
  /\ lock' = Free
  /\ \E l \in Lists(Healthy(Warm) \ Chosen(c)) : workers' = [workers EXCEPT ![c] = @ \o l]
  /\ pc' = [pc EXCEPT ![c] = "calling"]
  /\ UNCHANGED <<pool, tending, prompts, semaphore>>

-----------------------------------------------------------------------------
\* call and batch.

Becomes(c, i, from, to) ==
  /\ pc[c] = "calling"
  /\ prompts[c][i] \in from
  /\ prompts' = [prompts EXCEPT ![c][i] = to]

Send(c, i) ==
  /\ Becomes(c, i, {"queued"}, IF process[Target(c, i)] = "alive" THEN "sent" ELSE "lost")
  /\ semaphore > 0
  /\ semaphore' = semaphore - 1
  /\ UNCHANGED <<pool, lock, tending, pc, workers>>

\* Arm the timers of the warm workers in S anew.
Schedule(S) == timer' = [w \in Warm |-> IF w \in S THEN WarmTimeout ELSE timer[w]]

\* A call arms the timer of its worker when it has its answer; the requests of a
\* batch only say that the worker has been used.
Answer(c, i) ==
  LET w == Target(c, i)
  IN  /\ Becomes(c, i, {"sent"}, "ok")
      /\ semaphore' = semaphore + 1
      /\ age' = [v \in Warm |-> IF v = w THEN 0 ELSE age[v]]
      /\ Schedule(IF c \in Call THEN {w} ELSE {})
      /\ pc' = [pc EXCEPT ![c] = IF c \in Call THEN "done" ELSE @]
      /\ UNCHANGED <<process, healthy, lock, tending, workers>>

\* Bug: the place in the semaphore is given back only after an answer.
FailInside(c, i) ==
  /\ Becomes(c, i, {"sent", "lost"}, "failed")
  /\ pc' = [pc EXCEPT ![c] = IF c \in Call THEN "failed" ELSE @]
  /\ UNCHANGED <<pool, lock, tending, workers, semaphore>>

\* An HTTP error, a timeout or a broken connection.  It ends a call; a batch
\* goes on without the prompt.
Fail(c, i) ==
  /\ Becomes(c, i, {"sent", "lost"}, "failed")
  /\ semaphore' = semaphore + 1
  /\ pc' = [pc EXCEPT ![c] = IF c \in Call THEN "failed" ELSE @]
  /\ UNCHANGED <<pool, lock, tending, workers>>

\* Bug: no timer is armed when a prompt failed.
EndBatchOnSuccess(b) ==
  /\ pc[b] = "calling"
  /\ \A i \in Prompts(b) : prompts[b][i] \in {"ok", "failed"}
  /\ pc' = [pc EXCEPT ![b] = "done"]
  /\ Schedule(IF \A i \in Prompts(b) : prompts[b][i] = "ok" THEN Chosen(b) ELSE {})
  /\ UNCHANGED <<process, healthy, age, lock, tending, workers, prompts, semaphore>>

EndBatch(b) ==
  /\ pc[b] = "calling"
  /\ \A i \in Prompts(b) : prompts[b][i] \in {"ok", "failed"}
  /\ pc' = [pc EXCEPT ![b] = "done"]
  /\ Schedule(Chosen(b))
  /\ UNCHANGED <<process, healthy, age, lock, tending, workers, prompts, semaphore>>

Flying(c) == {i \in Prompts(c) : prompts[c][i] \in {"sent", "lost"}}

\* Bug: a place is given back for every prompt, under way or not.
CancelBatchReleasesAll(b) ==
  /\ pc[b] \in {"expanding", "starting", "calling"}
  /\ pc' = [pc EXCEPT ![b] = "cancelled"]
  /\ prompts' = [prompts EXCEPT ![b] = [i \in Prompts(b) |->
       IF prompts[b][i] = "ok" THEN "ok" ELSE "failed"]]
  /\ semaphore' = semaphore + Size[b]
  /\ lock' = IF lock = b THEN Free ELSE lock
  /\ tending' = IF lock = b THEN {} ELSE tending
  /\ process' = [w \in Worker |->
       IF lock = b /\ process[w] = "starting" THEN "alive" ELSE process[w]]
  /\ UNCHANGED <<healthy, age, timer, workers>>

\* The deadline of the request passes (_worker_pool_batch waits no longer) and
\* the task is cancelled where it stands.  A worker it was starting stays.
CancelBatch(b) ==
  /\ pc[b] \in {"expanding", "starting", "calling"}
  /\ pc' = [pc EXCEPT ![b] = "cancelled"]
  /\ prompts' = [prompts EXCEPT ![b] = [i \in Prompts(b) |->
       IF prompts[b][i] = "ok" THEN "ok" ELSE "failed"]]
  /\ semaphore' = semaphore + Cardinality(Flying(b))
  /\ lock' = IF lock = b THEN Free ELSE lock
  /\ tending' = IF lock = b THEN {} ELSE tending
  /\ process' = [w \in Worker |->
       IF lock = b /\ process[w] = "starting" THEN "alive" ELSE process[w]]
  /\ UNCHANGED <<healthy, age, timer, workers>>

-----------------------------------------------------------------------------
\* Workers that go down lose their requests.

Lose(w) ==
  prompts' = [c \in Client |-> [i \in Prompts(c) |->
    IF prompts[c][i] = "sent" /\ Target(c, i) = w THEN "lost" ELSE prompts[c][i]]]

\* The shutdown task wakes up and takes the lock.
WakeUp(w) ==
  /\ timer[w] = 0
  /\ lock = Free
  /\ timer' = [timer EXCEPT ![w] = Never]

StillIdle(w) == age[w] # Never /\ age[w] >= WarmTimeout

ShutDown(w) ==
  /\ WakeUp(w)
  /\ StillIdle(w)
  /\ process' = [process EXCEPT ![w] = "none"]
  /\ healthy' = [healthy EXCEPT ![w] = FALSE]
  /\ Lose(w)
  /\ UNCHANGED <<age, lock, tending, pc, workers, semaphore>>

LeaveUp(w) ==
  /\ WakeUp(w)
  /\ ~StillIdle(w)
  /\ UNCHANGED <<process, healthy, age, lock, tending, pc, workers, prompts, semaphore>>

Crash(w) ==
  /\ process[w] = "alive"
  /\ process' = [process EXCEPT ![w] = "dead"]
  /\ Lose(w)
  /\ UNCHANGED <<healthy, age, timer, lock, tending, pc, workers, semaphore>>

Tick ==
  /\ age' = [w \in Warm |-> IF age[w] \in 0 .. WarmTimeout - 1 THEN age[w] + 1 ELSE age[w]]
  /\ timer' = [w \in Warm |-> IF timer[w] > 0 THEN timer[w] - 1 ELSE timer[w]]
  /\ <<age', timer'>> # <<age, timer>>
  /\ UNCHANGED <<process, healthy, lock, tending, pc, workers, prompts, semaphore>>

Expand(c) ==
  \/ Acquire(c)
  \/ \E w \in Warm : Pass(c, w) \/ Launch(c, w) \/ Started(c, w, TRUE) \/ Started(c, w, FALSE)
  \/ Rescan(c)

Serve(c) ==
  \/ Expand(c)
  \/ \E i \in Prompts(c) : Send(c, i) \/ Answer(c, i) \/ Fail(c, i)
  \/ c \in Batch /\ EndBatch(c)

Next ==
  \/ \E c \in Client : NoneAvailable(c) \/ Select(c) \/ Serve(c)
  \/ \E b \in Batch : CancelBatch(b)
  \/ \E w \in Warm : ShutDown(w) \/ LeaveUp(w)
  \/ \E w \in Worker : Crash(w)
  \/ Tick

\* Requests come to an end within the timeout of the HTTP client, and the event
\* loop runs what is ready.
Fairness == \A c \in Client : WF_vars(Serve(c))

Spec == Init /\ [][Next]_vars /\ Fairness

-----------------------------------------------------------------------------

\* Every variable has its type.
TypeOK ==
  /\ process \in [Worker -> {"none", "starting", "alive", "dead"}]
  /\ healthy \in [Worker -> BOOLEAN]
  /\ age \in [Warm -> {Never} \cup 0 .. WarmTimeout]
  /\ timer \in [Warm -> {Never} \cup 0 .. WarmTimeout]
  /\ lock \in Client \cup {Free}
  /\ tending \subseteq Warm
  /\ pc \in [Client -> PC]
  /\ workers \in [Client -> Seq(Worker)]
  /\ \A c \in Client : prompts[c] \in [Prompts(c) -> PromptState]
  /\ semaphore \in 0 .. Slots

\* The places of the semaphore that are taken are those of the requests under
\* way, whatever ends them: answers, errors, lost workers, cancelled batches.
SlotsAreExact ==
  semaphore + Cardinality(UNION {{<<c, i>> : i \in Flying(c)} : c \in Client}) = Slots

\* A batch has selected w and not ended.
InUse(w) == \E b \in Batch : pc[b] \in {"expanding", "starting", "calling"} /\ (w \in Chosen(b) \/ lock = b)

\* A warm worker that is up and has served is watched by a timer or by a batch
\* that will arm one: no order of calls, batches, expansions and timers leaves
\* one up for ever, unless a batch is cancelled.
WarmIsWatched ==
  (\A b \in Batch : pc[b] # "cancelled") =>
    \A w \in Warm : healthy[w] /\ age[w] # Never => timer[w] # Never \/ InUse(w)

\* Every call and batch comes back, even when its worker goes down under it.
EveryClientReturns ==
  \A c \in Client : pc[c] \in {"expanding", "calling"} ~> pc[c] \in {"done", "failed", "cancelled"}

-----------------------------------------------------------------------------
\* What the documentation says and the code does not do.

\* "Check if still idle": the timer does not stop a worker that is generating.
BusyIsSpared ==
  [][\A c \in Client : \A i \in Prompts(c) :
       prompts[c][i] = "sent" /\ Target(c, i) \in Warm => ~ShutDown(Target(c, i))]_vars

=============================================================================
