--------------------------- MODULE InferencePath ---------------------------
(***************************************************************************)
(* Inference calls of several API workers against the shared llama-servers *)
(* (src/llm_primitives/inference.py).  A call passes, in this order,       *)
(*   - the role semaphore of its LLMPrimitives object (primitives.py),     *)
(*   - the admission controller of its worker process (api/admission.py),  *)
(*   - the circuit breaker of that process (api/health_tracker.py),        *)
(*   - the inference lock, a flock shared by all processes                 *)
(*     (inference_lock.py),                                                *)
(* and gives everything back on every way out.  When a backend fails it    *)
(* tries the fallback roles, keeping the semaphore of the first role.      *)
(*                                                                         *)
(* A step of the model touches one shared object; calls interleave between *)
(* steps.  The servers are outside src/: a generation runs until it is     *)
(* done, erased, or (perhaps) its client hangs up.                         *)
(***************************************************************************)
EXTENDS Backends, Circuit, FiniteSets

CONSTANTS
  Call,         \* inference calls, one _real_call each
  RoleOf,       \* the role each is made for
  PriorityOf,   \* "interactive" or "background"
  WorkerOf,     \* the API worker process it runs in
  PrimitivesOf, \* the LLMPrimitives object it goes through
  Asked         \* which of the calls may come together

Priority == {"interactive", "background"}

ASSUME CallAssumption ==
  /\ IsFiniteSet(Call)
  /\ RoleOf \in [Call -> STRING]
  /\ PriorityOf \in [Call -> Priority]
  /\ \A c, d \in Call : PrimitivesOf[c] = PrimitivesOf[d] => WorkerOf[c] = WorkerOf[d]
  /\ Asked \subseteq SUBSET Call

\* The roles a call may end up using, the first one included.
RolesOf(c) == {RoleOf[c]} \cup {FallbackRoles(RoleOf[c])[i] : i \in 1 .. Len(FallbackRoles(RoleOf[c]))}

Worker     == {WorkerOf[c] : c \in Call}
Primitives == {PrimitivesOf[c] : c \in Call}
FirstRole  == {RoleOf[c] : c \in Call}
UsedRole   == UNION {RolesOf(c) : c \in Call}
Port       == {ServerPort(r) : r \in UsedRole}

VARIABLES
  pc,          \* where each call is
  role,        \* the role it is trying
  tried,       \* how many fallback roles it has taken up
  outcome,     \* what the current try has come to so far
  role_gate,   \* _role_semaphores: free places, per primitives object and role
  available,   \* admission: free slots, per worker and port
  waiting,     \* admission: registered waiters, per worker, port and priority
  circuit,     \* circuit breakers, per worker and port
  holders,     \* calls that hold the flock
  generating   \* <<call, role>>: generations the servers are working on

calls   == <<pc, role, tried, outcome>>
gates   == <<role_gate, available, waiting>>
vars    == <<calls, gates, circuit, holders, generating>>

PC == {"idle", "arriving", "polling", "looked", "leaving", "checking", "locking",
       "inferring", "unlocking", "erasing", "recording", "releasing", "failed",
       "returning", "done"}

\* "error" is a RuntimeError, the only exception that leads to a fallback;
\* "timeout" the TimeoutError of the lock; "exception" anything else raised
\* under the lock, such as an HTTP error status.  A failed result is an
\* InferenceResult with success=False, which is how the backend reports a
\* timeout or a broken connection.
Outcome == {"none", "admitted", "ok", "failed_result", "error", "timeout", "exception"}

\* A call that is never made counts as one that is done.
Init ==
  /\ \E asked \in Asked : pc = [c \in Call |-> IF c \in asked THEN "idle" ELSE "done"]
  /\ role = RoleOf
  /\ tried = [c \in Call |-> 0]
  /\ outcome = [c \in Call |-> "none"]
  /\ role_gate = [i \in Primitives |-> [r \in FirstRole |-> RoleLimit(r)]]
  /\ available = [w \in Worker |-> [p \in Port |-> AdmissionLimit(p)]]
  /\ waiting = [w \in Worker |-> [p \in Port |-> [x \in Priority |-> 0]]]
  /\ circuit = [w \in Worker |-> [p \in Port |-> Closed]]
  /\ holders = {}
  /\ generating = {}

PortOf(c) == ServerPort(role[c])

\* Call c goes from one place to another, its try having come to o.
Goto(c, from, to, o) ==
  /\ pc[c] = from
  /\ pc' = [pc EXCEPT ![c] = to]
  /\ outcome' = [outcome EXCEPT ![c] = o]
  /\ UNCHANGED <<role, tried>>

Move(c, from, to) == Goto(c, from, to, outcome[c])

-----------------------------------------------------------------------------
\* The role semaphore: waited for without limit.

EnterRole(c) ==
  /\ Move(c, "idle", "arriving")
  /\ role_gate[PrimitivesOf[c]][RoleOf[c]] > 0
  /\ role_gate' = [role_gate EXCEPT ![PrimitivesOf[c]][RoleOf[c]] = @ - 1]
  /\ UNCHANGED <<available, waiting, circuit, holders, generating>>

\* Bug: a call that ends with an exception keeps its place.
LeaveRoleOnSuccess(c) ==
  /\ Goto(c, "returning", "done", "none")
  /\ role_gate' = [role_gate EXCEPT ![PrimitivesOf[c]][RoleOf[c]] =
                     IF outcome[c] = "ok" THEN @ + 1 ELSE @]
  /\ UNCHANGED <<available, waiting, circuit, holders, generating>>

\* The call hands on its outcome and keeps none.
LeaveRole(c) ==
  /\ Goto(c, "returning", "done", "none")
  /\ role_gate' = [role_gate EXCEPT ![PrimitivesOf[c]][RoleOf[c]] = @ + 1]
  /\ UNCHANGED <<available, waiting, circuit, holders, generating>>

-----------------------------------------------------------------------------
\* AdmissionController.acquire and release.

\* Count this waiter.
Arrive(c) ==
  /\ Move(c, "arriving", "polling")
  /\ waiting' = [waiting EXCEPT ![WorkerOf[c]][PortOf(c)][PriorityOf[c]] = @ + 1]
  /\ UNCHANGED <<role_gate, available, circuit, holders, generating>>

\* Cancelled, past the deadline, or out of its wait budget.
GiveUp(c) ==
  /\ Goto(c, "polling", "leaving", "error")
  /\ UNCHANGED <<gates, circuit, holders, generating>>

\* Bug: background calls do not look whether interactive ones wait.
LookAway(c) ==
  /\ PriorityOf[c] = "background"
  /\ Move(c, "polling", "looked")
  /\ UNCHANGED <<gates, circuit, holders, generating>>

\* A background call stands back while interactive ones wait; it looks under
\* the controller's lock, and acts on what it saw after letting go of it.
Look(c) ==
  /\ PriorityOf[c] = "background"
  /\ waiting[WorkerOf[c]][PortOf(c)]["interactive"] = 0
  /\ Move(c, "polling", "looked")
  /\ UNCHANGED <<gates, circuit, holders, generating>>

ReadyToTry(c) == IF PriorityOf[c] = "background" THEN "looked" ELSE "polling"

\* The non-blocking acquire of the semaphore succeeds ...
Admit(c) ==
  /\ Goto(c, ReadyToTry(c), "leaving", "admitted")
  /\ available[WorkerOf[c]][PortOf(c)] > 0
  /\ available' = [available EXCEPT ![WorkerOf[c]][PortOf(c)] = @ - 1]
  /\ UNCHANGED <<role_gate, waiting, circuit, holders, generating>>

\* ... or not: sleep and poll again.
PollAgain(c) ==
  /\ Move(c, "looked", "polling")
  /\ available[WorkerOf[c]][PortOf(c)] = 0
  /\ UNCHANGED <<gates, circuit, holders, generating>>

\* Bug: every waiter is taken off the interactive count.
LeaveAsInteractive(c) ==
  /\ Move(c, "leaving", IF outcome[c] = "admitted" THEN "checking" ELSE "failed")
  /\ waiting' = [waiting EXCEPT ![WorkerOf[c]][PortOf(c)]["interactive"] = @ - 1]
  /\ UNCHANGED <<role_gate, available, circuit, holders, generating>>

\* The finally block: no longer a waiter.
Leave(c) ==
  /\ Move(c, "leaving", IF outcome[c] = "admitted" THEN "checking" ELSE "failed")
  /\ waiting' = [waiting EXCEPT ![WorkerOf[c]][PortOf(c)][PriorityOf[c]] = @ - 1]
  /\ UNCHANGED <<role_gate, available, circuit, holders, generating>>

\* Bug: the slot is not released when the call failed.
ReleaseOnSuccess(c) ==
  /\ Move(c, "releasing", IF outcome[c] = "error" THEN "failed" ELSE "returning")
  /\ available' = IF outcome[c] = "error" THEN available
                  ELSE [available EXCEPT ![WorkerOf[c]][PortOf(c)] = @ + 1]
  /\ UNCHANGED <<role_gate, waiting, circuit, holders, generating>>

\* Released on every way out of the try block.
Release(c) ==
  /\ Move(c, "releasing", IF outcome[c] = "error" THEN "failed" ELSE "returning")
  /\ available' = [available EXCEPT ![WorkerOf[c]][PortOf(c)] = @ + 1]
  /\ UNCHANGED <<role_gate, waiting, circuit, holders, generating>>

-----------------------------------------------------------------------------
\* The circuit breaker.  How long ago the last failure was is left open.

CheckCircuit(c) ==
  LET w == WorkerOf[c] IN
  \E elapsed \in {0, MaxCooldown} :
    /\ circuit' = [circuit EXCEPT ![w][PortOf(c)] = AfterCheck(@, elapsed)]
    /\ IF IsAvailable(circuit[w][PortOf(c)], elapsed)
       THEN Goto(c, "checking", "locking", "none")
       ELSE Goto(c, "checking", "releasing", "error")
    /\ UNCHANGED <<gates, holders, generating>>

\* A result was returned: record it; a failed one is raised as RuntimeError.
Record(c) ==
  LET ok == outcome[c] = "ok" IN
  /\ Goto(c, "recording", "releasing", IF ok THEN "ok" ELSE "error")
  /\ circuit' = [circuit EXCEPT ![WorkerOf[c]][PortOf(c)] =
                   IF ok THEN AfterSuccess(@) ELSE AfterFailure(@)]
  /\ UNCHANGED <<gates, holders, generating>>

-----------------------------------------------------------------------------
\* The inference lock and what happens under it.

\* Bug: heavy roles exclude only each other.
CanLockBesideLight(c) == Heavy(role[c]) => \A d \in holders : ~Heavy(role[d])

\* flock: a heavy role wants the lock for itself, light roles share it.
CanLock(c) == IF Heavy(role[c]) THEN holders = {} ELSE \A d \in holders : ~Heavy(role[d])

\* The lock is taken and the prompt sent.
Lock(c) ==
  /\ Goto(c, "locking", "inferring", "none")
  /\ CanLock(c)
  /\ holders' = holders \cup {c}
  /\ generating' = generating \cup {<<c, role[c]>>}
  /\ UNCHANGED <<gates, circuit>>

\* Cancelled, past the deadline, or lock timeout.  The clean-up looks for a
\* --port argument of the lock holders; these are API workers, so it asks the
\* orchestrator itself for /slots and no server's slots are touched.
LockTimeout(c) ==
  /\ Goto(c, "locking", "releasing", "timeout")
  /\ UNCHANGED <<gates, circuit, holders, generating>>

\* The server answers: a finished generation, or what an erased one gives.
Answer(c) ==
  /\ \E o \in IF <<c, role[c]>> \in generating THEN {"ok"} ELSE {"ok", "failed_result"} :
       Goto(c, "inferring", "unlocking", o)
  /\ generating' = generating \ {<<c, role[c]>>}
  /\ UNCHANGED <<gates, circuit, holders>>

\* The backend times out or loses the connection and says so in its result.
\* The server may or may not notice that its client has gone.
InferTimeout(c) ==
  /\ Goto(c, "inferring", "unlocking", "failed_result")
  /\ generating' \in {generating, generating \ {<<c, role[c]>>}}
  /\ UNCHANGED <<gates, circuit, holders>>

\* The server answers with an error status, which the backend raises.
HttpError(c) ==
  /\ Goto(c, "inferring", "unlocking", "exception")
  /\ generating' = generating \ {<<c, role[c]>>}
  /\ UNCHANGED <<gates, circuit, holders>>

\* LOCK_UN comes first; only an exception leads to the clean-up.
Unlock(c) ==
  /\ Move(c, "unlocking", IF outcome[c] = "exception" THEN "erasing" ELSE "recording")
  /\ holders' = holders \ {c}
  /\ UNCHANGED <<gates, circuit, generating>>

\* _erase_port_slots: every slot of the port that is processing, as far as
\* the server complies.
Erase(c) ==
  /\ Move(c, "erasing", "releasing")
  /\ \E erased \in SUBSET {g \in generating : ServerPort(g[2]) = PortOf(c)} :
       generating' = generating \ erased
  /\ UNCHANGED <<gates, circuit, holders>>

-----------------------------------------------------------------------------
\* _real_call_impl after a RuntimeError: the next fallback role, or give up.

Fallback(c) ==
  /\ pc[c] = "failed"
  /\ IF tried[c] < Len(FallbackRoles(RoleOf[c]))
     THEN /\ pc' = [pc EXCEPT ![c] = "arriving"]
          /\ tried' = [tried EXCEPT ![c] = @ + 1]
          /\ role' = [role EXCEPT ![c] = FallbackRoles(RoleOf[c])[tried[c] + 1]]
          /\ outcome' = [outcome EXCEPT ![c] = "none"]
     ELSE Move(c, "failed", "returning")
  /\ UNCHANGED <<gates, circuit, holders, generating>>

\* A generation nobody waits for any more comes to its end.
RunOut(g) ==
  /\ g \in generating
  /\ ~(pc[g[1]] = "inferring" /\ role[g[1]] = g[2])
  /\ generating' = generating \ {g}
  /\ UNCHANGED <<calls, gates, circuit, holders>>

\* The first conjunct only spares TLC the rest for a call that is done.
Step(c) ==
  /\ pc[c] # "done"
  /\ \/ EnterRole(c) \/ Arrive(c) \/ GiveUp(c) \/ Look(c) \/ Admit(c) \/ PollAgain(c) \/ Leave(c)
     \/ CheckCircuit(c) \/ Lock(c) \/ LockTimeout(c)
     \/ Answer(c) \/ InferTimeout(c) \/ HttpError(c)
     \/ Unlock(c) \/ Erase(c) \/ Record(c) \/ Release(c) \/ Fallback(c) \/ LeaveRole(c)

AllDone == \A c \in Call : pc[c] = "done"
Ended == AllDone /\ UNCHANGED vars

Next == (\E c \in Call : Step(c)) \/ (\E g \in generating : RunOut(g)) \/ Ended

\* Weak fairness: the operating system runs every thread, and an HTTP request
\* is answered or times out.  Strong fairness of GiveUp for the calls that go
\* back and forth between looking and polling: the loop looks at its budget on
\* every round, so it cannot poll past it for ever.
Fairness ==
  /\ \A c \in Call : WF_vars(Step(c))
  /\ \A c \in {d \in Call : PriorityOf[d] = "background"} : SF_vars(GiveUp(c))

Spec == Init /\ [][Next]_vars /\ Fairness

-----------------------------------------------------------------------------
\* Properties.

\* Every variable has the type the code gives it.
TypeOK ==
  /\ pc \in [Call -> PC] /\ outcome \in [Call -> Outcome]
  /\ \A c \in Call : role[c] \in RolesOf(c) /\ tried[c] \in 0 .. Len(FallbackRoles(RoleOf[c]))
  /\ role_gate \in [Primitives -> [FirstRole -> Nat]]
  /\ available \in [Worker -> [Port -> Nat]]
  /\ waiting \in [Worker -> [Port -> [Priority -> Nat]]]
  /\ circuit \in [Worker -> [Port -> CircuitValue]]
  /\ holders \subseteq Call
  /\ generating \subseteq Call \X UsedRole

\* Where a call stands decides what it holds.
InRole(c)   == pc[c] \notin {"idle", "done"}
IsWaiter(c) == pc[c] \in {"polling", "looked", "leaving"}
Admitted(c) == \/ pc[c] = "leaving" /\ outcome[c] = "admitted"
               \/ pc[c] \in {"checking", "locking", "inferring", "unlocking", "erasing",
                             "recording", "releasing"}
HasLock(c)  == pc[c] \in {"inferring", "unlocking"}

\* The three counters are exact at every moment, on every error path: a place
\* is missing from a semaphore for each call inside and for no other reason,
\* and the waiters that background calls stand back for do exist.
CountersAreExact ==
  /\ \A i \in Primitives, r \in FirstRole :
       role_gate[i][r] = RoleLimit(r) -
         Cardinality({c \in Call : PrimitivesOf[c] = i /\ RoleOf[c] = r /\ InRole(c)})
  /\ \A w \in Worker, p \in Port :
       /\ available[w][p] = AdmissionLimit(p) -
            Cardinality({c \in Call : WorkerOf[c] = w /\ PortOf(c) = p /\ Admitted(c)})
       /\ \A x \in Priority :
            waiting[w][p][x] =
              Cardinality({c \in Call : WorkerOf[c] = w /\ PortOf(c) = p /\ PriorityOf[c] = x
                                          /\ IsWaiter(c)})

\* A heavy model is asked for an answer only while no other model is: across
\* processes, roles and fallbacks.
HeavyRunsAlone ==
  \A c, d \in Call : c # d /\ pc[c] = "inferring" /\ pc[d] = "inferring" => ~Heavy(role[c])

\* While an interactive call polls for a slot, no background call of the same
\* worker gets past looking at that queue.  (One that looked just before may
\* still get ahead.)
BackgroundYields ==
  [][\A c, d \in Call :
       /\ pc[c] = "polling" /\ pc'[c] = "looked"
       /\ PriorityOf[d] = "interactive" /\ WorkerOf[d] = WorkerOf[c] /\ PortOf(d) = PortOf(c)
       => pc[d] # "polling"]_vars

\* Every one of a finite number of calls returns to its caller, with everything
\* given back: a call that waits for its role's place (without limit, while the
\* call that has it tries one fallback after the other), polls for admission,
\* waits for the lock, or falls back to a role whose calls fall back to its own
\* is not left waiting for ever.
EveryCallReturns == <>[](AllDone /\ holders = {})

-----------------------------------------------------------------------------
\* What the documentation says and the code does not do.

\* inference_lock: "on error inside the lock (erase our own slots)": erasing
\* stops no generation that another call is waiting for.
EraseSparesOthers ==
  [][\A c, d \in Call :
       Erase(c) /\ c # d /\ pc[d] = "inferring" /\ <<d, role[d]>> \in generating
         => <<d, role[d]>> \in generating']_vars

\* "This enforces CPU exclusivity across uvicorn workers": while the answer of
\* a heavy model is being generated, nothing else is.
HeavyHasTheCPU ==
  \A c \in Call : \A g \in generating :
    /\ pc[c] = "inferring" /\ Heavy(role[c])
    /\ <<c, role[c]>> \in generating
    => g = <<c, role[c]>>

=============================================================================
