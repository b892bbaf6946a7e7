---------------------- MODULE ProcedureSchedulerProofs ----------------------
(***************************************************************************)
(* Invariants of ProcedureScheduler, for any set of jobs and runners, any  *)
(* priorities, retries and bounds, and any number of crashes.              *)
(***************************************************************************)
EXTENDS ProcedureScheduler, TLAPS

-----------------------------------------------------------------------------
\* Lists of jobs that grow by one.

LEMMA AppendElements ==
  ASSUME NEW seq \in Seq(Job), NEW j \in Job
  PROVE  Elements(Append(seq, j)) = Elements(seq) \cup {j}
<1>1. DOMAIN Append(seq, j) = DOMAIN seq \cup {Len(seq) + 1}
  OBVIOUS
<1>2. \A i \in DOMAIN seq : Append(seq, j)[i] = seq[i]
  OBVIOUS
<1>3. Append(seq, j)[Len(seq) + 1] = j
  OBVIOUS
<1> QED
  BY <1>1, <1>2, <1>3 DEF Elements

LEMMA AppendOnce ==
  ASSUME NEW seq \in Seq(Job), NEW j \in Job, OnceIn(seq), j \in Elements(seq) => j \in Named
  PROVE  OnceIn(Append(seq, j))
<1> SUFFICES ASSUME NEW i \in DOMAIN Append(seq, j), NEW k \in DOMAIN Append(seq, j),
                    i # k, Append(seq, j)[i] = Append(seq, j)[k]
             PROVE  Append(seq, j)[i] \in Named
  BY DEF OnceIn
<1>1. DOMAIN Append(seq, j) = DOMAIN seq \cup {Len(seq) + 1}
  OBVIOUS
<1>2. \A n \in DOMAIN seq : Append(seq, j)[n] = seq[n] /\ seq[n] \in Elements(seq)
  BY DEF Elements
<1>3. Append(seq, j)[Len(seq) + 1] = j
  OBVIOUS
<1> QED
  BY <1>1, <1>2, <1>3 DEF OnceIn

LEMMA AppendInOrder ==
  ASSUME NEW seq \in Seq(Job), NEW j \in Job, NEW deps, InOrder(seq, deps),
         j \in Named \/ deps[j] \subseteq Elements(seq)
  PROVE  InOrder(Append(seq, j), deps)
<1> SUFFICES ASSUME NEW i \in DOMAIN Append(seq, j), NEW d \in deps[Append(seq, j)[i]],
                    Append(seq, j)[i] \notin Named
             PROVE  \E k \in 1 .. i - 1 : Append(seq, j)[k] = d
  BY DEF InOrder
<1>1. DOMAIN seq = 1 .. Len(seq) /\ Len(seq) \in Nat
  OBVIOUS
<1>2. DOMAIN Append(seq, j) = DOMAIN seq \cup {Len(seq) + 1}
  OBVIOUS
<1>3. \A n \in DOMAIN seq : Append(seq, j)[n] = seq[n]
  OBVIOUS
<1>4. CASE i \in DOMAIN seq
  <2>1. PICK k \in 1 .. i - 1 : seq[k] = d
    BY <1>3, <1>4 DEF InOrder
  <2>2. k \in DOMAIN seq
    BY <1>1, <1>4
  <2> QED
    BY <1>3, <2>1, <2>2
<1>5. CASE i = Len(seq) + 1
  <2>1. Append(seq, j)[i] = j
    BY <1>5
  <2>2. PICK k \in DOMAIN seq : seq[k] = d
    BY <2>1 DEF Elements
  <2> QED
    BY <1>1, <1>3, <1>5, <2>2
<1> QED
  BY <1>2, <1>4, <1>5

-----------------------------------------------------------------------------
\* Types.

LEMMA FreshIsState == Fresh \in State
BY DEF Fresh, State, Status

\* What an operation leaves for the file has the type of a file.
LEMMA SaveKeepsType ==
  ASSUME Save, disk \in State, status' \in [Job -> Status],
         completed_jobs' \in Seq(Job), failed_jobs' \in Seq(Job)
  PROVE  disk' \in State
BY FreshIsState DEF Save, State

LEMMA FinishKeepsTypes ==
  ASSUME TypeOK, NEW r \in Runner, NEW s \in Status, Finish(r, s)
  PROVE  /\ runs[r] \in Job
         /\ status' \in [Job -> Status]
         /\ runs' \in [Runner -> Job \cup {NoJob}]
         /\ UNCHANGED <<issued, depends_on, looping, crashes>>
<1>1. runs[r] \in Job
  BY DEF TypeOK, Finish
<1>2. (IF status[runs[r]] = "absent" THEN status[runs[r]] ELSE s) \in Status
  BY <1>1 DEF TypeOK
<1> QED
  BY <1>1, <1>2 DEF TypeOK, Finish, caller

LEMMA InitHasTypes == Init => TypeOK
BY JobAssumption, FreshIsState DEF Init, TypeOK, Fresh, State, Status

LEMMA TakeKeepsTypes ==
  ASSUME TypeOK, NEW r \in Runner, NEW j \in Job, Take(r, j)
  PROVE  TypeOK'
BY DEF TypeOK, Take, Status, State, caller

LEMMA EndKeepsTypes ==
  ASSUME TypeOK, NEW r \in Runner, Execute(r)
  PROVE  TypeOK'
<1>1. CASE Succeed(r)
  <2>1. Finish(r, "completed")
    BY <1>1 DEF Succeed
  <2>2. /\ runs[r] \in Job
        /\ status' \in [Job -> Status]
        /\ runs' \in [Runner -> Job \cup {NoJob}]
        /\ UNCHANGED <<issued, depends_on, looping, crashes>>
    BY <2>1, FinishKeepsTypes DEF Status
  <2>3. completed_jobs' \in Seq(Job) /\ failed_jobs' \in Seq(Job)
    BY <1>1, <2>2 DEF Succeed, TypeOK
  <2>4. disk' \in State
    BY <1>1, <2>2, <2>3, SaveKeepsType DEF Succeed, TypeOK
  <2> QED
    BY <1>1, <2>2, <2>3, <2>4 DEF Succeed, TypeOK
<1>2. CASE Retry(r)
  <2>1. Finish(r, "pending")
    BY <1>2 DEF Retry
  <2>2. /\ runs[r] \in Job
        /\ status' \in [Job -> Status]
        /\ runs' \in [Runner -> Job \cup {NoJob}]
        /\ UNCHANGED <<issued, depends_on, looping, crashes>>
    BY <2>1, FinishKeepsTypes DEF Status
  <2>3. completed_jobs' \in Seq(Job) /\ failed_jobs' \in Seq(Job)
    BY <1>2 DEF Retry, TypeOK
  <2>4. disk' \in State
    BY <1>2, <2>2, <2>3, SaveKeepsType DEF Retry, TypeOK
  <2>5. retries_left' \in [Job -> Nat]
    BY <1>2, <2>2 DEF Retry, CanRetry, TypeOK
  <2> QED
    BY <2>2, <2>3, <2>4, <2>5 DEF TypeOK
<1>3. CASE GiveUp(r)
  <2>1. Finish(r, "failed")
    BY <1>3 DEF GiveUp
  <2>2. /\ runs[r] \in Job
        /\ status' \in [Job -> Status]
        /\ runs' \in [Runner -> Job \cup {NoJob}]
        /\ UNCHANGED <<issued, depends_on, looping, crashes>>
    BY <2>1, FinishKeepsTypes DEF Status
  <2>3. completed_jobs' \in Seq(Job) /\ failed_jobs' \in Seq(Job)
    BY <1>3, <2>2 DEF GiveUp, TypeOK
  <2>4. disk' \in State
    BY <1>3, <2>2, <2>3, SaveKeepsType DEF GiveUp, TypeOK
  <2> QED
    BY <1>3, <2>2, <2>3, <2>4 DEF GiveUp, TypeOK
<1> QED
  BY <1>1, <1>2, <1>3 DEF Execute, Fail, Raise

LEMMA CallKeepsTypes ==
  ASSUME TypeOK, Call
  PROVE  TypeOK'
<1>1. ASSUME NEW j \in Job \ issued, NEW deps \in SUBSET {i \in Job : i < j}, Schedule(j, deps) PROVE TypeOK'
  <2>1. /\ status' \in [Job -> Status]
        /\ retries_left' \in [Job -> Nat]
        /\ depends_on' \in [Job -> SUBSET Job]
    BY <1>1, JobAssumption DEF Schedule, TypeOK, Status
  <2>2. disk' \in State
    BY <1>1, <2>1, SaveKeepsType DEF Schedule, TypeOK
  <2> QED
    BY <1>1, <2>1, <2>2 DEF Schedule, TypeOK
<1>2. ASSUME NEW j \in Job, Cancel(j) PROVE TypeOK'
  <2>1. status' \in [Job -> Status]
    BY <1>2 DEF Cancel, TypeOK, Status
  <2>2. disk' \in State
    BY <1>2, <2>1, SaveKeepsType DEF Cancel, TypeOK
  <2> QED
    BY <1>2, <2>1, <2>2 DEF Cancel, TypeOK, caller
<1>3. CASE ClearCompleted
  <2>1. status' \in [Job -> Status]
    BY <1>3 DEF ClearCompleted, TypeOK, Status
  <2>2. disk' \in State
    BY <1>3, <2>1, SaveKeepsType DEF ClearCompleted, TypeOK
  <2> QED
    BY <1>3, <2>1, <2>2 DEF ClearCompleted, TypeOK, caller
<1> QED
  BY <1>1, <1>2, <1>3 DEF Call

LEMMA LoopKeepsTypes ==
  ASSUME TypeOK, NEW r \in Runner, StartRunAll(r) \/ Leave(r)
  PROVE  TypeOK'
BY DEF TypeOK, StartRunAll, Leave, caller, memory

LEMMA CrashKeepsTypes ==
  ASSUME TypeOK, Crash
  PROVE  TypeOK'
BY JobAssumption DEF TypeOK, Crash, caller, State

LEMMA StepKeepsTypes == TypeOK /\ [Next]_vars => TypeOK'
<1> SUFFICES ASSUME TypeOK, [Next]_vars PROVE TypeOK'
  OBVIOUS
<1>1. CASE Call
  BY <1>1, CallKeepsTypes
<1>2. ASSUME NEW r \in Runner, Run(r) PROVE TypeOK'
  <2>1. CASE RunNext(r)
    BY <2>1, TakeKeepsTypes DEF RunNext, Ready, Waiting
  <2>2. CASE \E j \in Named : RunNamed(r, j)
    BY <2>2, TakeKeepsTypes, JobAssumption DEF RunNamed
  <2>3. CASE Execute(r)
    BY <2>3, EndKeepsTypes
  <2>4. CASE StartRunAll(r) \/ Drained(r) \/ TimeOut(r)
    BY <2>4, LoopKeepsTypes DEF Drained, TimeOut
  <2> QED
    BY <1>2, <2>1, <2>2, <2>3, <2>4 DEF Run
<1>3. CASE Crash
  BY <1>3, CrashKeepsTypes
<1>4. CASE UNCHANGED vars
  BY <1>4 DEF vars, caller, memory, TypeOK
<1> QED
  BY <1>1, <1>2, <1>3, <1>4 DEF Next

\* Every variable of the scheduler keeps its type, the file included.
THEOREM SchedulerTypeCorrect == Spec => []TypeOK
BY InitHasTypes, StepKeepsTypes, PTL DEF Spec

-----------------------------------------------------------------------------
\* The invariant.  What memory and the file hold is the same kind of thing, an
\* image, and each of the two is sound whatever became of the other.

Memory == [status |-> status, completed_jobs |-> completed_jobs, failed_jobs |-> failed_jobs]

Listed(image) == Elements(image.completed_jobs) \cup Elements(image.failed_jobs)

\* A job is known once it has been issued; one that waits to run has not ended;
\* one that says completed is on the list; the lists are as promised.
Sound(image, ids, deps) ==
  /\ \A j \in Job : image.status[j] # "absent" => j \in ids
  /\ Listed(image) \subseteq ids
  /\ \A j \in Job \ Named : image.status[j] \in {"pending", "blocked"} => j \notin Listed(image)
  /\ \A j \in Job : image.status[j] = "completed" => j \in Elements(image.completed_jobs)
  /\ InOrder(image.completed_jobs, deps)
  /\ OnceIn(image.completed_jobs)
  /\ OnceIn(image.failed_jobs)
  /\ Elements(image.completed_jobs) \cap Elements(image.failed_jobs) \subseteq Named

MemoryIsSound == Sound(Memory, issued, depends_on)
DiskIsSound   == Sound(disk, issued, depends_on)

\* A job under way is not up for another run and has not ended, and what it
\* depends on has completed.
HeldIsSound ==
  \A r \in Runner :
    runs[r] # NoJob =>
      /\ runs[r] \in issued
      /\ runs[r] \notin Named =>
           /\ status[runs[r]] \notin {"pending", "blocked"}
           /\ runs[r] \notin Listed(Memory)
           /\ depends_on[runs[r]] \subseteq Elements(completed_jobs)

IInv == TypeOK /\ MemoryIsSound /\ DiskIsSound /\ HeldIsSound /\ NoDoubleRun

LEMMA FreshIsSound == ASSUME NEW ids, NEW deps PROVE Sound(Fresh, ids, deps)
BY DEF Sound, Fresh, Listed, Elements, InOrder, OnceIn

LEMMA InitIsSound == Init => IInv
<1> SUFFICES ASSUME Init PROVE IInv
  OBVIOUS
<1>1. Memory = Fresh /\ disk = Fresh
  BY DEF Init, Memory, Fresh
<1> QED
  BY <1>1, InitHasTypes, FreshIsSound
     DEF Init, IInv, MemoryIsSound, DiskIsSound, HeldIsSound, NoDoubleRun

\* Issuing another job does not touch the images.
LEMMA SoundStays ==
  ASSUME NEW image \in State, NEW ids, NEW deps, Sound(image, ids, deps),
         NEW ids2, ids \subseteq ids2, NEW deps2, \A j \in ids : deps2[j] = deps[j]
  PROVE  Sound(image, ids2, deps2)
<1>1. \A i \in DOMAIN image.completed_jobs : image.completed_jobs[i] \in ids
  BY DEF Sound, Listed, Elements
<1>2. InOrder(image.completed_jobs, deps2)
  BY <1>1 DEF Sound, InOrder
<1> QED
  BY <1>2 DEF Sound

\* Saving leaves a sound file if memory is sound and the old file would still be.
LEMMA SaveIsSound ==
  ASSUME Save, MemoryIsSound', Sound(disk, issued', depends_on')
  PROVE  DiskIsSound'
BY FreshIsSound DEF Save, MemoryIsSound, DiskIsSound, Memory

-----------------------------------------------------------------------------
\* The steps that change the images.

\* A job whose status changes to one that is neither waiting nor completed.
LEMMA StatusIsSound ==
  ASSUME NEW image \in State, NEW ids, NEW deps, Sound(image, ids, deps),
         NEW image2 \in State,
         image2.completed_jobs = image.completed_jobs, image2.failed_jobs = image.failed_jobs,
         \A j \in Job :
           \/ image2.status[j] = image.status[j]
           \/ image2.status[j] = "absent"
           \/ j \in ids /\ image2.status[j] \in {"running", "cancelled"}
  PROVE  Sound(image2, ids, deps)
BY DEF Sound, Listed

\* A job not listed yet, whose dependencies are, ends; its status follows.
LEMMA EndIsSound ==
  ASSUME NEW image \in State, NEW ids, NEW deps, Sound(image, ids, deps),
         NEW j \in Job, j \in ids, j \notin Named => j \notin Listed(image),
         j \notin Named => deps[j] \subseteq Elements(image.completed_jobs),
         NEW image2 \in State, NEW s \in {"completed", "failed"},
         image2.status = [image.status EXCEPT ![j] = IF @ = "absent" THEN @ ELSE s],
         image2.completed_jobs =
           IF s = "completed" THEN Append(image.completed_jobs, j) ELSE image.completed_jobs,
         image2.failed_jobs =
           IF s = "failed" THEN Append(image.failed_jobs, j) ELSE image.failed_jobs
  PROVE  Sound(image2, ids, deps)
<1>0. /\ image.completed_jobs \in Seq(Job)
      /\ image.failed_jobs \in Seq(Job)
      /\ image.status \in [Job -> Status]
  BY DEF State
<1>1. CASE s = "completed"
  <2>1. image2.completed_jobs = Append(image.completed_jobs, j) /\ image2.failed_jobs = image.failed_jobs
    BY <1>1
  <2>2. Elements(image2.completed_jobs) = Elements(image.completed_jobs) \cup {j}
    BY <1>0, <2>1, AppendElements
  <2>3. InOrder(image2.completed_jobs, deps)
    BY <1>0, <2>1, AppendInOrder DEF Sound
  <2>4. OnceIn(image2.completed_jobs)
    BY <1>0, <2>1, AppendOnce DEF Sound, Listed
  <2> QED
    BY <1>0, <1>1, <2>1, <2>2, <2>3, <2>4 DEF Sound, Listed
<1>2. CASE s = "failed"
  <2>1. image2.failed_jobs = Append(image.failed_jobs, j) /\ image2.completed_jobs = image.completed_jobs
    BY <1>2
  <2>2. Elements(image2.failed_jobs) = Elements(image.failed_jobs) \cup {j}
    BY <1>0, <2>1, AppendElements
  <2>3. OnceIn(image2.failed_jobs)
    BY <1>0, <2>1, AppendOnce DEF Sound, Listed
  <2> QED
    BY <1>0, <1>2, <2>1, <2>2, <2>3 DEF Sound, Listed
<1> QED
  BY <1>1, <1>2

\* A job that waits again has not ended.
LEMMA WaitIsSound ==
  ASSUME NEW image \in State, NEW ids, NEW deps, Sound(image, ids, deps),
         NEW j \in ids \cap Job, j \notin Named => j \notin Listed(image),
         NEW image2 \in State, NEW s \in {"pending", "blocked"},
         image2.status[j] \in {s, "absent"},
         \A k \in Job \ {j} : image2.status[k] = image.status[k],
         image2.completed_jobs = image.completed_jobs, image2.failed_jobs = image.failed_jobs
  PROVE  Sound(image2, ids, deps)
BY DEF Sound, Listed

-----------------------------------------------------------------------------
\* The actions.

LEMMA ScheduleKeeps ==
  ASSUME IInv, TypeOK', NEW j \in Job \ issued, NEW deps \in SUBSET {i \in Job : i < j}, Schedule(j, deps)
  PROVE  IInv'
<1> USE DEF IInv
<1>1. Memory \in State /\ disk \in State /\ Memory' \in State
  BY DEF TypeOK, Memory, State
<1>2. /\ issued \subseteq issued' /\ j \in issued'
      /\ \A k \in issued : depends_on'[k] = depends_on[k]
  BY DEF Schedule, TypeOK
<1>3. Sound(Memory, issued', depends_on') /\ Sound(disk, issued', depends_on')
  BY <1>1, <1>2, SoundStays DEF MemoryIsSound, DiskIsSound
<1>4. MemoryIsSound'
  <2>1. j \notin Listed(Memory)
    BY DEF MemoryIsSound, Sound
  <2>2. /\ Memory'.status[j] \in {"pending", "blocked"}
        /\ \A k \in Job \ {j} : Memory'.status[k] = Memory.status[k]
        /\ Memory'.completed_jobs = Memory.completed_jobs
        /\ Memory'.failed_jobs = Memory.failed_jobs
    BY DEF Schedule, Memory, TypeOK
  <2>3. PICK s \in {"pending", "blocked"} : Memory'.status[j] \in {s, "absent"}
    BY <2>2
  <2> QED
    BY <1>1, <1>2, <1>3, <2>1, <2>2, <2>3, WaitIsSound DEF MemoryIsSound
<1>5. DiskIsSound'
  BY <1>3, <1>4, SaveIsSound DEF Schedule
<1>6. HeldIsSound' /\ NoDoubleRun'
  BY <1>2 DEF HeldIsSound, NoDoubleRun, Schedule, Memory, Listed, TypeOK
<1> QED
  BY <1>4, <1>5, <1>6

LEMMA CancelKeeps ==
  ASSUME IInv, TypeOK', NEW j \in Job, Cancel(j)
  PROVE  IInv'
<1> USE DEF IInv
<1>1. Memory \in State /\ Memory' \in State
  BY DEF TypeOK, Memory, State
<1>2. issued' = issued /\ depends_on' = depends_on /\ j \in issued
  BY DEF Cancel, caller, MemoryIsSound, Sound, Memory
<1>3. /\ Memory'.completed_jobs = Memory.completed_jobs
      /\ Memory'.failed_jobs = Memory.failed_jobs
      /\ Memory'.status[j] = "cancelled"
      /\ \A k \in Job \ {j} : Memory'.status[k] = Memory.status[k]
  BY DEF Cancel, Memory, TypeOK
<1>4. MemoryIsSound'
  <2>1. \A k \in Job : \/ Memory'.status[k] = Memory.status[k]
                       \/ Memory'.status[k] = "absent"
                       \/ k \in issued /\ Memory'.status[k] \in {"running", "cancelled"}
    BY <1>2, <1>3
  <2>2. Sound(Memory, issued, depends_on)
    BY DEF MemoryIsSound
  <2>3. Sound(Memory', issued, depends_on)
    BY ONLY <1>1, <1>3, <2>1, <2>2, StatusIsSound
  <2> QED
    BY <1>2, <2>3 DEF MemoryIsSound
<1>5. DiskIsSound'
  BY <1>2, <1>4, SaveIsSound DEF Cancel, DiskIsSound
<1>6. HeldIsSound' /\ NoDoubleRun'
  BY <1>2 DEF HeldIsSound, NoDoubleRun, Cancel, Memory, Listed, TypeOK
<1> QED
  BY <1>4, <1>5, <1>6

LEMMA ClearKeeps ==
  ASSUME IInv, TypeOK', ClearCompleted
  PROVE  IInv'
<1> USE DEF IInv
<1>1. Memory \in State /\ Memory' \in State
  BY DEF TypeOK, Memory, State
<1>2. issued' = issued /\ depends_on' = depends_on
  BY DEF ClearCompleted, caller
<1>3. /\ Memory'.completed_jobs = Memory.completed_jobs
      /\ Memory'.failed_jobs = Memory.failed_jobs
      /\ \A k \in Job : Memory'.status[k] \in {Memory.status[k], "absent"}
  BY DEF ClearCompleted, Memory
<1>4. MemoryIsSound'
  <2>1. \A k \in Job : \/ Memory'.status[k] = Memory.status[k]
                       \/ Memory'.status[k] = "absent"
                       \/ k \in issued /\ Memory'.status[k] \in {"running", "cancelled"}
    BY <1>2, <1>3
  <2>2. Sound(Memory, issued, depends_on)
    BY DEF MemoryIsSound
  <2>3. Sound(Memory', issued, depends_on)
    BY ONLY <1>1, <1>3, <2>1, <2>2, StatusIsSound
  <2> QED
    BY <1>2, <2>3 DEF MemoryIsSound
<1>5. DiskIsSound'
  BY <1>2, <1>4, SaveIsSound DEF ClearCompleted, DiskIsSound
<1>6. HeldIsSound' /\ NoDoubleRun'
  BY <1>2 DEF HeldIsSound, NoDoubleRun, ClearCompleted, Memory, Listed, TypeOK
<1> QED
  BY <1>4, <1>5, <1>6

\* A runner takes a job that is there; unless it was named, it is ready.
LEMMA TakeKeeps ==
  ASSUME IInv, TypeOK', NEW r \in Runner, NEW j \in Job, Take(r, j),
         status[j] # "absent", j \in Named \/ j \in Ready
  PROVE  IInv'
<1> USE DEF IInv
<1>1. Memory \in State /\ Memory' \in State
  BY DEF TypeOK, Memory, State
<1>2. issued' = issued /\ depends_on' = depends_on /\ disk' = disk /\ j \in issued
  BY DEF Take, caller, MemoryIsSound, Sound, Memory
<1>3. /\ Memory'.completed_jobs = Memory.completed_jobs
      /\ Memory'.failed_jobs = Memory.failed_jobs
      /\ Memory'.status[j] = "running"
      /\ \A k \in Job \ {j} : Memory'.status[k] = Memory.status[k]
  BY DEF Take, Memory, TypeOK
<1>4. MemoryIsSound'
  <2>1. \A k \in Job : \/ Memory'.status[k] = Memory.status[k]
                       \/ Memory'.status[k] = "absent"
                       \/ k \in issued /\ Memory'.status[k] \in {"running", "cancelled"}
    BY <1>2, <1>3
  <2>2. Sound(Memory, issued, depends_on)
    BY DEF MemoryIsSound
  <2>3. Sound(Memory', issued, depends_on)
    BY ONLY <1>1, <1>3, <2>1, <2>2, StatusIsSound
  <2> QED
    BY <1>2, <2>3 DEF MemoryIsSound
<1>5. DiskIsSound'
  BY <1>2 DEF DiskIsSound
<1>6. j \notin Named => /\ status[j] \in {"pending", "blocked"}
                       /\ j \notin Listed(Memory)
                       /\ depends_on[j] \subseteq Elements(completed_jobs)
  <2> SUFFICES ASSUME j \notin Named, j \in Ready
               PROVE  /\ status[j] \in {"pending", "blocked"}
                      /\ j \notin Listed(Memory)
                      /\ depends_on[j] \subseteq Elements(completed_jobs)
    OBVIOUS
  <2>1. status[j] \in {"pending", "blocked"}
    BY DEF Ready, Waiting
  <2>2. \A d \in depends_on[j] : d \in Elements(completed_jobs)
    BY DEF Ready, Met, MemoryIsSound, Sound, Memory, TypeOK
  <2> QED
    BY <2>1, <2>2 DEF MemoryIsSound, Sound, Memory
<1>7. ASSUME NEW s \in Runner, s # r, runs[s] = j PROVE j \in Named
  <2>1. runs[s] # NoJob
    BY <1>7, JobAssumption DEF NoJob
  <2> QED
    BY <1>6, <1>7, <2>1 DEF HeldIsSound
<1>8. runs' = [runs EXCEPT ![r] = j] /\ status' = [status EXCEPT ![j] = "running"]
  BY DEF Take
<1>9. HeldIsSound'
  <2> SUFFICES ASSUME NEW s \in Runner, runs'[s] # NoJob
               PROVE  /\ runs'[s] \in issued'
                      /\ runs'[s] \notin Named =>
                           /\ status'[runs'[s]] \notin {"pending", "blocked"}
                           /\ runs'[s] \notin Listed(Memory)'
                           /\ depends_on'[runs'[s]] \subseteq Elements(completed_jobs)'
    BY DEF HeldIsSound
  <2>1. Listed(Memory)' = Listed(Memory) /\ Elements(completed_jobs)' = Elements(completed_jobs)
    BY DEF Take, Listed, Memory
  <2>2. CASE s = r
    BY <1>2, <1>6, <1>8, <2>1, <2>2 DEF TypeOK
  <2>3. CASE s # r
    BY <1>2, <1>7, <1>8, <2>1, <2>3 DEF TypeOK, HeldIsSound
  <2> QED
    BY <2>2, <2>3
<1>10. NoDoubleRun'
  BY <1>7, <1>8 DEF NoDoubleRun, TypeOK
<1> QED
  BY <1>4, <1>5, <1>9, <1>10

\* What remains sound of the other runners when r's job ends or waits again.
LEMMA OthersStaySound ==
  ASSUME IInv, TypeOK', NEW r \in Runner, NEW s, Finish(r, s),
         NEW j, j = runs[r],
         Listed(Memory)' \subseteq Listed(Memory) \cup {j},
         Elements(completed_jobs) \subseteq Elements(completed_jobs)'
  PROVE  HeldIsSound' /\ NoDoubleRun'
<1> USE DEF IInv
<1>1. j \in Job /\ runs' = [runs EXCEPT ![r] = NoJob] /\ issued' = issued /\ depends_on' = depends_on
  BY DEF Finish, TypeOK, caller
<1>2. \A q \in Runner \ {r} : runs'[q] = runs[q]
  BY <1>1 DEF TypeOK
<1>3. \A q \in Runner \ {r} : runs[q] = j => j \in Named
  BY <1>1, JobAssumption DEF NoDoubleRun, Finish
<1>4. \A k \in Job : k # j => status'[k] = status[k]
  BY DEF Finish, TypeOK
<1>5. runs'[r] = NoJob
  BY <1>1 DEF TypeOK
<1>6. NoDoubleRun'
  BY <1>2, <1>5 DEF NoDoubleRun
<1>7. HeldIsSound'
  <2> SUFFICES ASSUME NEW q \in Runner, runs'[q] # NoJob
               PROVE  /\ runs'[q] \in issued'
                      /\ runs'[q] \notin Named =>
                           /\ status'[runs'[q]] \notin {"pending", "blocked"}
                           /\ runs'[q] \notin Listed(Memory)'
                           /\ depends_on'[runs'[q]] \subseteq Elements(completed_jobs)'
    BY DEF HeldIsSound
  <2>1. q # r /\ runs'[q] = runs[q] /\ runs[q] \in Job
    BY <1>2, <1>5 DEF TypeOK
  <2> QED
    BY <1>1, <1>3, <1>4, <2>1 DEF HeldIsSound
<1> QED
  BY <1>6, <1>7

\* A job ends, well or not, or waits to be tried again.
LEMMA ExecuteKeeps ==
  ASSUME IInv, TypeOK', NEW r \in Runner, Execute(r)
  PROVE  IInv'
<1> USE DEF IInv
<1> DEFINE j == runs[r]
<1>1. Memory \in State /\ Memory' \in State
  BY DEF TypeOK, Memory, State
<1>2. /\ issued' = issued /\ depends_on' = depends_on
      /\ j \in Job \cap issued
      /\ j \notin Named => /\ j \notin Listed(Memory)
                           /\ depends_on[j] \subseteq Elements(completed_jobs)
      /\ Save
  BY DEF Execute, Fail, Raise, Succeed, Retry, GiveUp, Finish, TypeOK, HeldIsSound, caller
<1>3. Sound(Memory, issued, depends_on) /\ Memory.completed_jobs = completed_jobs
  BY DEF MemoryIsSound, Memory
<1> HIDE DEF j
<1>4. ASSUME NEW s \in {"completed", "failed"}, Finish(r, s),
             completed_jobs' = IF s = "completed" THEN Append(completed_jobs, j) ELSE completed_jobs,
             failed_jobs' = IF s = "failed" THEN Append(failed_jobs, j) ELSE failed_jobs
      PROVE  MemoryIsSound' /\ HeldIsSound' /\ NoDoubleRun'
  <2>1. /\ Memory'.status = [Memory.status EXCEPT ![j] = IF @ = "absent" THEN @ ELSE s]
        /\ Memory'.completed_jobs =
             IF s = "completed" THEN Append(Memory.completed_jobs, j) ELSE Memory.completed_jobs
        /\ Memory'.failed_jobs =
             IF s = "failed" THEN Append(Memory.failed_jobs, j) ELSE Memory.failed_jobs
    BY <1>4 DEF Finish, Memory, j
  <2>2. Sound(Memory', issued, depends_on)
    BY <1>1, <1>2, <1>3, <2>1, EndIsSound
  <2>3. /\ Elements(completed_jobs)' \subseteq Elements(completed_jobs) \cup {j}
        /\ Elements(failed_jobs)' \subseteq Elements(failed_jobs) \cup {j}
        /\ Elements(completed_jobs) \subseteq Elements(completed_jobs)'
    <3>1. Elements(Append(completed_jobs, j)) = Elements(completed_jobs) \cup {j}
      BY <1>2, AppendElements DEF TypeOK
    <3>2. Elements(Append(failed_jobs, j)) = Elements(failed_jobs) \cup {j}
      BY <1>2, AppendElements DEF TypeOK
    <3> QED
      BY <1>4, <3>1, <3>2 DEF Elements
  <2>4. Listed(Memory)' \subseteq Listed(Memory) \cup {j}
    BY <2>3 DEF Listed, Memory, Elements
  <2> QED
    BY <1>2, <1>4, <2>2, <2>3, <2>4, OthersStaySound DEF MemoryIsSound, j
<1>5. ASSUME Retry(r)
      PROVE  MemoryIsSound' /\ HeldIsSound' /\ NoDoubleRun'
  <2>1. /\ Finish(r, "pending")
        /\ completed_jobs' = completed_jobs
        /\ failed_jobs' = failed_jobs
    BY <1>5 DEF Retry
  <2>2. /\ Memory'.status[j] \in {"pending", "absent"}
        /\ \A k \in Job \ {j} : Memory'.status[k] = Memory.status[k]
        /\ Memory'.completed_jobs = Memory.completed_jobs
        /\ Memory'.failed_jobs = Memory.failed_jobs
    BY <1>2, <2>1 DEF Finish, Memory, TypeOK, j
  <2>3. Sound(Memory', issued, depends_on)
    BY <1>1, <1>2, <1>3, <2>2, WaitIsSound
  <2>4. Listed(Memory)' = Listed(Memory) /\ Elements(completed_jobs)' = Elements(completed_jobs)
    BY <2>1 DEF Listed, Memory, Elements
  <2> QED
    BY <1>2, <2>1, <2>3, <2>4, OthersStaySound DEF MemoryIsSound, j
<1>6. MemoryIsSound' /\ HeldIsSound' /\ NoDoubleRun'
  <2>1. CASE Succeed(r)
    BY <1>4, <2>1 DEF Succeed, j
  <2>2. CASE GiveUp(r)
    BY <1>4, <2>2 DEF GiveUp, j
  <2> QED
    BY <1>5, <2>1, <2>2 DEF Execute, Fail, Raise
<1>7. DiskIsSound'
  BY <1>2, <1>6, SaveIsSound DEF DiskIsSound
<1> QED
  BY <1>6, <1>7

LEMMA LoopKeeps ==
  ASSUME IInv, TypeOK', UNCHANGED <<caller, memory, disk, runs>>
  PROVE  IInv'
BY DEF IInv, MemoryIsSound, DiskIsSound, HeldIsSound, NoDoubleRun, Memory, caller, memory

\* The file becomes the memory, and no runner is left.
LEMMA CrashKeeps ==
  ASSUME IInv, TypeOK', Crash
  PROVE  IInv'
<1>1. Memory' = disk
  BY DEF IInv, TypeOK, State, Memory, Crash
<1> QED
  BY <1>1 DEF IInv, Crash, MemoryIsSound, DiskIsSound, HeldIsSound, NoDoubleRun, caller

LEMMA StepKeeps == IInv /\ [Next]_vars => IInv'
<1> SUFFICES ASSUME IInv, [Next]_vars PROVE IInv'
  OBVIOUS
<1>0. TypeOK'
  BY StepKeepsTypes DEF IInv
<1>1. CASE Call
  BY <1>0, <1>1, ScheduleKeeps, CancelKeeps, ClearKeeps DEF Call
<1>2. ASSUME NEW r \in Runner, Run(r) PROVE IInv'
  <2>1. CASE RunNext(r)
    <3>1. PICK j \in Ready : Take(r, j)
      BY <2>1 DEF RunNext
    <3>2. j \in Job /\ status[j] # "absent"
      BY DEF Ready, Waiting
    <3> QED
      BY <1>0, <3>1, <3>2, TakeKeeps
  <2>2. CASE \E j \in Named : RunNamed(r, j)
    <3>1. PICK j \in Named : RunNamed(r, j)
      BY <2>2
    <3> QED
      BY <1>0, <3>1, JobAssumption, TakeKeeps DEF RunNamed
  <2>3. CASE Execute(r)
    BY <1>0, <2>3, ExecuteKeeps
  <2>4. CASE StartRunAll(r) \/ Drained(r) \/ TimeOut(r)
    BY <1>0, <2>4, LoopKeeps DEF StartRunAll, Drained, TimeOut, Leave
  <2> QED
    BY <1>2, <2>1, <2>2, <2>3, <2>4 DEF Run
<1>3. CASE Crash
  BY <1>0, <1>3, CrashKeeps
<1>4. CASE UNCHANGED vars
  BY <1>0, <1>4, LoopKeeps DEF vars
<1> QED
  BY <1>1, <1>2, <1>3, <1>4 DEF Next

LEMMA AlwaysSound == Spec => []IInv
BY InitIsSound, StepKeeps, PTL DEF Spec

-----------------------------------------------------------------------------

\* Two threads never execute the same job, unless a caller names it.
THEOREM NeverRunsTwice == Spec => []NoDoubleRun
<1>1. IInv => NoDoubleRun
  BY DEF IInv
<1> QED
  BY <1>1, AlwaysSound, PTL

\* A job completes only after everything it depends on.
THEOREM JobsCompleteInOrder == Spec => []CompletedInOrder
<1>1. IInv => CompletedInOrder
  BY DEF IInv, MemoryIsSound, Sound, Memory, CompletedInOrder
<1> QED
  BY <1>1, AlwaysSound, PTL

\* A job ends once, as completed or as failed.
THEOREM JobsEndOnce == Spec => []EndsOnce
<1>1. IInv => EndsOnce
  BY DEF IInv, MemoryIsSound, Sound, Memory, EndsOnce
<1> QED
  BY <1>1, AlwaysSound, PTL

-----------------------------------------------------------------------------
\* Cancelled jobs.

\* j was cancelled before any runner took it, and this step does not bring it back.
StaysOut(j) ==
  status[j] = "cancelled" /\ ~Held(j) /\ crashes' = crashes =>
    ~Held(j)' /\ status'[j] \in {"cancelled", "absent"}

LEMMA StepKeepsOut ==
  ASSUME IInv, [Next]_vars, NEW j \in Job \ Named
  PROVE  StaysOut(j)
<1> SUFFICES ASSUME status[j] = "cancelled", \A r \in Runner : runs[r] # j, crashes' = crashes
             PROVE  (\A r \in Runner : runs'[r] # j) /\ status'[j] \in {"cancelled", "absent"}
  BY DEF StaysOut, Held
<1>1. TypeOK /\ j \in issued
  BY DEF IInv, MemoryIsSound, Sound, Memory
<1>2. CASE Call
  BY <1>1, <1>2 DEF Call, Schedule, Cancel, ClearCompleted, TypeOK
<1>3. ASSUME NEW r \in Runner, Run(r)
      PROVE  (\A q \in Runner : runs'[q] # j) /\ status'[j] \in {"cancelled", "absent"}
  <2>1. ASSUME NEW k \in Job, k # j, Take(r, k)
        PROVE  (\A q \in Runner : runs'[q] # j) /\ status'[j] = "cancelled"
    BY <1>1, <2>1 DEF Take, TypeOK
  <2>2. CASE RunNext(r)
    BY <2>1, <2>2 DEF RunNext, Ready, Waiting
  <2>3. CASE \E k \in Named : RunNamed(r, k)
    BY <2>1, <2>3, JobAssumption DEF RunNamed
  <2>4. CASE Execute(r)
    <3>1. PICK s : Finish(r, s)
      BY <2>4 DEF Execute, Succeed, Fail, Raise, Retry, GiveUp
    <3>2. runs[r] # j /\ NoJob # j
      BY JobAssumption DEF NoJob
    <3> QED
      BY <1>1, <3>1, <3>2 DEF Finish, TypeOK
  <2>5. CASE StartRunAll(r) \/ Drained(r) \/ TimeOut(r)
    BY <2>5 DEF StartRunAll, Drained, TimeOut, Leave, memory
  <2> QED
    BY <1>3, <2>2, <2>3, <2>4, <2>5 DEF Run
<1>4. ~Crash
  BY <1>1 DEF Crash, TypeOK
<1>5. CASE UNCHANGED vars
  BY <1>5 DEF vars, memory
<1> QED
  BY <1>2, <1>3, <1>4, <1>5 DEF Next

\* A job cancelled before a runner took it is not run any more.
THEOREM CancelledJobsStayOut == Spec => CancelledStaysOut
<1>1. IInv /\ [Next]_vars =>
        [\A j \in Job \ Named :
           status[j] = "cancelled" /\ ~Held(j) /\ crashes' = crashes =>
             ~Held(j)' /\ status'[j] \in {"cancelled", "absent"}]_vars
  BY StepKeepsOut DEF StaysOut
<1> QED
  BY <1>1, AlwaysSound, PTL DEF Spec, CancelledStaysOut

-----------------------------------------------------------------------------
\* The ledger of jobs.  What a restart finds in the file is a part of what memory
\* held, because the lists only grow between restarts and the file is written
\* from them or lost.

FileIsBehind ==
  /\ Elements(disk.completed_jobs) \subseteq Elements(completed_jobs)
  /\ Elements(disk.failed_jobs) \subseteq Elements(failed_jobs)

LEMMA SaveIsBehind ==
  ASSUME FileIsBehind, Save,
         Elements(completed_jobs) \subseteq Elements(completed_jobs'),
         Elements(failed_jobs) \subseteq Elements(failed_jobs')
  PROVE  FileIsBehind'
<1>1. CASE disk' = [status |-> status', completed_jobs |-> completed_jobs', failed_jobs |-> failed_jobs']
  BY <1>1 DEF FileIsBehind, Elements
<1>2. CASE disk' = disk
  BY <1>2 DEF FileIsBehind, Elements
<1>3. CASE disk' = Fresh
  BY <1>3 DEF FileIsBehind, Elements, Fresh
<1> QED
  BY <1>1, <1>2, <1>3 DEF Save

\* What a runner does when it is back under the lock is the end of its job.
LEMMA ExecuteEnds ==
  ASSUME TypeOK, NEW r \in Runner, Execute(r)
  PROVE  Ledger!End(r) /\ Save
<1>1. /\ Save
      /\ runs[r] \in Job /\ runs[r] # NoJob
      /\ runs' = [runs EXCEPT ![r] = NoJob]
      /\ UNCHANGED <<issued, depends_on>>
  BY DEF Execute, Succeed, Fail, Raise, Retry, GiveUp, Finish, TypeOK, caller
<1>2. /\ Elements(Append(completed_jobs, runs[r])) = Elements(completed_jobs) \cup {runs[r]}
      /\ Elements(Append(failed_jobs, runs[r])) = Elements(failed_jobs) \cup {runs[r]}
  BY <1>1, AppendElements DEF TypeOK
<1>3. \/ completed_jobs' = Append(completed_jobs, runs[r]) /\ failed_jobs' = failed_jobs
      \/ failed_jobs' = Append(failed_jobs, runs[r]) /\ completed_jobs' = completed_jobs
      \/ completed_jobs' = completed_jobs /\ failed_jobs' = failed_jobs
  BY DEF Execute, Succeed, Fail, Raise, Retry, GiveUp
<1>4. \/ Elements(completed_jobs)' = Elements(completed_jobs) \cup {runs[r]} /\ UNCHANGED Elements(failed_jobs)
      \/ Elements(failed_jobs)' = Elements(failed_jobs) \cup {runs[r]} /\ UNCHANGED Elements(completed_jobs)
      \/ UNCHANGED <<Elements(completed_jobs), Elements(failed_jobs)>>
  BY <1>2, <1>3 DEF Elements
<1> QED
  BY <1>1, <1>4 DEF Ledger!End

LEMMA StepKeepsBehind == TypeOK /\ FileIsBehind /\ [Next]_vars => FileIsBehind'
<1> SUFFICES ASSUME TypeOK, FileIsBehind, [Next]_vars PROVE FileIsBehind'
  OBVIOUS
<1>1. CASE Call
  <2>1. Save /\ completed_jobs' = completed_jobs /\ failed_jobs' = failed_jobs
    BY <1>1 DEF Call, Schedule, Cancel, ClearCompleted
  <2> QED
    BY <2>1, SaveIsBehind
<1>2. ASSUME NEW r \in Runner, Run(r) PROVE FileIsBehind'
  <2>1. CASE Execute(r)
    <3>1. /\ Elements(completed_jobs) \subseteq Elements(completed_jobs)'
          /\ Elements(failed_jobs) \subseteq Elements(failed_jobs)'
      BY <2>1, ExecuteEnds DEF Ledger!End
    <3>2. Save
      BY <2>1, ExecuteEnds
    <3> QED
      BY <3>1, <3>2, SaveIsBehind DEF Elements
  <2>2. CASE RunNext(r) \/ \E j \in Named : RunNamed(r, j)
    <3>1. UNCHANGED <<completed_jobs, failed_jobs, disk>>
      BY <2>2 DEF RunNext, RunNamed, Take
    <3> QED
      BY <3>1 DEF FileIsBehind, Elements
  <2>3. CASE StartRunAll(r) \/ Drained(r) \/ TimeOut(r)
    <3>1. UNCHANGED <<completed_jobs, failed_jobs, disk>>
      BY <2>3 DEF StartRunAll, Drained, TimeOut, Leave, memory
    <3> QED
      BY <3>1 DEF FileIsBehind, Elements
  <2> QED
    BY <1>2, <2>1, <2>2, <2>3 DEF Run
<1>3. CASE Crash
  BY <1>3 DEF Crash, FileIsBehind, Elements
<1>4. CASE UNCHANGED vars
  BY <1>4 DEF vars, memory, FileIsBehind, Elements
<1> QED
  BY <1>1, <1>2, <1>3, <1>4 DEF Next

\* A job a runner takes by itself may begin.
LEMMA ReadyMayBegin ==
  ASSUME IInv, NEW j \in Ready, j \notin Named
  PROVE  Ledger!MayBegin(j)
<1>1. j \in Job /\ status[j] \in {"pending", "blocked"}
  BY DEF Ready, Waiting
<1>2. j \notin Elements(completed_jobs) \cup Elements(failed_jobs)
  BY <1>1 DEF IInv, MemoryIsSound, Sound, Memory, Listed
<1>3. depends_on[j] \subseteq Elements(completed_jobs)
  BY <1>1 DEF IInv, TypeOK, MemoryIsSound, Sound, Memory, Ready, Met
<1>4. \A r \in Runner : runs[r] # j
  BY <1>1, JobAssumption DEF IInv, HeldIsSound, NoJob
<1> QED
  BY <1>2, <1>3, <1>4 DEF Ledger!MayBegin

LEMMA TakeBegins ==
  ASSUME IInv, NEW r \in Runner, NEW j \in Job, Take(r, j), status[j] # "absent",
         j \in Named \/ j \in Ready
  PROVE  Ledger!Begin(r, j)
<1>1. j \in issued
  BY DEF IInv, MemoryIsSound, Sound, Memory
<1>2. j \in Named \/ Ledger!MayBegin(j)
  BY ReadyMayBegin
<1>3. UNCHANGED <<issued, depends_on, Elements(completed_jobs), Elements(failed_jobs)>>
  BY DEF Take, caller, Elements
<1> QED
  BY <1>1, <1>2, <1>3 DEF Take, Ledger!Begin

\* The file is a sound image, so what it remembers is complete downwards.
LEMMA CrashRestarts ==
  ASSUME IInv, FileIsBehind, Crash
  PROVE  Ledger!Restart
<1>1. /\ Elements(completed_jobs)' = Elements(disk.completed_jobs)
      /\ Elements(failed_jobs)' = Elements(disk.failed_jobs)
      /\ runs' = [r \in Runner |-> NoJob]
      /\ UNCHANGED <<issued, depends_on>>
  BY DEF Crash, Elements, caller
<1>2. ASSUME NEW j \in Elements(disk.completed_jobs) \ Named
      PROVE  depends_on[j] \subseteq Elements(disk.completed_jobs)
  <2>1. PICK i \in DOMAIN disk.completed_jobs : disk.completed_jobs[i] = j
    BY DEF Elements
  <2>2. disk.completed_jobs \in Seq(Job)
    BY DEF IInv, TypeOK, State
  <2>3. ASSUME NEW d \in depends_on[j] PROVE d \in Elements(disk.completed_jobs)
    <3>1. PICK k \in 1 .. i - 1 : disk.completed_jobs[k] = d
      BY <2>1 DEF IInv, DiskIsSound, Sound, InOrder
    <3>2. k \in DOMAIN disk.completed_jobs
      BY <2>1, <2>2
    <3> QED
      BY <3>1, <3>2 DEF Elements
  <2> QED
    BY <2>3
<1> QED
  BY <1>1, <1>2 DEF FileIsBehind, Ledger!Restart

LEMMA LedgerInit == Init => Ledger!Init /\ FileIsBehind
BY DEF Init, Ledger!Init, FileIsBehind, Fresh, Elements

LEMMA LedgerStep == IInv /\ FileIsBehind /\ [Next]_vars => [Ledger!Next]_(Ledger!ledger)
<1> SUFFICES ASSUME IInv, FileIsBehind, [Next]_vars PROVE [Ledger!Next]_(Ledger!ledger)
  OBVIOUS
<1>0. TypeOK
  BY DEF IInv
<1>1. CASE Call
  <2>1. completed_jobs' = completed_jobs /\ failed_jobs' = failed_jobs /\ runs' = runs
    BY <1>1 DEF Call, Schedule, Cancel, ClearCompleted
  <2>2. UNCHANGED <<runs, Elements(completed_jobs), Elements(failed_jobs)>>
    BY <2>1 DEF Elements
  <2>3. ASSUME NEW j \in Job \ issued, NEW deps \in SUBSET {i \in Job : i < j}, Schedule(j, deps)
        PROVE  Ledger!Issue(j)
    BY <2>2, <2>3 DEF Schedule, Ledger!Issue
  <2>4. CASE (\E j \in Job : Cancel(j)) \/ ClearCompleted
    BY <2>2, <2>4 DEF Cancel, ClearCompleted, caller, Ledger!ledger
  <2> QED
    BY <1>1, <2>3, <2>4 DEF Call, Ledger!Next
<1>2. ASSUME NEW r \in Runner, Run(r) PROVE [Ledger!Next]_(Ledger!ledger)
  <2>1. CASE RunNext(r)
    <3>1. PICK j \in Ready : Take(r, j)
      BY <2>1 DEF RunNext
    <3>2. j \in Job /\ status[j] # "absent"
      BY DEF Ready, Waiting
    <3> QED
      BY <3>1, <3>2, TakeBegins DEF Ledger!Next
  <2>2. CASE \E j \in Named : RunNamed(r, j)
    <3>1. PICK j \in Named : RunNamed(r, j)
      BY <2>2
    <3>2. Take(r, j) /\ j \in Job /\ status[j] # "absent"
      BY <3>1, JobAssumption DEF RunNamed
    <3> QED
      BY <3>2, TakeBegins DEF Ledger!Next
  <2>3. CASE Execute(r)
    BY <1>0, <2>3, ExecuteEnds DEF Ledger!Next
  <2>4. CASE StartRunAll(r) \/ Drained(r) \/ TimeOut(r)
    <3>1. UNCHANGED <<issued, depends_on, runs, completed_jobs, failed_jobs>>
      BY <2>4 DEF StartRunAll, Drained, TimeOut, Leave, caller, memory
    <3> QED
      BY <3>1 DEF Elements, Ledger!ledger
  <2> QED
    BY <1>2, <2>1, <2>2, <2>3, <2>4 DEF Run
<1>3. CASE Crash
  BY <1>3, CrashRestarts DEF Ledger!Next
<1>4. CASE UNCHANGED vars
  <2>1. UNCHANGED <<issued, depends_on, runs, completed_jobs, failed_jobs>>
    BY <1>4 DEF vars, caller, memory
  <2> QED
    BY <2>1 DEF Elements, Ledger!ledger
<1> QED
  BY <1>1, <1>2, <1>3, <1>4 DEF Next

\* The scheduler keeps the ledger of jobs: a job begins when nobody has it, it has
\* not ended and what it depends on has completed (get_ready_jobs, run_one), and a
\* restart (_load_state) forgets only what nothing remembered rests on.
THEOREM SchedulerKeepsLedger == Spec => ImplementsLedger
<1>1. IInv => TypeOK
  BY DEF IInv
<1>2. Spec => [](IInv /\ FileIsBehind)
  BY <1>1, InitIsSound, StepKeeps, LedgerInit, StepKeepsBehind, PTL DEF Spec
<1>3. Spec => Ledger!Spec
  BY <1>2, LedgerInit, LedgerStep, PTL DEF Spec, Ledger!Spec
<1> QED
  BY <1>3 DEF ImplementsLedger

=============================================================================
