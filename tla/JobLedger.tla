------------------------------ MODULE JobLedger ------------------------------
(***************************************************************************)
(* What a scheduler of jobs promises, whatever callers, threads and files  *)
(* do: a runner takes a job only when the job has not ended, nobody else   *)
(* has it, and all it depends on has completed; the job completes, fails   *)
(* or is given back.  A restart leaves no runner with a job and may forget *)
(* how jobs ended, but not the completion of one that another remembered   *)
(* completion was built on.  The jobs in Named are exempt.                 *)
(***************************************************************************)
CONSTANTS Job, Runner, NoJob, Named

VARIABLES issued, depends_on, runs, completed, failed

ledger == <<issued, depends_on, runs, completed, failed>>

Init ==
  /\ issued = {}
  /\ depends_on = [j \in Job |-> {}]
  /\ runs = [r \in Runner |-> NoJob]
  /\ completed = {}
  /\ failed = {}

\* A job may depend on anything, also on what will never be issued.
Issue(j) ==
  /\ j \notin issued
  /\ issued' = issued \cup {j}
  /\ \E deps \in SUBSET Job : depends_on' = [depends_on EXCEPT ![j] = deps]
  /\ UNCHANGED <<runs, completed, failed>>

MayBegin(j) ==
  /\ j \notin completed \cup failed
  /\ \A r \in Runner : runs[r] # j
  /\ depends_on[j] \subseteq completed

Begin(r, j) ==
  /\ runs[r] = NoJob
  /\ j \in issued
  /\ j \in Named \/ MayBegin(j)
  /\ runs' = [runs EXCEPT ![r] = j]
  /\ UNCHANGED <<issued, depends_on, completed, failed>>

End(r) ==
  /\ runs[r] # NoJob
  /\ runs' = [runs EXCEPT ![r] = NoJob]
  /\ \/ completed' = completed \cup {runs[r]} /\ UNCHANGED failed
     \/ failed' = failed \cup {runs[r]} /\ UNCHANGED completed
     \/ UNCHANGED <<completed, failed>>
  /\ UNCHANGED <<issued, depends_on>>

Restart ==
  /\ runs' = [r \in Runner |-> NoJob]
  /\ completed' \subseteq completed
  /\ \A j \in completed' \ Named : depends_on[j] \subseteq completed'
  /\ failed' \subseteq failed
  /\ UNCHANGED <<issued, depends_on>>

Next ==
  \/ \E j \in Job : Issue(j)
  \/ \E r \in Runner : End(r) \/ \E j \in Job : Begin(r, j)
  \/ Restart

Spec == Init /\ [][Next]_ledger

==============================================================================
