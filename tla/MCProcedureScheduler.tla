------------------------ MODULE MCProcedureScheduler ------------------------
(***************************************************************************)
(* ProcedureScheduler with two jobs: the later one is more urgent and      *)
(* may be retried.                                                         *)
(***************************************************************************)
EXTENDS ProcedureScheduler
MCJob == 1 .. 2
MCPriority == [j \in MCJob |-> IF j = 2 THEN 1 ELSE 0]
MCMaxRetries == [j \in MCJob |-> IF j = 2 THEN 1 ELSE 0]
=============================================================================
