------------------------ MODULE MCOrchestrationGraph ------------------------
(***************************************************************************)
(* OrchestrationGraph on small instances.                                  *)
(***************************************************************************)
EXTENDS OrchestrationGraph

\* One role for every way a task can enter the graph below the architects:
\* the node classes they start at reach all seven.
MCStartRoles == {"frontdoor", "worker_general", "thinking_reasoning", "ingest_long_context"}

=============================================================================
