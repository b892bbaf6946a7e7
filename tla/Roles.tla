------------------------------- MODULE Roles -------------------------------
(***************************************************************************)
(* The agent roles of the orchestrator and the two static maps between     *)
(* them: src/roles.py (Role, _ESCALATION_MAP) and the role-to-node map at  *)
(* the end of src/graph/nodes.py.  The draft roles (draft_coder,           *)
(* draft_general) only feed speculative decoding: no task runs under them. *)
(***************************************************************************)

None == "none"

\* The roles served by WorkerNode.
WorkerRole == {"worker_general", "worker_math", "worker_summarize",
               "worker_vision", "toolrunner"}

ArchitectRole == {"architect_general", "architect_coding"}

Role == WorkerRole \cup ArchitectRole \cup
        {"frontdoor", "coder_escalation", "thinking_reasoning", "ingest_long_context"}

\* Role.escalates_to(): the next role up, None for the architects.
EscalatesTo(r) ==
  IF r \in WorkerRole \cup {"frontdoor"} THEN "coder_escalation" ELSE
  IF r = "coder_escalation" THEN "architect_coding" ELSE
  IF r \in {"thinking_reasoning", "ingest_long_context"} THEN "architect_general" ELSE None

-----------------------------------------------------------------------------

NodeClass == {"FrontdoorNode", "WorkerNode", "CoderNode", "CoderEscalationNode",
              "IngestNode", "ArchitectNode", "ArchitectCodingNode"}

\* select_start_node: the node class that serves a role.
StartNode(r) ==
  IF r \in WorkerRole THEN "WorkerNode" ELSE
  IF r = "thinking_reasoning" THEN "CoderNode" ELSE
  IF r = "coder_escalation" THEN "CoderEscalationNode" ELSE
  IF r = "ingest_long_context" THEN "IngestNode" ELSE
  IF r = "architect_general" THEN "ArchitectNode" ELSE
  IF r = "architect_coding" THEN "ArchitectCodingNode" ELSE "FrontdoorNode"

\* Bug: FrontdoorNode and WorkerNode skip a tier.
NodeTargetSkipsTier(n) ==
  IF n \in {"FrontdoorNode", "WorkerNode", "CoderEscalationNode"} THEN "architect_coding" ELSE
  IF n \in {"CoderNode", "IngestNode"} THEN "architect_general" ELSE None

\* The role each node class hands the task to when it escalates: the literal
\* in its run() method, written there independently of _ESCALATION_MAP.
\* The architect nodes have no such branch.
NodeTarget(n) ==
  IF n \in {"FrontdoorNode", "WorkerNode"} THEN "coder_escalation" ELSE
  IF n = "CoderEscalationNode" THEN "architect_coding" ELSE
  IF n \in {"CoderNode", "IngestNode"} THEN "architect_general" ELSE None

\* Bug: CoderEscalationNode hands the task back to FrontdoorNode.
NextNodeBackDown(n) ==
  IF n \in {"FrontdoorNode", "WorkerNode"} THEN "CoderEscalationNode" ELSE
  IF n = "CoderEscalationNode" THEN "FrontdoorNode" ELSE "ArchitectNode"

\* The node class such a branch returns, again a literal of the run() method.
NextNode(n) ==
  IF n \in {"FrontdoorNode", "WorkerNode"} THEN "CoderEscalationNode" ELSE
  IF n = "CoderEscalationNode" THEN "ArchitectCodingNode" ELSE "ArchitectNode"

=============================================================================
