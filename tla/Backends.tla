------------------------------ MODULE Backends ------------------------------
(***************************************************************************)
(* The static tables of the inference path: which llama-server a role      *)
(* talks to, how it takes the inference lock, and the limits it is under   *)
(* (src/config/models.py, inference_lock.py, api/admission.py,             *)
(* concurrency.py, roles.py).                                              *)
(***************************************************************************)
EXTENDS Integers, Sequences

\* LIGHT_ROLES.  _is_heavy_role: everything else is heavy, HEAVY_ROLES and
\* unknown roles alike.
LightRole == {"worker_explore", "worker_math", "worker_fast", "worker_vision"}
Heavy(role) == role \notin LightRole

\* ServerURLsConfig, by port.
ServerPort(role) ==
  IF role = "frontdoor" THEN 8080 ELSE
  IF role \in {"coder", "coder_escalation", "worker_summarize"} THEN 8081 ELSE
  IF role \in {"worker", "worker_general", "worker_explore", "worker_math"} THEN 8082 ELSE
  IF role = "architect_general" THEN 8083 ELSE
  IF role = "architect_coding" THEN 8084 ELSE
  IF role = "ingest_long_context" THEN 8085 ELSE
  IF role = "worker_vision" THEN 8086 ELSE
  IF role = "vision_escalation" THEN 8087 ELSE 8102

\* DEFAULT_LIMITS of the admission controller.
AdmissionLimit(port) == IF port = 8102 THEN 4 ELSE IF port \in {8080, 8086} THEN 2 ELSE 1

\* get_role_max_concurrency.
RoleLimit(role) ==
  IF role = "worker_fast" THEN 4 ELSE
  IF role \in {"worker_explore", "worker_math", "worker_general", "worker_vision"} THEN 2 ELSE 1

\* get_fallback_roles: who stands in when a role's backend fails.
FallbackRoles(role) ==
  IF role = "architect_general" THEN <<"architect_coding", "coder_escalation">> ELSE
  IF role = "architect_coding" THEN <<"architect_general", "coder_escalation">> ELSE
  IF role = "coder_escalation" THEN <<"frontdoor">> ELSE
  IF role = "worker_math" THEN <<"worker_general">> ELSE
  IF role = "ingest_long_context" THEN <<"architect_general">> ELSE << >>

=============================================================================
