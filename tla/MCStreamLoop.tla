---------------------------- MODULE MCStreamLoop ----------------------------
(***************************************************************************)
(* StreamLoop with a role of each kind to start from and to ask for, and   *)
(* names that are no roles.                                                *)
(***************************************************************************)
EXTENDS StreamLoop
MCStartRole == {"frontdoor", "worker_math", "ingest_long_context", "worker_explore"}
MCTarget == {"worker_math", "architect_general", "draft_coder", "reviewer"}
=============================================================================
