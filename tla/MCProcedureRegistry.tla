------------------------ MODULE MCProcedureRegistry ------------------------
(***************************************************************************)
(* ProcedureRegistry on procedures made after those in                     *)
(* orchestration/procedures.                                               *)
(***************************************************************************)
EXTENDS ProcedureRegistry

CONSTANTS evaluate, update

Plain == [on_failure |-> "abort", max_retries |-> 0, depends_on |-> {},
          shell |-> FALSE, conditional |-> FALSE, captures |-> FALSE]

\* A step that may fail, and one that depends on it and may be passed over, as
\* in evaluate_finetuned_model; and two steps that roll back, as in
\* add_model_quirks.
Evaluate == <<
  [Plain EXCEPT !.on_failure = "retry", !.shell = TRUE, !.max_retries = 1, !.captures = TRUE],
  [Plain EXCEPT !.on_failure = "continue", !.depends_on = {1}, !.conditional = TRUE],
  [Plain EXCEPT !.depends_on = {2}, !.captures = TRUE] >>
Update == <<
  [Plain EXCEPT !.captures = TRUE],
  [Plain EXCEPT !.on_failure = "rollback", !.depends_on = {1}, !.shell = TRUE, !.max_retries = 1],
  [Plain EXCEPT !.on_failure = "rollback", !.depends_on = {1, 2}, !.conditional = TRUE] >>

MCExecution == {evaluate, update}
MCSteps == [e \in MCExecution |-> IF e = evaluate THEN Evaluate ELSE Update]
MCRollback == {update}

=============================================================================
