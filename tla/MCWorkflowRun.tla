--------------------------- MODULE MCWorkflowRun ---------------------------
(* WorkflowRun with a workflow whose last step is bound to its first, one  *)
(* of two unbound steps, and one as only workflows.save makes it, with     *)
(* bindings to an excluded step, to a step itself and to a later one.      *)
EXTENDS WorkflowRun

CONSTANTS f1, f2

MCFlowIds == {f1, f2}

Plain(f) == [included |-> TRUE, flow |-> f, binds |-> {}, extract |-> FALSE,
             status |-> {}, reads |-> FALSE]

MCWorkflows ==
  { << [Plain(f1) EXCEPT !.extract = TRUE, !.status = {200}],
       [Plain(f2) EXCEPT !.included = FALSE],
       [Plain(f2) EXCEPT !.binds = {1}, !.reads = TRUE] >>,
    << [Plain(f1) EXCEPT !.status = {200, 401}], Plain(f1) >>,
    << [Plain(f1) EXCEPT !.extract = TRUE, !.included = FALSE],
       [Plain(f1) EXCEPT !.extract = TRUE, !.binds = {1, 2, 3}],
       [Plain(f2) EXCEPT !.binds = {1, 2, 4}] >> }

=============================================================================
