--------------------------- MODULE ExportedClient ---------------------------
(***************************************************************************)
(* internal/exporter/project.go: the program that workflows.export_project *)
(* makes of a workflow, without its secrets, and what that program sends   *)
(* when it is called with no input.  It compiles and binds the steps anew: *)
(* nothing of the code of a run (WorkflowCompiler) is shared.              *)
(***************************************************************************)
EXTENDS WorkflowCompiler

CONSTANT Redacted  \* redact.Placeholder

ASSUME RedactedAssumption == Redacted \notin Values

(* exportInputs, script.go:64-93: the X-CSRF-Token header and secret       *)
(* fields are always redacted.                                             *)
Redact(value) == AsCaptured(IF value = NoValue THEN NoValue ELSE Redacted)

(* The overrides of a step have a body when it has inputs (modeler.go:     *)
(* 114-123), and when anything was bound, a header also (lines 190-192),   *)
(* unless the body is too long (line 177).                                 *)
OverridesBody(step, row) ==
  \/ \E part \in Parts(step) : part.is = "input"
  \/ ~row.largeRequest /\ SourcesUsed(step) # {}

(* bind and readPath of the program, lines 216-235: what is not there is   *)
(* blank, and an array in an array is not followed.                        *)
BindPart(flowSeq, steps, part) ==
  LET value(source) ==
        IF IsExtracted(steps, source) /\ ExtractedPath(steps, source) \in Resolvable \ Nested
        THEN New(flowSeq[source.step].row.answer[ExtractedPath(steps, source)])
        ELSE <<"blank">>
  IN  IF part.is = "input" THEN AsCaptured(Default(flowSeq, part.field))
      ELSE Sent(part.of, [u \in DOMAIN part.with |-> value(part.with[u])])

(* Mutant of TypeScriptSends: the overrides of the step are not applied,   *)
(* as in pythonWorkflow, lines 359-387.                                    *)
CapturedOnly(flowSeq, steps, i) ==
  [header |-> Redact(flowSeq[i].row.header),
   body |-> [n \in Fields |-> IF n \in Secret THEN Redact(flowSeq[i].row.fields[n])
                              ELSE AsCaptured(flowSeq[i].row.fields[n])]]

(* compileStep, lines 285-336, and the call of fetch, lines 263-264. *)
TypeScriptSends(flowSeq, steps, i) ==
  LET row == flowSeq[i].row IN
  [header |-> IF DOMAIN steps[i].header.with = {} THEN Redact(row.header)
              ELSE BindPart(flowSeq, steps, steps[i].header),
   body |-> [n \in Fields |-> IF n \in Secret /\ ~OverridesBody(steps[i], row)
                              THEN Redact(row.fields[n])
                              ELSE BindPart(flowSeq, steps, steps[i].body[n])]]

(* Lines 246-249 and 265: the program throws at a status that is refused;  *)
(* a path that is not found does not stop it (line 270).                   *)
ClientReaches(steps, i) ==
  steps[i].included /\ \A j \in 1..(i - 1) : steps[j].included => ~steps[j].denied

-----------------------------------------------------------------------------

(* What a run and the program send in a part is the same, but for a text   *)
(* that was redacted, in which nothing was replaced, and for what a run    *)
(* takes from an array in an array.                                        *)
Alike(sent, client) ==
  \/ client.of = Redacted /\ DOMAIN sent.with = {}
  \/ /\ sent.of = client.of /\ DOMAIN sent.with = DOMAIN client.with
     /\ \A u \in DOMAIN sent.with :
          \/ sent.with[u] = client.with[u]
          \/ client.with[u] = <<"blank">> /\ \E p \in Nested : sent.with[u] = <<"array", p>>

(* The exported program makes each request that a run makes, and sends the *)
(* like in each part of it.                                                *)
SendsWhatARunSends(flowSeq, steps) ==
  \A i \in DOMAIN steps : Reached(steps, i) =>
    LET client == TypeScriptSends(flowSeq, steps, i) IN
    /\ ClientReaches(steps, i)
    /\ Alike(SentPart(flowSeq, steps, steps[i].header), client.header)
    /\ \A n \in Fields : Alike(SentPart(flowSeq, steps, steps[i].body[n]), client.body[n])

=============================================================================
