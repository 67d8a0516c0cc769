---------------------------- MODULE WorkflowRun ----------------------------
(***************************************************************************)
(* internal/workflow: Builder.Run, as workflows.run and cookie warming     *)
(* call it.  It replays the included steps one after the other, asserts    *)
(* each response, refreshes the authentication at most once per step, and  *)
(* extracts the outputs that later steps are bound to.  A replay here is   *)
(* one step with the outcomes that ReplayEngine allows it; between the     *)
(* replay and the reads of its response other connections may prune flows. *)
(***************************************************************************)
EXTENDS Naturals, Sequences

CONSTANTS FlowIds,     \* captured flows that steps replay
          NoFlow,      \* no refresh endpoint
          Statuses,    \* HTTP statuses a target may answer
          Workflows    \* saved workflows: sequences of steps

Step == [included : BOOLEAN, flow : FlowIds, binds : SUBSET Nat, extract : BOOLEAN,
         status : SUBSET Nat, reads : BOOLEAN]

ASSUME StatusAssumption == Statuses \subseteq Nat \ {0}
ASSUME FlowAssumption == NoFlow \notin FlowIds

(* workflows.save stores steps without a look at them, jsonrpc/server.go:  *)
(* 735-745: a step may name the outputs of itself, of a later or excluded  *)
(* step, or of one that extracts none.  The ids of steps are distinct, and *)
(* a step stands for its id.                                               *)
ASSUME WorkflowAssumption == Workflows \subseteq Seq(Step)

VARIABLES
  stored,   \* the captured flows that are not pruned
  replays,  \* the calls of Engine.Run, in order, with their rows
  params,   \* the workflow as read, dry_run, the refresh flow
  call,     \* the local variables of Run
  row,      \* the workflow_runs row
  serving   \* FALSE once the daemon's context is cancelled

vars == <<stored, replays, params, call, row, serving>>

Refresh == 0   \* the step id "auth_refresh"

NoReplay == 0  \* an empty replay_run_id

Workflow == params.workflow

Replay == [step : Nat, from : SUBSET (Nat \X Nat), row : {"none", "stored", "deleted"},
           status : Nat, ok : BOOLEAN, flow : {"none", "stored", "deleted"}]

StepRun == [step : Nat, replay : Nat, ok : BOOLEAN, status : Nat]

Running == {"replay", "assert", "refresh", "extract", "insert"}

Goto(l) == [call EXCEPT !.pc = l]

(* Mutant of NextStep: the check of Included is dropped. *)
AnyStep(n) == n + 1

(* The for loop of lines 348-351: the next included step, or past the end. *)
NextStep(n) ==
  LET rest == {m \in (n + 1)..Len(Workflow) : Workflow[m].included}
  IN  IF rest = {} THEN Len(Workflow) + 1
      ELSE CHOOSE m \in rest : \A k \in rest : m <= k

Turn(c, n) == [c EXCEPT !.step = n, !.retried = FALSE,
                        !.pc = IF n <= Len(Workflow) THEN "replay" ELSE "insert"]

(* workflows.run, jsonrpc/server.go:764-806, and Run up to line 347. *)
RunBegins(w, dry, refresh) ==
  /\ call.pc = "idle"
  /\ serving
  /\ params' = [workflow |-> w, dry |-> dry, refresh |-> refresh]
  /\ call' = [Turn(call, 0) EXCEPT !.pc = "next"]
  /\ UNCHANGED <<stored, replays, row, serving>>

StepTurn ==
  /\ call.pc = "next"
  /\ call' = Turn(call, NextStep(call.step))
  /\ UNCHANGED <<stored, replays, params, row, serving>>

-----------------------------------------------------------------------------
(* Engine.Run for a step or the refresh: ReplayEngine's outcomes for a     *)
(* call without retries.                                                   *)

(* An error, in which case no row was stored; the request may have been    *)
(* sent.                                                                   *)
NoRow(n, from) == [step |-> n, from |-> from, row |-> "none", status |-> 0,
                   ok |-> FALSE, flow |-> "none"]

DryRow(n, from) == [NoRow(n, from) EXCEPT !.row = "stored", !.ok = TRUE]

Succeeded(s) == s >= 200 /\ s < 400

(* The target did not answer, or it did and the answer was stored or not. *)
SentRow(n, from, s, kept) ==
  [step |-> n, from |-> from, row |-> "stored", status |-> s,
   ok |-> kept /\ Succeeded(s), flow |-> IF kept THEN "stored" ELSE "none"]

(* A row needs its original flow, and a context that is not cancelled. *)
RowsOf(n, f, from, dry) ==
  IF ~serving \/ f \notin stored THEN {}
  ELSE IF dry THEN {DryRow(n, from)}
  ELSE {SentRow(n, from, 0, FALSE)}
       \cup {SentRow(n, from, a[1], a[2]) : a \in Statuses \X BOOLEAN}

-----------------------------------------------------------------------------
(* A step. *)

LastReplay == Len(replays)

StepRunOf(k, ok) == [step |-> replays[k].step,
                     replay |-> IF replays[k].row = "none" THEN NoReplay ELSE k,
                     ok |-> ok, status |-> replays[k].status]

(* stepOverrides, lines 686-709: the outputs that the step is bound to. *)
Bound(n) == {b \in call.outputs : b[1] \in Workflow[n].binds}

(* runStep, lines 406-421.  An error ends the run (lines 354-359, 372-377).*)
ReplayStep ==
  LET n == call.step IN
  /\ call.pc = "replay"
  /\ \/ \E r \in RowsOf(n, Workflow[n].flow, Bound(n), params.dry) :
          /\ replays' = Append(replays, r)
          /\ call' = Goto("assert")
     \/ /\ replays' = Append(replays, NoRow(n, Bound(n)))
        /\ call' = [Goto("insert") EXCEPT !.ok = FALSE,
             !.stepRuns = Append(@, [step |-> n, replay |-> NoReplay, ok |-> FALSE, status |-> 0])]
  /\ UNCHANGED <<stored, params, row, serving>>

(* assertStatus. *)
StatusAllowed(n, s) ==
  IF Workflow[n].status = {} THEN Succeeded(s) ELSE s \in Workflow[n].status

ResponseThere(k) == serving /\ replays[k].flow = "stored"

(* assertStep, lines 436-466: what it may return. *)
Assertions(n, k) ==
  IF params.dry THEN {TRUE}
  ELSE IF ~StatusAllowed(n, replays[k].status) THEN {FALSE}
  ELSE IF ~Workflow[n].reads THEN {replays[k].ok}
  ELSE IF ResponseThere(k) THEN {FALSE, replays[k].ok}
  ELSE {FALSE}

AuthFailure(s) == s \in {401, 403, 419, 440}

(* Mutant of RefreshWanted: a step is refreshed for as often as it fails. *)
AfterEachFailure(k) ==
  /\ ~params.dry
  /\ params.refresh # NoFlow
  /\ AuthFailure(replays[k].status)

(* tryAuthRefresh, line 525, which Run calls once per step. *)
RefreshWanted(k) ==
  /\ ~params.dry
  /\ params.refresh # NoFlow
  /\ ~call.retried
  /\ AuthFailure(replays[k].status)

(* Lines 360-389. *)
AssertStep ==
  LET n == call.step
      k == LastReplay
  IN  /\ call.pc = "assert"
      /\ \E ok \in Assertions(n, k) :
           call' = IF ~ok /\ RefreshWanted(k) THEN Goto("refresh")
                   ELSE [call EXCEPT !.pc = IF ok THEN "extract" ELSE "insert",
                                     !.ok = ok,
                                     !.stepRuns = Append(@, StepRunOf(k, ok))]
      /\ UNCHANGED <<stored, replays, params, row, serving>>

(* Mutant of RefreshRuns: the step that failed is forgotten. *)
OnlyTheRefresh(r, k) == <<[step |-> Refresh, replay |-> IF r.row = "none" THEN NoReplay ELSE k + 1,
                           ok |-> r.ok, status |-> r.status]>>

(* Lines 363-364. *)
RefreshRuns(r, k) ==
  <<StepRunOf(k, FALSE),
    [step |-> Refresh, replay |-> IF r.row = "none" THEN NoReplay ELSE k + 1,
     ok |-> r.ok, status |-> r.status]>>

(* Mutant of AfterRefresh: the step is tried again in any case. *)
RetryAnyway(c, r) == [c EXCEPT !.pc = "replay", !.retried = TRUE]

(* Lines 365-371. *)
AfterRefresh(c, r) ==
  IF r.ok THEN [c EXCEPT !.pc = "replay", !.retried = TRUE]
  ELSE [c EXCEPT !.pc = "insert", !.ok = FALSE]

(* tryAuthRefresh, lines 528-542. *)
RefreshAuth ==
  /\ call.pc = "refresh"
  /\ \E r \in RowsOf(Refresh, params.refresh, {}, FALSE) \cup {NoRow(Refresh, {})} :
       /\ replays' = Append(replays, r)
       /\ call' = AfterRefresh([call EXCEPT !.stepRuns = @ \o RefreshRuns(r, LastReplay)], r)
  /\ UNCHANGED <<stored, params, row, serving>>

(* Mutant of Accepted: the outputs are those of the step's first attempt. *)
FirstAttempt(n) == CHOOSE k \in DOMAIN replays :
  replays[k].step = n /\ \A j \in DOMAIN replays : replays[j].step = n => k <= j

(* The replay that stepRun names when the outputs are extracted. *)
Accepted(n) == call.stepRuns[Len(call.stepRuns)].replay

(* extractStepOutputs, lines 390-398 and 468-489: the row and its flow are *)
(* read again; a path may be missing.                                      *)
ExtractOutputs ==
  LET n == call.step
      k == Accepted(n)
  IN  /\ call.pc = "extract"
      /\ \/ /\ ~Workflow[n].extract
            /\ call' = Goto("next")
         \/ /\ Workflow[n].extract
            /\ replays[k].row = "stored" /\ ResponseThere(k)
            /\ call' = [Goto("next") EXCEPT !.outputs = @ \cup {<<n, k>>}]
         \/ /\ Workflow[n].extract
            /\ call' = [Goto("insert") EXCEPT !.ok = FALSE]
      /\ UNCHANGED <<stored, replays, params, row, serving>>

(* Line 400; the store may refuse the row. *)
InsertWorkflowRun ==
  /\ call.pc = "insert"
  /\ \/ /\ serving
        /\ row' = [state |-> "stored", ok |-> call.ok, stepRuns |-> call.stepRuns]
        /\ call' = Goto("done")
     \/ /\ call' = Goto("error")
        /\ UNCHANGED row
  /\ UNCHANGED <<stored, replays, params, serving>>

-----------------------------------------------------------------------------
(* The rest of the daemon. *)

(* maintenance.prune_flows: captured flows F and the flows of replays K.   *)
(* Rows of replay_runs go with their original and forget their replay.     *)
OriginalOf(k) == IF replays[k].step = Refresh THEN params.refresh
                 ELSE Workflow[replays[k].step].flow

PruneFlows(F, K) ==
  /\ serving
  /\ F \cup K # {}
  /\ stored' = stored \ F
  /\ replays' = [k \in DOMAIN replays |->
       [replays[k] EXCEPT
          !.row = IF @ = "stored" /\ OriginalOf(k) \in F THEN "deleted" ELSE @,
          !.flow = IF k \in K THEN "deleted" ELSE @]]
  /\ UNCHANGED <<params, call, row, serving>>

(* SIGTERM; main returns without waiting. *)
Cancel ==
  /\ serving
  /\ serving' = FALSE
  /\ UNCHANGED <<stored, replays, params, call, row>>

Init ==
  /\ stored = FlowIds
  /\ replays = <<>>
  /\ params = [workflow |-> <<>>, dry |-> FALSE, refresh |-> NoFlow]
  /\ call = [pc |-> "idle", step |-> 0, retried |-> FALSE, outputs |-> {},
             stepRuns |-> <<>>, ok |-> TRUE]
  /\ row = [state |-> "free", ok |-> FALSE, stepRuns |-> <<>>]
  /\ serving = TRUE

Next ==
  \/ \E w \in Workflows, dry \in BOOLEAN, f \in FlowIds \cup {NoFlow} : RunBegins(w, dry, f)
  \/ StepTurn
  \/ ReplayStep
  \/ AssertStep
  \/ RefreshAuth
  \/ ExtractOutputs
  \/ InsertWorkflowRun
  \/ \E F \in SUBSET stored, K \in SUBSET {k \in DOMAIN replays : replays[k].flow = "stored"} :
       PruneFlows(F, K)
  \/ Cancel

Spec == Init /\ [][Next]_vars

-----------------------------------------------------------------------------
(* The types of the variables; a step costs three replays at most. *)
TypeOK ==
  /\ stored \subseteq FlowIds
  /\ replays \in Seq(Replay) /\ Len(replays) <= 3 * Len(Workflow)
  /\ params \in [workflow : Workflows \cup {<<>>}, dry : BOOLEAN, refresh : FlowIds \cup {NoFlow}]
  /\ call \in [pc : {"idle", "next", "done", "error"} \cup Running,
               step : 0..(Len(Workflow) + 1), retried : BOOLEAN,
               outputs : SUBSET (Nat \X Nat), stepRuns : Seq(StepRun), ok : BOOLEAN]
  /\ row \in [state : {"free", "stored"}, ok : BOOLEAN, stepRuns : Seq(StepRun)]
  /\ serving \in BOOLEAN

Included == {n \in DOMAIN Workflow : Workflow[n].included}

(* The entries of a list of step runs that are about a step, and those of  *)
(* them with which the step passed.                                        *)
Attempts(stepRuns) == {i \in DOMAIN stepRuns : stepRuns[i].step # Refresh}

Passed(stepRuns) == {i \in Attempts(stepRuns) : stepRuns[i].ok}

(* A workflow_runs row tells how far the run came: a step that passed did  *)
(* so by a replay of it that was ok; a step is attempted when all included *)
(* steps before it have passed, and none after it has; an attempt that     *)
(* failed is the end of the list, or followed by a refresh, and that, when *)
(* it is ok, by an attempt at the same step; and the run is ok only if all *)
(* included steps passed.                                                  *)
RowTellsHowFar ==
  row.state = "stored" =>
    LET runs == row.stepRuns IN
    /\ \A i \in Passed(runs) : /\ replays[runs[i].replay].ok
                              /\ replays[runs[i].replay].step = runs[i].step
    /\ \A i \in Attempts(runs) :
         /\ runs[i].step \in Included
         /\ \A n \in Included : n < runs[i].step =>
              \E j \in Passed(runs) : j < i /\ runs[j].step = n
         /\ \A j \in Passed(runs) : j < i => runs[j].step < runs[i].step
         /\ runs[i].ok \/ i = Len(runs) \/ runs[i + 1].step = Refresh
    /\ \A i \in DOMAIN runs \ Attempts(runs) :
         /\ i - 1 \in Attempts(runs) \ Passed(runs)
         /\ i = Len(runs) \/ (runs[i].ok /\ runs[i + 1].step = runs[i - 1].step)
    /\ row.ok => \A n \in Included : \E i \in Passed(runs) : runs[i].step = n

(* Every replay_runs row that the run caused is named in the workflow_runs *)
(* row, once and in the order of the replays, failed attempts and          *)
(* refreshes too.                                                          *)
EveryReplayIsNamed ==
  row.state = "stored" =>
    LET runs == row.stepRuns
        naming == {i \in DOMAIN runs : runs[i].replay # NoReplay}
    IN  /\ {runs[i].replay : i \in naming} = {k \in DOMAIN replays : replays[k].row # "none"}
        /\ \A i \in naming, j \in naming : i < j => runs[i].replay < runs[j].replay

(* The steps that a step is bound to and that come before it, run and      *)
(* extract; of any other the placeholder is sent.                          *)
Givers(n) == {p \in Workflow[n].binds : /\ p \in 1..(n - 1)
                                       /\ Workflow[p].included /\ Workflow[p].extract}

(* A step is sent with an output of each step before it that it is bound   *)
(* to and that extracts, and of no other, each taken from the response     *)
(* that made its step pass: the last replay of that step, after a refresh  *)
(* too, and an ok one.                                                     *)
BoundToAcceptedResponses ==
  \A k \in DOMAIN replays : replays[k].step # Refresh =>
    /\ {b[1] : b \in replays[k].from} = Givers(replays[k].step)
    /\ \A b \in replays[k].from :
         /\ b[2] < k
         /\ replays[b[2]].step = b[1] /\ replays[b[2]].ok
         /\ \A j \in DOMAIN replays : replays[j].step = b[1] => j <= b[2]

(* The request of a step is sent a second time only if the target refused  *)
(* the first one for its authentication and a refresh has succeeded since, *)
(* and never a third time.                                                 *)
ResendOnlyAfterRefresh ==
  [][\A k \in DOMAIN replays' \ DOMAIN replays :
       LET before == {j \in DOMAIN replays : replays[j].step = replays'[k].step} IN
       before # {} /\ replays'[k].step # Refresh =>
         /\ before = {k - 2}
         /\ AuthFailure(replays[k - 2].status)
         /\ replays[k - 1].step = Refresh /\ replays[k - 1].ok]_vars

=============================================================================
