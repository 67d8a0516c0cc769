---------------------------- MODULE FlowAnalysis ----------------------------
(***************************************************************************)
(* flows.query, auth.trace and workflows.suggest: one connection reads     *)
(* flows, a statement at a time, and makes a page, an auth chain or a      *)
(* workflow of them; others insert, tag and prune flows meanwhile.         *)
(* AuthTrace and WorkflowCompiler say what is made of what was read, and   *)
(* ExportedClient what becomes of a workflow that is exported.             *)
(***************************************************************************)
EXTENDS FlowInspector, ExportedClient

CONSTANT Rows  \* what a flow may hold

ASSUME RowsAssumption ==
  /\ NoFlow \notin Rows /\ NoSource \notin FlowIds
  /\ \A r \in Rows : r.at \in 0..MaxTime /\ r.host \in Hosts

VARIABLES
  call,    \* the local variables of the call that goes on
  result,  \* what it returned
  moved    \* did the rows change during the call?  (for the bound below)

vars == <<tableVars, call, result, moved>>

AnyQuery == [host |-> AnyHost, tag |-> AnyTag]

NoCall == [op |-> "none", pc |-> "idle", query |-> AnyQuery, total |-> 0,
           ids |-> << >>, got |-> << >>, chain |-> EmptyChain,
           draft |-> EmptyDraft]

Ops == {"query", "trace", "suggest", "traceQuery"}

(* The sequences of ids a caller may name: distinct and not too many. *)
Named == {s \in UNION {[1..n -> FlowIds] : n \in 1..Cardinality(FlowIds)} :
            \A i, j \in DOMAIN s : s[i] = s[j] => i = j}

-----------------------------------------------------------------------------
(* The other connections. *)

(* Bound: one change during a call, and none after it has returned. *)
Change ==
  /\ result = [op |-> "none"]
  /\ call # NoCall => ~moved
  /\ moved' = (call # NoCall)
  /\ UNCHANGED <<call, result>>

(* A capture or an import stores a flow. *)
Insert(f, row) ==
  /\ InsertRow(f, row)
  /\ Change

(* tags.add: jsonrpc/server.go:955-963. *)
AddTag(f, t) ==
  /\ f \in Stored
  /\ TagRow(f, {t})
  /\ Change

(* tags.remove: jsonrpc/server.go:964-972. *)
RemoveTag(f, t) ==
  /\ <<f, t>> \in flowTags
  /\ UntagRow(f, t)
  /\ Change

(* maintenance.prune_flows: jsonrpc/server.go:1055-1075. *)
PruneFlowsBefore(t) ==
  /\ Prunable(t) # {}
  /\ DeleteRows(Prunable(t))
  /\ Change

-----------------------------------------------------------------------------
(* The calls. *)

Begin(c) ==
  /\ result = [op |-> "none"] /\ call = NoCall
  /\ call' = c
  /\ UNCHANGED <<tableVars, result, moved>>

Return(r) ==
  /\ result' = r
  /\ call' = NoCall
  /\ moved' = FALSE
  /\ UNCHANGED tableVars

(* flows.query, jsonrpc/server.go:419-430. *)
QueryFlows(q) == Begin([NoCall EXCEPT !.op = "query", !.pc = "count", !.query = q])

(* auth.trace, jsonrpc/server.go:824-837, and Suggest: with flow ids, ...  *)
NameFlows(op, s) == Begin([NoCall EXCEPT !.op = op, !.pc = "get", !.ids = s])

(* ... or auth.trace with a host, loadFlows at lines 135-141 of            *)
(* analyzer.go: the oldest first.                                          *)
TraceHost(h) ==
  Begin([NoCall EXCEPT !.op = "traceQuery", !.pc = "count", !.query = [AnyQuery EXCEPT !.host = h]])

(* The first statement of QueryFlows. *)
CountFlows ==
  /\ call.pc = "count"
  /\ call' = [call EXCEPT !.total = Counted(call.query), !.pc = "page"]
  /\ UNCHANGED <<tableVars, result, moved>>

(* The second. *)
PageFlows ==
  /\ call.pc = "page"
  /\ \E page \in Pages(call.query, call.op = "traceQuery") :
       call' = [call EXCEPT !.ids = page, !.pc = "tags"]
  /\ UNCHANGED <<tableVars, result, moved>>

(* The rest, which leads back to the caller.  Trace reads no tags.         *)
AttachTags ==
  /\ call.pc = "tags" /\ call.op = "query"
  /\ Return([op |-> "query", total |-> call.total, page |-> call.ids,
             tags |-> TagsOfPage(call.ids)])

FlowsListed ==
  /\ call.pc = "tags" /\ call.op = "traceQuery"
  /\ call' = [call EXCEPT !.pc = "get"]
  /\ UNCHANGED <<tableVars, result, moved>>

(* Mutant of GetFlow: that there is no row is not noticed. *)
GetAnyFlow ==
  /\ call.pc = "get" /\ Len(call.got) < Len(call.ids)
  /\ LET f == call.ids[Len(call.got) + 1] IN
       call' = [call EXCEPT !.got = Append(@, [id |-> f, row |-> flows[f]])]
  /\ UNCHANGED <<tableVars, result, moved>>

(* GetFlow, store.go:512-549, for the next id. *)
GetFlow ==
  /\ call.pc = "get" /\ Len(call.got) < Len(call.ids)
  /\ LET f == call.ids[Len(call.got) + 1] IN
       IF f \in Stored
       THEN /\ call' = [call EXCEPT !.got = Append(@, [id |-> f, row |-> flows[f]])]
            /\ UNCHANGED <<tableVars, result, moved>>
       ELSE Return([op |-> "failed", what |-> "flow not found"])

HaveAll == call.pc = "get" /\ Len(call.got) = Len(call.ids)

(* Lines 47-49 of analyzer.go. *)
NothingMatched ==
  /\ HaveAll /\ call.ids = << >>
  /\ Return([op |-> "failed", what |-> "no flows matched auth trace"])

(* Mutant of TraceOrder: flows are traced in the order they were named. *)
AsNamed(c) == c.got

(* Line 132, and lines 145-153: a query's order is kept. *)
TraceOrder(c) == IF c.op = "trace" THEN InTime(c.got) ELSE c.got

Traces == {"trace", "traceQuery"}

(* The loop of Trace, lines 66-107, for the next flow. *)
TraceNext ==
  LET n == Len(call.chain.flowIds) + 1 IN
  /\ HaveAll /\ call.op \in Traces /\ n <= Len(call.got)
  /\ \E c \in TraceFlow(call.chain, TraceOrder(call)[n]) : call' = [call EXCEPT !.chain = c]
  /\ UNCHANGED <<tableVars, result, moved>>

ReturnChain ==
  /\ HaveAll /\ call.ids # << >> /\ call.op \in Traces
  /\ Len(call.chain.flowIds) = Len(call.got)
  /\ Return([op |-> call.op, flows |-> TraceOrder(call), chain |-> call.chain])

(* The loop of inferCrossStepBindings, modeler.go:148-221, for the next flow. *)
BindNext ==
  LET n == Len(call.draft.steps) + 1 IN
  /\ HaveAll /\ call.op = "suggest" /\ n <= Len(call.got)
  /\ \E d \in BindFlow(call.draft, call.got[n]) : call' = [call EXCEPT !.draft = d]
  /\ UNCHANGED <<tableVars, result, moved>>

ReturnWorkflow ==
  /\ HaveAll /\ call.ids # << >> /\ call.op = "suggest"
  /\ Len(call.draft.steps) = Len(call.got)
  /\ Return([op |-> "suggest", flows |-> call.got, steps |-> call.draft.steps])

-----------------------------------------------------------------------------

Init ==
  /\ TableInit
  /\ call = NoCall
  /\ result = [op |-> "none"]
  /\ moved = FALSE

Next ==
  \/ \E f \in FlowIds : \/ \E row \in Rows : Insert(f, row)
                        \/ \E t \in Tags : AddTag(f, t) \/ RemoveTag(f, t)
  \/ \E t \in 0..MaxTime : PruneFlowsBefore(t)
  \/ \E q \in Query : QueryFlows(q)
  \/ \E s \in Named : NameFlows("trace", s) \/ NameFlows("suggest", s)
  \/ \E h \in Hosts : TraceHost(h)
  \/ CountFlows \/ PageFlows \/ AttachTags \/ FlowsListed
  \/ GetFlow \/ NothingMatched \/ TraceNext \/ ReturnChain
  \/ BindNext \/ ReturnWorkflow

Spec == Init /\ [][Next]_vars

-----------------------------------------------------------------------------
(* The types of the variables. *)
TypeOK ==
  /\ flows \in [FlowIds -> Rows \cup {NoFlow}]
  /\ flowTags \subseteq FlowIds \X Tags
  /\ call.op \in {"none"} \cup Ops /\ call.pc \in {"idle", "count", "page", "tags", "get"}
  /\ call.query \in Query /\ call.total \in 0..Cardinality(FlowIds)
  /\ Len(call.ids) <= Cardinality(FlowIds) /\ Len(call.got) <= Len(call.ids)
  /\ Len(call.chain.flowIds) <= Len(call.got) /\ Len(call.draft.steps) <= Len(call.got)
  /\ \A i \in DOMAIN call.got : call.got[i].id \in FlowIds /\ call.got[i].row \in Rows
  /\ result.op \in {"none", "failed"} \cup Ops
  /\ moved \in BOOLEAN

(* docs/backend.md:156: a link of a chain leads from a source to a later   *)
(* use.  Flows that a query listed are in the order of their texts: there, *)
(* the source may be the later one if both are of the same second.         *)
LinksLeadForward ==
  result.op \in Traces =>
    LinksAreForward(result.flows, result.chain,
                    LAMBDA a, b : IF result.op = "trace" THEN a < b ELSE Second(a) < Second(b))

(* Each use of a csrf value that an earlier flow issued has its link, but  *)
(* for the one that the response to this very request may hide.            *)
CsrfUsesAreLinked ==
  result.op \in Traces => UsesAreLinked(result.flows, result.chain)

(* A suggested workflow, run with its default inputs, sends what the       *)
(* server has issued to that run.                                          *)
SuggestionSendsFresh == result.op = "suggest" => RunSendsFresh(result.flows, result.steps)

(* ... and in the fields that became inputs what was captured.             *)
SuggestionSendsDefaults == result.op = "suggest" => RunSendsDefaults(result.flows, result.steps)

(* ... and the TypeScript program that is exported from it sends the same. *)
ExportFollowsTheRun == result.op = "suggest" => SendsWhatARunSends(result.flows, result.steps)

=============================================================================
