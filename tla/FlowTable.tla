----------------------------- MODULE FlowTable -----------------------------
(***************************************************************************)
(* internal/store: the flows and flow_tags tables.  The store opens SQLite *)
(* with one connection, so that a statement is one step, and with foreign  *)
(* keys on (store.go:223-244).  What a row holds is the user's to say: the *)
(* proxy and the analyses each tell other columns apart.                   *)
(***************************************************************************)

CONSTANTS FlowIds,  \* ids that id.New may yield; bound: the flows ever stored
          Tags,     \* normalized tags
          NoFlow    \* the absence of a row

VARIABLES
  flows,    \* id -> its row
  flowTags  \* pairs of a flow and a tag

tableVars == <<flows, flowTags>>

Stored == {f \in FlowIds : flows[f] # NoFlow}

TagsOf(f) == {t \in Tags : <<f, t>> \in flowTags}

TableInit ==
  /\ flows = [f \in FlowIds |-> NoFlow]
  /\ flowTags = {}

(* InsertFlow, store.go:488-510, under an id that is not in use. *)
InsertRow(f, row) ==
  /\ flows[f] = NoFlow
  /\ flows' = [flows EXCEPT ![f] = row]
  /\ UNCHANGED flowTags

(* TagFlow, inspector.go:152-166, for each tag of T: the foreign key       *)
(* refuses the tags of a flow that is gone, and a tag that is there stays. *)
TagRow(f, T) ==
  /\ flowTags' = flowTags \cup {<<f, t>> : t \in IF f \in Stored THEN T ELSE {}}
  /\ UNCHANGED flows

(* UntagFlow, lines 168-177. *)
UntagRow(f, t) ==
  /\ flowTags' = flowTags \ {<<f, t>>}
  /\ UNCHANGED flows

(* The DELETE of PruneFlowsBefore, store.go:1233: the tags go with it.     *)
DeleteRows(F) ==
  /\ flows' = [f \in FlowIds |-> IF f \in F THEN NoFlow ELSE flows[f]]
  /\ flowTags' = {p \in flowTags : p[1] \notin F}

=============================================================================
