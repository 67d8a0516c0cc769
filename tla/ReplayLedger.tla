---------------------------- MODULE ReplayLedger ----------------------------
(***************************************************************************)
(* What a reader of the store may rely on: the flows table and the         *)
(* replay_runs table as replay.run, replay.variations and                  *)
(* maintenance.prune_flows may change them, without the goroutines that    *)
(* do it.  ReplayEngine implements this specification.                     *)
(*                                                                         *)
(* A replay flow is stored for one call, before the call's run row; a call *)
(* adds at most one row, ever; and a row tells the truth about the flow it *)
(* points to.                                                              *)
(***************************************************************************)
EXTENDS Naturals

CONSTANTS FlowIds,    \* the ids of flows, captured or replayed
          Calls,      \* invocations of Engine.Run; each has a run id of its own
          Statuses,   \* HTTP statuses a target may answer
          NoFlow,     \* the empty flow id (NULL in replay_runs.replay_flow_id)
          NoCall      \* the flow was captured or imported, not replayed

VARIABLES table,      \* flow id -> its flows row: [state, status, by]
          runs        \* call -> its replay_runs row

ledgerVars == <<table, runs>>

RowState == {"free", "stored", "deleted"}

TableRow == [state : RowState, status : Nat, by : Calls \cup {NoCall}]

RunRow == [state : RowState, flow : FlowIds \cup {NoFlow},
           replay : FlowIds \cup {NoFlow}, ok : BOOLEAN, status : Nat,
           failed : BOOLEAN, attempts : Nat]

NoRun == [state |-> "free", flow |-> NoFlow, replay |-> NoFlow, ok |-> FALSE,
          status |-> 0, failed |-> FALSE, attempts |-> 0]

Stored(f) == f \in FlowIds /\ table[f].state = "stored"

Succeeded(s) == s >= 200 /\ s < 400

Init ==
  /\ table \in [FlowIds -> {r \in TableRow : r.by = NoCall /\ r.state # "deleted"}]
  /\ runs = [c \in Calls |-> NoRun]

(* A response is stored as a flow of its own, while its call has no row. *)
AddReplayFlow(c, f, s) ==
  /\ table[f].state = "free"
  /\ runs[c].state = "free"
  /\ table' = [table EXCEPT ![f] = [state |-> "stored", status |-> s, by |-> c]]
  /\ UNCHANGED runs

(* A row is coherent for c when its original is stored; the replay flow it  *)
(* names is a stored flow of this very call, with the status the row claims;*)
(* success is claimed only for a dry run or for such a flow with a 2xx or   *)
(* 3xx status; and an error message only when no flow is named.             *)
Coherent(c, row) ==
  /\ Stored(row.flow)
  /\ row.replay # NoFlow => /\ Stored(row.replay)
                            /\ table[row.replay].by = c
                            /\ table[row.replay].status = row.status
  /\ row.ok => \/ row.attempts = 0
               \/ row.replay # NoFlow /\ Succeeded(row.status)
  /\ row.failed => row.replay = NoFlow /\ ~row.ok

AddRun(c) ==
  /\ runs[c].state = "free"
  /\ runs'[c] \in RunRow
  /\ runs'[c].state = "stored"
  /\ Coherent(c, runs'[c])
  /\ runs' = [runs EXCEPT ![c] = runs'[c]]
  /\ UNCHANGED table

(* DELETE FROM flows: rows whose original is deleted go with it (ON DELETE  *)
(* CASCADE), rows that point to a deleted replay forget it (SET NULL).      *)
Prune(S) ==
  /\ table' = [f \in FlowIds |->
                 IF f \in S THEN [table[f] EXCEPT !.state = "deleted"] ELSE table[f]]
  /\ runs' = [c \in Calls |->
                CASE runs[c].state # "stored" -> runs[c]
                  [] runs[c].state = "stored" /\ runs[c].flow \in S ->
                       [runs[c] EXCEPT !.state = "deleted"]
                  [] OTHER ->
                       [runs[c] EXCEPT !.replay = IF @ \in S THEN NoFlow ELSE @]]

Next ==
  \/ \E c \in Calls, f \in FlowIds, s \in Statuses : AddReplayFlow(c, f, s)
  \/ \E c \in Calls : AddRun(c)
  \/ \E S \in SUBSET {f \in FlowIds : Stored(f)} : Prune(S)

Spec == Init /\ [][Next]_ledgerVars

-----------------------------------------------------------------------------

LedgerTypeOK ==
  /\ table \in [FlowIds -> TableRow]
  /\ runs \in [Calls -> RunRow]

(* Every stored run row keeps its foreign keys, and what it says about its *)
(* replay flow stays true for as long as both rows exist.                  *)
LedgerCoherent ==
  \A c \in Calls : runs[c].state = "stored" =>
    /\ Stored(runs[c].flow)
    /\ runs[c].replay # NoFlow => /\ Stored(runs[c].replay)
                                  /\ table[runs[c].replay].by = c
                                  /\ table[runs[c].replay].status = runs[c].status
    /\ runs[c].ok => runs[c].attempts = 0 \/ Succeeded(runs[c].status)
    /\ runs[c].failed => runs[c].replay = NoFlow /\ ~runs[c].ok

=============================================================================
