---------------------------- MODULE ReplayEngine ----------------------------
(***************************************************************************)
(* internal/replay: Engine.Run and Engine.RunVariations, with the store    *)
(* calls they make and the maintenance.prune_flows calls that interleave   *)
(* with them.  Each connection of the JSON-RPC server, each workflow run   *)
(* and the cookie-warming goroutine may be inside Run at the same time;    *)
(* one SQLite connection makes each store call one atomic statement.       *)
(*                                                                         *)
(* One step of a call is what it does between two shared accesses: read    *)
(* the original flow, prepare, execute the request (the network), record   *)
(* the response as a flow, tag it, and insert the run row.                 *)
(***************************************************************************)
EXTENDS Naturals, Sequences

CONSTANTS FlowIds,     \* ids of flows, captured or replayed (id.New: never reused)
          Captured,    \* the flows stored before the first call
          Calls,       \* invocations of Engine.Run; each makes a run id of its own
          Statuses,    \* HTTP statuses a target may answer
          Profiles,    \* replay profiles the callers ask for
          MaxRetries,  \* bound: largest retries parameter
          MaxRestarts, \* bound: crashes of the daemon
          Prev,        \* the variation that RunVariations runs before this call
          IOFaults,    \* may a blob write or a store statement fail by itself?
          NoFlow, NoCall

ASSUME CapturedAssumption == Captured \subseteq FlowIds
ASSUME StatusAssumption == Statuses \subseteq Nat \ {0}
ASSUME ProfileAssumption == Profiles \subseteq {"standard", "utls", "passthrough"}
(* adapters.go:233: the status the passthrough adapter makes up. *)
ASSUME PassthroughAssumption == "passthrough" \in Profiles => 204 \in Statuses
ASSUME BoundAssumption == MaxRetries \in Nat /\ MaxRestarts \in Nat /\ IOFaults \in BOOLEAN
ASSUME PrevAssumption == Prev \in [Calls -> Calls \cup {NoCall}]
ASSUME NullAssumption == NoFlow \notin FlowIds /\ NoCall \notin Calls

VARIABLES
  flows,     \* the flows table (with the replay_of tag of each row)
  runs,      \* the replay_runs table
  pc,        \* where each call is
  local,     \* the local variables of each call
  serving,   \* FALSE once the daemon's context is cancelled
  restarts,  \* crashes so far
  answers    \* history: what Execute returned to each call, 0 for an error

vars == <<flows, runs, pc, local, serving, restarts, answers>>

-----------------------------------------------------------------------------
(* The rows of the store. *)

RowState == {"free", "stored", "deleted"}

FlowRow == [state : RowState, status : Nat, by : Calls \cup {NoCall},
            attempt : Nat, of : FlowIds \cup {NoFlow}]

RunRow == [state : RowState, flow : FlowIds \cup {NoFlow},
           replay : FlowIds \cup {NoFlow}, ok : BOOLEAN, status : Nat,
           failed : BOOLEAN, attempts : Nat]

NoRun == [state |-> "free", flow |-> NoFlow, replay |-> NoFlow, ok |-> FALSE,
          status |-> 0, failed |-> FALSE, attempts |-> 0]

Stored(f) == f \in FlowIds /\ flows[f].state = "stored"

(* replay.go:165, the status class that makes a run ok. *)
Succeeded(s) == s >= 200 /\ s < 400

(* Mutant of Final: client errors are retried too. *)
RetryClientErrors(s) == s < 400

(* replay.go:157, an answer that ends the loop. *)
Final(s) == s < 500

-----------------------------------------------------------------------------
(* The control of a call. *)

Running == {"prepare", "execute", "record", "tag", "insert"}
Ended   == {"recorded", "error", "lost"}

NoLocal == [flow |-> NoFlow, dry |-> FALSE, profile |-> "standard",
            attempts |-> 0, attempt |-> 0, status |-> 0,
            replay |-> NoFlow, err |-> FALSE]

Local == [flow : FlowIds \cup {NoFlow}, dry : BOOLEAN,
          profile : {"standard", "utls", "passthrough"},
          attempts : Nat, attempt : Nat, status : Nat,
          replay : FlowIds \cup {NoFlow}, err : BOOLEAN]

Goto(c, l) == pc' = [pc EXCEPT ![c] = l]

(* Mutant of NextAttempt: one attempt too many. *)
OneMoreAttempt(c) == IF local[c].attempt <= local[c].attempts THEN "execute" ELSE "insert"

(* The for loop's increment and test. *)
NextAttempt(c) == IF local[c].attempt < local[c].attempts THEN "execute" ELSE "insert"

(* RunVariations runs its variations one after the other and stops at the  *)
(* first error; all of them replay the same flow with the same retries and *)
(* none is a dry run.                                                      *)
InVariations(c) == Prev[c] # NoCall \/ \E d \in Calls : Prev[d] = c

VariationTurn(c, f, dry, retries) ==
  /\ InVariations(c) => ~dry
  /\ Prev[c] # NoCall =>
       /\ pc[Prev[c]] = "recorded"
       /\ local[Prev[c]].flow = f
       /\ local[Prev[c]].attempts = retries + 1

TableVars == <<flows, runs>>
DaemonVars == <<serving, restarts>>

-----------------------------------------------------------------------------
(* Run, lines 110-116: the original flow is read once; an id that is not   *)
(* stored any more is an error.  The rest of Run uses this snapshot.       *)
Begin(c, f, dry, profile, retries) ==
  /\ serving
  /\ flows[f].state # "free"
  /\ pc[c] = "idle"
  /\ VariationTurn(c, f, dry, retries)
  /\ local' = [local EXCEPT ![c] = [NoLocal EXCEPT !.flow = f, !.dry = dry,
                                       !.profile = profile,
                                       !.attempts = retries + 1]]
  /\ Goto(c, IF Stored(f) THEN "prepare" ELSE "error")
  /\ UNCHANGED <<TableVars, DaemonVars, answers>>

(* Run, lines 117-143, and prepare: headers, blob or URL may be unreadable *)
(* and the profile unknown; a dry run goes straight to its row.            *)
Prepare(c) ==
  /\ pc[c] = "prepare"
  /\ \/ Goto(c, IF local[c].dry THEN "insert" ELSE "execute")
     \/ Goto(c, "error")
  /\ UNCHANGED <<TableVars, DaemonVars, local, answers>>

(* What the adapter of a profile may return: the passthrough adapter sends *)
(* nothing, looks at no context, and always returns a 204; the others need *)
(* a daemon that is not stopping, and return what the target answers.      *)
MayReturn(profile, s) == IF profile = "passthrough" THEN s = 204 ELSE serving

(* Lines 145-151: the adapter answers, or fails (network error, timeout,   *)
(* cancelled context), which the passthrough adapter never does.           *)
Answer(c, s) ==
  /\ pc[c] = "execute"
  /\ MayReturn(local[c].profile, s)
  /\ local' = [local EXCEPT ![c].attempt = @ + 1, ![c].status = s]
  /\ answers' = [answers EXCEPT ![c] = Append(@, s)]
  /\ Goto(c, "record")
  /\ UNCHANGED <<TableVars, DaemonVars>>

ExecuteFails(c) ==
  /\ pc[c] = "execute"
  /\ local[c].profile # "passthrough"
  /\ local' = [local EXCEPT ![c].attempt = @ + 1, ![c].err = TRUE]
  /\ answers' = [answers EXCEPT ![c] = Append(@, 0)]
  /\ Goto(c, IF local[c].attempt + 1 < local[c].attempts THEN "execute" ELSE "insert")
  /\ UNCHANGED <<TableVars, DaemonVars>>

(* recordReplayFlow, lines 263-304: the session and both bodies are put    *)
(* before the flow row is inserted, under a fresh id.                      *)
RecordReplayFlow(c, f) ==
  /\ serving
  /\ pc[c] = "record"
  /\ flows[f].state = "free"
  /\ flows' = [flows EXCEPT ![f] = [state |-> "stored", status |-> local[c].status,
                                    by |-> c, attempt |-> local[c].attempt,
                                    of |-> NoFlow]]
  /\ local' = [local EXCEPT ![c].replay = f]
  /\ Goto(c, "tag")
  /\ UNCHANGED <<runs, DaemonVars, answers>>

(* Mutant of RecordFails: the flow id of an earlier attempt is kept. *)
KeepEarlierFlow(c) ==
  /\ IOFaults \/ ~serving
  /\ pc[c] = "record"
  /\ local' = [local EXCEPT ![c].err = TRUE]
  /\ Goto(c, NextAttempt(c))
  /\ UNCHANGED <<TableVars, DaemonVars, answers>>

(* Any of those steps may fail: the flow id returned is empty, and Run     *)
(* keeps it (lines 152-156).                                               *)
RecordFails(c) ==
  /\ IOFaults \/ ~serving
  /\ pc[c] = "record"
  /\ local' = [local EXCEPT ![c].replay = NoFlow, ![c].err = TRUE]
  /\ Goto(c, NextAttempt(c))
  /\ UNCHANGED <<TableVars, DaemonVars, answers>>

(* Lines 305-314 and 157-159: the tags are written one by one and their    *)
(* errors ignored (the row may have been pruned); then the loop goes on    *)
(* after a server error and stops after any other answer.                  *)
TagReplayFlow(c) ==
  /\ pc[c] = "tag"
  /\ LET f == local[c].replay IN
       \/ /\ serving /\ Stored(f)
          /\ flows' = [flows EXCEPT ![f].of = local[c].flow]
       \/ /\ IOFaults \/ ~serving \/ ~Stored(f)
          /\ UNCHANGED flows
  /\ Goto(c, IF Final(local[c].status) THEN "insert" ELSE NextAttempt(c))
  /\ UNCHANGED <<runs, DaemonVars, local, answers>>

(* Mutant of RowOf: the attempts allowed instead of the attempts used. *)
CountAllowedAttempts(c) ==
  LET l == local[c] IN
  [state |-> "stored", flow |-> l.flow, replay |-> l.replay,
   ok |-> l.dry \/ (l.replay # NoFlow /\ Succeeded(l.status)), status |-> l.status,
   failed |-> l.err /\ l.replay = NoFlow, attempts |-> l.attempts]

(* The row of lines 126 (dry run) and 161-172. *)
RowOf(c) ==
  LET l == local[c] IN
  [state    |-> "stored",
   flow     |-> l.flow,
   replay   |-> l.replay,
   ok       |-> l.dry \/ (l.replay # NoFlow /\ Succeeded(l.status)),
   status   |-> l.status,
   failed   |-> l.err /\ l.replay = NoFlow,
   attempts |-> l.attempt]

(* Mutant of KeysHold: replay_flow_id is not a foreign key. *)
OriginalKeyHolds(row) == Stored(row.flow)

(* Both foreign keys of replay_runs. *)
KeysHold(row) == Stored(row.flow) /\ (row.replay # NoFlow => Stored(row.replay))

(* InsertReplayRun, lines 127 and 173. *)
InsertReplayRun(c) ==
  /\ serving
  /\ pc[c] = "insert"
  /\ KeysHold(RowOf(c))
  /\ runs' = [runs EXCEPT ![c] = RowOf(c)]
  /\ Goto(c, "recorded")
  /\ UNCHANGED <<flows, DaemonVars, local, answers>>

(* Mutant of InsertFails: the insert is retried until it succeeds. *)
RetryInsert(c) ==
  /\ pc[c] = "insert"
  /\ IOFaults \/ ~serving \/ ~KeysHold(RowOf(c))
  /\ UNCHANGED vars

InsertFails(c) ==
  /\ pc[c] = "insert"
  /\ IOFaults \/ ~serving \/ ~KeysHold(RowOf(c))
  /\ Goto(c, "error")
  /\ UNCHANGED <<TableVars, DaemonVars, local, answers>>

-----------------------------------------------------------------------------
(* maintenance.prune_flows: DELETE FROM flows WHERE created_at < before.   *)
(* Creation times are those of the HAR entries for imported flows and are  *)
(* compared as text, so any set of stored flows may go.  replay_runs rows  *)
(* follow by ON DELETE CASCADE and SET NULL.                               *)
CascadedRun(row, S) ==
  IF row.state # "stored" THEN row
  ELSE IF row.flow \in S THEN [row EXCEPT !.state = "deleted"]
  ELSE [row EXCEPT !.replay = IF @ \in S THEN NoFlow ELSE @]

PruneFlowsBefore(S) ==
  /\ serving
  /\ S # {}
  /\ flows' = [f \in FlowIds |->
                 IF f \in S THEN [flows[f] EXCEPT !.state = "deleted"] ELSE flows[f]]
  /\ runs' = [c \in Calls |-> CascadedRun(runs[c], S)]
  /\ UNCHANGED <<pc, local, DaemonVars, answers>>

(* SIGTERM: the context every call runs under is cancelled. *)
Cancel ==
  /\ serving
  /\ restarts < MaxRestarts
  /\ serving' = FALSE
  /\ UNCHANGED <<TableVars, pc, local, restarts, answers>>

(* The process ends, after a Cancel or by a crash, and is started again:   *)
(* main does not wait for the goroutines, the tables persist.              *)
CrashAndRestart ==
  /\ restarts < MaxRestarts
  /\ serving' = TRUE
  /\ restarts' = restarts + 1
  /\ pc' = [c \in Calls |-> IF pc[c] \in Running THEN "lost" ELSE pc[c]]
  /\ local' = [c \in Calls |-> IF pc[c] \in Running THEN NoLocal ELSE local[c]]
  /\ answers' = [c \in Calls |-> IF pc[c] \in Running THEN <<>> ELSE answers[c]]
  /\ UNCHANGED TableVars

-----------------------------------------------------------------------------

Init ==
  /\ flows = [f \in FlowIds |->
                [state |-> IF f \in Captured THEN "stored" ELSE "free",
                 status |-> 0, by |-> NoCall, attempt |-> 0, of |-> NoFlow]]
  /\ runs = [c \in Calls |-> NoRun]
  /\ pc = [c \in Calls |-> "idle"]
  /\ local = [c \in Calls |-> NoLocal]
  /\ serving = TRUE
  /\ restarts = 0
  /\ answers = [c \in Calls |-> <<>>]

Execute(c) == (\E s \in Statuses : Answer(c, s)) \/ ExecuteFails(c)

Record(c) == (\E f \in FlowIds : RecordReplayFlow(c, f)) \/ RecordFails(c)

Insert(c) == InsertReplayRun(c) \/ InsertFails(c)

Next ==
  \/ \E c \in Calls :
       \/ \E f \in FlowIds, dry \in BOOLEAN, p \in Profiles, n \in 0..MaxRetries :
            Begin(c, f, dry, p, n)
       \/ Prepare(c)
       \/ Execute(c)
       \/ Record(c)
       \/ TagReplayFlow(c)
       \/ Insert(c)
  \/ \E S \in SUBSET {f \in FlowIds : Stored(f)} : PruneFlowsBefore(S)
  \/ Cancel
  \/ CrashAndRestart

(* A goroutine inside Run keeps being scheduled, and every store call      *)
(* returns.  Of the adapters that send the request only the standard one's *)
(* client has a timeout, and no other adapter is counted on.               *)
Fairness ==
  \A c \in Calls :
    /\ WF_vars(Prepare(c))
    /\ WF_vars(Execute(c) /\ local[c].profile = "standard")
    /\ WF_vars(Record(c))
    /\ WF_vars(TagReplayFlow(c))
    /\ WF_vars(Insert(c))

Spec == Init /\ [][Next]_vars /\ Fairness

-----------------------------------------------------------------------------
(* The types of the variables; a call never makes more attempts than       *)
(* retries + 1, and each attempt left one answer.                          *)
TypeOK ==
  /\ flows \in [FlowIds -> FlowRow]
  /\ runs \in [Calls -> RunRow]
  /\ pc \in [Calls -> {"idle"} \cup Running \cup Ended]
  /\ local \in [Calls -> Local]
  /\ serving \in BOOLEAN
  /\ restarts \in 0..MaxRestarts
  /\ answers \in [Calls -> Seq(Statuses \cup {0})]
  /\ \A c \in Calls : /\ local[c].attempt <= local[c].attempts
                      /\ Len(answers[c]) = local[c].attempt

(* The last response a call received, its status and its attempt; 0 before *)
(* the first.                                                              *)
LastAnswered(c) ==
  LET answered == {i \in 1..Len(answers[c]) : answers[c][i] # 0}
  IN  IF answered = {} THEN 0
      ELSE CHOOSE i \in answered : \A j \in answered : j <= i

LastStatus(c) == IF LastAnswered(c) = 0 THEN 0 ELSE answers[c][LastAnswered(c)]

(* A run row reports what the network did: one attempt per Execute, and    *)
(* the status of the last response, whatever was retried, whatever failed  *)
(* to be recorded in between, and whatever was pruned since.               *)
RowTellsTheAnswers ==
  \A c \in Calls : runs[c].state = "stored" =>
    /\ runs[c].attempts = Len(answers[c])
    /\ runs[c].status = LastStatus(c)

(* A row never claims a success that was not kept: an ok row of a real run *)
(* means that the last response was a 2xx or 3xx and that exactly that     *)
(* response was stored as a flow of this call (it may be pruned later).    *)
OkRunWasRecorded ==
  \A c \in Calls : runs[c].state = "stored" /\ runs[c].ok /\ answers[c] # <<>> =>
    \E f \in FlowIds : /\ flows[f].by = c
                       /\ flows[f].attempt = LastAnswered(c)
                       /\ flows[f].status = LastStatus(c)
                       /\ LastStatus(c) \in 200..399

(* No response that ended the loop is left out: while a run row and a flow *)
(* this call stored for an answer below 500 both exist, the row points to  *)
(* that flow; only flows of server errors that were retried are orphans.   *)
NoFinalAnswerLeftOut ==
  \A c \in Calls, f \in FlowIds :
    runs[c].state = "stored" /\ Stored(f) /\ flows[f].by = c /\ flows[f].status < 500
      => runs[c].replay = f

(* Whatever the goroutines do, the two tables change as ReplayLedger says. *)
Table == [f \in FlowIds |-> [state |-> flows[f].state, status |-> flows[f].status,
                             by |-> flows[f].by]]

Ledger == INSTANCE ReplayLedger WITH table <- Table

ImplementsLedger == Ledger!Spec

(* A replay through the standard adapter ends: with a row, with an error,  *)
(* or with the process.                                                    *)
StandardReplayEnds ==
  \A c \in Calls :
    pc[c] \in Running /\ local[c].profile = "standard" ~> pc[c] \in Ended

=============================================================================
