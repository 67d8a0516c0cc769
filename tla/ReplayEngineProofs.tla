------------------------- MODULE ReplayEngineProofs -------------------------
(***************************************************************************)
(* Proofs about ReplayEngine, for every set of flows and calls, every      *)
(* number of retries and restarts, and every order of variations.          *)
(***************************************************************************)
EXTENDS ReplayEngine, TLAPS

USE DEF RowState, Running, Ended

-----------------------------------------------------------------------------
(* Type correctness.                                                       *)
(*                                                                         *)
(* TypeOK is not inductive by itself: a call that has not begun has made   *)
(* no attempt, and where the body of the loop starts one is left.          *)
AttemptLeft ==
  \A c \in Calls : /\ pc[c] = "idle" => local[c] = NoLocal
                   /\ pc[c] \in {"prepare", "execute"} =>
                        local[c].attempt < local[c].attempts

TypeInv == TypeOK /\ AttemptLeft

(* A step of one call keeps TypeInv when what it assigns has the right type *)
(* and it counts its attempts.                                              *)
LEMMA CallStepType ==
  ASSUME TypeInv, NEW c \in Calls, NEW m \in Local,
         NEW l \in Running \cup Ended,
         local' = [local EXCEPT ![c] = m],
         pc' = [pc EXCEPT ![c] = l],
         flows' \in [FlowIds -> FlowRow],
         runs' \in [Calls -> RunRow],
         answers' \in [Calls -> Seq(Statuses \cup {0})],
         \A d \in Calls \ {c} : answers'[d] = answers[d],
         Len(answers'[c]) = m.attempt,
         m.attempt <= m.attempts,
         l \in {"prepare", "execute"} => m.attempt < m.attempts,
         UNCHANGED <<serving, restarts>>
  PROVE  TypeInv'
<1>1. local' \in [Calls -> Local] /\ pc' \in [Calls -> {"idle"} \cup Running \cup Ended]
  BY DEF TypeInv, TypeOK
<1>2. \A d \in Calls : /\ local'[d].attempt <= local'[d].attempts
                       /\ Len(answers'[d]) = local'[d].attempt
                       /\ pc'[d] = "idle" => local'[d] = NoLocal
                       /\ pc'[d] \in {"prepare", "execute"} =>
                            local'[d].attempt < local'[d].attempts
  BY DEF TypeInv, TypeOK, AttemptLeft
<1>3. QED
  BY <1>1, <1>2 DEF TypeInv, TypeOK, AttemptLeft

LEMMA NoLocalType == NoLocal \in Local
  BY DEF NoLocal, Local

LEMMA InitType == Init => TypeInv
<1> SUFFICES ASSUME Init PROVE TypeInv
  OBVIOUS
<1>1. flows \in [FlowIds -> FlowRow]
  BY DEF Init, FlowRow
<1>2. runs \in [Calls -> RunRow]
  BY DEF Init, RunRow, NoRun
<1>3. local \in [Calls -> Local]
  BY NoLocalType DEF Init
<1>4. \A c \in Calls : local[c].attempt = 0 /\ local[c].attempts = 0 /\ Len(answers[c]) = 0
  BY DEF Init, NoLocal
<1>5. QED
  BY <1>1, <1>2, <1>3, <1>4, BoundAssumption DEF Init, TypeInv, TypeOK, AttemptLeft

LEMMA BeginType ==
  ASSUME TypeInv, NEW c \in Calls, NEW f \in FlowIds, NEW dry \in BOOLEAN,
         NEW p \in Profiles, NEW n \in 0..MaxRetries, Begin(c, f, dry, p, n)
  PROVE  TypeInv'
<1> DEFINE k == n + 1
           m == [NoLocal EXCEPT !.flow = f, !.dry = dry, !.profile = p, !.attempts = k]
           l == IF Stored(f) THEN "prepare" ELSE "error"
<1>1. k \in Nat /\ k > 0
  BY BoundAssumption
<1> HIDE DEF k
<1>2. m \in Local
  BY <1>1, NoLocalType, ProfileAssumption DEF Local
<1>3. m.attempt = 0 /\ m.attempts = k
  BY DEF NoLocal
<1>4. local' = [local EXCEPT ![c] = m] /\ pc' = [pc EXCEPT ![c] = l]
  BY DEF Begin, Goto, k
<1>5. Len(answers[c]) = 0
  BY DEF Begin, TypeInv, TypeOK, AttemptLeft, NoLocal
<1>6. UNCHANGED <<flows, runs, serving, restarts, answers>>
  BY DEF Begin, TableVars, DaemonVars
<1>7. l \in Running \cup Ended
  OBVIOUS
<1> HIDE DEF m, l
<1>8. m.attempt <= m.attempts /\ m.attempt < m.attempts /\ Len(answers'[c]) = m.attempt
  BY <1>1, <1>3, <1>5, <1>6
<1>9. /\ flows' \in [FlowIds -> FlowRow]
      /\ runs' \in [Calls -> RunRow]
      /\ answers' \in [Calls -> Seq(Statuses \cup {0})]
      /\ \A d \in Calls \ {c} : answers'[d] = answers[d]
      /\ UNCHANGED <<serving, restarts>>
  BY <1>6 DEF TypeInv, TypeOK
<1>10. QED
  BY <1>2, <1>4, <1>7, <1>8, <1>9, CallStepType

LEMMA PrepareType ==
  ASSUME TypeInv, NEW c \in Calls, Prepare(c)
  PROVE  TypeInv'
<1>1. PICK l \in {"insert", "execute", "error"} : pc' = [pc EXCEPT ![c] = l]
  BY DEF Prepare, Goto
<1>2. local[c] \in Local /\ local' = [local EXCEPT ![c] = local[c]]
  BY DEF Prepare, TypeInv, TypeOK
<1>3. /\ local[c].attempt <= local[c].attempts /\ local[c].attempt < local[c].attempts
      /\ Len(answers'[c]) = local[c].attempt
  BY DEF Prepare, TypeInv, TypeOK, AttemptLeft, Local
<1>4. UNCHANGED <<flows, runs, answers, serving, restarts>>
  BY DEF Prepare, TableVars, DaemonVars
<1>5. QED
  BY <1>1, <1>2, <1>3, <1>4, CallStepType DEF TypeInv, TypeOK

(* Both outcomes of Execute use up one attempt and append one answer. *)
LEMMA ExecuteType ==
  ASSUME TypeInv, NEW c \in Calls, Execute(c)
  PROVE  TypeInv'
<1> DEFINE k == local[c].attempt + 1
<1>1. /\ local[c] \in Local /\ k \in Nat /\ k <= local[c].attempts
      /\ Len(answers[c]) + 1 = k /\ answers[c] \in Seq(Statuses \cup {0})
  BY DEF Execute, Answer, ExecuteFails, TypeInv, TypeOK, AttemptLeft, Local
<1>2. ASSUME NEW a \in Statuses \cup {0}, answers' = [answers EXCEPT ![c] = Append(@, a)]
      PROVE  /\ answers' \in [Calls -> Seq(Statuses \cup {0})]
             /\ \A d \in Calls \ {c} : answers'[d] = answers[d]
             /\ Len(answers'[c]) = k
  BY <1>1, <1>2 DEF TypeInv, TypeOK
<1>3. ASSUME NEW s \in Statuses, Answer(c, s) PROVE TypeInv'
  <2> DEFINE m == [local[c] EXCEPT !.attempt = k, !.status = s]
  <2>1. local' = [local EXCEPT ![c] = m]
    BY <1>1, <1>3 DEF Answer, TypeInv, TypeOK
  <2> HIDE DEF k
  <2>2. m \in Local /\ m.attempt = k /\ m.attempts = local[c].attempts
    BY <1>1, StatusAssumption DEF Local
  <2>3. UNCHANGED <<flows, runs, serving, restarts>> /\ pc' = [pc EXCEPT ![c] = "record"]
    BY <1>3 DEF Answer, TableVars, DaemonVars, Goto
  <2>4. answers' = [answers EXCEPT ![c] = Append(@, s)]
    BY <1>3 DEF Answer
  <2> HIDE DEF m
  <2>5. QED
    BY <1>1, <1>2, <2>1, <2>2, <2>3, <2>4, CallStepType DEF TypeInv, TypeOK
<1>4. CASE ExecuteFails(c)
  <2> DEFINE m == [local[c] EXCEPT !.attempt = k, !.err = TRUE]
             l == IF k < local[c].attempts THEN "execute" ELSE "insert"
  <2>1. local' = [local EXCEPT ![c] = m] /\ pc' = [pc EXCEPT ![c] = l]
    BY <1>1, <1>4 DEF ExecuteFails, TypeInv, TypeOK, Goto
  <2> HIDE DEF k
  <2>2. m \in Local /\ m.attempt = k /\ m.attempts = local[c].attempts
    BY <1>1 DEF Local
  <2>3. UNCHANGED <<flows, runs, serving, restarts>>
    BY <1>4 DEF ExecuteFails, TableVars, DaemonVars
  <2>4. answers' = [answers EXCEPT ![c] = Append(@, 0)]
    BY <1>4 DEF ExecuteFails
  <2>5. l \in Running \cup Ended /\ (l \in {"prepare", "execute"} => k < local[c].attempts)
    OBVIOUS
  <2> HIDE DEF m, l
  <2>6. QED
    BY <1>1, <1>2, <2>1, <2>2, <2>3, <2>4, <2>5, CallStepType DEF TypeInv, TypeOK
<1>5. QED
  BY <1>3, <1>4 DEF Execute

(* Where the loop goes after a recording: on only while attempts are left. *)
LEMMA NextAttemptLeft ==
  ASSUME NEW c \in Calls
  PROVE  /\ NextAttempt(c) \in {"execute", "insert"}
         /\ NextAttempt(c) = "execute" => local[c].attempt < local[c].attempts
  BY DEF NextAttempt

LEMMA RecordType ==
  ASSUME TypeInv, NEW c \in Calls, Record(c)
  PROVE  TypeInv'
<1>1. /\ local[c] \in Local /\ local[c].attempt <= local[c].attempts
      /\ Len(answers[c]) = local[c].attempt
  BY DEF TypeInv, TypeOK
<1>2. UNCHANGED <<runs, serving, restarts, answers>>
  BY DEF Record, RecordReplayFlow, RecordFails, TableVars, DaemonVars
<1>3. ASSUME NEW f \in FlowIds, RecordReplayFlow(c, f) PROVE TypeInv'
  <2> DEFINE m == [local[c] EXCEPT !.replay = f]
  <2>1. m \in Local /\ m.attempt = local[c].attempt /\ m.attempts = local[c].attempts
    BY <1>1 DEF Local
  <2>2. local' = [local EXCEPT ![c] = m] /\ pc' = [pc EXCEPT ![c] = "tag"]
    BY <1>3 DEF RecordReplayFlow, Goto, TypeInv, TypeOK
  <2>3. flows' \in [FlowIds -> FlowRow]
    BY <1>1, <1>3 DEF RecordReplayFlow, FlowRow, Local, TypeInv, TypeOK
  <2> HIDE DEF m
  <2>4. QED
    BY <1>1, <1>2, <2>1, <2>2, <2>3, CallStepType DEF TypeInv, TypeOK
<1>4. CASE RecordFails(c)
  <2> DEFINE m == [local[c] EXCEPT !.replay = NoFlow, !.err = TRUE]
  <2>1. m \in Local /\ m.attempt = local[c].attempt /\ m.attempts = local[c].attempts
    BY <1>1 DEF Local
  <2>2. local' = [local EXCEPT ![c] = m] /\ pc' = [pc EXCEPT ![c] = NextAttempt(c)]
    BY <1>4 DEF RecordFails, Goto, TypeInv, TypeOK
  <2>3. UNCHANGED flows
    BY <1>4 DEF RecordFails, TableVars
  <2> HIDE DEF m
  <2>4. QED
    BY <1>1, <1>2, <2>1, <2>2, <2>3, NextAttemptLeft, CallStepType DEF TypeInv, TypeOK
<1>5. QED
  BY <1>3, <1>4 DEF Record

LEMMA TagType ==
  ASSUME TypeInv, NEW c \in Calls, TagReplayFlow(c)
  PROVE  TypeInv'
<1>1. /\ local[c] \in Local /\ local[c].attempt <= local[c].attempts
      /\ Len(answers[c]) = local[c].attempt
      /\ local' = [local EXCEPT ![c] = local[c]]
  BY DEF TypeInv, TypeOK, TagReplayFlow
<1>2. flows' \in [FlowIds -> FlowRow]
  <2>1. ASSUME NEW f \in FlowIds, flows' = [flows EXCEPT ![f].of = local[c].flow]
        PROVE  flows' \in [FlowIds -> FlowRow]
    <3>1. local[c].flow \in FlowIds \cup {NoFlow} /\ flows \in [FlowIds -> FlowRow]
      BY <1>1 DEF Local, TypeInv, TypeOK
    <3>2. [flows[f] EXCEPT !.of = local[c].flow] \in FlowRow
      BY <3>1 DEF FlowRow
    <3>3. QED
      BY <2>1, <3>1, <3>2
  <2>2. QED
    BY <2>1 DEF TypeInv, TypeOK, TagReplayFlow, Stored
<1>3. PICK l \in {"insert", NextAttempt(c)} : pc' = [pc EXCEPT ![c] = l]
  BY DEF TagReplayFlow, Goto
<1>4. UNCHANGED <<runs, serving, restarts, answers>>
  BY DEF TagReplayFlow, DaemonVars
<1>5. QED
  BY <1>1, <1>2, <1>3, <1>4, NextAttemptLeft, CallStepType DEF TypeInv, TypeOK

LEMMA RowOfType ==
  ASSUME NEW c \in Calls, local[c] \in Local
  PROVE  RowOf(c) \in RunRow
  BY DEF RowOf, RunRow, Local

LEMMA InsertType ==
  ASSUME TypeInv, NEW c \in Calls, Insert(c)
  PROVE  TypeInv'
<1>1. /\ local[c] \in Local /\ local[c].attempt <= local[c].attempts
      /\ Len(answers[c]) = local[c].attempt
      /\ local' = [local EXCEPT ![c] = local[c]]
  BY DEF TypeInv, TypeOK, Insert, InsertReplayRun, InsertFails
<1>2. runs' \in [Calls -> RunRow]
  BY <1>1, RowOfType DEF TypeInv, TypeOK, Insert, InsertReplayRun, InsertFails, TableVars
<1>3. PICK l \in {"recorded", "error"} : pc' = [pc EXCEPT ![c] = l]
  BY DEF Insert, InsertReplayRun, InsertFails, Goto
<1>4. UNCHANGED <<flows, serving, restarts, answers>>
  BY DEF Insert, InsertReplayRun, InsertFails, TableVars, DaemonVars
<1>5. QED
  BY <1>1, <1>2, <1>3, <1>4, CallStepType DEF TypeInv, TypeOK

LEMMA PruneType ==
  ASSUME TypeInv, NEW S \in SUBSET FlowIds, PruneFlowsBefore(S)
  PROVE  TypeInv'
<1>1. flows' \in [FlowIds -> FlowRow]
  <2>1. ASSUME NEW row \in FlowRow PROVE [row EXCEPT !.state = "deleted"] \in FlowRow
    BY DEF FlowRow, RowState
  <2>2. QED
    BY <2>1 DEF TypeInv, TypeOK, PruneFlowsBefore
<1>2. ASSUME NEW row \in RunRow PROVE CascadedRun(row, S) \in RunRow
  BY DEF CascadedRun, RunRow
<1>3. runs' \in [Calls -> RunRow]
  BY <1>2 DEF TypeInv, TypeOK, PruneFlowsBefore
<1>4. QED
  BY <1>1, <1>3 DEF TypeInv, TypeOK, AttemptLeft, PruneFlowsBefore, DaemonVars

LEMMA DaemonType ==
  ASSUME TypeInv, Cancel \/ CrashAndRestart
  PROVE  TypeInv'
<1>1. CASE Cancel
  BY <1>1 DEF TypeInv, TypeOK, AttemptLeft, Cancel, TableVars
<1>2. CASE CrashAndRestart
  <2>1. local' \in [Calls -> Local] /\ answers' \in [Calls -> Seq(Statuses \cup {0})]
    BY <1>2, NoLocalType DEF TypeInv, TypeOK, CrashAndRestart
  <2>2. NoLocal.attempt = 0 /\ NoLocal.attempts = 0
    BY DEF NoLocal
  <2>3. QED
    BY <1>2, <2>1, <2>2, BoundAssumption
    DEF TypeInv, TypeOK, AttemptLeft, CrashAndRestart, TableVars
<1>3. QED
  BY <1>1, <1>2

LEMMA NextType == TypeInv /\ [Next]_vars => TypeInv'
<1> SUFFICES ASSUME TypeInv, [Next]_vars PROVE TypeInv'
  OBVIOUS
<1>1. CASE UNCHANGED vars
  BY <1>1 DEF vars, TypeInv, TypeOK, AttemptLeft
<1>2. QED
  BY <1>1, BeginType, PrepareType, ExecuteType, RecordType, TagType, InsertType,
     PruneType, DaemonType DEF Next

(* TypeOK for every value of the constants: in particular a call never     *)
(* makes more than retries + 1 attempts.                                   *)
THEOREM TypeCorrect == Spec => []TypeOK
<1>1. Init => TypeInv
  BY InitType
<1>2. TypeInv /\ [Next]_vars => TypeInv'
  BY NextType
<1>3. TypeInv => TypeOK
  BY DEF TypeInv
<1>4. QED
  BY <1>1, <1>2, <1>3, PTL DEF Spec

-----------------------------------------------------------------------------
(* The tables change only as ReplayLedger allows.                          *)
(*                                                                         *)
(* What a call must remember for its row to be true: the flow in its hands *)
(* is one it stored itself, with the status in its hands except between a  *)
(* new answer and its recording; a dry run has touched nothing; and only a *)
(* call that has inserted its row has one.                                 *)
HoldsOwnFlow(c) ==
  local[c].replay # NoFlow =>
    /\ flows[local[c].replay].state # "free"
    /\ flows[local[c].replay].by = c

HoldsItsStatus(c) ==
  pc[c] \in {"execute", "tag", "insert"} /\ local[c].replay # NoFlow =>
    flows[local[c].replay].status = local[c].status

DryRunTouchesNothing(c) ==
  local[c].dry => /\ local[c].attempt = 0
                  /\ local[c].replay = NoFlow
                  /\ ~local[c].err
                  /\ pc[c] \notin {"execute", "record", "tag"}

CallInv(c) ==
  /\ HoldsOwnFlow(c)
  /\ HoldsItsStatus(c)
  /\ DryRunTouchesNothing(c)
  /\ pc[c] = "prepare" => local[c].replay = NoFlow /\ local[c].attempt = 0 /\ ~local[c].err
  /\ pc[c] = "record" => local[c].status \in Statuses
  /\ pc[c] # "recorded" => runs[c].state = "free"

LedgerInv == TypeInv /\ \A c \in Calls : CallInv(c)

USE DEF CallInv, HoldsOwnFlow, HoldsItsStatus, DryRunTouchesNothing

LEMMA InitLedgerInv == Init => LedgerInv
<1> SUFFICES ASSUME Init, NEW c \in Calls PROVE CallInv(c)
  BY InitType DEF LedgerInv
<1>1. local[c] = NoLocal /\ runs[c] = NoRun /\ pc[c] = "idle"
  BY DEF Init
<1>2. QED
  BY <1>1 DEF NoLocal, NoRun

(* A step of one call that changes no flow leaves the other calls alone. *)
LEMMA OthersKeepInv ==
  ASSUME LedgerInv, NEW c \in Calls, UNCHANGED flows,
         NEW m \in Local, NEW l \in Running \cup Ended,
         local' = [local EXCEPT ![c] = m], pc' = [pc EXCEPT ![c] = l],
         \A d \in Calls \ {c} : runs'[d] = runs[d]
  PROVE  /\ \A d \in Calls \ {c} : CallInv(d)'
         /\ local'[c] = m /\ pc'[c] = l
  BY DEF LedgerInv, TypeInv, TypeOK

LEMMA BeginLedgerInv ==
  ASSUME LedgerInv, NEW c \in Calls, NEW f \in FlowIds, NEW dry \in BOOLEAN,
         NEW p \in Profiles, NEW n \in 0..MaxRetries, Begin(c, f, dry, p, n)
  PROVE  \A d \in Calls : CallInv(d)'
<1> DEFINE m == [NoLocal EXCEPT !.flow = f, !.dry = dry, !.profile = p, !.attempts = n + 1]
<1>1. /\ local'[c] = m /\ \A d \in Calls \ {c} : local'[d] = local[d]
      /\ pc'[c] \in {"prepare", "error"} /\ \A d \in Calls \ {c} : pc'[d] = pc[d]
      /\ UNCHANGED <<flows, runs>>
  BY DEF Begin, Goto, TableVars, LedgerInv, TypeInv, TypeOK
<1>2. m.replay = NoFlow /\ m.attempt = 0 /\ m.err = FALSE
  BY DEF NoLocal
<1>3. runs[c].state = "free"
  BY DEF Begin, LedgerInv
<1> HIDE DEF m
<1>4. QED
  BY <1>1, <1>2, <1>3 DEF LedgerInv

LEMMA PrepareLedgerInv ==
  ASSUME LedgerInv, NEW c \in Calls, Prepare(c)
  PROVE  \A d \in Calls : CallInv(d)'
<1>1. /\ UNCHANGED <<flows, runs, local>>
      /\ \A d \in Calls \ {c} : pc'[d] = pc[d]
      /\ pc[c] = "prepare"
      /\ pc'[c] \in {"insert", "execute", "error"}
      /\ pc'[c] = "execute" => ~local[c].dry
  BY DEF Prepare, Goto, TableVars, LedgerInv, TypeInv, TypeOK
<1>2. QED
  BY <1>1 DEF LedgerInv

LEMMA ExecuteLedgerInv ==
  ASSUME LedgerInv, NEW c \in Calls, Execute(c)
  PROVE  \A d \in Calls : CallInv(d)'
<1>1. /\ UNCHANGED <<flows, runs>> /\ pc[c] = "execute"
      /\ \A d \in Calls \ {c} : pc'[d] = pc[d] /\ local'[d] = local[d]
      /\ local'[c].replay = local[c].replay /\ local'[c].dry = local[c].dry
  BY DEF Execute, Answer, ExecuteFails, Goto, TableVars, LedgerInv, TypeInv, TypeOK, Local
<1>2. \/ pc'[c] = "record" /\ local'[c].status \in Statuses
      \/ pc'[c] \in {"execute", "insert"} /\ local'[c].status = local[c].status
  BY DEF Execute, Answer, ExecuteFails, Goto, LedgerInv, TypeInv, TypeOK, Local
<1>3. QED
  BY <1>1, <1>2 DEF LedgerInv

(* A stored flow is new: no other call holds it. *)
LEMMA RecordLedgerInv ==
  ASSUME LedgerInv, NEW c \in Calls, Record(c)
  PROVE  \A d \in Calls : CallInv(d)'
<1>1. /\ UNCHANGED runs /\ pc[c] = "record" /\ ~local[c].dry
      /\ \A d \in Calls \ {c} : pc'[d] = pc[d] /\ local'[d] = local[d]
      /\ local'[c].dry = local[c].dry /\ local'[c].status = local[c].status
  BY DEF Record, RecordReplayFlow, RecordFails, Goto, TableVars, LedgerInv, TypeInv,
         TypeOK, Local
<1>2. ASSUME NEW f \in FlowIds, RecordReplayFlow(c, f) PROVE \A d \in Calls : CallInv(d)'
  <2>1. /\ local'[c].replay = f /\ pc'[c] = "tag"
        /\ flows[f].state = "free"
        /\ flows'[f].state = "stored" /\ flows'[f].by = c
        /\ flows'[f].status = local[c].status
        /\ \A g \in FlowIds \ {f} : flows'[g] = flows[g]
    BY <1>2 DEF RecordReplayFlow, Goto, LedgerInv, TypeInv, TypeOK, Local
  <2>2. \A d \in Calls : local[d].replay # NoFlow =>
                          local[d].replay \in FlowIds /\ local[d].replay # f
    BY <2>1 DEF LedgerInv, TypeInv, TypeOK, Local
  <2>3. QED
    BY <1>1, <2>1, <2>2 DEF LedgerInv
<1>3. CASE RecordFails(c)
  <2>1. UNCHANGED flows /\ local'[c].replay = NoFlow /\ pc'[c] \in {"execute", "insert"}
    BY <1>3, NextAttemptLeft DEF RecordFails, Goto, TableVars, LedgerInv, TypeInv, TypeOK
  <2>2. QED
    BY <1>1, <2>1 DEF LedgerInv
<1>4. QED
  BY <1>2, <1>3 DEF Record

(* A tag changes nothing else of a flow. *)
LEMMA TagKeepsFlows ==
  ASSUME TypeInv, NEW c \in Calls, TagReplayFlow(c)
  PROVE  \A f \in FlowIds :
           /\ flows'[f].state = flows[f].state /\ flows'[f].by = flows[f].by
           /\ flows'[f].attempt = flows[f].attempt /\ flows'[f].status = flows[f].status
<1>1. ASSUME NEW g \in FlowIds, NEW v, flows' = [flows EXCEPT ![g].of = v], NEW f \in FlowIds
      PROVE  /\ flows'[f].state = flows[f].state /\ flows'[f].by = flows[f].by
             /\ flows'[f].attempt = flows[f].attempt /\ flows'[f].status = flows[f].status
  <2>1. flows' = [flows EXCEPT ![g] = [flows[g] EXCEPT !.of = v]] /\ flows[g] \in FlowRow
    BY <1>1 DEF TypeInv, TypeOK
  <2>2. CASE f = g
    BY <2>1, <2>2 DEF FlowRow, TypeInv, TypeOK
  <2>3. CASE f # g
    BY <2>1, <2>3 DEF TypeInv, TypeOK
  <2>4. QED
    BY <2>2, <2>3
<1>2. QED
  BY <1>1 DEF TagReplayFlow, Stored

LEMMA TagLedgerInv ==
  ASSUME LedgerInv, NEW c \in Calls, TagReplayFlow(c)
  PROVE  \A d \in Calls : CallInv(d)'
<1>1. /\ UNCHANGED <<runs, local>> /\ pc[c] = "tag"
      /\ \A d \in Calls \ {c} : pc'[d] = pc[d]
      /\ pc'[c] \in {"execute", "insert"}
  BY NextAttemptLeft DEF TagReplayFlow, Goto, LedgerInv, TypeInv, TypeOK
<1>2. \A f \in FlowIds : /\ flows'[f].state = flows[f].state
                         /\ flows'[f].by = flows[f].by
                         /\ flows'[f].status = flows[f].status
  BY TagKeepsFlows DEF LedgerInv
<1>3. \A d \in Calls : local[d].replay # NoFlow => local[d].replay \in FlowIds
  BY DEF LedgerInv, TypeInv, TypeOK, Local
<1>4. QED
  BY <1>1, <1>2, <1>3 DEF LedgerInv

LEMMA InsertLedgerInv ==
  ASSUME LedgerInv, NEW c \in Calls, Insert(c)
  PROVE  \A d \in Calls : CallInv(d)'
<1>1. /\ UNCHANGED <<flows, local>> /\ pc[c] = "insert"
      /\ \A d \in Calls \ {c} : pc'[d] = pc[d] /\ runs'[d] = runs[d]
      /\ \/ pc'[c] = "recorded"
         \/ pc'[c] = "error" /\ UNCHANGED runs
  BY DEF Insert, InsertReplayRun, InsertFails, Goto, TableVars, LedgerInv, TypeInv, TypeOK
<1>2. QED
  BY <1>1 DEF LedgerInv

LEMMA PruneLedgerInv ==
  ASSUME LedgerInv, NEW S \in SUBSET FlowIds, PruneFlowsBefore(S)
  PROVE  \A d \in Calls : CallInv(d)'
<1>1. UNCHANGED <<local, pc>>
  BY DEF PruneFlowsBefore
<1>2. \A f \in FlowIds : /\ flows[f].state # "free" => flows'[f].state # "free"
                         /\ flows'[f].by = flows[f].by
                         /\ flows'[f].status = flows[f].status
  BY DEF PruneFlowsBefore, LedgerInv, TypeInv, TypeOK, FlowRow
<1>3. \A d \in Calls : runs[d].state = "free" => runs'[d].state = "free"
  BY DEF PruneFlowsBefore, CascadedRun
<1>4. \A d \in Calls : local[d].replay # NoFlow => local[d].replay \in FlowIds
  BY DEF LedgerInv, TypeInv, TypeOK, Local
<1>5. QED
  BY <1>1, <1>2, <1>3, <1>4 DEF LedgerInv

LEMMA DaemonLedgerInv ==
  ASSUME LedgerInv, Cancel \/ CrashAndRestart
  PROVE  \A d \in Calls : CallInv(d)'
  BY DEF Cancel, CrashAndRestart, TableVars, LedgerInv, NoLocal, TypeInv, TypeOK

LEMMA NextLedgerInv == LedgerInv /\ [Next]_vars => LedgerInv'
<1> SUFFICES ASSUME LedgerInv, [Next]_vars PROVE LedgerInv'
  OBVIOUS
<1>1. TypeInv'
  BY NextType DEF LedgerInv
<1>2. CASE UNCHANGED vars
  BY <1>1, <1>2 DEF vars, LedgerInv
<1>3. CASE Next
  <2>1. \A d \in Calls : CallInv(d)'
    BY <1>3, BeginLedgerInv, PrepareLedgerInv, ExecuteLedgerInv, RecordLedgerInv,
       TagLedgerInv, InsertLedgerInv, PruneLedgerInv, DaemonLedgerInv DEF Next
  <2>2. QED
    BY <1>1, <2>1 DEF LedgerInv
<1>4. QED
  BY <1>2, <1>3

-----------------------------------------------------------------------------
(* The refinement: each step of ReplayEngine is a step of ReplayLedger or  *)
(* leaves both tables alone.                                               *)

USE DEF Ledger!RowState

LEMMA LedgerInit == Init => Ledger!Init
<1> SUFFICES ASSUME Init PROVE Ledger!Init
  OBVIOUS
<1>1. ASSUME NEW f \in FlowIds
      PROVE  Table[f] \in {r \in Ledger!TableRow : r.by = NoCall /\ r.state # "deleted"}
  BY <1>1 DEF Init, Table, Ledger!TableRow
<1>2. Table \in [FlowIds -> {r \in Ledger!TableRow : r.by = NoCall /\ r.state # "deleted"}]
  BY <1>1 DEF Table
<1>3. runs = [c \in Calls |-> Ledger!NoRun]
  BY DEF Init, NoRun, Ledger!NoRun
<1>4. QED
  BY <1>2, <1>3 DEF Ledger!Init

LEMMA TableUnchanged == UNCHANGED flows => UNCHANGED Table
  BY DEF Table

(* Recording a response is AddReplayFlow. *)
LEMMA RecordRefines ==
  ASSUME LedgerInv, NEW c \in Calls, NEW f \in FlowIds, RecordReplayFlow(c, f)
  PROVE  Ledger!Next
<1>1. local[c].status \in Statuses /\ runs[c].state = "free"
  BY DEF RecordReplayFlow, LedgerInv
<1>2. Table[f].state = "free"
  BY DEF RecordReplayFlow, Table
<1>3. Table' = [Table EXCEPT ![f] = [state |-> "stored", status |-> local[c].status, by |-> c]]
  BY DEF RecordReplayFlow, Table, LedgerInv, TypeInv, TypeOK
<1>4. UNCHANGED runs
  BY DEF RecordReplayFlow
<1>5. Ledger!AddReplayFlow(c, f, local[c].status)
  BY <1>1, <1>2, <1>3, <1>4 DEF Ledger!AddReplayFlow
<1>6. QED
  BY <1>1, <1>5 DEF Ledger!Next

(* Tags are not part of the ledger. *)
LEMMA TagRefines ==
  ASSUME LedgerInv, NEW c \in Calls, TagReplayFlow(c)
  PROVE  UNCHANGED <<Table, runs>>
<1>1. ASSUME NEW g \in FlowIds, NEW v, flows' = [flows EXCEPT ![g].of = v], NEW f \in FlowIds
      PROVE  Table'[f] = Table[f]
  <2>1. flows' = [flows EXCEPT ![g] = [flows[g] EXCEPT !.of = v]] /\ flows[g] \in FlowRow
    BY <1>1 DEF LedgerInv, TypeInv, TypeOK
  <2>2. QED
    BY <2>1 DEF Table, FlowRow, LedgerInv, TypeInv, TypeOK
<1>2. UNCHANGED Table
  BY <1>1, TableUnchanged DEF TagReplayFlow, Stored, Table
<1>3. QED
  BY <1>2 DEF TagReplayFlow

(* What makes a row coherent is what LedgerInv says of a call at "insert", *)
(* together with the foreign keys that the insert itself checks.           *)
LEMMA InsertRefines ==
  ASSUME LedgerInv, NEW c \in Calls, InsertReplayRun(c)
  PROVE  Ledger!Next
<1> DEFINE row == RowOf(c)
<1>1. local[c] \in Local /\ runs \in [Calls -> RunRow]
  BY DEF LedgerInv, TypeInv, TypeOK
<1>2. row \in Ledger!RunRow /\ row.state = "stored"
  BY <1>1, RowOfType DEF RunRow, Ledger!RunRow, RowOf
<1>3. /\ row.flow = local[c].flow /\ row.replay = local[c].replay
      /\ row.status = local[c].status /\ row.attempts = local[c].attempt
      /\ row.ok <=> local[c].dry \/ (local[c].replay # NoFlow /\ Succeeded(local[c].status))
      /\ row.failed <=> local[c].err /\ local[c].replay = NoFlow
  BY <1>1 DEF RowOf, Local
<1>4. runs' = [runs EXCEPT ![c] = row] /\ runs'[c] = row /\ UNCHANGED flows
      /\ runs[c].state = "free" /\ KeysHold(row) /\ pc[c] = "insert"
  BY <1>1 DEF InsertReplayRun, LedgerInv
<1>5. \A f \in FlowIds : /\ Table[f].by = flows[f].by
                         /\ Table[f].status = flows[f].status
                         /\ Stored(f) => Ledger!Stored(f)
  BY DEF Table, Stored, Ledger!Stored
<1> HIDE DEF row
<1>6. Ledger!Stored(row.flow)
  BY <1>4, <1>5 DEF KeysHold, Stored
<1>7. row.replay # NoFlow => /\ Ledger!Stored(row.replay)
                             /\ Table[row.replay].by = c
                             /\ Table[row.replay].status = row.status
  BY <1>3, <1>4, <1>5 DEF KeysHold, Stored, LedgerInv
<1>8. row.ok => \/ row.attempts = 0
                \/ row.replay # NoFlow /\ Ledger!Succeeded(row.status)
  BY <1>3 DEF LedgerInv, Succeeded, Ledger!Succeeded
<1>9. row.failed => row.replay = NoFlow /\ ~row.ok
  BY <1>3 DEF LedgerInv
<1>10. Ledger!AddRun(c)
  BY <1>2, <1>4, <1>6, <1>7, <1>8, <1>9, TableUnchanged DEF Ledger!AddRun, Ledger!Coherent
<1>11. QED
  BY <1>10 DEF Ledger!Next

LEMMA PruneRefines ==
  ASSUME LedgerInv, NEW S \in SUBSET {f \in FlowIds : Stored(f)}, PruneFlowsBefore(S)
  PROVE  Ledger!Next
<1>1. S \in SUBSET {f \in FlowIds : Ledger!Stored(f)}
  BY DEF Stored, Ledger!Stored, Table
<1>2. Table' = [f \in FlowIds |->
                 IF f \in S THEN [Table[f] EXCEPT !.state = "deleted"] ELSE Table[f]]
  BY DEF PruneFlowsBefore, Table, FlowRow, LedgerInv, TypeInv, TypeOK
<1>3. \A c \in Calls :
        CascadedRun(runs[c], S) =
          (CASE runs[c].state # "stored" -> runs[c]
             [] runs[c].state = "stored" /\ runs[c].flow \in S ->
                  [runs[c] EXCEPT !.state = "deleted"]
             [] OTHER -> [runs[c] EXCEPT !.replay = IF @ \in S THEN NoFlow ELSE @])
  BY DEF CascadedRun
<1>4. runs' = [c \in Calls |->
          (CASE runs[c].state # "stored" -> runs[c]
             [] runs[c].state = "stored" /\ runs[c].flow \in S ->
                  [runs[c] EXCEPT !.state = "deleted"]
             [] OTHER -> [runs[c] EXCEPT !.replay = IF @ \in S THEN NoFlow ELSE @])]
  BY <1>3 DEF PruneFlowsBefore
<1>5. Ledger!Prune(S)
  BY <1>2, <1>4 DEF Ledger!Prune
<1>6. QED
  BY <1>1, <1>5 DEF Ledger!Next

LEMMA NextRefines == LedgerInv /\ [Next]_vars => [Ledger!Next]_(Ledger!ledgerVars)
<1> SUFFICES ASSUME LedgerInv, [Next]_vars
             PROVE  Ledger!Next \/ UNCHANGED <<Table, runs>>
  BY DEF Ledger!ledgerVars
<1>1. ASSUME UNCHANGED <<flows, runs>> PROVE UNCHANGED <<Table, runs>>
  BY <1>1, TableUnchanged
<1>2. ASSUME NEW c \in Calls, RecordFails(c) \/ InsertFails(c) \/ Prepare(c) \/ Execute(c)
      PROVE  UNCHANGED <<flows, runs>>
  BY <1>2 DEF RecordFails, InsertFails, Prepare, Execute, Answer, ExecuteFails, TableVars
<1>3. ASSUME NEW c \in Calls, NEW f \in FlowIds, NEW dry \in BOOLEAN,
             NEW p \in Profiles, NEW n \in 0..MaxRetries, Begin(c, f, dry, p, n)
      PROVE  UNCHANGED <<flows, runs>>
  BY <1>3 DEF Begin, TableVars
<1>4. Cancel \/ CrashAndRestart \/ UNCHANGED vars => UNCHANGED <<flows, runs>>
  BY DEF Cancel, CrashAndRestart, TableVars, vars
<1>5. QED
  BY <1>1, <1>2, <1>3, <1>4, RecordRefines, TagRefines, InsertRefines, PruneRefines
  DEF Next, Record, Insert

(* ImplementsLedger: whatever the interleaving of calls, prunes, failures  *)
(* and restarts, and for any number of each, the two tables of the store   *)
(* change only by the three steps of ReplayLedger.                         *)
THEOREM Refinement == Spec => ImplementsLedger
<1>1. Init => LedgerInv /\ Ledger!Init
  BY InitLedgerInv, LedgerInit
<1>2. LedgerInv /\ [Next]_vars => LedgerInv'
  BY NextLedgerInv
<1>3. LedgerInv /\ [Next]_vars => [Ledger!Next]_(Ledger!ledgerVars)
  BY NextRefines
<1>4. QED
  BY <1>1, <1>2, <1>3, PTL DEF Spec, ImplementsLedger, Ledger!Spec

-----------------------------------------------------------------------------
(* What the rows say of the answers.                                       *)
(*                                                                         *)
(* LastAnswered chooses the largest index of an answer that is no error.   *)
(* That there is a largest one is part of the invariant: every new answer  *)
(* is appended at the end.                                                 *)
AnsweredIn(q) == {i \in 1..Len(q) : q[i] # 0}

LastIn(q) == IF AnsweredIn(q) = {} THEN 0
             ELSE CHOOSE i \in AnsweredIn(q) : \A j \in AnsweredIn(q) : j <= i

IsLastOf(n, q) == IF AnsweredIn(q) = {} THEN n = 0
                  ELSE n \in AnsweredIn(q) /\ \A j \in AnsweredIn(q) : j <= n

LEMMA LastAnsweredIsLastIn ==
  \A c \in Calls :
    /\ LastAnswered(c) = LastIn(answers[c])
    /\ LastStatus(c) = IF LastIn(answers[c]) = 0 THEN 0 ELSE answers[c][LastIn(answers[c])]
  BY DEF LastAnswered, LastStatus, LastIn, AnsweredIn

LEMMA LastInUnique ==
  ASSUME NEW q \in Seq(Nat), NEW n, IsLastOf(n, q)
  PROVE  LastIn(q) = n
<1>1. CASE AnsweredIn(q) = {}
  BY <1>1 DEF IsLastOf, LastIn
<1>2. CASE AnsweredIn(q) # {}
  <2>1. AnsweredIn(q) \subseteq Nat
    BY DEF AnsweredIn
  <2>2. n \in AnsweredIn(q) /\ \A j \in AnsweredIn(q) : j <= n
    BY <1>2 DEF IsLastOf
  <2> DEFINE m == LastIn(q)
  <2>3. m \in AnsweredIn(q) /\ \A j \in AnsweredIn(q) : j <= m
    BY <1>2, <2>2 DEF LastIn
  <2>4. m <= n /\ n <= m
    BY <2>2, <2>3
  <2>5. QED
    BY <2>1, <2>2, <2>3, <2>4
<1>3. QED
  BY <1>1, <1>2

(* A new answer is the last one; a failed attempt leaves the last one.     *)
LEMMA LastInAppend ==
  \A q \in Seq(Nat), s \in Nat : \A a : IsLastOf(LastIn(q), q) /\ a = Append(q, s) =>
    /\ s # 0 => LastIn(a) = Len(q) + 1 /\ a[Len(q) + 1] = s
    /\ s = 0 => /\ LastIn(a) = LastIn(q)
                /\ LastIn(q) # 0 => a[LastIn(q)] = q[LastIn(q)]
    /\ IsLastOf(LastIn(a), a)
<1> SUFFICES ASSUME NEW q \in Seq(Nat), NEW s \in Nat, NEW a,
                    IsLastOf(LastIn(q), q), a = Append(q, s)
             PROVE  /\ s # 0 => LastIn(a) = Len(q) + 1 /\ a[Len(q) + 1] = s
                    /\ s = 0 => /\ LastIn(a) = LastIn(q)
                                /\ LastIn(q) # 0 => a[LastIn(q)] = q[LastIn(q)]
                    /\ IsLastOf(LastIn(a), a)
  OBVIOUS
<1> DEFINE k == Len(q) + 1
<1>1. /\ a \in Seq(Nat) /\ Len(a) = k /\ a[k] = s /\ k \in Nat
      /\ \A i \in 1..Len(q) : a[i] = q[i]
      /\ Len(q) \in Nat
  OBVIOUS
<1>2. 1..k = (1..Len(q)) \cup {k} /\ k \notin 1..Len(q)
  BY <1>1
<1>3. AnsweredIn(a) = AnsweredIn(q) \cup (IF s # 0 THEN {k} ELSE {})
  BY <1>1, <1>2 DEF AnsweredIn
<1>4. AnsweredIn(q) \subseteq 1..Len(q)
  BY DEF AnsweredIn
<1>5. CASE s # 0
  <2>1. IsLastOf(k, a)
    BY <1>1, <1>3, <1>4, <1>5 DEF IsLastOf
  <2>2. LastIn(a) = k
    BY <1>1, <2>1, LastInUnique
  <2>3. QED
    BY <1>1, <1>5, <2>1, <2>2
<1>6. CASE s = 0
  <2>1. AnsweredIn(a) = AnsweredIn(q)
    BY <1>3, <1>6
  <2>2. IsLastOf(LastIn(q), a)
    BY <2>1 DEF IsLastOf
  <2>3. LastIn(a) = LastIn(q)
    BY <1>1, <2>2, LastInUnique
  <2>4. LastIn(q) # 0 => LastIn(q) \in 1..Len(q)
    BY <1>4 DEF IsLastOf
  <2>5. QED
    BY <1>1, <1>6, <2>2, <2>3, <2>4
<1>7. QED
  BY <1>5, <1>6

(* What a call remembers of its answers.  The status in its hands is that  *)
(* of the last response; the flow in its hands is the record of that       *)
(* response, except between a new answer and its recording; a flow of an   *)
(* answer that ended the loop is the one in its hands; and its row says    *)
(* what its hands held when it was inserted, less what was pruned since.   *)
StatusIsLast(c) ==
  /\ IsLastOf(LastAnswered(c), answers[c])
  /\ local[c].status = LastStatus(c)
  /\ pc[c] = "record" => LastAnswered(c) = local[c].attempt

HoldsLastFlow(c) ==
  pc[c] # "record" /\ local[c].replay # NoFlow =>
    /\ flows[local[c].replay].attempt = LastAnswered(c)
    /\ flows[local[c].replay].status = LastStatus(c)

FinalFlowIsHeld(c) ==
  pc[c] # "lost" =>
    \A f \in FlowIds : flows[f].state # "free" /\ flows[f].by = c /\ flows[f].status < 500 =>
      /\ f = local[c].replay
      /\ pc[c] \in {"tag", "insert", "recorded", "error"}

RowSaysWhatWasHeld(c) ==
  runs[c].state = "stored" =>
    /\ runs[c].attempts = local[c].attempt
    /\ runs[c].status = local[c].status
    /\ runs[c].ok => \/ local[c].dry
                     \/ local[c].replay # NoFlow /\ Succeeded(local[c].status)
    /\ Stored(local[c].replay) => runs[c].replay = local[c].replay

AnswerInv(c) ==
  StatusIsLast(c) /\ HoldsLastFlow(c) /\ FinalFlowIsHeld(c) /\ RowSaysWhatWasHeld(c)

RowInv == LedgerInv /\ \A c \in Calls : AnswerInv(c)

LEMMA HeldFlowIsAFlow ==
  ASSUME TypeInv
  PROVE  \A c \in Calls : local[c].replay # NoFlow => local[c].replay \in FlowIds
  BY DEF TypeInv, TypeOK, Local

(* What a step leaves alone of the call and of its flows keeps AnswerInv.  *)
LEMMA AnswerInvFrame ==
  ASSUME RowInv, NEW d \in Calls,
         local'[d] = local[d], pc'[d] = pc[d], runs'[d] = runs[d], answers'[d] = answers[d],
         \A f \in FlowIds : flows[f].state # "free" =>
           /\ flows'[f].state = flows[f].state /\ flows'[f].by = flows[f].by
           /\ flows'[f].attempt = flows[f].attempt /\ flows'[f].status = flows[f].status,
         \A f \in FlowIds : flows[f].state = "free" =>
           flows'[f].state = "free" \/ flows'[f].by # d
  PROVE  AnswerInv(d)'
<1>1. TypeInv /\ CallInv(d) /\ AnswerInv(d)
  BY DEF RowInv, LedgerInv
<1>2. LastAnswered(d)' = LastAnswered(d) /\ LastStatus(d)' = LastStatus(d)
  BY LastAnsweredIsLastIn DEF LastAnswered, LastStatus
<1>3. StatusIsLast(d)'
  BY <1>1, <1>2 DEF AnswerInv, StatusIsLast
<1>4. local[d].replay # NoFlow =>
        local[d].replay \in FlowIds /\ flows[local[d].replay].state # "free"
  BY <1>1, HeldFlowIsAFlow
<1>5. HoldsLastFlow(d)'
  BY <1>1, <1>2, <1>4 DEF AnswerInv, HoldsLastFlow
<1>6. FinalFlowIsHeld(d)'
  BY <1>1 DEF AnswerInv, FinalFlowIsHeld
<1>7. Stored(local[d].replay)' => Stored(local[d].replay)
  BY <1>4, NullAssumption DEF Stored
<1>8. RowSaysWhatWasHeld(d)'
  BY <1>1, <1>7 DEF AnswerInv, RowSaysWhatWasHeld
<1>9. QED
  BY <1>3, <1>5, <1>6, <1>8 DEF AnswerInv

LEMMA SameFlows ==
  ASSUME UNCHANGED flows
  PROVE  \A f \in FlowIds :
           /\ flows'[f].state = flows[f].state /\ flows'[f].by = flows[f].by
           /\ flows'[f].attempt = flows[f].attempt /\ flows'[f].status = flows[f].status
  OBVIOUS

LEMMA InitRowInv == Init => RowInv
<1> SUFFICES ASSUME Init, NEW c \in Calls PROVE AnswerInv(c)
  BY InitLedgerInv DEF RowInv
<1>1. /\ local[c] = NoLocal /\ runs[c] = NoRun /\ pc[c] = "idle" /\ answers[c] = <<>>
      /\ \A f \in FlowIds : flows[f].by = NoCall
  BY DEF Init
<1>2. AnsweredIn(<<>>) = {} /\ LastIn(<<>>) = 0
  BY DEF AnsweredIn, LastIn
<1>3. LastAnswered(c) = 0 /\ LastStatus(c) = 0
  BY <1>1, <1>2, LastAnsweredIsLastIn
<1>4. StatusIsLast(c)
  BY <1>1, <1>2, <1>3 DEF StatusIsLast, IsLastOf, NoLocal
<1>5. HoldsLastFlow(c) /\ RowSaysWhatWasHeld(c)
  BY <1>1 DEF HoldsLastFlow, RowSaysWhatWasHeld, NoLocal, NoRun
<1>6. FinalFlowIsHeld(c)
  BY <1>1, NullAssumption DEF FinalFlowIsHeld
<1>7. QED
  BY <1>4, <1>5, <1>6 DEF AnswerInv

LEMMA BeginRowInv ==
  ASSUME RowInv, NEW c \in Calls, NEW f \in FlowIds, NEW dry \in BOOLEAN,
         NEW p \in Profiles, NEW n \in 0..MaxRetries, Begin(c, f, dry, p, n)
  PROVE  \A d \in Calls : AnswerInv(d)'
<1> DEFINE m == [NoLocal EXCEPT !.flow = f, !.dry = dry, !.profile = p, !.attempts = n + 1]
<1>1. /\ local'[c] = m /\ \A d \in Calls \ {c} : local'[d] = local[d]
      /\ pc[c] = "idle"
      /\ pc'[c] \in {"prepare", "error"} /\ \A d \in Calls \ {c} : pc'[d] = pc[d]
      /\ UNCHANGED <<flows, runs, answers>>
  BY DEF Begin, Goto, TableVars, RowInv, LedgerInv, TypeInv, TypeOK
<1>2. m.replay = NoFlow /\ m.status = 0
  BY DEF NoLocal
<1>3. local[c].status = 0 /\ runs[c].state = "free" /\ AnswerInv(c)
  BY <1>1 DEF RowInv, LedgerInv, TypeInv, AttemptLeft, NoLocal
<1>4. LastAnswered(c)' = LastAnswered(c) /\ LastStatus(c)' = LastStatus(c)
  BY <1>1 DEF LastAnswered, LastStatus
<1> HIDE DEF m
<1>5. StatusIsLast(c)' /\ HoldsLastFlow(c)' /\ RowSaysWhatWasHeld(c)'
  BY <1>1, <1>2, <1>3, <1>4
  DEF AnswerInv, StatusIsLast, HoldsLastFlow, RowSaysWhatWasHeld
<1>6. FinalFlowIsHeld(c)'
  BY <1>1, <1>3 DEF AnswerInv, FinalFlowIsHeld
<1>7. ASSUME NEW d \in Calls \ {c} PROVE AnswerInv(d)'
  BY <1>1, SameFlows, AnswerInvFrame
<1>8. QED
  BY <1>5, <1>6, <1>7 DEF AnswerInv

LEMMA PrepareRowInv ==
  ASSUME RowInv, NEW c \in Calls, Prepare(c)
  PROVE  \A d \in Calls : AnswerInv(d)'
<1>1. /\ UNCHANGED <<flows, runs, local, answers>>
      /\ \A d \in Calls \ {c} : pc'[d] = pc[d]
      /\ pc[c] = "prepare"
      /\ pc'[c] \in {"insert", "execute", "error"}
  BY DEF Prepare, Goto, TableVars, RowInv, LedgerInv, TypeInv, TypeOK
<1>2. LastAnswered(c)' = LastAnswered(c) /\ LastStatus(c)' = LastStatus(c)
  BY <1>1 DEF LastAnswered, LastStatus
<1>3. AnswerInv(c) /\ runs[c].state = "free" /\ local[c].replay = NoFlow
  BY <1>1 DEF RowInv, LedgerInv
<1>4. AnswerInv(c)'
  BY <1>1, <1>2, <1>3
  DEF AnswerInv, StatusIsLast, HoldsLastFlow, FinalFlowIsHeld, RowSaysWhatWasHeld
<1>5. ASSUME NEW d \in Calls \ {c} PROVE AnswerInv(d)'
  BY <1>1, SameFlows, AnswerInvFrame
<1>6. QED
  BY <1>4, <1>5

(* A new answer is the last one; an error leaves the last one, and the flow *)
(* in the call's hands stays the record of it.                             *)
LEMMA ExecuteRowInv ==
  ASSUME RowInv, NEW c \in Calls, Execute(c)
  PROVE  \A d \in Calls : AnswerInv(d)'
<1>1. /\ UNCHANGED <<flows, runs>> /\ pc[c] = "execute" /\ local[c] \in Local
      /\ \A d \in Calls \ {c} : /\ pc'[d] = pc[d] /\ local'[d] = local[d]
                                /\ answers'[d] = answers[d]
      /\ local'[c].replay = local[c].replay
      /\ local'[c].attempt = local[c].attempt + 1
      /\ local[c].attempt = Len(answers[c])
  BY DEF Execute, Answer, ExecuteFails, Goto, TableVars, RowInv, LedgerInv, TypeInv,
         TypeOK, Local
<1>2. \/ \E s \in Statuses : /\ pc'[c] = "record" /\ local'[c].status = s
                             /\ answers'[c] = Append(answers[c], s)
      \/ /\ pc'[c] \in {"execute", "insert"} /\ local'[c].status = local[c].status
         /\ answers'[c] = Append(answers[c], 0)
  BY DEF Execute, Answer, ExecuteFails, Goto, RowInv, LedgerInv, TypeInv, TypeOK, Local
<1>3. answers[c] \in Seq(Nat) /\ AnswerInv(c) /\ runs[c].state = "free"
  <2>1. answers[c] \in Seq(Statuses \cup {0}) /\ Statuses \cup {0} \subseteq Nat
    BY StatusAssumption DEF RowInv, LedgerInv, TypeInv, TypeOK
  <2>2. answers[c] \in Seq(Nat)
    BY <2>1
  <2>3. QED
    BY <1>1, <2>2 DEF RowInv, LedgerInv
<1>4. IsLastOf(LastIn(answers[c]), answers[c])
  BY <1>3, LastAnsweredIsLastIn DEF AnswerInv, StatusIsLast
<1>5. /\ LastAnswered(c)' = LastIn(answers'[c])
      /\ LastStatus(c)' =
           IF LastIn(answers'[c]) = 0 THEN 0 ELSE answers'[c][LastIn(answers'[c])]
  BY LastAnsweredIsLastIn DEF LastAnswered, LastStatus, LastIn, AnsweredIn
<1> DEFINE q == answers[c]
           a == answers'[c]
<1>6. ASSUME NEW s \in Nat, a = Append(q, s)
       PROVE  /\ s # 0 => LastIn(a) = Len(q) + 1 /\ a[Len(q) + 1] = s
              /\ s = 0 => /\ LastIn(a) = LastIn(q)
                          /\ LastIn(q) # 0 => a[LastIn(q)] = q[LastIn(q)]
              /\ IsLastOf(LastIn(a), a)
  <2>1. q \in Seq(Nat) /\ IsLastOf(LastIn(q), q)
    BY <1>3, <1>4
  <2> HIDE DEF q, a
  <2>2. QED
    BY <1>6, <2>1, LastInAppend
<1>7. StatusIsLast(c)' /\ HoldsLastFlow(c)'
  <2>1. ASSUME NEW s \in Statuses, pc'[c] = "record", local'[c].status = s,
               answers'[c] = Append(answers[c], s)
        PROVE  StatusIsLast(c)' /\ HoldsLastFlow(c)'
    <3>1. s # 0 /\ s \in Nat
      BY StatusAssumption
    <3>2. /\ LastIn(answers'[c]) = Len(answers[c]) + 1
          /\ answers'[c][Len(answers[c]) + 1] = s
          /\ IsLastOf(LastIn(answers'[c]), answers'[c])
      BY <1>6, <2>1, <3>1
    <3>3. Len(answers[c]) + 1 # 0
      BY <1>3
    <3>4. QED
      BY <1>1, <1>5, <2>1, <3>2, <3>3 DEF StatusIsLast, HoldsLastFlow
  <2>2. ASSUME pc'[c] \in {"execute", "insert"}, local'[c].status = local[c].status,
               answers'[c] = Append(answers[c], 0)
        PROVE  StatusIsLast(c)' /\ HoldsLastFlow(c)'
    <3> 0 \in Nat
      OBVIOUS
    <3>1. /\ LastIn(answers'[c]) = LastIn(answers[c])
          /\ LastIn(answers[c]) # 0 =>
               answers'[c][LastIn(answers[c])] = answers[c][LastIn(answers[c])]
          /\ IsLastOf(LastIn(answers'[c]), answers'[c])
      BY <1>6, <2>2
    <3>2. LastAnswered(c)' = LastAnswered(c) /\ LastStatus(c)' = LastStatus(c)
      BY <1>5, <3>1, LastAnsweredIsLastIn
    <3>3. QED
      BY <1>1, <1>3, <1>5, <2>2, <3>1, <3>2 DEF AnswerInv, StatusIsLast, HoldsLastFlow
  <2>3. QED
    BY <1>2, <2>1, <2>2
<1>8. FinalFlowIsHeld(c)' /\ RowSaysWhatWasHeld(c)'
  BY <1>1, <1>3 DEF AnswerInv, FinalFlowIsHeld, RowSaysWhatWasHeld
<1>9. ASSUME NEW d \in Calls \ {c} PROVE AnswerInv(d)'
  BY <1>1, SameFlows, AnswerInvFrame
<1>10. QED
  BY <1>7, <1>8, <1>9 DEF AnswerInv

LEMMA RecordRowInv ==
  ASSUME RowInv, NEW c \in Calls, Record(c)
  PROVE  \A d \in Calls : AnswerInv(d)'
<1>1. /\ UNCHANGED <<runs, answers>> /\ pc[c] = "record"
      /\ \A d \in Calls \ {c} : pc'[d] = pc[d] /\ local'[d] = local[d]
      /\ local'[c].status = local[c].status /\ local'[c].attempt = local[c].attempt
  BY DEF Record, RecordReplayFlow, RecordFails, Goto, TableVars, RowInv, LedgerInv, TypeInv,
         TypeOK, Local
<1>2. LastAnswered(c)' = LastAnswered(c) /\ LastStatus(c)' = LastStatus(c)
  BY <1>1 DEF LastAnswered, LastStatus
<1>3. AnswerInv(c) /\ runs[c].state = "free"
  BY <1>1 DEF RowInv, LedgerInv
<1>4. ASSUME NEW f \in FlowIds, RecordReplayFlow(c, f) PROVE \A d \in Calls : AnswerInv(d)'
  <2>1. /\ local'[c].replay = f /\ pc'[c] = "tag"
        /\ flows[f].state = "free"
        /\ flows'[f].by = c
        /\ flows'[f].status = local[c].status /\ flows'[f].attempt = local[c].attempt
        /\ \A g \in FlowIds \ {f} : flows'[g] = flows[g]
    BY <1>4 DEF RecordReplayFlow, Goto, RowInv, LedgerInv, TypeInv, TypeOK, Local
  <2>2. StatusIsLast(c)' /\ HoldsLastFlow(c)' /\ RowSaysWhatWasHeld(c)'
    BY <1>1, <1>2, <1>3, <2>1
    DEF AnswerInv, StatusIsLast, HoldsLastFlow, RowSaysWhatWasHeld
  <2>3. FinalFlowIsHeld(c)'
    BY <1>1, <1>3, <2>1 DEF AnswerInv, FinalFlowIsHeld
  <2>4. ASSUME NEW d \in Calls \ {c} PROVE AnswerInv(d)'
    BY <1>1, <2>1, AnswerInvFrame
  <2>5. QED
    BY <2>2, <2>3, <2>4 DEF AnswerInv
<1>5. CASE RecordFails(c)
  <2>1. UNCHANGED flows /\ local'[c].replay = NoFlow /\ pc'[c] \in {"execute", "insert"}
    BY <1>5, NextAttemptLeft
    DEF RecordFails, Goto, TableVars, RowInv, LedgerInv, TypeInv, TypeOK
  <2>2. AnswerInv(c)'
    BY <1>1, <1>2, <1>3, <2>1
    DEF AnswerInv, StatusIsLast, HoldsLastFlow, FinalFlowIsHeld, RowSaysWhatWasHeld
  <2>3. ASSUME NEW d \in Calls \ {c} PROVE AnswerInv(d)'
    BY <1>1, <2>1, SameFlows, AnswerInvFrame
  <2>4. QED
    BY <2>2, <2>3
<1>6. QED
  BY <1>4, <1>5 DEF Record

(* The loop goes on only after a server error: the flow it leaves behind is *)
(* not one of a final answer.                                              *)
LEMMA TagRowInv ==
  ASSUME RowInv, NEW c \in Calls, TagReplayFlow(c)
  PROVE  \A d \in Calls : AnswerInv(d)'
<1>1. /\ UNCHANGED <<runs, local, answers>> /\ pc[c] = "tag"
      /\ \A d \in Calls \ {c} : pc'[d] = pc[d]
      /\ pc'[c] \in {"execute", "insert"}
      /\ pc'[c] = "execute" => ~Final(local[c].status)
  BY NextAttemptLeft DEF TagReplayFlow, Goto, RowInv, LedgerInv, TypeInv, TypeOK
<1>2. \A f \in FlowIds : /\ flows'[f].state = flows[f].state
                         /\ flows'[f].by = flows[f].by
                         /\ flows'[f].attempt = flows[f].attempt
                         /\ flows'[f].status = flows[f].status
  BY TagKeepsFlows DEF RowInv, LedgerInv
<1>3. /\ AnswerInv(c) /\ runs[c].state = "free"
      /\ local[c].replay # NoFlow => local[c].replay \in FlowIds
  BY <1>1, HeldFlowIsAFlow DEF RowInv, LedgerInv
<1>4. LastAnswered(c)' = LastAnswered(c) /\ LastStatus(c)' = LastStatus(c)
  BY <1>1 DEF LastAnswered, LastStatus
<1>5. StatusIsLast(c)' /\ RowSaysWhatWasHeld(c)'
  BY <1>1, <1>3, <1>4 DEF AnswerInv, StatusIsLast, RowSaysWhatWasHeld
<1>6. HoldsLastFlow(c)'
  BY <1>1, <1>2, <1>3, <1>4 DEF AnswerInv, HoldsLastFlow
<1>7. FinalFlowIsHeld(c)'
  <2>1. SUFFICES ASSUME NEW f \in FlowIds,
                        flows[f].state # "free", flows[f].by = c, flows[f].status < 500
                 PROVE  f = local[c].replay /\ pc'[c] = "insert"
    BY <1>1, <1>2 DEF FinalFlowIsHeld
  <2>2. f = local[c].replay
    BY <1>1, <1>3, <2>1 DEF AnswerInv, FinalFlowIsHeld
  <2>3. flows[f].status = local[c].status
    BY <1>1, <1>3, <2>2, NullAssumption DEF AnswerInv, HoldsLastFlow, StatusIsLast
  <2>4. QED
    BY <1>1, <2>1, <2>2, <2>3 DEF Final
<1>8. ASSUME NEW d \in Calls \ {c} PROVE AnswerInv(d)'
  BY <1>1, <1>2, AnswerInvFrame
<1>9. QED
  BY <1>5, <1>6, <1>7, <1>8 DEF AnswerInv

LEMMA InsertRowInv ==
  ASSUME RowInv, NEW c \in Calls, Insert(c)
  PROVE  \A d \in Calls : AnswerInv(d)'
<1>1. /\ UNCHANGED <<flows, local, answers>> /\ pc[c] = "insert"
      /\ \A d \in Calls \ {c} : pc'[d] = pc[d] /\ runs'[d] = runs[d]
      /\ \/ pc'[c] = "recorded" /\ runs'[c] = RowOf(c)
         \/ pc'[c] = "error" /\ UNCHANGED runs
  BY DEF Insert, InsertReplayRun, InsertFails, Goto, TableVars, RowInv, LedgerInv, TypeInv,
         TypeOK
<1>2. AnswerInv(c) /\ runs[c].state = "free"
  BY <1>1 DEF RowInv, LedgerInv
<1>3. LastAnswered(c)' = LastAnswered(c) /\ LastStatus(c)' = LastStatus(c)
  BY <1>1 DEF LastAnswered, LastStatus
<1>4. StatusIsLast(c)' /\ HoldsLastFlow(c)' /\ FinalFlowIsHeld(c)'
  BY <1>1, <1>2, <1>3 DEF AnswerInv, StatusIsLast, HoldsLastFlow, FinalFlowIsHeld
<1>5. RowSaysWhatWasHeld(c)'
  <2> DEFINE row == RowOf(c)
  <2>1. local[c] \in Local
    BY DEF RowInv, LedgerInv, TypeInv, TypeOK
  <2>2. /\ row.replay = local[c].replay /\ row.status = local[c].status
        /\ row.attempts = local[c].attempt
        /\ row.ok => local[c].dry \/ (local[c].replay # NoFlow /\ Succeeded(local[c].status))
    BY <2>1 DEF RowOf, Local
  <2> HIDE DEF row
  <2>3. CASE pc'[c] = "recorded" /\ runs'[c] = row
    BY <1>1, <2>2, <2>3 DEF RowSaysWhatWasHeld
  <2>4. CASE UNCHANGED runs
    BY <1>2, <2>4 DEF RowSaysWhatWasHeld
  <2>5. QED
    BY <1>1, <2>3, <2>4 DEF row
<1>6. ASSUME NEW d \in Calls \ {c} PROVE AnswerInv(d)'
  BY <1>1, SameFlows, AnswerInvFrame
<1>7. QED
  BY <1>4, <1>5, <1>6 DEF AnswerInv

(* Pruning takes a flow from the table and from the rows that name it. *)
LEMMA PruneRowInv ==
  ASSUME RowInv, NEW S \in SUBSET {f \in FlowIds : Stored(f)}, PruneFlowsBefore(S)
  PROVE  \A d \in Calls : AnswerInv(d)'
<1> SUFFICES ASSUME NEW d \in Calls PROVE AnswerInv(d)'
  OBVIOUS
<1>1. UNCHANGED <<local, pc, answers>>
  BY DEF PruneFlowsBefore
<1>2. \A f \in FlowIds : /\ flows'[f].by = flows[f].by
                         /\ flows'[f].attempt = flows[f].attempt
                         /\ flows'[f].status = flows[f].status
                         /\ flows'[f].state = IF f \in S THEN "deleted" ELSE flows[f].state
  BY DEF PruneFlowsBefore, RowInv, LedgerInv, TypeInv, TypeOK, FlowRow
<1>3. \A f \in FlowIds : flows'[f].state # "free" => flows[f].state # "free"
  BY <1>2 DEF Stored
<1>4. /\ AnswerInv(d) /\ runs[d] \in RunRow
      /\ local[d].replay # NoFlow => local[d].replay \in FlowIds
  BY HeldFlowIsAFlow DEF RowInv, LedgerInv, TypeInv, TypeOK
<1>5. LastAnswered(d)' = LastAnswered(d) /\ LastStatus(d)' = LastStatus(d)
  BY <1>1 DEF LastAnswered, LastStatus
<1>6. StatusIsLast(d)' /\ HoldsLastFlow(d)'
  BY <1>1, <1>2, <1>4, <1>5 DEF AnswerInv, StatusIsLast, HoldsLastFlow
<1>7. RowSaysWhatWasHeld(d)'
  <2>1. SUFFICES ASSUME runs'[d].state = "stored"
                 PROVE  /\ runs'[d].attempts = local[d].attempt
                        /\ runs'[d].status = local[d].status
                        /\ runs'[d].ok =>
                             \/ local[d].dry
                             \/ local[d].replay # NoFlow /\ Succeeded(local[d].status)
                        /\ Stored(local[d].replay)' => runs'[d].replay = local[d].replay
    BY <1>1 DEF RowSaysWhatWasHeld
  <2>2. runs'[d] = CascadedRun(runs[d], S)
    BY DEF PruneFlowsBefore
  <2>3. /\ runs[d].state = "stored"
        /\ runs'[d].attempts = runs[d].attempts /\ runs'[d].status = runs[d].status
        /\ runs'[d].ok = runs[d].ok
        /\ runs[d].replay \notin S => runs'[d].replay = runs[d].replay
    BY <1>4, <2>1, <2>2 DEF CascadedRun, RunRow
  <2>4. Stored(local[d].replay)' => Stored(local[d].replay) /\ local[d].replay \notin S
    BY <1>1, <1>2 DEF Stored
  <2>5. QED
    BY <1>4, <2>3, <2>4 DEF AnswerInv, RowSaysWhatWasHeld
<1>8. FinalFlowIsHeld(d)'
  BY <1>1, <1>2, <1>3, <1>4 DEF AnswerInv, FinalFlowIsHeld
<1>9. QED
  BY <1>6, <1>7, <1>8 DEF AnswerInv

LEMMA DaemonRowInv ==
  ASSUME RowInv, Cancel \/ CrashAndRestart
  PROVE  \A d \in Calls : AnswerInv(d)'
<1> SUFFICES ASSUME NEW d \in Calls PROVE AnswerInv(d)'
  OBVIOUS
<1>1. UNCHANGED <<flows, runs>>
  BY DEF Cancel, CrashAndRestart, TableVars
<1>2. CASE Cancel \/ pc[d] \notin Running
  <2>1. local'[d] = local[d] /\ pc'[d] = pc[d] /\ answers'[d] = answers[d]
    BY <1>2 DEF Cancel, CrashAndRestart, TableVars
  <2>2. QED
    BY <1>1, <2>1, SameFlows, AnswerInvFrame
<1>3. CASE CrashAndRestart /\ pc[d] \in Running
  <2>1. local'[d] = NoLocal /\ pc'[d] = "lost" /\ answers'[d] = <<>>
    BY <1>3 DEF CrashAndRestart
  <2>2. AnsweredIn(<<>>) = {} /\ LastIn(<<>>) = 0
    BY DEF AnsweredIn, LastIn
  <2>3. LastAnswered(d)' = LastIn(answers'[d])
    BY DEF LastAnswered, LastIn, AnsweredIn
  <2>4. LastAnswered(d)' = 0 /\ LastStatus(d)' = 0
    BY <2>1, <2>2, <2>3 DEF LastStatus
  <2>5. runs[d].state = "free"
    BY <1>3 DEF RowInv, LedgerInv
  <2>6. QED
    BY <1>1, <2>1, <2>2, <2>4, <2>5
    DEF AnswerInv, StatusIsLast, HoldsLastFlow, FinalFlowIsHeld, RowSaysWhatWasHeld,
        IsLastOf, NoLocal
<1>4. QED
  BY <1>2, <1>3

LEMMA NextRowInv == RowInv /\ [Next]_vars => RowInv'
<1> SUFFICES ASSUME RowInv, [Next]_vars PROVE RowInv'
  OBVIOUS
<1>1. LedgerInv'
  BY NextLedgerInv DEF RowInv
<1>2. ASSUME UNCHANGED vars, NEW d \in Calls PROVE AnswerInv(d)'
  BY <1>2, SameFlows, AnswerInvFrame DEF vars
<1>3. CASE Next
  <2>1. \A d \in Calls : AnswerInv(d)'
    BY <1>3, BeginRowInv, PrepareRowInv, ExecuteRowInv, RecordRowInv, TagRowInv,
       InsertRowInv, PruneRowInv, DaemonRowInv DEF Next
  <2>2. QED
    BY <1>1, <2>1 DEF RowInv
<1>4. QED
  BY <1>1, <1>2, <1>3 DEF RowInv

LEMMA RowInvAlways == Spec => []RowInv
<1>1. Init => RowInv
  BY InitRowInv
<1>2. RowInv /\ [Next]_vars => RowInv'
  BY NextRowInv
<1>3. QED
  BY <1>1, <1>2, PTL DEF Spec

(* RowTellsTheAnswers: a row counts one attempt for each Execute and gives *)
(* the status of the last response, whatever failed in between.            *)
THEOREM RowsTellTheAnswers == Spec => []RowTellsTheAnswers
<1>1. RowInv => RowTellsTheAnswers
  <2> SUFFICES ASSUME RowInv, NEW c \in Calls, runs[c].state = "stored"
               PROVE  runs[c].attempts = Len(answers[c]) /\ runs[c].status = LastStatus(c)
    BY DEF RowTellsTheAnswers
  <2>1. AnswerInv(c) /\ Len(answers[c]) = local[c].attempt
    BY DEF RowInv, LedgerInv, TypeInv, TypeOK
  <2>2. QED
    BY <2>1 DEF AnswerInv, StatusIsLast, RowSaysWhatWasHeld
<1>2. QED
  BY <1>1, RowInvAlways, PTL

(* OkRunWasRecorded: the witness is the flow in the call's hands. *)
THEOREM OkRunsWereRecorded == Spec => []OkRunWasRecorded
<1>1. RowInv => OkRunWasRecorded
  <2> SUFFICES ASSUME RowInv, NEW c \in Calls, runs[c].state = "stored", runs[c].ok,
                      answers[c] # <<>>
               PROVE  \E f \in FlowIds : /\ flows[f].by = c
                                         /\ flows[f].attempt = LastAnswered(c)
                                         /\ flows[f].status = LastStatus(c)
                                         /\ LastStatus(c) \in 200..399
    BY DEF OkRunWasRecorded
  <2>1. /\ AnswerInv(c) /\ CallInv(c)
        /\ Len(answers[c]) = local[c].attempt /\ local[c].status \in Nat
        /\ answers[c] \in Seq(Statuses \cup {0})
    BY DEF RowInv, LedgerInv, TypeInv, TypeOK, Local
  <2>2. local[c].attempt # 0
    BY <2>1
  <2>3. local[c].replay # NoFlow /\ Succeeded(local[c].status)
    BY <2>1, <2>2 DEF AnswerInv, RowSaysWhatWasHeld
  <2>4. local[c].replay \in FlowIds /\ flows[local[c].replay].by = c
    BY <2>1, <2>3, HeldFlowIsAFlow DEF RowInv, LedgerInv
  <2>5. pc[c] # "record"
    BY <2>1
  <2>6. /\ flows[local[c].replay].attempt = LastAnswered(c)
        /\ flows[local[c].replay].status = LastStatus(c)
        /\ LastStatus(c) = local[c].status
    BY <2>1, <2>3, <2>5 DEF AnswerInv, HoldsLastFlow, StatusIsLast
  <2>7. \A s \in Nat : Succeeded(s) => s \in 200..399
    BY DEF Succeeded
  <2>8. QED
    BY <2>1, <2>3, <2>4, <2>6, <2>7
<1>2. QED
  BY <1>1, RowInvAlways, PTL

(* NoFinalAnswerLeftOut: a flow of an answer below 500 is the one in the   *)
(* call's hands, and while it is stored the row still names it.            *)
THEOREM NoFinalAnswerIsLeftOut == Spec => []NoFinalAnswerLeftOut
<1>1. RowInv => NoFinalAnswerLeftOut
  <2> SUFFICES ASSUME RowInv, NEW c \in Calls, NEW f \in FlowIds, runs[c].state = "stored",
                      Stored(f), flows[f].by = c, flows[f].status < 500
               PROVE  runs[c].replay = f
    BY DEF NoFinalAnswerLeftOut
  <2>1. AnswerInv(c) /\ pc[c] # "lost"
    BY DEF RowInv, LedgerInv
  <2>2. f = local[c].replay
    BY <2>1 DEF AnswerInv, FinalFlowIsHeld, Stored
  <2>3. QED
    BY <2>1, <2>2 DEF AnswerInv, RowSaysWhatWasHeld
<1>2. QED
  BY <1>1, RowInvAlways, PTL

=============================================================================
