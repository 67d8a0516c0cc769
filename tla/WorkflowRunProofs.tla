------------------------- MODULE WorkflowRunProofs -------------------------
(***************************************************************************)
(* Proofs about WorkflowRun for every set of workflows, whatever outputs   *)
(* their steps are bound to, every set of statuses and flows, and any      *)
(* prunes between the steps.                                               *)
(***************************************************************************)
EXTENDS WorkflowRun, WellFoundedInduction, TLAPS

InStep == {"replay", "assert", "refresh", "extract"}

CallType == [pc : {"idle", "next", "done", "error"} \cup Running,
             step : Nat, retried : BOOLEAN,
             outputs : SUBSET (Nat \X Nat), stepRuns : Seq(StepRun), ok : BOOLEAN]

Types ==
  /\ stored \subseteq FlowIds
  /\ replays \in Seq(Replay)
  /\ params \in [workflow : Workflows \cup {<<>>}, dry : BOOLEAN, refresh : FlowIds \cup {NoFlow}]
  /\ call \in CallType
  /\ row \in [state : {"free", "stored"}, ok : BOOLEAN, stepRuns : Seq(StepRun)]
  /\ serving \in BOOLEAN

(* Where the run is, and how many replays that can have cost: three a step *)
(* that is over, and of the current step as many as it has made.           *)
Before(n) == 3 * (n - 1)

Progress ==
  /\ call.pc = "idle" => call.step = 0 /\ replays = <<>> /\ call.outputs = {}
  /\ call.pc = "next" => call.step \in 0..Len(Workflow) /\ Len(replays) <= 3 * call.step
  /\ call.pc \in InStep => call.step \in 1..Len(Workflow)
  /\ call.pc = "replay" =>
       Len(replays) <= Before(call.step) + (IF call.retried THEN 2 ELSE 0)
  /\ call.pc = "assert" =>
       Len(replays) <= Before(call.step) + (IF call.retried THEN 3 ELSE 1)
  /\ call.pc = "refresh" => Len(replays) <= Before(call.step) + 1 /\ ~call.retried
  /\ call.pc = "extract" => Len(replays) <= 3 * call.step
  /\ call.pc \in {"insert", "done", "error"} =>
       call.step \in 0..(Len(Workflow) + 1) /\ Len(replays) <= 3 * Len(Workflow)

LEMMA WorkflowFact ==
  ASSUME Types
  PROVE  /\ Workflow \in Seq(Step) /\ Len(Workflow) \in Nat
         /\ DOMAIN Workflow = 1..Len(Workflow)
         /\ \A n \in 1..Len(Workflow) : Workflow[n] \in Step
<1>1. Workflow \in Workflows \cup {<<>>}
  BY DEF Types, Workflow
<1>2. Workflow \in Seq(Step)
  <2>1. CASE Workflow = <<>>
    BY <2>1
  <2>2. CASE Workflow \in Workflows
    BY <2>2, WorkflowAssumption
  <2>3. QED
    BY <1>1, <2>1, <2>2
<1>3. QED
  BY <1>2

(* The loop goes to the first included step after n, or past the end. *)
LEMMA NextStepFact ==
  ASSUME Types, NEW n \in 0..Len(Workflow)
  PROVE  /\ NextStep(n) \in (n + 1)..(Len(Workflow) + 1)
         /\ \A m \in (n + 1)..Len(Workflow) : m < NextStep(n) => ~Workflow[m].included
         /\ NextStep(n) <= Len(Workflow) => Workflow[NextStep(n)].included
<1> DEFINE rest == {m \in (n + 1)..Len(Workflow) : Workflow[m].included}
<1>1. Len(Workflow) \in Nat /\ n \in Nat
  BY WorkflowFact
<1>2. CASE rest = {}
  <2>1. NextStep(n) = Len(Workflow) + 1
    BY <1>2 DEF NextStep
  <2>2. QED
    BY <1>1, <1>2, <2>1
<1>3. CASE rest # {}
  <2>1. \E m \in rest : \A k \in rest : m <= k
    <3>1. rest \subseteq Nat
      BY <1>1
    <3>2. PICK m \in rest : \A k \in rest : <<k, m>> \notin OpToRel(<, Nat)
      BY <1>3, <3>1, WFMin, NatLessThanWellFounded
    <3>3. \A k \in rest : ~(k < m)
      BY <3>1, <3>2 DEF OpToRel
    <3>4. QED
      BY <3>1, <3>3
  <2>2. NextStep(n) = CHOOSE m \in rest : \A k \in rest : m <= k
    BY <1>3 DEF NextStep
  <2>3. NextStep(n) \in rest /\ \A k \in rest : NextStep(n) <= k
    BY <2>1, <2>2
  <2>4. QED
    BY <1>1, <2>3
<1>4. QED
  BY <1>2, <1>3

Outputs == SUBSET (Nat \X Nat)

(* What the replay of step n can be. *)
LEMMA NoRowFact ==
  ASSUME NEW n \in Nat, NEW from \in Outputs
  PROVE  NoRow(n, from) \in Replay /\ NoRow(n, from).step = n /\ NoRow(n, from).from = from
  BY DEF NoRow, Replay, Outputs

LEMMA SentRowFact ==
  ASSUME NEW n \in Nat, NEW from \in Outputs
  PROVE  \A s \in Statuses \cup {0}, kept \in BOOLEAN :
           /\ SentRow(n, from, s, kept) \in Replay /\ SentRow(n, from, s, kept).step = n
           /\ SentRow(n, from, s, kept).from = from /\ SentRow(n, from, s, kept).row = "stored"
  BY StatusAssumption DEF SentRow, Replay, Succeeded, Outputs

LEMMA RowsFact ==
  ASSUME NEW n \in Nat, NEW f, NEW from \in Outputs, NEW dry
  PROVE  \A r \in RowsOf(n, f, from, dry) :
           r \in Replay /\ r.step = n /\ r.from = from /\ r.row = "stored" /\ (dry = TRUE => r.ok = TRUE)
<1> SUFFICES ASSUME NEW r \in RowsOf(n, f, from, dry)
             PROVE  r \in Replay /\ r.step = n /\ r.from = from /\ r.row = "stored"
                    /\ (dry = TRUE => r.ok = TRUE)
  OBVIOUS
<1>1. /\ DryRow(n, from) \in Replay /\ DryRow(n, from).step = n /\ DryRow(n, from).from = from
      /\ DryRow(n, from).row = "stored" /\ DryRow(n, from).ok = TRUE
  BY DEF NoRow, DryRow, Replay, Outputs
<1>2. CASE dry
  BY <1>1, <1>2 DEF RowsOf
<1>3. CASE ~dry
  <2>1. \/ r = SentRow(n, from, 0, FALSE)
        \/ \E a \in Statuses \X BOOLEAN : r = SentRow(n, from, a[1], a[2])
    BY <1>3 DEF RowsOf
  <2>2. PICK s \in Statuses \cup {0}, kept \in BOOLEAN : r = SentRow(n, from, s, kept)
    BY <2>1
  <2>3. QED
    BY <1>3, <2>2, SentRowFact
<1>4. QED
  BY <1>2, <1>3

LEMMA PairIsASeq == ASSUME NEW S, NEW a \in S, NEW b \in S PROVE <<a, b>> \in Seq(S)
  OBVIOUS

LEMMA StepRunFact ==
  ASSUME Types, NEW k \in DOMAIN replays, NEW ok \in BOOLEAN
  PROVE  /\ StepRunOf(k, ok) \in StepRun
         /\ replays[k].row # "none" => StepRunOf(k, ok).replay = k
<1>1. k \in Nat /\ replays[k] \in Replay
  BY DEF Types
<1>2. QED
  BY <1>1 DEF StepRunOf, StepRun, Replay, NoReplay

-----------------------------------------------------------------------------
(* The outputs.                                                            *)
(*                                                                         *)
(* b is of the last replay of its step, and that one was ok.               *)
Good(b) ==
  /\ b[1] \in 1..Len(Workflow) /\ b[2] \in DOMAIN replays
  /\ replays[b[2]].step = b[1] /\ replays[b[2]].ok
  /\ \A j \in DOMAIN replays : replays[j].step = b[1] => j <= b[2]

(* The step n is over: its outputs are in the map, if it has any. *)
Over(n) == n < call.step \/ (n = call.step /\ call.pc = "next")

OutputsOK ==
  /\ \A b \in call.outputs : Good(b) /\ Over(b[1])
  /\ call.pc \in InStep \cup {"next"} =>
       \A n \in 1..Len(Workflow) :
         Over(n) /\ Workflow[n].included /\ Workflow[n].extract =>
           \E k \in Nat : <<n, k>> \in call.outputs

(* No replay is of a step that the run has not come to, and what it sends  *)
(* is of replays.                                                          *)
ReplaysOK ==
  \A k \in DOMAIN replays :
    /\ replays[k].step <= call.step /\ replays[k].step \in 0..Len(Workflow)
    /\ replays[k].step # Refresh => \A b \in replays[k].from : b[2] \in DOMAIN replays

(* The response that is judged is the last one, and it was ok when it has  *)
(* passed.                                                                 *)
JudgedOK ==
  /\ call.pc \in {"assert", "refresh", "extract"} => LastReplay \in DOMAIN replays
  /\ call.pc \in {"assert", "extract"} =>
       /\ replays[LastReplay].step = call.step
       /\ replays[LastReplay].row # "none"
  /\ call.pc = "assert" /\ params.dry => replays[LastReplay].ok
  /\ call.pc = "extract" =>
       replays[LastReplay].ok /\ call.stepRuns # <<>> /\ Accepted(call.step) = LastReplay

(* The current step is included, and the outputs are of steps that are and *)
(* that extract.                                                           *)
Gives(n) == Workflow[n].included /\ Workflow[n].extract

TurnOK ==
  /\ call.pc \in InStep => Workflow[call.step].included
  /\ \A b \in call.outputs : Gives(b[1])

RunInv ==
  /\ Types /\ Progress /\ OutputsOK /\ ReplaysOK /\ JudgedOK /\ TurnOK
  /\ BoundToAcceptedResponses

LEMMA TurnKept ==
  ASSUME TurnOK, params' = params, call'.step = call.step, call'.outputs = call.outputs,
         call'.pc \in InStep => call.pc \in InStep
  PROVE  TurnOK'
BY DEF TurnOK, Gives, Workflow

LEMMA RunInitInv == Init => RunInv
<1> SUFFICES ASSUME Init PROVE RunInv
  OBVIOUS
<1>1. Types
  BY DEF Init, Types, CallType
<1>2. Progress /\ OutputsOK /\ ReplaysOK /\ JudgedOK /\ TurnOK /\ BoundToAcceptedResponses
  BY DEF Init, Progress, OutputsOK, ReplaysOK, JudgedOK, TurnOK, BoundToAcceptedResponses, InStep,
         Workflow
<1>3. QED
  BY <1>1, <1>2 DEF RunInv

LEMMA BeginInv ==
  ASSUME RunInv, NEW w \in Workflows, NEW dry \in BOOLEAN, NEW f \in FlowIds \cup {NoFlow},
         RunBegins(w, dry, f)
  PROVE  RunInv'
<1>1. /\ call \in CallType /\ replays = <<>> /\ replays' = <<>>
      /\ call.outputs = {} /\ call.step = 0
  BY DEF RunInv, Types, Progress, RunBegins
<1>2. /\ call'.pc = "next" /\ call'.step = 0 /\ call'.outputs = {} /\ call' \in CallType
      /\ params' = [workflow |-> w, dry |-> dry, refresh |-> f]
  BY <1>1 DEF RunBegins, Turn, CallType
<1>3. Types'
  BY <1>1, <1>2 DEF RunInv, Types, RunBegins
<1>4. Workflow' = w /\ Len(w) \in Nat
  BY <1>2, WorkflowAssumption DEF Workflow
<1>5. Progress' /\ OutputsOK' /\ ReplaysOK' /\ JudgedOK' /\ TurnOK' /\ BoundToAcceptedResponses'
  BY <1>1, <1>2, <1>4 DEF Progress, OutputsOK, Over, InStep, ReplaysOK, JudgedOK, TurnOK,
                          BoundToAcceptedResponses
<1>6. QED
  BY <1>3, <1>5 DEF RunInv

(* Steps that leave the replays and the workflow alone. *)
LEMMA QuietFact ==
  ASSUME Types, ReplaysOK, BoundToAcceptedResponses, replays' = replays, params' = params,
         call'.step >= call.step, call'.step \in Nat
  PROVE  /\ ReplaysOK' /\ BoundToAcceptedResponses' /\ Workflow' = Workflow
         /\ \A b : Good(b) => Good(b)'
<1>1. Workflow' = Workflow /\ call.step \in Nat
  BY DEF Workflow, Types, CallType
<1>2. ReplaysOK'
  <2>1. \A k \in DOMAIN replays : replays[k].step \in Nat
    BY WorkflowFact DEF ReplaysOK
  <2>2. QED
    BY <1>1, <2>1 DEF ReplaysOK
<1>3. BoundToAcceptedResponses'
  BY <1>1 DEF BoundToAcceptedResponses, Givers
<1>4. QED
  BY <1>1, <1>2, <1>3 DEF Good

LEMMA TurnInv == ASSUME RunInv, StepTurn PROVE RunInv'
<1> DEFINE n == NextStep(call.step)
<1>1. /\ call \in CallType /\ call.pc = "next" /\ replays' = replays /\ params' = params
      /\ call.step \in 0..Len(Workflow) /\ Len(Workflow) \in Nat
  BY WorkflowFact DEF RunInv, Types, StepTurn, Progress
<1>2. /\ n \in (call.step + 1)..(Len(Workflow) + 1)
      /\ \A m \in (call.step + 1)..Len(Workflow) : m < n => ~Workflow[m].included
  BY <1>1, NextStepFact DEF RunInv
<1> HIDE DEF n
<1>3. /\ call'.pc = IF n <= Len(Workflow) THEN "replay" ELSE "insert"
      /\ call'.step = n /\ call'.outputs = call.outputs /\ ~call'.retried
      /\ call' \in CallType
  <2>1. n \in Nat
    BY <1>1, <1>2
  <2>2. call' = [call EXCEPT !.step = n, !.retried = FALSE,
                             !.pc = IF n <= Len(Workflow) THEN "replay" ELSE "insert"]
    BY DEF StepTurn, Turn, n
  <2>3. QED
    BY <1>1, <2>1, <2>2 DEF CallType, Running
<1>4. Types'
  BY <1>3 DEF RunInv, Types, StepTurn
<1>5. /\ ReplaysOK' /\ BoundToAcceptedResponses' /\ Workflow' = Workflow
      /\ \A b : Good(b) => Good(b)'
  BY <1>1, <1>2, <1>3, QuietFact DEF RunInv
<1>6. Len(replays) \in Nat /\ Len(replays) <= 3 * call.step
  BY <1>1 DEF RunInv, Types, Progress
<1>7. Progress'
  BY <1>1, <1>2, <1>3, <1>5, <1>6 DEF Progress, Before, InStep
<1>8. OutputsOK'
  <2>1. ASSUME NEW b \in call.outputs PROVE Good(b)' /\ Over(b[1])'
    BY SMTT(20), <1>1, <1>2, <1>3, <1>5, <2>1 DEF RunInv, OutputsOK, Over, Good
  <2>2. ASSUME NEW m \in 1..Len(Workflow), Over(m)', Workflow[m].included, Workflow[m].extract
        PROVE  \E k \in Nat : <<m, k>> \in call.outputs
    <3>1. m < n
      BY <1>3, <2>2 DEF Over
    <3>2. Over(m)
      BY <1>1, <1>2, <2>2, <3>1 DEF Over
    <3>3. QED
      BY <1>1, <2>2, <3>2 DEF RunInv, OutputsOK
  <2>3. QED
    BY <1>3, <1>5, <2>1, <2>2 DEF OutputsOK
<1>9. JudgedOK'
  BY <1>3 DEF JudgedOK
<1>10. TurnOK'
  <2>1. n <= Len(Workflow) => Workflow[n].included
    BY <1>1, NextStepFact DEF RunInv, n
  <2>2. call'.pc \in InStep => Workflow'[call'.step].included
    BY <1>3, <1>5, <2>1 DEF InStep
  <2>3. \A b \in call'.outputs : Gives(b[1])'
    BY <1>3, <1>5 DEF RunInv, TurnOK, Gives
  <2>4. QED
    BY <2>2, <2>3 DEF TurnOK
<1>11. QED
  BY <1>4, <1>5, <1>7, <1>8, <1>9, <1>10 DEF RunInv

(* A replay is added: of the current step, or of a refresh.               *)
LEMMA ReplayAdded ==
  ASSUME RunInv, NEW r \in Replay, replays' = Append(replays, r), params' = params,
         call.pc \in {"replay", "refresh"}, call'.step = call.step,
         r.step \in {call.step, Refresh},
         r.step # Refresh => r.from = Bound(call.step)
  PROVE  /\ ReplaysOK' /\ BoundToAcceptedResponses' /\ Workflow' = Workflow
         /\ \A b \in call.outputs : Good(b)'
         /\ Len(replays') = Len(replays) + 1 /\ replays' \in Seq(Replay)
         /\ LastReplay' \in DOMAIN replays' /\ replays'[LastReplay'] = r
<1> DEFINE n == call.step
           z == Len(replays)
<1>1. /\ replays \in Seq(Replay) /\ z \in Nat /\ DOMAIN replays = 1..z
      /\ n \in 1..Len(Workflow) /\ Len(Workflow) \in Nat
  BY WorkflowFact DEF RunInv, Types, Progress, InStep
<1>2. /\ replays' \in Seq(Replay) /\ Len(replays') = z + 1 /\ DOMAIN replays' = 1..(z + 1)
      /\ \A k \in 1..z : replays'[k] = replays[k]
      /\ replays'[z + 1] = r
  BY <1>1
<1> HIDE DEF z
<1>3. Workflow' = Workflow
  BY DEF Workflow
<1>4. ASSUME NEW b \in call.outputs
      PROVE  Good(b)' /\ Good(b) /\ b[1] < n /\ Gives(b[1])
  <2>1. Good(b) /\ b[1] < n /\ Gives(b[1])
    BY <1>1, <1>4 DEF RunInv, OutputsOK, Over, TurnOK
  <2>2. b[1] # r.step
    BY <1>1, <2>1 DEF Good, Refresh
  <2>3. b[2] \in 1..z
    BY <1>1, <2>1 DEF Good
  <2>4. \A j \in DOMAIN replays' : replays'[j].step = b[1] => j <= b[2]
    BY <1>1, <1>2, <2>1, <2>2 DEF Good
  <2>5. QED
    BY <1>1, <1>2, <1>3, <2>1, <2>3, <2>4 DEF Good
<1>5. r.step # Refresh => /\ {b[1] : b \in r.from} = Givers(n)
                          /\ \A b \in r.from : Good(b)' /\ b[2] <= z
  <2>1. SUFFICES ASSUME r.step # Refresh
                 PROVE  /\ {b[1] : b \in Bound(n)} = Givers(n)
                        /\ \A b \in Bound(n) : Good(b)' /\ b[2] <= z
    OBVIOUS
  <2>2. \A b \in Bound(n) : b \in call.outputs /\ b[1] \in Workflow[n].binds
    BY DEF Bound
  <2>3. ASSUME NEW p \in Givers(n) PROVE \E b \in Bound(n) : b[1] = p
    <3>1. p \in Workflow[n].binds /\ p \in 1..(n - 1) /\ p \in 1..Len(Workflow) /\ Gives(p)
      BY <1>1, <2>3 DEF Givers, Gives
    <3>2. Over(p)
      BY <1>1, <3>1 DEF Over
    <3>3. PICK k \in Nat : <<p, k>> \in call.outputs
      BY <3>1, <3>2 DEF RunInv, OutputsOK, InStep, Gives
    <3>4. <<p, k>> \in Bound(n) /\ <<p, k>>[1] = p
      BY <3>1, <3>3 DEF Bound
    <3>5. QED
      BY <3>4
  <2>4. \A b \in Bound(n) : Good(b)' /\ b[2] <= z
    BY <1>1, <1>4, <2>2 DEF Good
  <2>5. \A b \in Bound(n) : b[1] \in Givers(n)
    BY <1>1, <1>4, <2>2 DEF Good, Givers, Gives
  <2>6. QED
    BY <2>3, <2>4, <2>5
<1>6. ASSUME NEW k \in 1..z, replays[k].step # Refresh, NEW b \in replays[k].from
      PROVE  \A j \in DOMAIN replays' : replays'[j].step = b[1] => j <= b[2]
  <2>1. b[1] \in Givers(replays[k].step)
    BY <1>1, <1>6 DEF RunInv, BoundToAcceptedResponses
  <2>2. replays[k].step \in 1..Len(Workflow) /\ replays[k].step <= n
    BY <1>1, <1>6 DEF RunInv, ReplaysOK, Refresh
  <2>3. b[1] \in 1..(replays[k].step - 1)
    BY <2>1 DEF Givers
  <2>4. b[1] # r.step
    BY <1>1, <2>2, <2>3 DEF Refresh
  <2>5. \A j \in 1..z : replays[j].step = b[1] => j <= b[2]
    BY <1>1, <1>6 DEF RunInv, BoundToAcceptedResponses
  <2>6. ASSUME NEW j \in DOMAIN replays', replays'[j].step = b[1] PROVE j <= b[2]
    <3>1. j # z + 1
      BY <1>2, <2>4, <2>6
    <3>2. j \in 1..z /\ replays[j].step = b[1]
      BY <1>1, <1>2, <2>6, <3>1
    <3>3. QED
      BY <2>5, <3>2
  <2>7. QED
    BY <2>6
<1>7. ReplaysOK'
  <2>1. ASSUME NEW k \in 1..z
        PROVE  /\ replays[k].step <= n /\ replays[k].step \in 0..Len(Workflow)
               /\ replays[k].step # Refresh => \A b \in replays[k].from : b[2] \in 1..z
    BY <1>1 DEF RunInv, ReplaysOK
  <2>2. /\ r.step <= n /\ r.step \in 0..Len(Workflow)
        /\ r.step # Refresh => \A b \in r.from : b[2] \in 1..(z + 1)
    BY <1>1, <1>2, <1>5 DEF Refresh, Good
  <2>3. QED
    BY <1>1, <1>2, <1>3, <2>1, <2>2 DEF ReplaysOK
<1>8. BoundToAcceptedResponses'
  <2>1. ASSUME NEW k \in DOMAIN replays', replays'[k].step # Refresh
        PROVE  /\ {b[1] : b \in replays'[k].from} = Givers(replays'[k].step)
               /\ \A b \in replays'[k].from :
                    /\ b[2] < k
                    /\ replays'[b[2]].step = b[1] /\ replays'[b[2]].ok
                    /\ \A j \in DOMAIN replays' : replays'[j].step = b[1] => j <= b[2]
    <3>1. CASE k = z + 1
      <4>1. replays'[k] = r /\ r.step = n
        BY <1>2, <2>1, <3>1
      <4>2. QED
        BY <1>1, <1>5, <2>1, <3>1, <4>1 DEF Good
    <3>2. CASE k \in 1..z
      <4>1. replays'[k] = replays[k] /\ replays[k].step # Refresh
        BY <1>2, <2>1, <3>2
      <4>2. /\ {b[1] : b \in replays[k].from} = Givers(replays[k].step)
            /\ \A b \in replays[k].from :
                 /\ b[2] < k /\ replays[b[2]].step = b[1] /\ replays[b[2]].ok
        BY <1>1, <3>2, <4>1 DEF RunInv, BoundToAcceptedResponses
      <4>3. ASSUME NEW b \in replays[k].from PROVE replays'[b[2]] = replays[b[2]]
        BY <1>1, <1>2, <3>2, <4>1, <4>3 DEF RunInv, ReplaysOK
      <4>4. QED
        BY <1>6, <3>2, <4>1, <4>2, <4>3
    <3>3. k = z + 1 \/ k \in 1..z
      BY <1>1, <1>2
    <3>4. QED
      BY <3>1, <3>2, <3>3
  <2>2. QED
    BY <1>3, <2>1 DEF BoundToAcceptedResponses, Givers
<1>9. QED
  BY <1>2, <1>3, <1>7, <1>4, <1>8 DEF LastReplay, z

(* What ReplayStep can add to the replays. *)
LEMMA ReplayRows ==
  ASSUME RunInv, ReplayStep
  PROVE  /\ NoRow(call.step, Bound(call.step)) \in Replay
         /\ NoRow(call.step, Bound(call.step)).step = call.step
         /\ NoRow(call.step, Bound(call.step)).from = Bound(call.step)
         /\ \A r \in RowsOf(call.step, Workflow[call.step].flow, Bound(call.step), params.dry) :
              r \in Replay /\ r.step = call.step /\ r.from = Bound(call.step) /\ r.row = "stored"
              /\ (params.dry = TRUE => r.ok = TRUE)
<1> DEFINE n == call.step
<1>1. call \in CallType /\ n \in Nat /\ params.dry \in BOOLEAN
  BY WorkflowFact DEF RunInv, Types, CallType
<1>2. Bound(n) \in Outputs
  BY <1>1 DEF Bound, CallType, Outputs
<1>3. \A r \in RowsOf(n, Workflow[n].flow, Bound(n), params.dry) :
        r \in Replay /\ r.step = n /\ r.from = Bound(n) /\ r.row = "stored"
        /\ (params.dry = TRUE => r.ok = TRUE)
  <2> HIDE DEF n
  <2>1. QED
    BY <1>1, <1>2, RowsFact
<1>4. QED
  BY <1>1, <1>2, <1>3, NoRowFact

LEMMA ReplayStepInv == ASSUME RunInv, ReplayStep PROVE RunInv'
<1> DEFINE n == call.step
<1>1. /\ call \in CallType /\ call.pc = "replay" /\ params' = params /\ params.dry \in BOOLEAN
      /\ n \in 1..Len(Workflow) /\ Len(Workflow) \in Nat /\ n # Refresh
      /\ replays \in Seq(Replay) /\ Len(replays) \in Nat
      /\ Len(replays) <= Before(n) + (IF call.retried THEN 2 ELSE 0)
  BY WorkflowFact DEF RunInv, Types, Progress, InStep, ReplayStep, Refresh
<1>4. /\ NoRow(n, Bound(n)) \in Replay /\ NoRow(n, Bound(n)).step = n
      /\ NoRow(n, Bound(n)).from = Bound(n)
      /\ \A r \in RowsOf(n, Workflow[n].flow, Bound(n), params.dry) :
           r \in Replay /\ r.step = n /\ r.from = Bound(n) /\ r.row = "stored"
           /\ (params.dry = TRUE => r.ok = TRUE)
  BY ReplayRows
<1>5. CASE \E r \in RowsOf(n, Workflow[n].flow, Bound(n), params.dry) :
             replays' = Append(replays, r) /\ call' = Goto("assert")
  <2>1. PICK r \in Replay : /\ replays' = Append(replays, r) /\ call' = Goto("assert")
                            /\ r.step = n /\ r.from = Bound(n) /\ r.row = "stored"
                            /\ params.dry = TRUE => r.ok = TRUE
    BY <1>4, <1>5
  <2>2. /\ call'.pc = "assert" /\ call'.step = n /\ call'.outputs = call.outputs
        /\ call'.retried = call.retried /\ call' \in CallType
    BY <1>1, <2>1 DEF Goto, CallType, Running
  <2>3. /\ ReplaysOK' /\ BoundToAcceptedResponses' /\ Workflow' = Workflow
        /\ \A b \in call.outputs : Good(b)'
        /\ Len(replays') = Len(replays) + 1 /\ replays' \in Seq(Replay)
        /\ LastReplay' \in DOMAIN replays' /\ replays'[LastReplay'] = r
    BY <1>1, <2>1, <2>2, ReplayAdded
  <2>4. Types'
    BY <2>2, <2>3 DEF RunInv, Types, ReplayStep
  <2>5. Progress'
    BY <1>1, <2>2, <2>3 DEF Progress, Before, InStep
  <2>6. OutputsOK'
    BY <1>1, <2>2, <2>3 DEF RunInv, OutputsOK, Over, InStep
  <2>7. JudgedOK'
    BY <1>1, <2>1, <2>2, <2>3 DEF JudgedOK
  <2>8. TurnOK'
    BY <1>1, <2>2, TurnKept DEF RunInv, InStep
  <2>9. QED
    BY <2>3, <2>4, <2>5, <2>6, <2>7, <2>8 DEF RunInv
<1>6. CASE /\ replays' = Append(replays, NoRow(n, Bound(n)))
           /\ call' = [Goto("insert") EXCEPT !.ok = FALSE,
                !.stepRuns = Append(@, [step |-> n, replay |-> NoReplay, ok |-> FALSE, status |-> 0])]
  <2>1. [step |-> n, replay |-> NoReplay, ok |-> FALSE, status |-> 0] \in StepRun
    BY <1>1 DEF StepRun, NoReplay
  <2>2. /\ call'.pc = "insert" /\ call'.step = n /\ call'.outputs = call.outputs
        /\ call' \in CallType
    <3>1. Append(call.stepRuns, [step |-> n, replay |-> NoReplay, ok |-> FALSE, status |-> 0])
            \in Seq(StepRun)
      BY <1>1, <2>1 DEF CallType
    <3>2. QED
      BY <1>1, <1>6, <3>1 DEF Goto, CallType, Running
  <2>3. /\ ReplaysOK' /\ BoundToAcceptedResponses' /\ Workflow' = Workflow
        /\ \A b \in call.outputs : Good(b)'
        /\ Len(replays') = Len(replays) + 1 /\ replays' \in Seq(Replay)
    BY <1>1, <1>4, <1>6, <2>2, ReplayAdded
  <2>4. Types'
    BY <2>2, <2>3 DEF RunInv, Types, ReplayStep
  <2>5. Progress'
    BY <1>1, <2>2, <2>3 DEF Progress, Before, InStep
  <2>6. OutputsOK'
    BY <1>1, <2>2, <2>3 DEF RunInv, OutputsOK, Over, InStep
  <2>7. JudgedOK'
    BY <2>2 DEF JudgedOK
  <2>8. TurnOK'
    BY <1>1, <2>2, TurnKept DEF RunInv, InStep
  <2>9. QED
    BY <2>3, <2>4, <2>5, <2>6, <2>7, <2>8 DEF RunInv
<1>7. QED
  BY <1>1, <1>5, <1>6 DEF ReplayStep

LEMMA RefreshAdds ==
  ASSUME NEW r \in RowsOf(Refresh, params.refresh, {}, FALSE) \cup {NoRow(Refresh, {})}
  PROVE  r \in Replay /\ r.step = Refresh
<1>1. Refresh \in Nat /\ {} \in Outputs
  BY DEF Refresh, Outputs
<1>2. CASE r \in RowsOf(Refresh, params.refresh, {}, FALSE)
  <2>1. \/ r = SentRow(Refresh, {}, 0, FALSE)
        \/ \E a \in Statuses \X BOOLEAN : r = SentRow(Refresh, {}, a[1], a[2])
    BY <1>2 DEF RowsOf
  <2>2. PICK s \in Statuses \cup {0}, kept \in BOOLEAN : r = SentRow(Refresh, {}, s, kept)
    BY <2>1
  <2>3. QED
    BY <1>1, <2>2, SentRowFact
<1>3. CASE r = NoRow(Refresh, {})
  BY <1>1, <1>3, NoRowFact
<1>4. QED
  BY <1>2, <1>3

LEMMA RefreshInv == ASSUME RunInv, RefreshAuth PROVE RunInv'
<1> DEFINE n == call.step
<1>1. /\ call \in CallType /\ call.pc = "refresh" /\ params' = params
      /\ n \in 1..Len(Workflow) /\ Len(Workflow) \in Nat /\ n # Refresh
      /\ replays \in Seq(Replay) /\ Len(replays) \in Nat
      /\ Len(replays) <= Before(n) + 1
  BY WorkflowFact DEF RunInv, Types, Progress, InStep, RefreshAuth, Refresh
<1>2. PICK r \in RowsOf(Refresh, params.refresh, {}, FALSE) \cup {NoRow(Refresh, {})} :
        /\ replays' = Append(replays, r)
        /\ call' = AfterRefresh([call EXCEPT !.stepRuns = @ \o RefreshRuns(r, LastReplay)], r)
  BY DEF RefreshAuth
<1>3. r \in Replay /\ r.step = Refresh
  BY <1>2, RefreshAdds
<1>4. RefreshRuns(r, LastReplay) \in Seq(StepRun)
  <2>1. LastReplay \in DOMAIN replays
    BY <1>1 DEF RunInv, JudgedOK
  <2>2. StepRunOf(LastReplay, FALSE) \in StepRun
    BY <2>1, StepRunFact DEF RunInv
  <2>3. [step |-> Refresh, replay |-> IF r.row = "none" THEN NoReplay ELSE LastReplay + 1,
         ok |-> r.ok, status |-> r.status] \in StepRun
    BY <1>1, <1>3 DEF StepRun, Replay, NoReplay, LastReplay
  <2>4. QED
    BY <2>2, <2>3, PairIsASeq DEF RefreshRuns
<1>5. /\ call'.pc \in {"replay", "insert"} /\ call'.step = n /\ call'.outputs = call.outputs
      /\ call'.pc = "replay" => call'.retried
      /\ call' \in CallType
  <2>1. [call EXCEPT !.stepRuns = @ \o RefreshRuns(r, LastReplay)] \in CallType
    <3>1. call.stepRuns \o RefreshRuns(r, LastReplay) \in Seq(StepRun)
      BY <1>1, <1>4 DEF CallType
    <3>2. QED
      BY <1>1, <3>1 DEF CallType
  <2>2. QED
    BY <1>1, <1>2, <2>1 DEF AfterRefresh, CallType, Running
<1>6. /\ ReplaysOK' /\ BoundToAcceptedResponses' /\ Workflow' = Workflow
      /\ \A b \in call.outputs : Good(b)'
      /\ Len(replays') = Len(replays) + 1 /\ replays' \in Seq(Replay)
  BY <1>1, <1>2, <1>3, <1>5, ReplayAdded
<1>7. Types'
  BY <1>5, <1>6 DEF RunInv, Types, RefreshAuth
<1>8. Progress'
  BY <1>1, <1>5, <1>6 DEF Progress, Before, InStep
<1>9. OutputsOK'
  BY <1>1, <1>5, <1>6 DEF RunInv, OutputsOK, Over, InStep
<1>10. JudgedOK'
  BY <1>5 DEF JudgedOK
<1>11. TurnOK'
  BY <1>1, <1>5, TurnKept DEF RunInv, InStep
<1>12. QED
  BY <1>6, <1>7, <1>8, <1>9, <1>10, <1>11 DEF RunInv

(* What is accepted was ok. *)
LEMMA AssertFact ==
  ASSUME RunInv, call.pc = "assert", NEW n, NEW ok \in Assertions(n, LastReplay)
  PROVE  ok \in BOOLEAN /\ (ok = TRUE => replays[LastReplay].ok = TRUE)
<1>1. LastReplay \in DOMAIN replays /\ replays \in Seq(Replay)
  BY DEF RunInv, JudgedOK, Types
<1>2. replays[LastReplay].ok \in BOOLEAN
  <2>1. replays[LastReplay] \in Replay
    BY <1>1
  <2>2. QED
    BY <2>1 DEF Replay
<1>3. CASE params.dry
  <2>1. replays[LastReplay].ok = TRUE /\ ok = TRUE
    BY <1>2, <1>3 DEF RunInv, JudgedOK, Assertions
  <2>2. QED
    BY <2>1
<1>4. CASE ~params.dry
  BY <1>2, <1>4 DEF Assertions
<1>5. QED
  BY <1>3, <1>4

LEMMA AssertInv == ASSUME RunInv, AssertStep PROVE RunInv'
<1> DEFINE n == call.step
           k == LastReplay
<1>1. /\ call \in CallType /\ call.pc = "assert" /\ replays' = replays /\ params' = params
      /\ n \in 1..Len(Workflow) /\ Len(Workflow) \in Nat
      /\ replays \in Seq(Replay) /\ Len(replays) \in Nat
      /\ Len(replays) <= Before(n) + (IF call.retried THEN 3 ELSE 1)
      /\ k \in DOMAIN replays /\ replays[k].step = n /\ replays[k].row # "none"
  BY WorkflowFact DEF RunInv, Types, Progress, InStep, JudgedOK, AssertStep
<1>2. PICK ok \in Assertions(n, k) :
        call' = IF ~ok /\ RefreshWanted(k) THEN Goto("refresh")
                ELSE [call EXCEPT !.pc = IF ok THEN "extract" ELSE "insert",
                                  !.ok = ok,
                                  !.stepRuns = Append(@, StepRunOf(k, ok))]
  BY DEF AssertStep
<1>3. ok \in BOOLEAN /\ (ok = TRUE => replays[k].ok = TRUE)
  BY <1>1, AssertFact
<1>4. StepRunOf(k, ok) \in StepRun /\ StepRunOf(k, ok).replay = k
  BY <1>1, <1>3, StepRunFact DEF RunInv
<1>5. call.stepRuns \in Seq(StepRun) /\ Append(call.stepRuns, StepRunOf(k, ok)) \in Seq(StepRun)
  BY <1>1, <1>4 DEF CallType
<1>6. CASE ~ok /\ RefreshWanted(k)
  <2>1. /\ call'.pc = "refresh" /\ call'.step = n /\ call'.outputs = call.outputs
        /\ call' \in CallType /\ ~call.retried /\ ~call'.retried
    BY <1>1, <1>2, <1>6 DEF Goto, RefreshWanted, CallType, Running
  <2>2. /\ ReplaysOK' /\ BoundToAcceptedResponses' /\ Workflow' = Workflow
        /\ \A b : Good(b) => Good(b)'
    BY <1>1, <2>1, QuietFact DEF RunInv
  <2>3. Types'
    BY <2>1 DEF RunInv, Types, AssertStep
  <2>4. Progress'
    BY <1>1, <2>1, <2>2 DEF Progress, Before, InStep
  <2>5. OutputsOK'
    BY <1>1, <2>1, <2>2 DEF RunInv, OutputsOK, Over, InStep
  <2>6. JudgedOK'
    BY <1>1, <2>1 DEF JudgedOK, LastReplay
  <2>7. TurnOK'
    BY <1>1, <2>1, TurnKept DEF RunInv, InStep
  <2>8. QED
    BY <2>2, <2>3, <2>4, <2>5, <2>6, <2>7 DEF RunInv
<1>7. CASE ~(~ok /\ RefreshWanted(k))
  <2>1. call' = [call EXCEPT !.pc = IF ok THEN "extract" ELSE "insert", !.ok = ok,
                             !.stepRuns = Append(@, StepRunOf(k, ok))]
    BY <1>2, <1>7
  <2>2. /\ call'.pc = IF ok THEN "extract" ELSE "insert"
        /\ call'.step = n /\ call'.outputs = call.outputs
        /\ call'.stepRuns = Append(call.stepRuns, StepRunOf(k, ok))
        /\ call' \in CallType
    BY <1>1, <1>3, <1>5, <2>1 DEF CallType, Running
  <2>3. /\ ReplaysOK' /\ BoundToAcceptedResponses' /\ Workflow' = Workflow
        /\ \A b : Good(b) => Good(b)'
    BY <1>1, <2>2, QuietFact DEF RunInv
  <2>4. Types'
    BY <2>2 DEF RunInv, Types, AssertStep
  <2>5. Progress'
    BY <1>1, <2>2, <2>3 DEF Progress, Before, InStep
  <2>6. OutputsOK'
    BY <1>1, <2>2, <2>3 DEF RunInv, OutputsOK, Over, InStep
  <2>7. JudgedOK'
    <3>1. CASE ok
      <4>1. call'.stepRuns # <<>> /\ Accepted(n)' = k
        BY <1>4, <1>5, <2>2 DEF Accepted
      <4>2. QED
        BY <1>1, <1>3, <2>2, <3>1, <4>1 DEF JudgedOK, LastReplay
    <3>2. CASE ~ok
      BY <2>2, <3>2 DEF JudgedOK
    <3>3. QED
      BY <3>1, <3>2
  <2>8. TurnOK'
    BY <1>1, <2>2, TurnKept DEF RunInv, InStep
  <2>9. QED
    BY <2>3, <2>4, <2>5, <2>6, <2>7, <2>8 DEF RunInv
<1>8. QED
  BY <1>6, <1>7

LEMMA ExtractInv == ASSUME RunInv, ExtractOutputs PROVE RunInv'
<1> DEFINE n == call.step
           k == Accepted(n)
<1>1. /\ call \in CallType /\ call.pc = "extract" /\ replays' = replays /\ params' = params
      /\ n \in 1..Len(Workflow) /\ Len(Workflow) \in Nat
      /\ replays \in Seq(Replay) /\ Len(replays) \in Nat /\ Len(replays) <= 3 * n
      /\ k = LastReplay /\ k \in DOMAIN replays /\ replays[k].step = n /\ replays[k].ok
  BY WorkflowFact DEF RunInv, Types, Progress, InStep, JudgedOK, ExtractOutputs
<1>2. /\ call'.step = n /\ call' \in CallType
      /\ \/ call'.pc = "next" /\ call'.outputs = call.outputs /\ ~Workflow[n].extract
         \/ /\ call'.pc = "next" /\ call'.outputs = call.outputs \cup {<<n, k>>}
            /\ Workflow[n].extract
         \/ call'.pc = "insert" /\ call'.outputs = call.outputs
  <2>1. call.outputs \cup {<<n, k>>} \in SUBSET (Nat \X Nat)
    BY <1>1 DEF CallType
  <2>2. CASE ~Workflow[n].extract /\ call' = Goto("next")
    BY <1>1, <2>2 DEF Goto, CallType
  <2>3. CASE Workflow[n].extract /\ call' = [Goto("next") EXCEPT !.outputs = @ \cup {<<n, k>>}]
    BY <1>1, <2>1, <2>3 DEF Goto, CallType
  <2>4. CASE call' = [Goto("insert") EXCEPT !.ok = FALSE]
    BY <1>1, <2>4 DEF Goto, CallType, Running
  <2>5. QED
    BY <2>2, <2>3, <2>4 DEF ExtractOutputs
<1>3. /\ ReplaysOK' /\ BoundToAcceptedResponses' /\ Workflow' = Workflow
      /\ \A b : Good(b) => Good(b)'
  BY <1>1, <1>2, QuietFact DEF RunInv
<1>4. Types'
  BY <1>2 DEF RunInv, Types, ExtractOutputs
<1>5. Progress'
  BY <1>1, <1>2, <1>3 DEF Progress, InStep
<1>6. OutputsOK'
  <2>1. Good(<<n, k>>)
    <3>1. \A j \in DOMAIN replays : j <= k
      BY <1>1 DEF LastReplay
    <3>2. QED
      BY <1>1, <3>1 DEF Good
  <2>2. ASSUME NEW b \in call'.outputs PROVE Good(b)' /\ Over(b[1])'
    <3>1. CASE b \in call.outputs
      BY <1>1, <1>2, <1>3, <3>1 DEF RunInv, OutputsOK, Over
    <3>2. CASE b = <<n, k>> /\ call'.pc = "next"
      BY <1>2, <1>3, <2>1, <3>2 DEF Over
    <3>3. QED
      BY <1>2, <2>2, <3>1, <3>2
  <2>3. ASSUME call'.pc = "next", NEW m \in 1..Len(Workflow), Over(m)', Workflow[m].included,
               Workflow[m].extract
        PROVE  \E j \in Nat : <<m, j>> \in call'.outputs
    <3>1. CASE m = n
      BY <1>1, <1>2, <2>3, <3>1
    <3>2. CASE m # n
      <4>1. Over(m)
        BY <1>1, <1>2, <2>3, <3>2 DEF Over
      <4>2. PICK j \in Nat : <<m, j>> \in call.outputs
        BY <1>1, <2>3, <4>1 DEF RunInv, OutputsOK, InStep
      <4>3. QED
        BY <1>2, <4>2
    <3>3. QED
      BY <3>1, <3>2
  <2>4. call'.pc \in {"next", "insert"}
    BY <1>2
  <2>5. QED
    BY <1>3, <2>2, <2>3, <2>4 DEF OutputsOK, InStep
<1>7. JudgedOK'
  BY <1>2 DEF JudgedOK
<1>8. TurnOK'
  <2>1. Workflow[n].included
    BY <1>1 DEF RunInv, TurnOK, InStep
  <2>2. \A b \in call'.outputs : Gives(b[1])
    BY <1>2, <2>1 DEF RunInv, TurnOK, Gives
  <2>3. QED
    BY <1>2, <1>3, <2>2 DEF TurnOK, Gives, InStep
<1>9. QED
  BY <1>3, <1>4, <1>5, <1>6, <1>7, <1>8 DEF RunInv

LEMMA InsertInv == ASSUME RunInv, InsertWorkflowRun PROVE RunInv'
<1>1. /\ call \in CallType /\ call.pc = "insert" /\ replays' = replays /\ params' = params
      /\ call'.pc \in {"done", "error"} /\ call'.step = call.step
      /\ call'.outputs = call.outputs /\ call' \in CallType
      /\ call.step \in Nat
  BY DEF RunInv, Types, InsertWorkflowRun, Goto, CallType
<1>2. row' \in [state : {"free", "stored"}, ok : BOOLEAN, stepRuns : Seq(StepRun)]
  BY <1>1 DEF RunInv, Types, InsertWorkflowRun, CallType
<1>3. /\ ReplaysOK' /\ BoundToAcceptedResponses' /\ Workflow' = Workflow
      /\ \A b : Good(b) => Good(b)'
  BY <1>1, QuietFact DEF RunInv
<1>4. Types'
  BY <1>1, <1>2 DEF RunInv, Types, InsertWorkflowRun
<1>5. Progress' /\ OutputsOK' /\ JudgedOK'
  BY <1>1, <1>3 DEF RunInv, Progress, OutputsOK, JudgedOK, Over, InStep
<1>6. TurnOK'
  BY <1>1, TurnKept DEF RunInv, InStep
<1>7. QED
  BY <1>3, <1>4, <1>5, <1>6 DEF RunInv

RowStates == {"none", "stored", "deleted"}

LEMMA PruneFact ==
  ASSUME RunInv, NEW F \in SUBSET stored, NEW K \in SUBSET DOMAIN replays, PruneFlows(F, K)
  PROVE  /\ DOMAIN replays' = DOMAIN replays /\ replays' \in Seq(Replay)
         /\ Len(replays') = Len(replays)
         /\ \A k \in DOMAIN replays :
              /\ replays'[k].step = replays[k].step /\ replays'[k].from = replays[k].from
              /\ replays'[k].ok = replays[k].ok /\ replays'[k].status = replays[k].status
              /\ replays[k].row # "none" <=> replays'[k].row # "none"
<1>1. DOMAIN replays = 1..Len(replays) /\ Len(replays) \in Nat
  BY DEF RunInv, Types
<1>2. \A k \in DOMAIN replays : replays[k] \in Replay
  BY DEF RunInv, Types
<1>3. ASSUME NEW k \in DOMAIN replays
      PROVE  \E a, c \in RowStates : /\ replays'[k] = [replays[k] EXCEPT !.row = a, !.flow = c]
                                     /\ replays[k].row # "none" <=> a # "none"
  <2>1. replays[k].row \in RowStates /\ replays[k].flow \in RowStates
    BY <1>2 DEF Replay, RowStates
  <2>2. replays'[k] =
          [replays[k] EXCEPT
             !.row = IF replays[k].row = "stored" /\ OriginalOf(k) \in F
                     THEN "deleted" ELSE replays[k].row,
             !.flow = IF k \in K THEN "deleted" ELSE replays[k].flow]
    BY DEF PruneFlows
  <2>3. QED
    BY <2>1, <2>2 DEF RowStates
<1>4. DOMAIN replays' = DOMAIN replays
  BY DEF PruneFlows
<1>5. ASSUME NEW k \in DOMAIN replays
      PROVE  /\ replays'[k] \in Replay
             /\ replays'[k].step = replays[k].step /\ replays'[k].from = replays[k].from
             /\ replays'[k].ok = replays[k].ok /\ replays'[k].status = replays[k].status
             /\ replays[k].row # "none" <=> replays'[k].row # "none"
  <2>1. PICK a \in RowStates, c \in RowStates :
          /\ replays'[k] = [replays[k] EXCEPT !.row = a, !.flow = c]
          /\ replays[k].row # "none" <=> a # "none"
    BY <1>3
  <2>2. replays[k] \in Replay
    BY <1>2
  <2>3. QED
    BY <2>1, <2>2 DEF Replay, RowStates
<1>6. replays' \in [1..Len(replays) -> Replay]
  <2>1. replays' = [k \in DOMAIN replays |-> replays'[k]]
    BY DEF PruneFlows
  <2>2. QED
    BY <1>1, <1>5, <2>1
<1>7. replays' \in Seq(Replay) /\ Len(replays') = Len(replays)
  BY <1>1, <1>6
<1>8. QED
  BY <1>4, <1>5, <1>7

LEMMA PruneInv ==
  ASSUME RunInv, NEW F \in SUBSET stored, NEW K \in SUBSET DOMAIN replays, PruneFlows(F, K)
  PROVE  RunInv'
<1>1. /\ replays \in Seq(Replay) /\ params' = params /\ call' = call /\ Workflow' = Workflow
  BY DEF RunInv, Types, PruneFlows, Workflow
<1>2. /\ DOMAIN replays' = DOMAIN replays /\ replays' \in Seq(Replay)
      /\ Len(replays') = Len(replays)
      /\ \A k \in DOMAIN replays :
           /\ replays'[k].step = replays[k].step /\ replays'[k].from = replays[k].from
           /\ replays'[k].ok = replays[k].ok
           /\ replays[k].row # "none" => replays'[k].row # "none"
  BY PruneFact
<1>3. Types'
  BY <1>1, <1>2 DEF RunInv, Types, PruneFlows
<1>4. \A b : Good(b) => Good(b)'
  BY <1>1, <1>2 DEF Good
<1>5. Progress' /\ OutputsOK'
  BY <1>1, <1>2, <1>4 DEF RunInv, Progress, OutputsOK, Over, InStep
<1>6. ReplaysOK'
  BY <1>1, <1>2 DEF RunInv, ReplaysOK
<1>7. JudgedOK'
  BY <1>1, <1>2 DEF RunInv, JudgedOK, LastReplay, Accepted
<1>8. BoundToAcceptedResponses'
  <2>1. ASSUME NEW k \in DOMAIN replays, replays[k].step # Refresh
        PROVE  /\ {b[1] : b \in replays[k].from} = Givers(replays[k].step)
               /\ \A b \in replays[k].from :
                    /\ b[2] \in DOMAIN replays /\ b[2] < k
                    /\ replays'[b[2]].step = b[1] /\ replays'[b[2]].ok
                    /\ \A j \in DOMAIN replays : replays'[j].step = b[1] => j <= b[2]
    BY <1>2, <2>1 DEF RunInv, ReplaysOK, BoundToAcceptedResponses
  <2>2. QED
    BY <1>1, <1>2, <2>1 DEF BoundToAcceptedResponses, Givers
<1>9. TurnOK'
  BY <1>1, TurnKept DEF RunInv
<1>10. QED
  BY <1>3, <1>5, <1>6, <1>7, <1>8, <1>9 DEF RunInv

LEMMA StepInv == RunInv /\ [Next]_vars => RunInv'
<1> SUFFICES ASSUME RunInv, [Next]_vars PROVE RunInv'
  OBVIOUS
<1>1. ASSUME UNCHANGED <<replays, params, call, row>>, stored' = stored, serving' \in BOOLEAN
      PROVE  RunInv'
  <2>1. Types'
    BY <1>1 DEF RunInv, Types
  <2>2. /\ ReplaysOK' /\ BoundToAcceptedResponses' /\ Workflow' = Workflow
        /\ \A b : Good(b) => Good(b)'
    <3>1. call'.step \in Nat /\ call'.step >= call.step
      BY <1>1 DEF RunInv, Types, CallType
    <3>2. QED
      BY <1>1, <3>1, QuietFact DEF RunInv
  <2>3. Progress'
    BY <1>1, <2>2 DEF RunInv, Progress
  <2>4. OutputsOK'
    BY <1>1, <2>2 DEF RunInv, OutputsOK, Over
  <2>5. JudgedOK'
    BY <1>1 DEF RunInv, JudgedOK, LastReplay, Accepted
  <2>6. TurnOK'
    BY <1>1, TurnKept DEF RunInv
  <2>7. QED
    BY <2>1, <2>2, <2>3, <2>4, <2>5, <2>6 DEF RunInv
<1>2. CASE Cancel
  BY <1>1, <1>2 DEF Cancel
<1>3. CASE UNCHANGED vars
  BY <1>1, <1>3 DEF vars, RunInv, Types
<1>4. CASE \E F \in SUBSET stored, K \in SUBSET {k \in DOMAIN replays : replays[k].flow = "stored"} :
             PruneFlows(F, K)
  <2>1. PICK F \in SUBSET stored, K \in SUBSET DOMAIN replays : PruneFlows(F, K)
    BY <1>4
  <2>2. QED
    BY <2>1, PruneInv
<1>5. QED
  BY <1>2, <1>3, <1>4, BeginInv, TurnInv, ReplayStepInv, AssertInv, RefreshInv, ExtractInv,
     InsertInv DEF Next

-----------------------------------------------------------------------------
(* The variables keep their types, and a step costs three replays at most, *)
(* whatever the workflow and however it is refreshed.                      *)
THEOREM TypeCorrect == Spec => []TypeOK
<1>1. RunInv => TypeOK
  BY WorkflowFact DEF RunInv, Types, CallType, Progress, Before, InStep, Running, TypeOK
<1>2. QED
  BY <1>1, RunInitInv, StepInv, PTL DEF Spec

(* A step is sent with exactly the outputs of the earlier steps that it is *)
(* bound to and that run and extract, each of the last and accepted replay *)
(* of its step, for every workflow.                                        *)
THEOREM BindingsHold == Spec => []BoundToAcceptedResponses
<1>1. RunInv => BoundToAcceptedResponses
  BY DEF RunInv
<1>2. QED
  BY <1>1, RunInitInv, StepInv, PTL DEF Spec

-----------------------------------------------------------------------------
(* The attempts at the current step: none, one that is judged, one that    *)
(* was refused, or that one and a refresh that has succeeded.              *)
AttemptsAt(n) == {j \in DOMAIN replays : replays[j].step = n}

Refused(k) == AttemptsAt(call.step) = {k} /\ AuthFailure(replays[k].status)

AttemptsOK ==
  /\ call.pc = "replay" /\ ~call.retried => AttemptsAt(call.step) = {}
  /\ call.pc = "replay" /\ call.retried =>
       /\ LastReplay >= 2 /\ Refused(LastReplay - 1)
       /\ replays[LastReplay].step = Refresh /\ replays[LastReplay].ok
  /\ call.pc = "assert" /\ ~call.retried => AttemptsAt(call.step) = {LastReplay}
  /\ call.pc = "refresh" => Refused(LastReplay)

LEMMA AppendFact ==
  ASSUME Types, NEW r, r \in Replay, replays' = Append(replays, r)
  PROVE  /\ LastReplay \in Nat /\ LastReplay' = LastReplay + 1
         /\ DOMAIN replays = 1..LastReplay /\ DOMAIN replays' = 1..(LastReplay + 1)
         /\ \A k \in 1..LastReplay : replays'[k] = replays[k]
         /\ replays'[LastReplay + 1] = r
  BY DEF Types, LastReplay

LEMMA ReplayAdds ==
  ASSUME RunInv, ReplayStep
  PROVE  \E r \in Replay : r.step = call.step /\ replays' = Append(replays, r)
<1> DEFINE n == call.step
<1>1. \/ replays' = Append(replays, NoRow(n, Bound(n)))
      \/ \E r \in RowsOf(n, Workflow[n].flow, Bound(n), params.dry) : replays' = Append(replays, r)
  BY DEF ReplayStep
<1>2. QED
  BY <1>1, ReplayRows

LEMMA AttemptsStep == RunInv /\ AttemptsOK /\ [Next]_vars => AttemptsOK'
<1> SUFFICES ASSUME RunInv, AttemptsOK, [Next]_vars PROVE AttemptsOK'
  OBVIOUS
<1>1. Types /\ call \in CallType /\ LastReplay \in Nat
  BY DEF RunInv, Types, LastReplay
<1>2. ASSUME call' = call, DOMAIN replays' = DOMAIN replays, LastReplay' = LastReplay,
             \A k \in DOMAIN replays :
               /\ replays'[k].step = replays[k].step /\ replays'[k].ok = replays[k].ok
               /\ replays'[k].status = replays[k].status
      PROVE  AttemptsOK'
  BY <1>1, <1>2 DEF AttemptsOK, AttemptsAt, Refused, RunInv, Types, LastReplay
<1>3. CASE StepTurn
  <2>1. /\ replays' = replays /\ call'.step = NextStep(call.step)
        /\ call'.pc \in {"replay", "insert"} /\ ~call'.retried
    BY <1>1, <1>3 DEF StepTurn, Turn, CallType
  <2>2. call.step \in 0..Len(Workflow) /\ call.step \in Nat /\ Len(Workflow) \in Nat
    BY <1>1, <1>3, WorkflowFact DEF RunInv, Progress, StepTurn
  <2>3. NextStep(call.step) \in (call.step + 1)..(Len(Workflow) + 1)
    BY <1>1, <2>2, NextStepFact
  <2>4. \A k \in DOMAIN replays : replays[k].step <= call.step /\ replays[k].step \in 0..Len(Workflow)
    BY DEF RunInv, ReplaysOK
  <2>5. AttemptsAt(call.step)' = {}
    BY <2>1, <2>2, <2>3, <2>4 DEF AttemptsAt
  <2>6. QED
    BY <2>1, <2>5 DEF AttemptsOK
<1>4. CASE ReplayStep
  <2>1. /\ call.pc = "replay" /\ call'.step = call.step /\ call'.retried = call.retried
        /\ call'.pc \in {"assert", "insert"}
    BY <1>1, <1>4 DEF ReplayStep, Goto, CallType
  <2>2. CASE call'.pc = "assert" /\ ~call.retried
    <3>1. PICK r \in Replay : r.step = call.step /\ replays' = Append(replays, r)
      BY <1>1, <1>4, ReplayAdds
    <3>2. AttemptsAt(call.step) = {}
      BY <2>1, <2>2 DEF AttemptsOK
    <3>3. AttemptsAt(call.step)' = {LastReplay'}
      BY <1>1, <2>1, <3>1, <3>2, AppendFact DEF AttemptsAt
    <3>4. QED
      BY <2>1, <2>2, <3>3 DEF AttemptsOK
  <2>3. CASE ~(call'.pc = "assert" /\ ~call.retried)
    BY <2>1, <2>3 DEF AttemptsOK
  <2>4. QED
    BY <2>2, <2>3
<1>5. CASE AssertStep
  <2>1. /\ replays' = replays /\ call.pc = "assert" /\ call'.step = call.step
        /\ call'.retried = call.retried /\ call'.pc \in {"refresh", "extract", "insert"}
        /\ call'.pc = "refresh" => RefreshWanted(LastReplay)
    BY <1>1, <1>5 DEF AssertStep, Goto, CallType
  <2>2. QED
    BY <2>1 DEF AttemptsOK, AttemptsAt, Refused, RefreshWanted, LastReplay
<1>6. CASE RefreshAuth
  <2>1. PICK r \in RowsOf(Refresh, params.refresh, {}, FALSE) \cup {NoRow(Refresh, {})} :
          /\ replays' = Append(replays, r)
          /\ call' = AfterRefresh([call EXCEPT !.stepRuns = @ \o RefreshRuns(r, LastReplay)], r)
    BY <1>6 DEF RefreshAuth
  <2>2. r \in Replay /\ r.step = Refresh
    BY <2>1, RefreshAdds
  <2>3. /\ call'.step = call.step /\ call'.pc \in {"replay", "insert"}
        /\ call'.pc = "replay" => call'.retried /\ r.ok
    BY <1>1, <2>1 DEF AfterRefresh, CallType
  <2>4. /\ call.pc = "refresh" /\ call.step # Refresh /\ LastReplay \in DOMAIN replays
        /\ Refused(LastReplay)
    BY <1>6, WorkflowFact DEF RefreshAuth, AttemptsOK, RunInv, Progress, InStep, JudgedOK, Refresh
  <2>5. /\ LastReplay' = LastReplay + 1 /\ LastReplay' >= 2
        /\ AttemptsAt(call.step)' = {LastReplay}
        /\ replays'[LastReplay] = replays[LastReplay] /\ replays'[LastReplay'] = r
    BY <1>1, <2>1, <2>2, <2>3, <2>4, AppendFact DEF AttemptsAt, Refused
  <2>6. QED
    BY <1>1, <2>2, <2>3, <2>4, <2>5 DEF AttemptsOK, Refused
<1>7. CASE \E F \in SUBSET stored, K \in SUBSET {k \in DOMAIN replays : replays[k].flow = "stored"} :
             PruneFlows(F, K)
  <2>1. PICK F \in SUBSET stored, K \in SUBSET DOMAIN replays : PruneFlows(F, K)
    BY <1>7
  <2>2. call' = call
    BY <2>1 DEF PruneFlows
  <2>3. QED
    BY <1>2, <2>1, <2>2, PruneFact DEF LastReplay
<1>8. ASSUME NEW w \in Workflows, NEW dry \in BOOLEAN, NEW f \in FlowIds \cup {NoFlow},
             RunBegins(w, dry, f)
      PROVE  AttemptsOK'
  BY <1>1, <1>8 DEF RunBegins, Turn, AttemptsOK, CallType
<1>9. CASE ExtractOutputs \/ InsertWorkflowRun
  <2>1. call'.pc \in {"next", "insert", "done", "error"}
    BY <1>1, <1>9 DEF ExtractOutputs, InsertWorkflowRun, Goto, CallType
  <2>2. QED
    BY <2>1 DEF AttemptsOK
<1>10. CASE Cancel \/ UNCHANGED vars
  BY <1>2, <1>10 DEF Cancel, vars, LastReplay
<1>11. QED
  BY <1>3, <1>4, <1>5, <1>6, <1>7, <1>8, <1>9, <1>10 DEF Next

(* A step is sent a second time only after the target refused it for its   *)
(* authentication and a refresh succeeded, and never a third time.         *)
THEOREM ResendsAreRefreshed == Spec => ResendOnlyAfterRefresh
<1> DEFINE Resend ==
      \A k \in DOMAIN replays' \ DOMAIN replays :
        LET before == {j \in DOMAIN replays : replays[j].step = replays'[k].step} IN
        before # {} /\ replays'[k].step # Refresh =>
          /\ before = {k - 2}
          /\ AuthFailure(replays[k - 2].status)
          /\ replays[k - 1].step = Refresh /\ replays[k - 1].ok
<1>1. Init => AttemptsOK
  BY DEF Init, AttemptsOK
<1>2. RunInv /\ AttemptsOK /\ [Next]_vars => [Resend]_vars
  <2>1. SUFFICES ASSUME RunInv, AttemptsOK, Next, NEW k \in DOMAIN replays' \ DOMAIN replays,
                        AttemptsAt(replays'[k].step) # {}, replays'[k].step # Refresh
                 PROVE  /\ AttemptsAt(replays'[k].step) = {k - 2}
                        /\ AuthFailure(replays[k - 2].status)
                        /\ replays[k - 1].step = Refresh /\ replays[k - 1].ok
    BY DEF AttemptsAt
  <2>2. Types /\ call \in CallType
    BY <2>1 DEF RunInv, Types
  <2>3. CASE \E w \in Workflows, dry \in BOOLEAN, f \in FlowIds \cup {NoFlow} : RunBegins(w, dry, f)
    BY <2>1, <2>3 DEF RunBegins
  <2>4. CASE StepTurn \/ AssertStep \/ ExtractOutputs \/ InsertWorkflowRun \/ Cancel
    BY <2>1, <2>4 DEF StepTurn, AssertStep, ExtractOutputs, InsertWorkflowRun, Cancel
  <2>5. CASE \E F \in SUBSET stored, K \in SUBSET {j \in DOMAIN replays : replays[j].flow = "stored"} :
               PruneFlows(F, K)
    BY <2>1, <2>5 DEF PruneFlows
  <2>6. CASE RefreshAuth
    <3>1. PICK r \in RowsOf(Refresh, params.refresh, {}, FALSE) \cup {NoRow(Refresh, {})} :
            replays' = Append(replays, r)
      BY <2>6 DEF RefreshAuth
    <3>2. r \in Replay /\ r.step = Refresh
      BY RefreshAdds
    <3>3. replays'[k] = r
      BY <2>1, <2>2, <3>1, <3>2, AppendFact
    <3>4. QED
      BY <2>1, <3>2, <3>3
  <2>7. CASE ReplayStep
    <3>1. PICK r \in Replay : r.step = call.step /\ replays' = Append(replays, r)
      BY <2>1, <2>7, ReplayAdds
    <3>2. k = LastReplay + 1 /\ replays'[k] = r /\ LastReplay \in Nat
      BY <2>1, <2>2, <3>1, AppendFact
    <3>3. call.pc = "replay" /\ call.retried \in BOOLEAN /\ AttemptsAt(call.step) # {}
      BY <2>1, <2>2, <2>7, <3>1, <3>2 DEF ReplayStep, CallType
    <3>4. /\ Refused(LastReplay - 1) /\ replays[LastReplay].step = Refresh
          /\ replays[LastReplay].ok
      BY <2>1, <3>3 DEF AttemptsOK
    <3>5. k - 1 = LastReplay /\ k - 2 = LastReplay - 1
      BY <3>2
    <3>6. QED
      BY <3>1, <3>2, <3>4, <3>5 DEF Refused
  <2>8. QED
    BY <2>1, <2>3, <2>4, <2>5, <2>6, <2>7 DEF Next
<1>3. QED
  BY <1>1, <1>2, AttemptsStep, RunInitInv, StepInv, PTL DEF Spec, ResendOnlyAfterRefresh

-----------------------------------------------------------------------------
(* What the list S of step runs says of the run.                           *)
(*                                                                         *)
(* A step that passed did so by an ok replay of it, one of R.              *)
Truthful(S, R) ==
  \A i \in Passed(S) : /\ S[i].replay \in DOMAIN R
                       /\ R[S[i].replay].ok /\ R[S[i].replay].step = S[i].step

(* A step of I, the included ones, is attempted when those before it have  *)
(* passed and no later one has.                                            *)
InTurn(S, I) ==
  \A i \in Attempts(S) :
    /\ S[i].step \in I
    /\ \A n \in I : n < S[i].step => \E j \in Passed(S) : j < i /\ S[j].step = n
    /\ \A j \in Passed(S) : j < i => S[j].step < S[i].step

(* After an attempt that failed there is a refresh or nothing, and after a *)
(* refresh the same step again or nothing.                                 *)
Explained(S) ==
  /\ \A i \in Attempts(S) : S[i].ok \/ i = Len(S) \/ S[i + 1].step = Refresh
  /\ \A i \in DOMAIN S \ Attempts(S) :
       /\ i - 1 \in Attempts(S) \ Passed(S)
       /\ i = Len(S) \/ (S[i].ok /\ S[i + 1].step = S[i - 1].step)

Tells(S, R, I) == Truthful(S, R) /\ InTurn(S, I) /\ Explained(S)

(* The included steps below n are those that have passed. *)
PassedBelow(S, I, n) ==
  /\ \A m \in I : m < n => \E i \in Passed(S) : S[i].step = m
  /\ \A i \in Passed(S) : S[i].step < n

(* An attempt at step n may come next. *)
Expects(S, n) ==
  S = <<>> \/ (S[Len(S)].ok /\ (S[Len(S)].step = Refresh => S[Len(S) - 1].step = n))

(* The list as far as the run has come. *)
ListOK ==
  /\ Tells(call.stepRuns, replays, Included)
  /\ call.pc = "idle" => call.stepRuns = <<>>
  /\ call.pc \in InStep => call.step \in Included
  /\ call.pc \in {"replay", "assert", "refresh"} =>
       PassedBelow(call.stepRuns, Included, call.step) /\ Expects(call.stepRuns, call.step)
  /\ call.pc \in {"next", "extract"} =>
       /\ PassedBelow(call.stepRuns, Included, call.step + 1)
       /\ call.stepRuns = <<>> \/ Len(call.stepRuns) \in Passed(call.stepRuns)
  /\ call.pc \in {"insert", "done", "error"} /\ call.ok =>
       PassedBelow(call.stepRuns, Included, Len(Workflow) + 1)

(* The row is the list of a run that is over. *)
RowOfTheRun ==
  row.state = "stored" =>
    call.pc = "done" /\ row.stepRuns = call.stepRuns /\ row.ok = call.ok

FarInv == ListOK /\ RowOfTheRun

(* The first z replays that stored a row are named in S, once and in their *)
(* order, and nothing else is.                                             *)
Names(S, R, z) ==
  /\ \A i \in DOMAIN S : S[i].replay # NoReplay =>
       S[i].replay \in 1..z /\ R[S[i].replay].row # "none"
  /\ \A k \in 1..z : R[k].row # "none" => \E i \in DOMAIN S : S[i].replay = k
  /\ \A i \in DOMAIN S, j \in DOMAIN S :
       i < j /\ S[i].replay # NoReplay /\ S[j].replay # NoReplay => S[i].replay < S[j].replay

(* The replay that is judged, or refreshed for, is named when that is done.*)
NamesOK ==
  Names(call.stepRuns, replays,
        IF call.pc \in {"assert", "refresh"} THEN LastReplay - 1 ELSE LastReplay)

-----------------------------------------------------------------------------
(* T is S with the entry x at its end. *)
Extends(T, S, x) ==
  /\ S \in Seq(StepRun) /\ T \in Seq(StepRun) /\ x \in StepRun
  /\ Len(T) = Len(S) + 1 /\ T[Len(S) + 1] = x
  /\ \A i \in 1..Len(S) : T[i] = S[i]

LEMMA AppendExtends ==
  ASSUME NEW S \in Seq(StepRun), NEW x \in StepRun
  PROVE  Extends(Append(S, x), S, x)
  BY DEF Extends

LEMMA PairExtends ==
  ASSUME NEW S \in Seq(StepRun), NEW a \in StepRun, NEW b \in StepRun
  PROVE  Extends(S \o <<a, b>>, Append(S, a), b)
<1> DEFINE A == Append(S, a)
           P == S \o <<a, b>>
<1>1. <<a, b>> \in Seq(StepRun) /\ Len(<<a, b>>) = 2 /\ <<a, b>>[1] = a /\ <<a, b>>[2] = b
  BY PairIsASeq
<1>2. /\ Len(S) \in Nat /\ A \in Seq(StepRun) /\ Len(A) = Len(S) + 1 /\ A[Len(S) + 1] = a
      /\ \A i \in 1..Len(S) : A[i] = S[i]
  OBVIOUS
<1>3. /\ P \in Seq(StepRun) /\ Len(P) = Len(S) + 2
      /\ P[Len(S) + 1] = a /\ P[Len(S) + 2] = b
      /\ \A i \in 1..Len(S) : P[i] = S[i]
  BY <1>1
<1>4. ASSUME NEW i \in 1..Len(A) PROVE P[i] = A[i]
  BY <1>2, <1>3
<1>5. QED
  BY <1>2, <1>3, <1>4 DEF Extends

(* What the new entry adds to the attempts. *)
LEMMA ExtendsFact ==
  ASSUME NEW S, NEW T, NEW x, Extends(T, S, x)
  PROVE  /\ Len(S) \in Nat /\ DOMAIN S = 1..Len(S) /\ DOMAIN T = 1..(Len(S) + 1)
         /\ Len(T) = Len(S) + 1 /\ T[Len(S) + 1] = x
         /\ \A i \in 1..Len(S) : S[i] \in StepRun /\ T[i] = S[i]
         /\ Attempts(S) \subseteq 1..Len(S) /\ Passed(S) \subseteq Attempts(S)
         /\ \A i \in 1..Len(S) : /\ i \in Attempts(T) <=> i \in Attempts(S)
                                 /\ i \in Passed(T) <=> i \in Passed(S)
         /\ Len(S) + 1 \in Attempts(T) <=> x.step # Refresh
         /\ Len(S) + 1 \in Passed(T) <=> x.step # Refresh /\ x.ok
         /\ Attempts(T) \subseteq 1..(Len(S) + 1) /\ Passed(T) \subseteq Attempts(T)
<1>1. /\ Len(S) \in Nat /\ DOMAIN S = 1..Len(S) /\ DOMAIN T = 1..(Len(S) + 1)
      /\ \A i \in 1..Len(S) : S[i] \in StepRun /\ T[i] = S[i]
      /\ Len(T) = Len(S) + 1 /\ T[Len(S) + 1] = x
  BY DEF Extends
<1>2. QED
  BY <1>1 DEF Attempts, Passed

LEMMA TruthfulGrows ==
  ASSUME NEW S, NEW T, NEW x, NEW R, Extends(T, S, x), Truthful(S, R),
         x.step # Refresh /\ x.ok =>
           x.replay \in DOMAIN R /\ R[x.replay].ok /\ R[x.replay].step = x.step
  PROVE  Truthful(T, R)
<1>1. SUFFICES ASSUME NEW i \in Passed(T)
               PROVE  /\ T[i].replay \in DOMAIN R
                      /\ R[T[i].replay].ok /\ R[T[i].replay].step = T[i].step
  BY DEF Truthful
<1>2. CASE i = Len(S) + 1
  BY <1>2, ExtendsFact
<1>3. CASE i \in 1..Len(S)
  BY <1>3, ExtendsFact DEF Truthful
<1>4. QED
  BY <1>2, <1>3, ExtendsFact

LEMMA InTurnGrows ==
  ASSUME NEW S, NEW T, NEW x, NEW I, Extends(T, S, x), InTurn(S, I),
         x.step # Refresh => x.step \in I /\ PassedBelow(S, I, x.step)
  PROVE  InTurn(T, I)
<1>1. SUFFICES ASSUME NEW i \in Attempts(T)
               PROVE  /\ T[i].step \in I
                      /\ \A n \in I : n < T[i].step =>
                           \E j \in Passed(T) : j < i /\ T[j].step = n
                      /\ \A j \in Passed(T) : j < i => T[j].step < T[i].step
  BY DEF InTurn
<1>2. CASE i = Len(S) + 1
  <2>1. T[i] = x /\ x.step # Refresh
    BY <1>2, ExtendsFact
  <2>2. ASSUME NEW n \in I, n < x.step PROVE \E j \in Passed(T) : j < i /\ T[j].step = n
    <3>1. PICK j \in Passed(S) : S[j].step = n
      BY <2>1, <2>2 DEF PassedBelow
    <3>2. j \in 1..Len(S) /\ j \in Passed(T) /\ T[j] = S[j] /\ j < i
      BY <1>2, <3>1, ExtendsFact
    <3>3. QED
      BY <3>1, <3>2
  <2>3. ASSUME NEW j \in Passed(T), j < i PROVE T[j].step < x.step
    <3>1. j \in 1..Len(S) /\ j \in Passed(S) /\ T[j] = S[j]
      BY <1>2, <2>3, ExtendsFact
    <3>2. QED
      BY <2>1, <3>1 DEF PassedBelow
  <2>4. QED
    BY <2>1, <2>2, <2>3
<1>3. CASE i \in 1..Len(S)
  <2>1. i \in Attempts(S) /\ T[i] = S[i]
    BY <1>3, ExtendsFact
  <2>2. ASSUME NEW n \in I, n < T[i].step PROVE \E j \in Passed(T) : j < i /\ T[j].step = n
    <3>1. PICK j \in Passed(S) : j < i /\ S[j].step = n
      BY <2>1, <2>2 DEF InTurn
    <3>2. j \in Passed(T) /\ T[j] = S[j]
      BY <3>1, ExtendsFact
    <3>3. QED
      BY <3>1, <3>2
  <2>3. ASSUME NEW j \in Passed(T), j < i PROVE T[j].step < T[i].step
    <3>1. j \in Passed(S) /\ T[j] = S[j]
      BY <1>3, <2>3, ExtendsFact
    <3>2. QED
      BY <2>1, <2>3, <3>1 DEF InTurn
  <2>4. QED
    BY <2>1, <2>2, <2>3 DEF InTurn
<1>4. QED
  BY <1>2, <1>3, ExtendsFact

(* An attempt follows a refresh that was made for it, or a step that has   *)
(* passed; a refresh follows an attempt that failed.                       *)
LEMMA ExplainedGrows ==
  ASSUME NEW S, NEW T, NEW x, Extends(T, S, x), Explained(S),
         x.step # Refresh => Expects(S, x.step),
         x.step = Refresh => Len(S) \in Attempts(S) \ Passed(S)
  PROVE  Explained(T)
<1> DEFINE z == Len(S)
<1>1. /\ z \in Nat /\ DOMAIN T = 1..(z + 1) /\ DOMAIN S = 1..z /\ Len(T) = z + 1
      /\ T[z + 1] = x
  BY ExtendsFact
<1>2. ASSUME NEW i \in Attempts(T)
      PROVE  T[i].ok \/ i = Len(T) \/ T[i + 1].step = Refresh
  <2>1. CASE i = z + 1
    BY <1>1, <2>1
  <2>2. CASE i = z /\ z # 0
    <3>1. i \in Attempts(S) /\ T[i] = S[i] /\ T[i + 1] = x /\ S # <<>>
      BY <1>1, <2>2, ExtendsFact
    <3>2. QED
      BY <2>2, <3>1 DEF Expects
  <2>3. CASE i \in 1..(z - 1)
    <3>1. \A m \in Nat : \A h \in 1..(m - 1) : h \in 1..m /\ h + 1 \in 1..m /\ h # m
      OBVIOUS
    <3>2. i \in 1..z /\ i + 1 \in 1..z /\ i # z
      BY <1>1, <2>3, <3>1
    <3>3. i \in Attempts(S) /\ T[i] = S[i]
      BY <3>2, ExtendsFact
    <3>4. T[i + 1] = S[i + 1]
      BY <3>2, ExtendsFact
    <3>5. QED
      BY <3>2, <3>3, <3>4 DEF Explained
  <2>4. QED
    BY <1>1, <2>1, <2>2, <2>3, ExtendsFact
<1>3. ASSUME NEW i \in DOMAIN T \ Attempts(T)
      PROVE  /\ i - 1 \in Attempts(T) \ Passed(T)
             /\ i = Len(T) \/ (T[i].ok /\ T[i + 1].step = T[i - 1].step)
  <2>1. CASE i = z + 1
    <3>1. x.step = Refresh
      BY <1>3, <2>1, ExtendsFact
    <3>2. i - 1 = z /\ z \in Attempts(S) \ Passed(S) /\ z \in 1..z
      BY <1>1, <2>1, <3>1, ExtendsFact
    <3>3. z \in Attempts(T) \ Passed(T)
      BY <3>2, ExtendsFact
    <3>4. QED
      BY <1>1, <2>1, <3>2, <3>3
  <2>2. CASE i \in 1..z
    <3>1. i \in DOMAIN S \ Attempts(S)
      BY <1>1, <1>3, <2>2, ExtendsFact
    <3>2. /\ i - 1 \in Attempts(S) \ Passed(S)
          /\ i = z \/ (S[i].ok /\ S[i + 1].step = S[i - 1].step)
      BY <3>1 DEF Explained
    <3>3. i - 1 \in 1..z /\ i - 1 \in Attempts(T) \ Passed(T)
      BY <3>2, ExtendsFact
    <3>4. T[i] = S[i] /\ T[i - 1] = S[i - 1]
      BY <2>2, <3>3, ExtendsFact
    <3>5. CASE i = z
      <4>1. S # <<>> /\ S[z].step = Refresh /\ T[i + 1] = x
        BY <1>1, <2>2, <3>1, <3>5 DEF Attempts
      <4>2. z \notin Attempts(S)
        BY <3>1, <3>5
      <4>3. x.step # Refresh /\ S[z].ok /\ S[z - 1].step = x.step
        BY <4>1, <4>2 DEF Expects
      <4>4. QED
        BY <3>3, <3>4, <3>5, <4>1, <4>3
    <3>6. CASE i # z
      <4>1. i + 1 \in 1..z
        BY <1>1, <2>2, <3>6
      <4>2. T[i + 1] = S[i + 1]
        BY <4>1, ExtendsFact
      <4>3. QED
        BY <3>2, <3>3, <3>4, <3>6, <4>2
    <3>7. QED
      BY <3>5, <3>6
  <2>3. QED
    BY <1>1, <1>3, <2>1, <2>2
<1>4. QED
  BY <1>2, <1>3 DEF Explained

(* A step that passed moves the bound by one; another entry leaves it.     *)
LEMMA PassedGrows ==
  ASSUME NEW S, NEW T, NEW x, NEW I, Extends(T, S, x), NEW n \in Nat, PassedBelow(S, I, n),
         I \subseteq Nat
  PROVE  /\ x.step = Refresh \/ ~x.ok => PassedBelow(T, I, n)
         /\ x.step # Refresh /\ x.ok /\ x.step = n => PassedBelow(T, I, n + 1)
<1> DEFINE z == Len(S)
<1>1. /\ z \in Nat /\ \A i \in Passed(S) : i \in 1..z /\ i \in Passed(T) /\ T[i] = S[i]
      /\ \A i \in Passed(S) : S[i] \in StepRun
  BY ExtendsFact
<1>2. \A m \in I : m < n => \E i \in Passed(T) : T[i].step = m
  BY <1>1 DEF PassedBelow
<1>3. \A i \in Passed(T) : i # z + 1 => T[i].step < n /\ T[i].step \in Nat
  <2>1. SUFFICES ASSUME NEW i \in Passed(T), i # z + 1 PROVE T[i].step < n /\ T[i].step \in Nat
    OBVIOUS
  <2>2. i \in Passed(S)
    BY <2>1, ExtendsFact
  <2>3. QED
    BY <1>1, <2>2 DEF PassedBelow, StepRun
<1>4. z + 1 \in Passed(T) <=> x.step # Refresh /\ x.ok
  BY ExtendsFact
<1>5. ASSUME x.step = Refresh \/ ~x.ok PROVE PassedBelow(T, I, n)
  <2>1. \A i \in Passed(T) : T[i].step < n
    BY <1>3, <1>4, <1>5
  <2>2. QED
    BY <1>2, <2>1 DEF PassedBelow
<1>6. ASSUME x.step # Refresh, x.ok, x.step = n PROVE PassedBelow(T, I, n + 1)
  <2>1. T[z + 1] = x
    BY ExtendsFact
  <2>2. \A i \in Passed(T) : T[i].step < n + 1
    BY <1>3, <1>6, <2>1
  <2>3. ASSUME NEW m \in I, m < n + 1 PROVE \E i \in Passed(T) : T[i].step = m
    BY <1>2, <1>4, <1>6, <2>1, <2>3
  <2>4. QED
    BY <2>2, <2>3 DEF PassedBelow
<1>7. QED
  BY <1>5, <1>6

LEMMA TellsAttempt ==
  ASSUME NEW S, NEW T, NEW x, NEW R, NEW I, Extends(T, S, x), Tells(S, R, I),
         x.step # Refresh, x.step \in I, PassedBelow(S, I, x.step), Expects(S, x.step),
         x.ok => x.replay \in DOMAIN R /\ R[x.replay].ok /\ R[x.replay].step = x.step
  PROVE  Tells(T, R, I)
<1>1. Truthful(T, R)
  BY TruthfulGrows DEF Tells
<1>2. InTurn(T, I)
  BY InTurnGrows DEF Tells
<1>3. Explained(T)
  BY ExplainedGrows DEF Tells
<1>4. QED
  BY <1>1, <1>2, <1>3 DEF Tells

LEMMA TellsRefresh ==
  ASSUME NEW S, NEW T, NEW x, NEW R, NEW I, Extends(T, S, x), Tells(S, R, I),
         x.step = Refresh, Len(S) \in Attempts(S) \ Passed(S)
  PROVE  Tells(T, R, I)
<1>1. Truthful(T, R)
  BY TruthfulGrows DEF Tells
<1>2. InTurn(T, I)
  BY InTurnGrows DEF Tells
<1>3. Explained(T)
  BY ExplainedGrows DEF Tells
<1>4. QED
  BY <1>1, <1>2, <1>3 DEF Tells

(* Replays that are added, or pruned, change nothing of it. *)
LEMMA TellsStill ==
  ASSUME NEW S, NEW R, NEW Q, NEW I, Tells(S, R, I),
         \A k \in DOMAIN R : k \in DOMAIN Q /\ Q[k].ok = R[k].ok /\ Q[k].step = R[k].step
  PROVE  Tells(S, Q, I)
  BY DEF Tells, Truthful

(* The bound moves over steps that are not included. *)
LEMMA PassedFurther ==
  ASSUME NEW S \in Seq(StepRun), NEW I \in SUBSET Nat, NEW n \in Nat, NEW m \in Nat,
         n <= m, PassedBelow(S, I, n), \A h \in I : h < n \/ m <= h
  PROVE  PassedBelow(S, I, m)
<1>1. ASSUME NEW h \in I, h < m PROVE \E i \in Passed(S) : S[i].step = h
  <2>1. h < n
    BY <1>1
  <2>2. QED
    BY <2>1 DEF PassedBelow
<1>2. ASSUME NEW i \in Passed(S) PROVE S[i].step < m
  <2>1. S[i].step \in Nat
    <3>1. i \in DOMAIN S
      BY DEF Passed, Attempts
    <3>2. S[i] \in StepRun
      BY <3>1
    <3>3. QED
      BY <3>2 DEF StepRun
  <2>2. S[i].step < n
    BY DEF PassedBelow
  <2>3. QED
    BY <2>1, <2>2
<1>3. QED
  BY <1>1, <1>2 DEF PassedBelow

LEMMA IncludedFact ==
  ASSUME Types
  PROVE  /\ Included \in SUBSET Nat /\ Included \subseteq 1..Len(Workflow)
         /\ \A n \in 1..Len(Workflow) : n \in Included <=> Workflow[n].included
  BY WorkflowFact DEF Included

LEMMA IncludedStays == ASSUME params' = params PROVE Included' = Included /\ Workflow' = Workflow
  BY DEF Included, Workflow

-----------------------------------------------------------------------------
LEMMA EmptyList ==
  ASSUME NEW R, NEW I
  PROVE  Tells(<<>>, R, I) /\ (I \subseteq Nat \ {0} => PassedBelow(<<>>, I, 1))
<1>1. Attempts(<<>>) = {} /\ Passed(<<>>) = {} /\ DOMAIN <<>> = {}
  BY DEF Attempts, Passed
<1>2. QED
  BY <1>1 DEF Tells, Truthful, InTurn, Explained, PassedBelow

LEMMA FarInit == Init => FarInv
<1> SUFFICES ASSUME Init PROVE FarInv
  OBVIOUS
<1>1. call.pc = "idle" /\ call.stepRuns = <<>> /\ row.state = "free"
  BY DEF Init
<1>2. Tells(<<>>, replays, Included)
  BY EmptyList
<1>3. QED
  BY <1>1, <1>2 DEF FarInv, ListOK, RowOfTheRun, InStep

LEMMA FarBegins ==
  ASSUME RunInv, FarInv, NEW w \in Workflows, NEW dry \in BOOLEAN, NEW f \in FlowIds \cup {NoFlow},
         RunBegins(w, dry, f)
  PROVE  FarInv'
<1>1. /\ call \in CallType /\ call.pc = "idle" /\ call.stepRuns = <<>> /\ row' = row
  BY DEF RunInv, Types, FarInv, ListOK, RunBegins
<1>2. /\ call'.pc = "next" /\ call'.step = 0 /\ call'.stepRuns = <<>>
  BY <1>1 DEF RunBegins, Turn, CallType
<1>3. Included' \subseteq Nat \ {0}
  <2>1. Workflow' = w /\ w \in Seq(Step)
    BY WorkflowAssumption DEF RunBegins, Workflow
  <2>2. QED
    BY <2>1 DEF Included
<1>4. Tells(<<>>, replays', Included') /\ PassedBelow(<<>>, Included', 1)
  BY <1>3, EmptyList
<1>5. ListOK'
  BY <1>2, <1>4 DEF ListOK, InStep
<1>6. QED
  BY <1>1, <1>5 DEF FarInv, RowOfTheRun

LEMMA FarTurn == ASSUME RunInv, FarInv, StepTurn PROVE FarInv'
<1> DEFINE n == NextStep(call.step)
           S == call.stepRuns
<1>1. /\ Types /\ call \in CallType /\ call.pc = "next" /\ replays' = replays /\ row' = row
      /\ call.step \in 0..Len(Workflow) /\ Len(Workflow) \in Nat /\ S \in Seq(StepRun)
      /\ Included' = Included /\ Workflow' = Workflow
  BY WorkflowFact, IncludedStays DEF RunInv, Types, CallType, StepTurn, Progress
<1>2. /\ n \in (call.step + 1)..(Len(Workflow) + 1)
      /\ \A m \in (call.step + 1)..Len(Workflow) : m < n => ~Workflow[m].included
      /\ n <= Len(Workflow) => Workflow[n].included
  BY <1>1, NextStepFact
<1>3. /\ Included \in SUBSET Nat /\ Included \subseteq 1..Len(Workflow)
      /\ \A m \in 1..Len(Workflow) : m \in Included <=> Workflow[m].included
  BY <1>1, IncludedFact
<1>4. /\ Tells(S, replays, Included) /\ PassedBelow(S, Included, call.step + 1)
      /\ S = <<>> \/ Len(S) \in Passed(S)
  BY <1>1 DEF FarInv, ListOK
<1>5. /\ call' = [call EXCEPT !.step = n, !.retried = FALSE,
                              !.pc = IF n <= Len(Workflow) THEN "replay" ELSE "insert"]
  BY DEF StepTurn, Turn
<1> HIDE DEF n
<1>6. /\ call'.pc = IF n <= Len(Workflow) THEN "replay" ELSE "insert"
      /\ call'.step = n /\ call'.stepRuns = S
  BY <1>1, <1>5 DEF CallType
<1>7. n \in Nat /\ call.step + 1 \in Nat /\ call.step + 1 <= n
  BY <1>1, <1>2
<1>8. \A h \in Included : h < call.step + 1 \/ n <= h
  BY <1>1, <1>2, <1>3
<1> HIDE DEF S
<1>9. PassedBelow(S, Included, n)
  <2>1. \A b \in Nat : b <= n /\ PassedBelow(S, Included, b) /\ (\A h \in Included : h < b \/ n <= h)
          => PassedBelow(S, Included, n)
    BY <1>1, <1>3, <1>7, PassedFurther
  <2>2. QED
    BY <1>4, <1>7, <1>8, <2>1
<1>10. Expects(S, n)
  BY <1>4 DEF Expects, Passed, Attempts
<1>11. CASE n <= Len(Workflow)
  <2>1. n \in Included
    BY <1>1, <1>2, <1>3, <1>7, <1>11
  <2>2. QED
    BY <1>1, <1>4, <1>6, <1>9, <1>10, <1>11, <2>1 DEF FarInv, ListOK, RowOfTheRun
<1>12. CASE ~(n <= Len(Workflow))
  <2>1. n = Len(Workflow) + 1
    BY <1>1, <1>2, <1>7, <1>12
  <2>2. QED
    BY <1>1, <1>4, <1>6, <1>9, <1>12, <2>1 DEF FarInv, ListOK, RowOfTheRun, InStep
<1>13. QED
  BY <1>11, <1>12

LEMMA FarReplay == ASSUME RunInv, FarInv, ReplayStep PROVE FarInv'
<1> DEFINE n == call.step
           S == call.stepRuns
<1>1. /\ Types /\ call \in CallType /\ call.pc = "replay" /\ row' = row /\ n \in Nat
      /\ S \in Seq(StepRun) /\ Included' = Included /\ Workflow' = Workflow
  BY IncludedStays DEF RunInv, Types, CallType, ReplayStep
<1>2. /\ Tells(S, replays, Included) /\ n \in Included
      /\ PassedBelow(S, Included, n) /\ Expects(S, n)
  BY <1>1 DEF FarInv, ListOK, InStep
<1>3. Tells(S, replays', Included)
  <2>1. PICK r \in Replay : replays' = Append(replays, r)
    BY ReplayAdds
  <2>2. \A k \in DOMAIN replays : k \in DOMAIN replays' /\ replays'[k] = replays[k]
    BY <1>1, <2>1, AppendFact
  <2>3. QED
    BY <1>2, <2>2, TellsStill
<1>4. n # Refresh
  BY <1>1, <1>2, IncludedFact DEF Refresh
<1>5. CASE call' = Goto("assert")
  <2>1. call'.pc = "assert" /\ call'.step = n /\ call'.stepRuns = S
    BY <1>1, <1>5 DEF Goto, CallType
  <2>2. QED
    BY <1>1, <1>2, <1>3, <2>1 DEF FarInv, ListOK, RowOfTheRun, InStep
<1>6. CASE call' = [Goto("insert") EXCEPT !.ok = FALSE,
             !.stepRuns = Append(@, [step |-> n, replay |-> NoReplay, ok |-> FALSE, status |-> 0])]
  <2> DEFINE x == [step |-> n, replay |-> NoReplay, ok |-> FALSE, status |-> 0]
  <2>1. x \in StepRun /\ x.step = n /\ x.ok = FALSE
    BY <1>1 DEF StepRun, NoReplay
  <2>2. call'.pc = "insert" /\ call'.ok = FALSE /\ call'.stepRuns = Append(S, x)
    BY <1>1, <1>6 DEF Goto, CallType
  <2> HIDE DEF x
  <2>3. Extends(Append(S, x), S, x)
    BY <1>1, <2>1, AppendExtends
  <2>4. Tells(Append(S, x), replays', Included)
    BY <1>2, <1>3, <1>4, <2>1, <2>3, TellsAttempt
  <2>5. QED
    BY <1>1, <2>2, <2>4 DEF FarInv, ListOK, RowOfTheRun, InStep
<1>7. QED
  BY <1>5, <1>6 DEF ReplayStep

LEMMA FarAssert == ASSUME RunInv, FarInv, AssertStep PROVE FarInv'
<1> DEFINE n == call.step
           S == call.stepRuns
           k == LastReplay
<1>1. /\ Types /\ call \in CallType /\ call.pc = "assert" /\ row' = row /\ n \in Nat
      /\ replays' = replays /\ S \in Seq(StepRun) /\ Included' = Included /\ Workflow' = Workflow
      /\ k \in DOMAIN replays /\ replays[k].step = n /\ replays[k].row # "none"
  BY IncludedStays DEF RunInv, Types, CallType, AssertStep, JudgedOK
<1>2. /\ Tells(S, replays, Included) /\ n \in Included
      /\ PassedBelow(S, Included, n) /\ Expects(S, n)
  BY <1>1 DEF FarInv, ListOK, InStep
<1>3. n # Refresh /\ Included \in SUBSET Nat
  BY <1>1, <1>2, IncludedFact DEF Refresh
<1>4. PICK ok \in Assertions(n, k) :
        call' = IF ~ok /\ RefreshWanted(k) THEN Goto("refresh")
                ELSE [call EXCEPT !.pc = IF ok THEN "extract" ELSE "insert",
                                  !.ok = ok,
                                  !.stepRuns = Append(@, StepRunOf(k, ok))]
  BY DEF AssertStep
<1>5. ok \in BOOLEAN /\ (ok = TRUE => replays[k].ok = TRUE)
  BY <1>1, AssertFact
<1>6. CASE ~ok /\ RefreshWanted(k)
  <2>1. call'.pc = "refresh" /\ call'.step = n /\ call'.stepRuns = S
    BY <1>1, <1>4, <1>6 DEF Goto, CallType
  <2>2. QED
    BY <1>1, <1>2, <2>1 DEF FarInv, ListOK, RowOfTheRun, InStep
<1>7. CASE ~(~ok /\ RefreshWanted(k))
  <2> DEFINE x == StepRunOf(k, ok)
             T == Append(S, x)
  <2>1. x \in StepRun /\ x.step = n /\ x.ok = ok /\ x.replay = k
    <3>1. x \in StepRun /\ x.replay = k
      BY <1>1, <1>5, StepRunFact
    <3>2. QED
      BY <1>1, <3>1 DEF StepRunOf
  <2> HIDE DEF x
  <2>2. call' = [call EXCEPT !.pc = IF ok THEN "extract" ELSE "insert", !.ok = ok,
                             !.stepRuns = T]
    BY <1>4, <1>7 DEF x
  <2>3. /\ call'.pc = IF ok THEN "extract" ELSE "insert"
        /\ call'.step = n /\ call'.ok = ok /\ call'.stepRuns = T
    BY <1>1, <2>2 DEF CallType
  <2>4. Extends(T, S, x)
    BY <1>1, <2>1, AppendExtends
  <2> HIDE DEF T
  <2>5. Tells(T, replays, Included)
    <3>1. x.ok => x.replay \in DOMAIN replays /\ replays[x.replay].ok
                  /\ replays[x.replay].step = x.step
      BY <1>1, <1>5, <2>1
    <3>2. QED
      BY <1>2, <1>3, <2>1, <2>4, <3>1, TellsAttempt
  <2>6. CASE ok
    <3>1. PassedBelow(T, Included, n + 1)
      BY <1>1, <1>2, <1>3, <2>1, <2>4, <2>6, PassedGrows
    <3>2. Len(T) = Len(S) + 1
      BY <2>4 DEF Extends
    <3>3. Len(S) + 1 \in Passed(T)
      BY <1>3, <2>1, <2>4, <2>6, ExtendsFact
    <3>4. QED
      BY <1>1, <1>2, <2>3, <2>5, <2>6, <3>1, <3>2, <3>3 DEF FarInv, ListOK, RowOfTheRun, InStep
  <2>7. CASE ~ok
    BY <1>1, <2>3, <2>5, <2>7 DEF FarInv, ListOK, RowOfTheRun, InStep
  <2>8. QED
    BY <2>6, <2>7
<1>8. QED
  BY <1>6, <1>7

(* What the refresh adds: the attempt that failed, and the refresh. *)
LEMMA RefreshEntries ==
  ASSUME RunInv, AttemptsOK, RefreshAuth
  PROVE  \E r \in Replay, a \in StepRun, b \in StepRun :
           /\ replays' = Append(replays, r) /\ r.step = Refresh
           /\ a = StepRunOf(LastReplay, FALSE) /\ a.step = call.step /\ a.ok = FALSE
           /\ b.step = Refresh /\ b.ok = r.ok
           /\ b.replay = IF r.row = "none" THEN NoReplay ELSE LastReplay + 1
           /\ call'.stepRuns = call.stepRuns \o <<a, b>>
           /\ call'.step = call.step
           /\ call'.pc = IF r.ok THEN "replay" ELSE "insert"
           /\ ~r.ok => call'.ok = FALSE
<1> DEFINE k == LastReplay
<1>1. /\ Types /\ call \in CallType /\ call.pc = "refresh" /\ k \in Nat
      /\ k \in DOMAIN replays /\ replays[k].step = call.step
  <2>1. call.pc = "refresh" /\ Refused(k)
    BY DEF RefreshAuth, AttemptsOK
  <2>2. QED
    BY <2>1 DEF RunInv, Types, JudgedOK, Refused, AttemptsAt, LastReplay
<1>2. PICK r \in RowsOf(Refresh, params.refresh, {}, FALSE) \cup {NoRow(Refresh, {})} :
        /\ replays' = Append(replays, r)
        /\ call' = AfterRefresh([call EXCEPT !.stepRuns = @ \o RefreshRuns(r, LastReplay)], r)
  BY DEF RefreshAuth
<1>3. r \in Replay /\ r.step = Refresh
  BY <1>2, RefreshAdds
<1> DEFINE a == StepRunOf(k, FALSE)
           b == [step |-> Refresh, replay |-> IF r.row = "none" THEN NoReplay ELSE k + 1,
                 ok |-> r.ok, status |-> r.status]
<1>4. a \in StepRun /\ a.step = call.step /\ a.ok = FALSE
  <2>1. a \in StepRun
    BY <1>1, StepRunFact
  <2>2. QED
    BY <1>1, <2>1 DEF StepRunOf
<1>5. /\ b \in StepRun /\ b.step = Refresh /\ b.ok = r.ok
      /\ b.replay = IF r.row = "none" THEN NoReplay ELSE k + 1
  BY <1>1, <1>3 DEF StepRun, Replay, NoReplay, Refresh
<1>6. RefreshRuns(r, k) = <<a, b>>
  BY DEF RefreshRuns
<1> HIDE DEF a, b
<1>7. /\ call'.stepRuns = call.stepRuns \o <<a, b>> /\ call'.step = call.step
      /\ call'.pc = IF r.ok THEN "replay" ELSE "insert"
      /\ ~r.ok => call'.ok = FALSE
  <2>1. call' = AfterRefresh([call EXCEPT !.stepRuns = @ \o <<a, b>>], r)
    BY <1>2, <1>6
  <2>2. CASE r.ok
    BY <1>1, <2>1, <2>2 DEF AfterRefresh, CallType
  <2>3. CASE ~r.ok
    BY <1>1, <2>1, <2>3 DEF AfterRefresh, CallType
  <2>4. QED
    BY <2>2, <2>3
<1>8. a = StepRunOf(k, FALSE)
  BY DEF a
<1>9. QED
  BY <1>2, <1>3, <1>4, <1>5, <1>7, <1>8

LEMMA FarRefresh == ASSUME RunInv, AttemptsOK, FarInv, RefreshAuth PROVE FarInv'
<1> DEFINE n == call.step
           S == call.stepRuns
<1>1. /\ Types /\ call \in CallType /\ call.pc = "refresh" /\ row' = row /\ n \in Nat
      /\ S \in Seq(StepRun) /\ Included' = Included /\ Workflow' = Workflow
  BY IncludedStays DEF RunInv, Types, CallType, RefreshAuth
<1>2. /\ Tells(S, replays, Included) /\ n \in Included
      /\ PassedBelow(S, Included, n) /\ Expects(S, n)
  BY <1>1 DEF FarInv, ListOK, InStep
<1>3. n # Refresh /\ Included \in SUBSET Nat
  BY <1>1, <1>2, IncludedFact DEF Refresh
<1>4. PICK r \in Replay, a \in StepRun, b \in StepRun :
        /\ replays' = Append(replays, r) /\ a.step = n /\ a.ok = FALSE
        /\ b.step = Refresh /\ b.ok = r.ok
        /\ call'.stepRuns = S \o <<a, b>> /\ call'.step = n
        /\ call'.pc = IF r.ok THEN "replay" ELSE "insert"
        /\ ~r.ok => call'.ok = FALSE
  BY RefreshEntries
<1> DEFINE A == Append(S, a)
           T == S \o <<a, b>>
<1>5. Extends(A, S, a) /\ Extends(T, A, b)
  BY <1>1, AppendExtends, PairExtends
<1> HIDE DEF A, T
<1>6. Tells(S, replays', Included)
  <2>1. \A k \in DOMAIN replays : k \in DOMAIN replays' /\ replays'[k] = replays[k]
    BY <1>1, <1>4, AppendFact
  <2>2. QED
    BY <1>2, <2>1, TellsStill
<1>7. Tells(A, replays', Included) /\ PassedBelow(A, Included, n)
  <2>1. Tells(A, replays', Included)
    BY <1>2, <1>3, <1>4, <1>5, <1>6, TellsAttempt
  <2>2. PassedBelow(A, Included, n)
    BY <1>1, <1>2, <1>3, <1>4, <1>5, PassedGrows
  <2>3. QED
    BY <2>1, <2>2
<1>8. /\ Len(A) = Len(S) + 1 /\ A[Len(S) + 1] = a /\ Len(S) \in Nat
      /\ Len(T) = Len(A) + 1 /\ T[Len(A) + 1] = b /\ T[Len(A)] = a /\ T # <<>>
  BY <1>5 DEF Extends
<1>9. Len(A) \in Attempts(A) \ Passed(A)
  <2>1. Len(S) + 1 \in Attempts(A) /\ Len(S) + 1 \notin Passed(A)
    BY <1>3, <1>4, <1>5, ExtendsFact
  <2>2. QED
    BY <1>8, <2>1
<1>10. Tells(T, replays', Included) /\ PassedBelow(T, Included, n)
  <2>1. Tells(T, replays', Included)
    BY <1>4, <1>5, <1>7, <1>9, TellsRefresh
  <2>2. PassedBelow(T, Included, n)
    BY <1>1, <1>3, <1>4, <1>5, <1>7, PassedGrows
  <2>3. QED
    BY <2>1, <2>2
<1>11. r.ok => Expects(T, n)
  <2>1. Len(T) - 1 = Len(A)
    BY <1>8
  <2>2. QED
    BY <1>4, <1>8, <2>1 DEF Expects
<1>12. call'.stepRuns = T
  BY <1>4 DEF T
<1>13. CASE r.ok
  BY <1>1, <1>2, <1>4, <1>10, <1>11, <1>12, <1>13 DEF FarInv, ListOK, RowOfTheRun, InStep
<1>14. CASE ~r.ok
  BY <1>1, <1>4, <1>10, <1>12, <1>14 DEF FarInv, ListOK, RowOfTheRun, InStep
<1>15. QED
  BY <1>13, <1>14

LEMMA FarExtract == ASSUME RunInv, FarInv, ExtractOutputs PROVE FarInv'
<1>1. /\ call \in CallType /\ call.pc = "extract" /\ row' = row /\ replays' = replays
      /\ Included' = Included /\ Workflow' = Workflow
  BY IncludedStays DEF RunInv, Types, ExtractOutputs
<1>2. /\ call'.stepRuns = call.stepRuns /\ call'.step = call.step
      /\ call'.pc = "next" \/ (call'.pc = "insert" /\ call'.ok = FALSE)
  BY <1>1 DEF ExtractOutputs, Goto, CallType
<1>3. QED
  BY <1>1, <1>2 DEF FarInv, ListOK, RowOfTheRun, InStep

LEMMA FarInsert == ASSUME RunInv, FarInv, InsertWorkflowRun PROVE FarInv'
<1>1. /\ call \in CallType /\ call.pc = "insert" /\ replays' = replays
      /\ Included' = Included /\ Workflow' = Workflow
  BY IncludedStays DEF RunInv, Types, InsertWorkflowRun
<1>2. /\ call'.stepRuns = call.stepRuns /\ call'.step = call.step /\ call'.ok = call.ok
      /\ \/ /\ row' = [state |-> "stored", ok |-> call.ok, stepRuns |-> call.stepRuns]
            /\ call'.pc = "done"
         \/ row' = row /\ call'.pc = "error"
  BY <1>1 DEF InsertWorkflowRun, Goto, CallType
<1>3. ListOK'
  BY <1>1, <1>2 DEF FarInv, ListOK, InStep
<1>4. RowOfTheRun'
  BY <1>1, <1>2 DEF FarInv, RowOfTheRun
<1>5. QED
  BY <1>3, <1>4 DEF FarInv

LEMMA FarStays ==
  ASSUME FarInv, call' = call, row' = row, params' = params,
         \A k \in DOMAIN replays : /\ k \in DOMAIN replays'
                                   /\ replays'[k].ok = replays[k].ok
                                   /\ replays'[k].step = replays[k].step
  PROVE  FarInv'
<1>1. Included' = Included /\ Workflow' = Workflow
  BY IncludedStays
<1>2. Tells(call.stepRuns, replays', Included)
  BY TellsStill DEF FarInv, ListOK
<1>3. QED
  BY <1>1, <1>2 DEF FarInv, ListOK, RowOfTheRun

LEMMA FarStep == RunInv /\ AttemptsOK /\ FarInv /\ [Next]_vars => FarInv'
<1> SUFFICES ASSUME RunInv, AttemptsOK, FarInv, [Next]_vars PROVE FarInv'
  OBVIOUS
<1>1. CASE \E F \in SUBSET stored, K \in SUBSET {k \in DOMAIN replays : replays[k].flow = "stored"} :
             PruneFlows(F, K)
  <2>1. PICK F \in SUBSET stored, K \in SUBSET DOMAIN replays : PruneFlows(F, K)
    BY <1>1
  <2>2. call' = call /\ row' = row /\ params' = params
    BY <2>1 DEF PruneFlows
  <2>3. QED
    BY <2>1, <2>2, PruneFact, FarStays
<1>2. CASE Cancel \/ UNCHANGED vars
  BY <1>2, FarStays DEF Cancel, vars
<1>3. QED
  BY <1>1, <1>2, FarBegins, FarTurn, FarReplay, FarAssert, FarRefresh, FarExtract, FarInsert
     DEF Next

(* The stored row of a workflow run tells how far the run came, for every  *)
(* workflow, however its steps fail, are refreshed and are pruned.         *)
THEOREM RowsTellHowFar == Spec => []RowTellsHowFar
<1>1. Init => AttemptsOK
  BY DEF Init, AttemptsOK
<1>2. RunInv /\ FarInv => RowTellsHowFar
  <2>1. SUFFICES ASSUME RunInv, FarInv, row.state = "stored" PROVE RowTellsHowFar
    BY DEF RowTellsHowFar
  <2>2. /\ Tells(row.stepRuns, replays, Included)
        /\ row.ok => PassedBelow(row.stepRuns, Included, Len(Workflow) + 1)
    BY <2>1 DEF FarInv, ListOK, RowOfTheRun
  <2>3. row.ok => \A n \in Included : \E i \in Passed(row.stepRuns) : row.stepRuns[i].step = n
    <3>1. Included \subseteq 1..Len(Workflow) /\ Len(Workflow) \in Nat
      BY <2>1, WorkflowFact, IncludedFact DEF RunInv
    <3>2. QED
      BY <2>2, <3>1 DEF PassedBelow
  <2>4. QED
    BY <2>2, <2>3 DEF RowTellsHowFar, Tells, Truthful, InTurn, Explained
<1>3. QED
  BY <1>1, <1>2, FarInit, FarStep, AttemptsStep, RunInitInv, StepInv, PTL DEF Spec

-----------------------------------------------------------------------------
(* The replay z + 1 is named, or is none. *)
LEMMA NamesGrow ==
  ASSUME NEW S, NEW T, NEW x, NEW R, NEW z \in Nat, Extends(T, S, x), Names(S, R, z),
         x.replay = IF R[z + 1].row = "none" THEN NoReplay ELSE z + 1
  PROVE  Names(T, R, z + 1)
<1>1. /\ Len(S) \in Nat /\ DOMAIN S = 1..Len(S) /\ DOMAIN T = 1..(Len(S) + 1)
      /\ T[Len(S) + 1] = x /\ \A i \in 1..Len(S) : T[i] = S[i]
  BY ExtendsFact
<1>2. x.replay # NoReplay => x.replay = z + 1 /\ R[z + 1].row # "none"
  OBVIOUS
<1>3. ASSUME NEW i \in DOMAIN T, T[i].replay # NoReplay
      PROVE  T[i].replay \in 1..(z + 1) /\ R[T[i].replay].row # "none"
  <2>1. CASE i \in 1..Len(S)
    BY <1>1, <1>3, <2>1 DEF Names
  <2>2. CASE i = Len(S) + 1
    BY <1>1, <1>2, <1>3, <2>2
  <2>3. QED
    BY <1>1, <2>1, <2>2
<1>4. ASSUME NEW k \in 1..(z + 1), R[k].row # "none"
      PROVE  \E i \in DOMAIN T : T[i].replay = k
  <2>1. CASE k \in 1..z
    <3>1. PICK i \in DOMAIN S : S[i].replay = k
      BY <1>4, <2>1 DEF Names
    <3>2. QED
      BY <1>1, <3>1
  <2>2. CASE k = z + 1
    BY <1>1, <1>4, <2>2
  <2>3. QED
    BY <2>1, <2>2
<1>5. ASSUME NEW i \in DOMAIN T, NEW j \in DOMAIN T, i < j,
             T[i].replay # NoReplay, T[j].replay # NoReplay
      PROVE  T[i].replay < T[j].replay
  <2>1. i \in 1..Len(S) /\ T[i] = S[i] /\ S[i].replay \in 1..z
    BY <1>1, <1>5 DEF Names
  <2>2. CASE j \in 1..Len(S)
    <3>1. T[j] = S[j] /\ i \in DOMAIN S /\ j \in DOMAIN S
      BY <1>1, <2>1, <2>2
    <3>2. QED
      BY <1>5, <2>1, <3>1 DEF Names
  <2>3. CASE j = Len(S) + 1
    BY <1>1, <1>2, <1>5, <2>1, <2>3
  <2>4. QED
    BY <1>1, <2>2, <2>3
<1>6. QED
  BY <1>3, <1>4, <1>5 DEF Names

(* Which of the z replays stored a row is all that the names depend on.    *)
LEMMA NamesStay ==
  ASSUME NEW S, NEW R, NEW Q, NEW z \in Nat, Names(S, R, z),
         \A k \in 1..z : R[k].row # "none" <=> Q[k].row # "none"
  PROVE  Names(S, Q, z)
  BY DEF Names

LEMMA NamesInit == Init => NamesOK
<1> SUFFICES ASSUME Init PROVE NamesOK
  OBVIOUS
<1>1. call.pc = "idle" /\ call.stepRuns = <<>> /\ replays = <<>>
  BY DEF Init
<1>2. Names(<<>>, <<>>, 0)
  BY DEF Names
<1>3. LastReplay = 0
  BY <1>1 DEF LastReplay
<1>4. QED
  BY <1>1, <1>2, <1>3 DEF NamesOK

LEMMA NamesReplay == ASSUME RunInv, NamesOK, ReplayStep PROVE NamesOK'
<1> DEFINE n == call.step
           S == call.stepRuns
           z == LastReplay
<1>1. Types /\ call \in CallType /\ call.pc = "replay" /\ n \in Nat /\ S \in Seq(StepRun)
  BY DEF RunInv, Types, CallType, ReplayStep
<1>2. z \in Nat /\ Names(S, replays, z)
  BY <1>1 DEF NamesOK, Types, LastReplay
<1>3. ASSUME NEW r \in Replay, replays' = Append(replays, r)
      PROVE  LastReplay' = z + 1 /\ replays'[z + 1] = r /\ Names(S, replays', z)
  <2>1. /\ LastReplay' = z + 1 /\ replays'[z + 1] = r
        /\ \A k \in 1..z : replays'[k] = replays[k]
    BY <1>1, <1>3, AppendFact
  <2>2. QED
    BY <1>2, <2>1, NamesStay
<1> HIDE DEF z
<1>4. CASE \E r \in RowsOf(n, Workflow[n].flow, Bound(n), params.dry) :
             replays' = Append(replays, r) /\ call' = Goto("assert")
  <2>1. PICK r \in Replay : replays' = Append(replays, r) /\ call' = Goto("assert")
    BY <1>4, ReplayRows
  <2>2. call'.pc = "assert" /\ call'.stepRuns = S
    BY <1>1, <2>1 DEF Goto, CallType
  <2>3. LastReplay' - 1 = z /\ Names(S, replays', z)
    BY <1>2, <1>3, <2>1
  <2>4. QED
    BY <2>2, <2>3 DEF NamesOK
<1>5. CASE /\ replays' = Append(replays, NoRow(n, Bound(n)))
           /\ call' = [Goto("insert") EXCEPT !.ok = FALSE,
                !.stepRuns = Append(@, [step |-> n, replay |-> NoReplay, ok |-> FALSE, status |-> 0])]
  <2> DEFINE x == [step |-> n, replay |-> NoReplay, ok |-> FALSE, status |-> 0]
  <2>1. x \in StepRun /\ x.replay = NoReplay
    BY <1>1 DEF StepRun, NoReplay
  <2>2. call'.pc = "insert" /\ call'.stepRuns = Append(S, x)
    BY <1>1, <1>5 DEF Goto, CallType
  <2> HIDE DEF x
  <2>3. Extends(Append(S, x), S, x)
    BY <1>1, <2>1, AppendExtends
  <2>4. NoRow(n, Bound(n)) \in Replay /\ NoRow(n, Bound(n)).row = "none"
    BY ReplayRows DEF NoRow
  <2>5. LastReplay' = z + 1 /\ replays'[z + 1].row = "none" /\ Names(S, replays', z)
    BY <1>3, <1>5, <2>4
  <2>6. Names(Append(S, x), replays', z + 1)
    BY <1>2, <2>1, <2>3, <2>5, NamesGrow
  <2>7. QED
    BY <2>2, <2>5, <2>6 DEF NamesOK
<1>6. QED
  BY <1>1, <1>4, <1>5 DEF ReplayStep

LEMMA NamesAssert == ASSUME RunInv, NamesOK, AssertStep PROVE NamesOK'
<1> DEFINE S == call.stepRuns
           k == LastReplay
           z == k - 1
<1>1. /\ Types /\ call \in CallType /\ call.pc = "assert" /\ S \in Seq(StepRun)
      /\ replays' = replays /\ k \in DOMAIN replays /\ replays[k].row # "none"
      /\ LastReplay' = k
  BY DEF RunInv, Types, CallType, AssertStep, JudgedOK, LastReplay
<1>2. z \in Nat /\ z + 1 = k /\ Names(S, replays, z)
  BY <1>1 DEF NamesOK, Types, LastReplay
<1>3. PICK ok \in Assertions(call.step, k) :
        call' = IF ~ok /\ RefreshWanted(k) THEN Goto("refresh")
                ELSE [call EXCEPT !.pc = IF ok THEN "extract" ELSE "insert",
                                  !.ok = ok,
                                  !.stepRuns = Append(@, StepRunOf(k, ok))]
  BY DEF AssertStep
<1>4. ok \in BOOLEAN
  BY <1>1, AssertFact
<1>5. CASE ~ok /\ RefreshWanted(k)
  <2>1. call'.pc = "refresh" /\ call'.stepRuns = S
    BY <1>1, <1>3, <1>5 DEF Goto, CallType
  <2>2. QED
    BY <1>1, <1>2, <2>1 DEF NamesOK
<1>6. CASE ~(~ok /\ RefreshWanted(k))
  <2> DEFINE x == StepRunOf(k, ok)
  <2>1. x \in StepRun /\ x.replay = k
    BY <1>1, <1>4, StepRunFact
  <2> HIDE DEF x
  <2>2. call' = [call EXCEPT !.pc = IF ok THEN "extract" ELSE "insert", !.ok = ok,
                             !.stepRuns = Append(S, x)]
    BY <1>3, <1>6 DEF x
  <2>3. call'.pc \in {"extract", "insert"} /\ call'.stepRuns = Append(S, x)
    BY <1>1, <2>2 DEF CallType
  <2>4. Extends(Append(S, x), S, x)
    BY <1>1, <2>1, AppendExtends
  <2>5. Names(Append(S, x), replays, z + 1)
    BY <1>1, <1>2, <2>1, <2>4, NamesGrow
  <2>6. QED
    BY <1>1, <1>2, <2>3, <2>5 DEF NamesOK
<1>7. QED
  BY <1>5, <1>6

LEMMA NamesRefresh == ASSUME RunInv, AttemptsOK, NamesOK, RefreshAuth PROVE NamesOK'
<1> DEFINE S == call.stepRuns
           k == LastReplay
           z == k - 1
<1>1. /\ Types /\ call \in CallType /\ call.pc = "refresh" /\ S \in Seq(StepRun)
      /\ k \in DOMAIN replays
  BY DEF RunInv, Types, CallType, RefreshAuth, JudgedOK
<1>2. z \in Nat /\ z + 1 = k /\ k \in Nat /\ Names(S, replays, z)
  BY <1>1 DEF NamesOK, Types, LastReplay
<1>3. PICK r \in Replay, a \in StepRun, b \in StepRun :
        /\ replays' = Append(replays, r) /\ a = StepRunOf(k, FALSE)
        /\ b.replay = IF r.row = "none" THEN NoReplay ELSE k + 1
        /\ call'.stepRuns = S \o <<a, b>>
        /\ call'.pc \in {"replay", "insert"}
  BY RefreshEntries
<1> DEFINE A == Append(S, a)
           T == S \o <<a, b>>
<1>4. Extends(A, S, a) /\ Extends(T, A, b)
  BY <1>1, AppendExtends, PairExtends
<1> HIDE DEF A, T
<1>5. /\ LastReplay' = k + 1 /\ replays'[k + 1] = r
      /\ \A i \in 1..k : replays'[i] = replays[i]
  BY <1>1, <1>3, AppendFact
<1>6. Names(S, replays', z)
  BY <1>2, <1>5, NamesStay
<1>7. a.replay = IF replays'[k].row = "none" THEN NoReplay ELSE k
  <2>1. replays'[k] = replays[k]
    BY <1>2, <1>5
  <2>2. QED
    BY <1>3, <2>1 DEF StepRunOf
<1>8. Names(A, replays', k)
  BY <1>2, <1>4, <1>6, <1>7, NamesGrow
<1>9. Names(T, replays', k + 1)
  BY <1>2, <1>3, <1>4, <1>5, <1>8, NamesGrow
<1>10. QED
  BY <1>3, <1>5, <1>9 DEF NamesOK, T

(* Steps that neither replay nor name. *)
LEMMA NamesKept ==
  ASSUME Types, NamesOK, call'.stepRuns = call.stepRuns, LastReplay' = LastReplay,
         \A k \in DOMAIN replays : replays[k].row # "none" <=> replays'[k].row # "none",
         call.pc \in {"assert", "refresh"} <=> call'.pc \in {"assert", "refresh"}
  PROVE  NamesOK'
<1> DEFINE z == IF call.pc \in {"assert", "refresh"} THEN LastReplay - 1 ELSE LastReplay
<1>1. Names(call.stepRuns, replays, z)
  BY DEF NamesOK
<1>2. \A k \in 1..z : replays[k].row # "none" <=> replays'[k].row # "none"
  BY DEF Types, LastReplay
<1>3. Names(call.stepRuns, replays', z)
  <2> HIDE DEF z
  <2>1. QED
    BY <1>1, <1>2 DEF Names
<1>4. QED
  BY <1>3 DEF NamesOK

LEMMA NamesStep == RunInv /\ AttemptsOK /\ NamesOK /\ [Next]_vars => NamesOK'
<1> SUFFICES ASSUME RunInv, AttemptsOK, NamesOK, [Next]_vars PROVE NamesOK'
  OBVIOUS
<1>1. Types /\ call \in CallType
  BY DEF RunInv, Types
<1>2. CASE \E F \in SUBSET stored, K \in SUBSET {k \in DOMAIN replays : replays[k].flow = "stored"} :
             PruneFlows(F, K)
  <2>1. PICK F \in SUBSET stored, K \in SUBSET DOMAIN replays : PruneFlows(F, K)
    BY <1>2
  <2>2. call' = call
    BY <2>1 DEF PruneFlows
  <2>3. /\ LastReplay' = LastReplay
        /\ \A k \in DOMAIN replays : replays[k].row # "none" <=> replays'[k].row # "none"
    BY <2>1, PruneFact DEF LastReplay
  <2>4. QED
    BY <1>1, <2>2, <2>3, NamesKept
<1>3. ASSUME replays' = replays, call'.stepRuns = call.stepRuns,
             call.pc \in {"assert", "refresh"} <=> call'.pc \in {"assert", "refresh"}
      PROVE  NamesOK'
  <2>1. LastReplay' = LastReplay
    BY <1>3 DEF LastReplay
  <2>2. QED
    BY <1>1, <1>3, <2>1, NamesKept
<1>4. CASE Cancel \/ UNCHANGED vars
  BY <1>3, <1>4 DEF Cancel, vars
<1>5. ASSUME NEW w \in Workflows, NEW dry \in BOOLEAN, NEW f \in FlowIds \cup {NoFlow},
             RunBegins(w, dry, f)
      PROVE  NamesOK'
  <2>1. /\ replays' = replays /\ call'.stepRuns = call.stepRuns
        /\ call.pc = "idle" /\ call'.pc = "next"
    BY <1>1, <1>5 DEF RunBegins, Turn, CallType
  <2>2. QED
    BY <1>3, <2>1
<1>6. CASE StepTurn
  <2>1. /\ replays' = replays /\ call'.stepRuns = call.stepRuns
        /\ call.pc = "next" /\ call'.pc \in {"replay", "insert"}
    BY <1>1, <1>6 DEF StepTurn, Turn, CallType
  <2>2. QED
    BY <1>3, <2>1
<1>7. CASE ExtractOutputs
  <2>1. /\ replays' = replays /\ call'.stepRuns = call.stepRuns
        /\ call.pc = "extract" /\ call'.pc \in {"next", "insert"}
    BY <1>1, <1>7 DEF ExtractOutputs, Goto, CallType
  <2>2. QED
    BY <1>3, <2>1
<1>8. CASE InsertWorkflowRun
  <2>1. /\ replays' = replays /\ call'.stepRuns = call.stepRuns
        /\ call.pc = "insert" /\ call'.pc \in {"done", "error"}
    BY <1>1, <1>8 DEF InsertWorkflowRun, Goto, CallType
  <2>2. QED
    BY <1>3, <2>1
<1>9. QED
  BY <1>2, <1>4, <1>5, <1>6, <1>7, <1>8, NamesReplay, NamesAssert, NamesRefresh DEF Next

(* The stored row of a workflow run names every replay row that the run    *)
(* caused, once and in their order, failed attempts and refreshes too.     *)
THEOREM RowsNameReplays == Spec => []EveryReplayIsNamed
<1>1. Init => AttemptsOK
  BY DEF Init, AttemptsOK
<1>2. RunInv /\ FarInv /\ NamesOK => EveryReplayIsNamed
  <2>1. SUFFICES ASSUME RunInv, FarInv, NamesOK, row.state = "stored" PROVE EveryReplayIsNamed
    BY DEF EveryReplayIsNamed
  <2>2. /\ Names(row.stepRuns, replays, LastReplay)
        /\ DOMAIN replays = 1..LastReplay
    BY <2>1 DEF RunInv, Types, FarInv, RowOfTheRun, NamesOK, LastReplay
  <2> DEFINE S == row.stepRuns
             naming == {i \in DOMAIN S : S[i].replay # NoReplay}
  <2>3. \A i \in naming : /\ S[i].replay \in DOMAIN replays
                          /\ replays[S[i].replay].row # "none"
    BY <2>2 DEF Names
  <2>4. ASSUME NEW k \in DOMAIN replays, replays[k].row # "none"
        PROVE  \E i \in naming : S[i].replay = k
    <3>1. PICK i \in DOMAIN S : S[i].replay = k
      BY <2>2, <2>4 DEF Names
    <3>2. k # NoReplay
      BY <2>2, <2>4 DEF NoReplay
    <3>3. QED
      BY <3>1, <3>2
  <2>5. \A i \in naming, j \in naming : i < j => S[i].replay < S[j].replay
    BY <2>2 DEF Names
  <2>6. {S[i].replay : i \in naming} = {k \in DOMAIN replays : replays[k].row # "none"}
    BY <2>3, <2>4
  <2>7. QED
    BY <2>5, <2>6 DEF EveryReplayIsNamed
<1>3. QED
  BY <1>1, <1>2, FarInit, FarStep, NamesInit, NamesStep, AttemptsStep, RunInitInv, StepInv,
     PTL DEF Spec

=============================================================================
