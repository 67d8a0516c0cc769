------------------------ MODULE BrowserCaptureProofs ------------------------
(***************************************************************************)
(* Proofs about BrowserCapture, for any number of captures, of controllers *)
(* that start and stop them, and of requests, redirects and room in the    *)
(* event channel.                                                          *)
(***************************************************************************)
EXTENDS BrowserCapture, SequenceTheorems, TLAPS

-----------------------------------------------------------------------------
(* Type correctness.                                                       *)

FlowState == [hop : 0..MaxHops, answered : 0..MaxHops]

LinkState == [open : BOOLEAN, enabled : BOOLEAN,
              reply : {"none", "waiting", "ok", "error"}, events : Seq(Event)]

RunState == [pc : {"none", "dial", "enable", "loop", "body", "persist",
                   "persist_failed", "ended"},
             cancelled : BOOLEAN, hand : Requests]

Row == [request : Requests, hop : 1..MaxHops, failed : BOOLEAN, answered : 0..MaxHops]

BrowserState == [stage : {"new", "sent", "responded", "over"}, hop : 0..MaxHops]

HandlingEnd == {"body", "persist", "persist_failed"}

(* A pending request stands for one that was sent, and what the goroutine  *)
(* holds in its hands while it stores a flow is pending.                   *)
PendingWasSent ==
  \A r \in Runs : /\ \A q \in Requests : pending[r][q] # NotPending => pending[r][q].hop # 0
                  /\ run[r].pc \in HandlingEnd => pending[r][run[r].hand] # NotPending

BrowserCountsHops == \A q \in Requests : browser[q].stage # "new" => browser[q].hop # 0

TypeInv == TypeOK /\ PendingWasSent /\ BrowserCountsHops

LEMMA ShortNames ==
  /\ FlowState = [hop : 0..MaxHops, answered : 0..MaxHops]
  /\ NotPending \in FlowState /\ NotPending.hop = 0 /\ NotPending.answered = 0
  /\ NoLink \in LinkState /\ Len(NoLink.events) = 0
  /\ ~NoLink.open /\ ~NoLink.enabled /\ NoLink.events = <<>>
  /\ NothingPending \in [Requests -> FlowState]
  /\ \A q \in Requests : NothingPending[q] = NotPending
  BY BoundAssumption DEF FlowState, LinkState, NotPending, NoLink, NothingPending

LEMMA TypeInvTypes ==
  ASSUME TypeInv
  PROVE  /\ run \in [Runs -> RunState] /\ pending \in [Runs -> [Requests -> FlowState]]
         /\ link \in [Runs -> LinkState] /\ rows \in [Runs -> Seq(Row)]
         /\ browser \in [Requests -> BrowserState]
         /\ \A r \in Runs : Len(link[r].events) <= ChanCap
  BY DEF TypeInv, TypeOK, RunState, FlowState, LinkState, Row, BrowserState

(* A step of one goroutine keeps TypeInv when what it assigns has the right *)
(* type and what it holds stays pending.                                   *)
LEMMA CaptureStepType ==
  ASSUME TypeInv, NEW r \in Runs,
         NEW x \in RunState, NEW p \in [Requests -> FlowState], NEW l \in LinkState,
         run' = [run EXCEPT ![r] = x],
         pending' = [pending EXCEPT ![r] = p],
         link' = [link EXCEPT ![r] = l],
         Len(l.events) <= ChanCap,
         rows' \in [Runs -> Seq(Row)],
         \A q \in Requests : p[q] # NotPending => p[q].hop # 0,
         x.pc \in HandlingEnd => p[x.hand] # NotPending,
         UNCHANGED <<managerVars, browser, dropped>>
  PROVE  TypeInv'
<1>1. /\ run' \in [Runs -> RunState] /\ pending' \in [Runs -> [Requests -> FlowState]]
      /\ link' \in [Runs -> LinkState]
  BY TypeInvTypes
<1>2. \A d \in Runs : Len(link'[d].events) <= ChanCap
  BY TypeInvTypes
<1>3. TypeOK'
  BY <1>1, <1>2 DEF TypeInv, TypeOK, RunState, FlowState, LinkState, Row, managerVars
<1>4. PendingWasSent'
  BY TypeInvTypes DEF TypeInv, PendingWasSent
<1>5. BrowserCountsHops'
  BY DEF TypeInv, BrowserCountsHops
<1>6. QED
  BY <1>3, <1>4, <1>5 DEF TypeInv

LEMMA InitType == Init => TypeInv
<1> SUFFICES ASSUME Init PROVE TypeInv
  OBVIOUS
<1>1. (CHOOSE q \in Requests : TRUE) \in Requests
  BY RequestsAssumption
<1>2. /\ run \in [Runs -> RunState] /\ pending \in [Runs -> [Requests -> FlowState]]
      /\ link \in [Runs -> LinkState]
  BY <1>1, ShortNames DEF Init, RunState
<1>3. browser \in [Requests -> BrowserState]
  BY BoundAssumption DEF Init, BrowserState
<1>4. stop \in [Controllers -> [waiting : BOOLEAN, of : Runs \cup {NoRun}]]
  BY DEF Init, Idle
<1>5. \A r \in Runs : Len(link[r].events) <= ChanCap
  BY ShortNames, BoundAssumption DEF Init
<1>6. rows \in [Runs -> Seq(Row)]
  BY DEF Init
<1>7. TypeOK
  BY <1>2, <1>3, <1>4, <1>5, <1>6
  DEF Init, TypeOK, RunState, FlowState, LinkState, BrowserState, Row
<1>8. PendingWasSent /\ BrowserCountsHops
  BY ShortNames DEF Init, PendingWasSent, BrowserCountsHops, HandlingEnd
<1>9. QED
  BY <1>7, <1>8 DEF TypeInv

LEMMA EndsType ==
  ASSUME TypeInv, NEW r \in Runs, Ends(r), UNCHANGED <<managerVars, browser, dropped>>
  PROVE  TypeInv'
<1> DEFINE x == [run[r] EXCEPT !.pc = "ended"]
<1>1. run' = [run EXCEPT ![r] = x] /\ x \in RunState /\ x.pc = "ended"
  BY TypeInvTypes DEF Ends, Goto, RunState
<1>2. link' = [link EXCEPT ![r] = NoLink] /\ pending' = [pending EXCEPT ![r] = NothingPending]
  BY DEF Ends
<1>3. rows' \in [Runs -> Seq(Row)]
  BY TypeInvTypes DEF Ends
<1>4. Len(NoLink.events) <= ChanCap /\ "ended" \notin HandlingEnd
  BY ShortNames, BoundAssumption DEF HandlingEnd
<1> HIDE DEF x
<1>5. QED
  BY <1>1, <1>2, <1>3, <1>4, ShortNames, CaptureStepType

(* A goroutine that only waits, dials or is answered keeps its pending map *)
(* and the events of its channel.                                          *)
LEMMA QuietStepType ==
  ASSUME TypeInv, NEW r \in Runs, NEW l \in LinkState,
         NEW k \in {"enable", "loop", "persist"},
         k = "persist" => run[r].pc \in HandlingEnd,
         Goto(r, k), link' = [link EXCEPT ![r] = l], l.events = link[r].events,
         UNCHANGED captureVars, UNCHANGED <<managerVars, browser, dropped>>
  PROVE  TypeInv'
<1> DEFINE x == [run[r] EXCEPT !.pc = k]
<1>1. /\ run' = [run EXCEPT ![r] = x] /\ x \in RunState
      /\ x.pc = k /\ x.hand = run[r].hand
  BY TypeInvTypes DEF Goto, RunState
<1>2. /\ pending[r] \in [Requests -> FlowState]
      /\ pending' = [pending EXCEPT ![r] = pending[r]]
      /\ rows' \in [Runs -> Seq(Row)]
  BY TypeInvTypes DEF captureVars
<1>3. Len(l.events) <= ChanCap
  BY TypeInvTypes
<1>4. /\ \A q \in Requests : pending[r][q] # NotPending => pending[r][q].hop # 0
      /\ x.pc \in HandlingEnd => pending[r][x.hand] # NotPending
  BY <1>1 DEF TypeInv, PendingWasSent, HandlingEnd
<1> HIDE DEF x
<1>5. QED
  BY <1>1, <1>2, <1>3, <1>4, CaptureStepType

LEMMA DialType ==
  ASSUME TypeInv, NEW r \in Runs, Dial(r), UNCHANGED <<managerVars, browser, dropped>>
  PROVE  TypeInv'
<1>1. CASE Ends(r)
  BY <1>1, EndsType
<1>2. CASE /\ Goto(r, "enable")
           /\ link' = [link EXCEPT ![r].open = TRUE, ![r].reply = "waiting"]
           /\ UNCHANGED captureVars
  <2> DEFINE l == [link[r] EXCEPT !.open = TRUE, !.reply = "waiting"]
  <2>1. link' = [link EXCEPT ![r] = l] /\ l \in LinkState /\ l.events = link[r].events
    BY <1>2, TypeInvTypes DEF LinkState
  <2> HIDE DEF l
  <2>2. QED
    BY <1>2, <2>1, QuietStepType
<1>3. QED
  BY <1>1, <1>2 DEF Dial

LEMMA EnabledType ==
  ASSUME TypeInv, NEW r \in Runs, Enabled(r), UNCHANGED <<managerVars, browser, dropped>>
  PROVE  TypeInv'
<1>1. CASE Ends(r)
  BY <1>1, EndsType
<1>2. CASE /\ Goto(r, "loop")
           /\ link' = [link EXCEPT ![r].reply = "none"]
           /\ UNCHANGED captureVars
  <2> DEFINE l == [link[r] EXCEPT !.reply = "none"]
  <2>1. link' = [link EXCEPT ![r] = l] /\ l \in LinkState /\ l.events = link[r].events
    BY <1>2, TypeInvTypes DEF LinkState
  <2> HIDE DEF l
  <2>2. QED
    BY <1>2, <2>1, QuietStepType
<1>3. QED
  BY <1>1, <1>2 DEF Enabled

LEMMA BodyArrivesType ==
  ASSUME TypeInv, NEW r \in Runs, BodyArrives(r), UNCHANGED <<managerVars, browser, dropped>>
  PROVE  TypeInv'
<1> DEFINE l == [link[r] EXCEPT !.reply = "none"]
<1>1. link' = [link EXCEPT ![r] = l] /\ l \in LinkState /\ l.events = link[r].events
  BY TypeInvTypes DEF BodyArrives, LinkState
<1>2. run[r].pc \in HandlingEnd
  BY DEF BodyArrives, HandlingEnd
<1> HIDE DEF l
<1>3. QED
  BY <1>1, <1>2, QuietStepType DEF BodyArrives

(* What HandleEvent does to the channel and to the pending map. *)
LEMMA EventsAreTyped ==
  ASSUME TypeInv, NEW r \in Runs, link[r].events # <<>>
  PROVE  /\ link[r].events \in Seq(Event)
         /\ Head(link[r].events) \in Event
         /\ Head(link[r].events) = link[r].events[1]
         /\ Tail(link[r].events) \in Seq(Event)
         /\ Len(Tail(link[r].events)) <= ChanCap
<1>1. link[r].events \in Seq(Event) /\ Len(link[r].events) <= ChanCap
  BY TypeInvTypes DEF LinkState
<1> DEFINE E == link[r].events
<1>2. Len(E) # 0 /\ Len(E) \in Nat /\ ChanCap \in Nat
  BY <1>1, BoundAssumption
<1>3. Len(Tail(E)) = Len(E) - 1 /\ Tail(E) \in Seq(Event) /\ Head(E) = E[1]
  BY <1>1, <1>2, HeadTailProperties
<1>4. E[1] \in Event
  BY <1>1, <1>2
<1> HIDE DEF E
<1>5. Len(Tail(E)) <= ChanCap
  BY <1>1, <1>2, <1>3 DEF E
<1>6. QED
  BY <1>1, <1>3, <1>4, <1>5 DEF E

(* HandleEvent in one formula: the event is taken from the channel, and    *)
(* the goroutine goes on or holds the request whose end this is.           *)
LEMMA HandleEventCases ==
  ASSUME TypeInv, NEW r \in Runs, HandleEvent(r)
  PROVE  LET e == Head(link[r].events)
             q == e.request
             p == pending[r][q]
         IN  /\ run[r].pc = "loop" /\ link[r].events # <<>> /\ e \in Event
             /\ UNCHANGED rows
             /\ \E s \in {"none", "waiting", "ok", "error"} :
                  link' = [link EXCEPT ![r] = [link[r] EXCEPT !.events = Tail(@), !.reply = s]]
             /\ \/ /\ e.kind = "request" /\ Goto(r, "loop")
                   /\ pending' = [pending EXCEPT ![r] =
                        [pending[r] EXCEPT ![q] = [hop |-> e.hop, answered |-> 0]]]
                \/ /\ e.kind = "response" /\ Goto(r, "loop")
                   /\ pending' = [pending EXCEPT ![r] =
                        [pending[r] EXCEPT ![q] = AfterResponse(p, e.hop)]]
                \/ /\ e.kind \in {"finished", "failed"} /\ p = NotPending
                   /\ UNCHANGED <<pending, run>>
                \/ /\ e.kind = "finished" /\ p # NotPending /\ UNCHANGED pending
                   /\ run' = [run EXCEPT ![r] = [run[r] EXCEPT !.pc = "body", !.hand = q]]
                \/ /\ e.kind = "failed" /\ p # NotPending /\ UNCHANGED pending
                   /\ run' = [run EXCEPT ![r] = [run[r] EXCEPT !.pc = "persist_failed",
                                                               !.hand = q]]
<1> DEFINE e == Head(link[r].events)
           q == e.request
           asks == e.kind = "finished" /\ pending[r][q] # NotPending
           s == IF asks THEN "waiting" ELSE link[r].reply
<1>1. run[r].pc = "loop" /\ link[r].events # <<>> /\ UNCHANGED rows
  BY DEF HandleEvent
<1>2. e \in Event
  BY <1>1, EventsAreTyped
<1>3. /\ link \in [Runs -> LinkState] /\ run \in [Runs -> RunState]
      /\ pending \in [Runs -> [Requests -> FlowState]]
  BY TypeInvTypes
<1>4. link' = [link EXCEPT ![r] = [link[r] EXCEPT !.events = Tail(@), !.reply = s]]
  BY <1>3 DEF HandleEvent, LinkState
<1>5. s \in {"none", "waiting", "ok", "error"}
  BY <1>3 DEF LinkState
<1>6. \/ /\ e.kind = "request" /\ Goto(r, "loop")
         /\ pending' = [pending EXCEPT ![r] =
              [pending[r] EXCEPT ![q] = [hop |-> e.hop, answered |-> 0]]]
      \/ /\ e.kind = "response" /\ Goto(r, "loop")
         /\ pending' = [pending EXCEPT ![r] =
              [pending[r] EXCEPT ![q] = AfterResponse(pending[r][q], e.hop)]]
      \/ /\ e.kind \in {"finished", "failed"} /\ pending[r][q] = NotPending
         /\ UNCHANGED <<pending, run>>
      \/ /\ e.kind = "finished" /\ pending[r][q] # NotPending /\ UNCHANGED pending
         /\ run' = [run EXCEPT ![r].pc = "body", ![r].hand = q]
      \/ /\ e.kind = "failed" /\ pending[r][q] # NotPending /\ UNCHANGED pending
         /\ run' = [run EXCEPT ![r].pc = "persist_failed", ![r].hand = q]
  BY <1>3 DEF HandleEvent, Remember
<1>7. ASSUME NEW k, NEW h, run' = [run EXCEPT ![r].pc = k, ![r].hand = h]
      PROVE  run' = [run EXCEPT ![r] = [run[r] EXCEPT !.pc = k, !.hand = h]]
  BY <1>3, <1>7
<1>8. \/ /\ e.kind = "request" /\ Goto(r, "loop")
         /\ pending' = [pending EXCEPT ![r] =
              [pending[r] EXCEPT ![q] = [hop |-> e.hop, answered |-> 0]]]
      \/ /\ e.kind = "response" /\ Goto(r, "loop")
         /\ pending' = [pending EXCEPT ![r] =
              [pending[r] EXCEPT ![q] = AfterResponse(pending[r][q], e.hop)]]
      \/ /\ e.kind \in {"finished", "failed"} /\ pending[r][q] = NotPending
         /\ UNCHANGED <<pending, run>>
      \/ /\ e.kind = "finished" /\ pending[r][q] # NotPending /\ UNCHANGED pending
         /\ run' = [run EXCEPT ![r] = [run[r] EXCEPT !.pc = "body", !.hand = q]]
      \/ /\ e.kind = "failed" /\ pending[r][q] # NotPending /\ UNCHANGED pending
         /\ run' = [run EXCEPT ![r] = [run[r] EXCEPT !.pc = "persist_failed", !.hand = q]]
  BY <1>6, <1>7
<1>9. \E x \in {"none", "waiting", "ok", "error"} :
        link' = [link EXCEPT ![r] = [link[r] EXCEPT !.events = Tail(@), !.reply = x]]
  BY <1>4, <1>5
<1> HIDE DEF s, asks
<1>10. QED
  BY <1>1, <1>2, <1>8, <1>9

LEMMA AfterResponseType ==
  \A p \in FlowState, h \in 1..MaxHops :
    /\ AfterResponse(p, h) \in FlowState
    /\ AfterResponse(p, h) # NotPending => AfterResponse(p, h).hop = p.hop /\ p # NotPending
  BY BoundAssumption DEF AfterResponse, FlowState, NotPending

LEMMA HandleEventType ==
  ASSUME TypeInv, NEW r \in Runs, HandleEvent(r), UNCHANGED <<managerVars, browser, dropped>>
  PROVE  TypeInv'
<1> DEFINE e == Head(link[r].events)
           q == e.request
           p == pending[r][q]
<1>1. /\ run[r].pc = "loop" /\ link[r].events # <<>> /\ e \in Event
      /\ UNCHANGED rows
      /\ \E s \in {"none", "waiting", "ok", "error"} :
           link' = [link EXCEPT ![r] = [link[r] EXCEPT !.events = Tail(@), !.reply = s]]
  BY HandleEventCases
<1>2. PICK l \in LinkState : link' = [link EXCEPT ![r] = l] /\ Len(l.events) <= ChanCap
  <2>1. PICK s \in {"none", "waiting", "ok", "error"} :
          link' = [link EXCEPT ![r] = [link[r] EXCEPT !.events = Tail(@), !.reply = s]]
    BY <1>1
  <2> DEFINE m == [link[r] EXCEPT !.events = Tail(@), !.reply = s]
  <2>2. m \in LinkState /\ m.events = Tail(link[r].events)
    <3>1. link[r] \in LinkState /\ Tail(link[r].events) \in Seq(Event)
      BY <1>1, EventsAreTyped, TypeInvTypes
    <3>2. QED
      BY <3>1 DEF LinkState
  <2>3. Len(m.events) <= ChanCap
    BY <1>1, <2>2, EventsAreTyped
  <2> HIDE DEF m
  <2>4. QED
    BY <2>1, <2>2, <2>3 DEF m
<1>3. q \in Requests /\ e.hop \in 1..MaxHops
  BY <1>1 DEF Event
<1>4. /\ rows' \in [Runs -> Seq(Row)] /\ run[r] \in RunState
      /\ pending[r] \in [Requests -> FlowState] /\ p \in FlowState
      /\ \A d \in Requests : pending[r][d] # NotPending => pending[r][d].hop # 0
  BY <1>1, <1>3, TypeInvTypes DEF TypeInv, PendingWasSent
<1>5. ASSUME NEW f \in FlowState, f # NotPending => f.hop # 0, Goto(r, "loop"),
             pending' = [pending EXCEPT ![r] = [pending[r] EXCEPT ![q] = f]]
      PROVE  TypeInv'
  <2> DEFINE x == [run[r] EXCEPT !.pc = "loop"]
             g == [pending[r] EXCEPT ![q] = f]
  <2>1. run' = [run EXCEPT ![r] = x] /\ x \in RunState /\ x.pc = "loop"
    BY <1>4, <1>5, TypeInvTypes DEF Goto, RunState
  <2>2. /\ g \in [Requests -> FlowState]
        /\ \A d \in Requests : g[d] # NotPending => g[d].hop # 0
        /\ pending' = [pending EXCEPT ![r] = g]
    BY <1>3, <1>4, <1>5
  <2> HIDE DEF x, g
  <2>3. QED
    BY <1>2, <1>4, <2>1, <2>2, CaptureStepType DEF HandlingEnd
<1>6. ASSUME NEW x \in RunState, run' = [run EXCEPT ![r] = x], UNCHANGED pending,
             x.pc \in HandlingEnd => x.hand = q /\ p # NotPending
      PROVE  TypeInv'
  <2>1. pending' = [pending EXCEPT ![r] = pending[r]]
    BY <1>6, TypeInvTypes
  <2>2. x.pc \in HandlingEnd => pending[r][x.hand] # NotPending
    BY <1>6
  <2>3. QED
    BY <1>2, <1>4, <1>6, <2>1, <2>2, CaptureStepType
<1>7. CASE e.kind = "request" /\ Goto(r, "loop") /\
           pending' = [pending EXCEPT ![r] =
                        [pending[r] EXCEPT ![q] = [hop |-> e.hop, answered |-> 0]]]
  <2>1. [hop |-> e.hop, answered |-> 0] \in FlowState /\ e.hop # 0
    BY <1>3, BoundAssumption DEF FlowState
  <2>2. QED
    BY <1>5, <1>7, <2>1
<1>8. CASE e.kind = "response" /\ Goto(r, "loop") /\
           pending' = [pending EXCEPT ![r] =
                        [pending[r] EXCEPT ![q] = AfterResponse(p, e.hop)]]
  <2>1. /\ AfterResponse(p, e.hop) \in FlowState
        /\ AfterResponse(p, e.hop) # NotPending => AfterResponse(p, e.hop).hop # 0
    BY <1>3, <1>4, AfterResponseType
  <2>2. QED
    BY <1>5, <1>8, <2>1
<1>9. CASE e.kind \in {"finished", "failed"} /\ p = NotPending /\ UNCHANGED <<pending, run>>
  <2>1. run' = [run EXCEPT ![r] = run[r]] /\ run[r].pc \notin HandlingEnd
    BY <1>1, <1>9, TypeInvTypes DEF HandlingEnd
  <2>2. QED
    BY <1>4, <1>6, <1>9, <2>1
<1>10. ASSUME NEW k \in {"body", "persist_failed"}, p # NotPending, UNCHANGED pending,
              run' = [run EXCEPT ![r] = [run[r] EXCEPT !.pc = k, !.hand = q]]
       PROVE  TypeInv'
  <2> DEFINE x == [run[r] EXCEPT !.pc = k, !.hand = q]
  <2>1. x \in RunState /\ x.hand = q
    BY <1>3, <1>4 DEF RunState
  <2> HIDE DEF x
  <2>2. QED
    BY <1>6, <1>10, <2>1 DEF x
<1>11. QED
  BY <1>7, <1>8, <1>9, <1>10, HandleEventCases

LEMMA PersistType ==
  ASSUME TypeInv, NEW r \in Runs, Persist(r), UNCHANGED <<managerVars, browser, dropped>>
  PROVE  TypeInv'
<1> DEFINE q == run[r].hand
           x == [run[r] EXCEPT !.pc = "loop"]
           g == [pending[r] EXCEPT ![q] = NotPending]
           row == [request |-> q, hop |-> pending[r][q].hop,
                   failed |-> run[r].pc = "persist_failed",
                   answered |-> pending[r][q].answered]
<1>1. /\ run[r].pc \in {"persist", "persist_failed"} /\ UNCHANGED link
      /\ run' = [run EXCEPT ![r] = x] /\ pending' = [pending EXCEPT ![r] = g]
      /\ rows' = [rows EXCEPT ![r] = Append(@, row)] \/ UNCHANGED rows
  BY TypeInvTypes DEF Persist, Remember, AfterPersist, Goto
<1>2. /\ run[r] \in RunState /\ pending[r] \in [Requests -> FlowState]
      /\ \A d \in Requests : pending[r][d] # NotPending => pending[r][d].hop # 0
      /\ link[r] \in LinkState /\ Len(link[r].events) <= ChanCap
      /\ rows \in [Runs -> Seq(Row)] /\ link \in [Runs -> LinkState]
  BY TypeInvTypes DEF TypeInv, PendingWasSent
<1>3. q \in Requests /\ x \in RunState /\ x.pc = "loop"
  BY <1>2 DEF RunState
<1>4. pending[r][q] \in FlowState /\ pending[r][q].hop # 0
  BY <1>1, <1>2, <1>3 DEF TypeInv, PendingWasSent, HandlingEnd
<1>5. row \in Row
  BY <1>3, <1>4, BoundAssumption DEF Row, FlowState
<1> HIDE DEF row
<1>6. rows' \in [Runs -> Seq(Row)]
  <2>1. Append(rows[r], row) \in Seq(Row)
    BY <1>2, <1>5
  <2>2. QED
    BY <1>1, <1>2, <2>1
<1>7. g \in [Requests -> FlowState] /\ \A d \in Requests : g[d] # NotPending => g[d].hop # 0
  BY <1>2, <1>3, ShortNames
<1>8. link' = [link EXCEPT ![r] = link[r]]
  BY <1>1, <1>2
<1>9. x.pc \notin HandlingEnd
  BY <1>3 DEF HandlingEnd
<1>10. run' = [run EXCEPT ![r] = x] /\ pending' = [pending EXCEPT ![r] = g]
  BY <1>1
<1> HIDE DEF x, g
<1>11. QED
  BY <1>2, <1>3, <1>6, <1>7, <1>8, <1>9, <1>10, CaptureStepType

LEMMA CaptureType ==
  ASSUME TypeInv, NEW r \in Runs, Capture(r)
  PROVE  TypeInv'
  BY DialType, EnabledType, EndsType, HandleEventType, BodyArrivesType, PersistType
  DEF Capture, LoopEnds

(* So does a step of the manager or of the browser. *)
LEMMA OtherStepType ==
  ASSUME TypeInv,
         run' \in [Runs -> RunState],
         \A d \in Runs : run'[d].pc \in HandlingEnd =>
                           run'[d].hand = run[d].hand /\ run[d].pc \in HandlingEnd,
         link' \in [Runs -> LinkState], \A d \in Runs : Len(link'[d].events) <= ChanCap,
         browser' \in [Requests -> BrowserState], BrowserCountsHops',
         stop' \in [Controllers -> [waiting : BOOLEAN, of : Runs \cup {NoRun}]],
         current' \in Runs \cup {NoRun}, late' \subseteq Runs,
         dropped' \in [Runs -> SUBSET Requests],
         UNCHANGED captureVars
  PROVE  TypeInv'
<1>1. TypeOK'
  BY DEF TypeInv, TypeOK, RunState, LinkState, BrowserState, captureVars
<1>2. PendingWasSent'
  BY DEF TypeInv, PendingWasSent, captureVars
<1>3. QED
  BY <1>1, <1>2 DEF TypeInv

(* What such a step leaves alone keeps its type. *)
LEMMA KeptTypes ==
  ASSUME TypeInv
  PROVE  /\ current \in Runs \cup {NoRun} /\ late \subseteq Runs
         /\ stop \in [Controllers -> [waiting : BOOLEAN, of : Runs \cup {NoRun}]]
         /\ dropped \in [Runs -> SUBSET Requests]
         /\ UNCHANGED browser => browser' \in [Requests -> BrowserState] /\ BrowserCountsHops'
         /\ UNCHANGED link => link' \in [Runs -> LinkState] /\
                              \A d \in Runs : Len(link'[d].events) <= ChanCap
         /\ UNCHANGED run => run' \in [Runs -> RunState] /\
              \A d \in Runs : run'[d].pc \in HandlingEnd =>
                                run'[d].hand = run[d].hand /\ run[d].pc \in HandlingEnd
<1>1. UNCHANGED browser => BrowserCountsHops'
  BY DEF TypeInv, BrowserCountsHops
<1>2. QED
  BY <1>1, TypeInvTypes DEF TypeInv, TypeOK

(* The manager touches only its own state and the pc of a run. *)
LEMMA ManagerType ==
  ASSUME TypeInv,
         \/ \E r \in Runs : Start(r)
         \/ \E c \in Controllers : StopCancels(c) \/ StopReturns(c)
  PROVE  TypeInv'
<1>1. ASSUME NEW r \in Runs, Start(r) PROVE TypeInv'
  <2>1. run' = [run EXCEPT ![r].pc = "dial"] /\ run[r].pc = "none"
    BY <1>1 DEF Start, Goto
  <2>2. run' \in [Runs -> RunState] /\ current' \in Runs \cup {NoRun}
    BY <1>1, <2>1, TypeInvTypes DEF Start, RunState
  <2>3. \A d \in Runs : run'[d].pc \in HandlingEnd =>
                          run'[d].hand = run[d].hand /\ run[d].pc \in HandlingEnd
    BY <2>1, TypeInvTypes DEF RunState, HandlingEnd
  <2>4. QED
    BY <1>1, <2>2, <2>3, KeptTypes, OtherStepType DEF Start
<1>2. ASSUME NEW c \in Controllers, StopCancels(c) PROVE TypeInv'
  <2>1. \A d \in Runs : run'[d] = run[d] \/ run'[d] = [run[d] EXCEPT !.cancelled = TRUE]
    BY <1>2 DEF StopCancels
  <2>2. \A d \in Runs : run'[d] \in RunState /\ run'[d].pc = run[d].pc
                        /\ run'[d].hand = run[d].hand
    <3>1. \A x \in RunState : LET y == [x EXCEPT !.cancelled = TRUE] IN
                               y \in RunState /\ y.pc = x.pc /\ y.hand = x.hand
      BY DEF RunState
    <3>2. ASSUME NEW d \in Runs
          PROVE  /\ run'[d] \in RunState /\ run'[d].pc = run[d].pc
                 /\ run'[d].hand = run[d].hand
      <4>1. run[d] \in RunState
        BY TypeInvTypes
      <4>2. QED
        BY <2>1, <3>1, <4>1
    <3>3. QED
      BY <3>2
  <2>3. run' \in [Runs -> RunState]
    BY <1>2, <2>2 DEF StopCancels
  <2>4. stop' \in [Controllers -> [waiting : BOOLEAN, of : Runs \cup {NoRun}]]
    BY <1>2 DEF StopCancels, TypeInv, TypeOK
  <2>5. QED
    BY <1>2, <2>2, <2>3, <2>4, KeptTypes, OtherStepType DEF StopCancels
<1>3. ASSUME NEW c \in Controllers, StopReturns(c) PROVE TypeInv'
  <2>1. stop' \in [Controllers -> [waiting : BOOLEAN, of : Runs \cup {NoRun}]]
    BY <1>3 DEF StopReturns, TypeInv, TypeOK, Idle
  <2>2. late' \subseteq Runs /\ current' \in Runs \cup {NoRun}
    BY <1>3 DEF StopReturns, TypeInv, TypeOK
  <2>3. QED
    BY <1>3, <2>1, <2>2, KeptTypes, OtherStepType DEF StopReturns
<1>4. QED
  BY <1>1, <1>2, <1>3

(* An event reaches a channel only while there is room for it. *)
LEMMA DeliverType ==
  ASSUME TypeInv, NEW q \in Requests,
         NEW kind \in {"request", "response", "finished", "failed"},
         NEW h \in 1..MaxHops, NEW s \in {"sent", "responded", "over"},
         Deliver(kind, q, h), browser' = [browser EXCEPT ![q] = [stage |-> s, hop |-> h]]
  PROVE  TypeInv'
<1> DEFINE e == [kind |-> kind, request |-> q, hop |-> h]
<1>1. e \in Event
  BY DEF Event
<1> HIDE DEF e
<1>2. \A r \in Runs : link'[r] \in LinkState /\ Len(link'[r].events) <= ChanCap
  <2> TAKE r \in Runs
  <2>1. link[r] \in LinkState /\ Len(link[r].events) <= ChanCap
    BY TypeInvTypes
  <2>2. CASE Full(r) \/ r \notin Attached
    BY <2>1, <2>2 DEF Deliver
  <2>3. CASE ~Full(r) /\ r \in Attached
    <3>1. link'[r] = [link[r] EXCEPT !.events = Append(@, e)]
      BY <2>3 DEF Deliver, e
    <3>2. /\ link[r].events \in Seq(Event) /\ Len(link[r].events) \in Nat
          /\ Append(link[r].events, e) \in Seq(Event)
          /\ Len(Append(link[r].events, e)) = Len(link[r].events) + 1
      BY <1>1, <2>1 DEF LinkState
    <3>3. Len(link[r].events) + 1 <= ChanCap
      BY <2>3, <3>2, BoundAssumption DEF Full
    <3>4. QED
      BY <2>1, <3>1, <3>2, <3>3 DEF LinkState
  <2>4. QED
    BY <2>2, <2>3
<1>3. link' \in [Runs -> LinkState] /\ dropped' \in [Runs -> SUBSET Requests]
  BY <1>2 DEF Deliver, TypeInv, TypeOK
<1>4. browser' \in [Requests -> BrowserState] /\ BrowserCountsHops'
  BY TypeInvTypes, BoundAssumption DEF TypeInv, BrowserCountsHops, BrowserState
<1>5. UNCHANGED <<current, stop, late, run, captureVars>>
  BY DEF Deliver, managerVars
<1>6. QED
  BY <1>2, <1>3, <1>4, <1>5, KeptTypes, OtherStepType

LEMMA BrowserType ==
  ASSUME TypeInv, Browser
  PROVE  TypeInv'
<1>1. ASSUME NEW q \in Requests, Sends(q) \/ Responds(q) \/ Finishes(q) \/ Fails(q)
      PROVE  TypeInv'
  <2>1. /\ browser[q] \in BrowserState
        /\ browser[q].stage # "new" => browser[q].hop # 0
    BY TypeInvTypes DEF TypeInv, BrowserCountsHops
  <2>2. CASE Sends(q)
    <3> DEFINE h == browser[q].hop + 1
    <3>1. h \in 1..MaxHops
      BY <2>1, <2>2, BoundAssumption DEF Sends, BrowserState
    <3>2. /\ Deliver("request", q, h)
          /\ browser' = [browser EXCEPT ![q] = [stage |-> "sent", hop |-> h]]
      BY <2>2, TypeInvTypes DEF Sends
    <3> HIDE DEF h
    <3>3. QED
      BY <3>1, <3>2, DeliverType
  <2>3. CASE Responds(q) \/ Finishes(q) \/ Fails(q)
    <3> DEFINE h == browser[q].hop
    <3>1. h \in 1..MaxHops
      BY <2>1, <2>3, BoundAssumption DEF Responds, Finishes, Fails, BrowserState
    <3>2. PICK s \in {"responded", "over"}, k \in {"response", "finished", "failed"} :
            Deliver(k, q, h) /\ browser' = [browser EXCEPT ![q].stage = s]
      BY <2>3 DEF Responds, Finishes, Fails
    <3>3. browser' = [browser EXCEPT ![q] = [stage |-> s, hop |-> h]]
      <4>1. [browser[q] EXCEPT !.stage = s] = [stage |-> s, hop |-> h]
        BY <2>1 DEF BrowserState
      <4>2. QED
        BY <3>2, <4>1, TypeInvTypes
    <3> HIDE DEF h
    <3>4. QED
      BY <3>1, <3>2, <3>3, DeliverType
  <2>4. QED
    BY <1>1, <2>2, <2>3
<1>2. ASSUME NEW r \in Runs, NEW l \in LinkState, l.events = link[r].events,
             link' = [link EXCEPT ![r] = l],
             UNCHANGED <<managerVars, run, captureVars, browser, dropped>>
      PROVE  TypeInv'
  <2>1. link' \in [Runs -> LinkState] /\ \A d \in Runs : Len(link'[d].events) <= ChanCap
    BY <1>2, TypeInvTypes
  <2>2. QED
    BY <1>2, <2>1, KeptTypes, OtherStepType DEF managerVars
<1>3. ASSUME NEW r \in Runs, NEW reply \in {"ok", "error"}, Replies(r, reply) PROVE TypeInv'
  <2> DEFINE l == [link[r] EXCEPT !.reply = reply, !.enabled = @ \/ reply = "ok"]
  <2>1. link' = [link EXCEPT ![r] = l] /\ l \in LinkState /\ l.events = link[r].events
    BY <1>3, TypeInvTypes DEF Replies, LinkState
  <2> HIDE DEF l
  <2>2. QED
    BY <1>2, <1>3, <2>1 DEF Replies
<1>4. ASSUME NEW r \in Runs, HangsUp(r) PROVE TypeInv'
  <2> DEFINE l == [link[r] EXCEPT !.open = FALSE]
  <2>1. link' = [link EXCEPT ![r] = l] /\ l \in LinkState /\ l.events = link[r].events
    BY <1>4, TypeInvTypes DEF HangsUp, LinkState
  <2> HIDE DEF l
  <2>2. QED
    BY <1>2, <1>4, <2>1 DEF HangsUp
<1>5. QED
  BY <1>1, <1>3, <1>4 DEF Browser

LEMMA NextType == TypeInv /\ [Next]_vars => TypeInv'
<1> SUFFICES ASSUME TypeInv, [Next]_vars PROVE TypeInv'
  OBVIOUS
<1>1. CASE UNCHANGED vars
  <2>1. UNCHANGED <<current, stop, late, run, captureVars, link, browser, dropped>>
    BY <1>1 DEF vars, managerVars, captureVars
  <2>2. QED
    BY <2>1, KeptTypes, OtherStepType
<1>2. QED
  BY <1>1, CaptureType, ManagerType, BrowserType DEF Next

LEMMA TypeInvAlways == Spec => []TypeInv
<1>1. Init => TypeInv
  BY InitType
<1>2. TypeInv /\ [Next]_vars => TypeInv'
  BY NextType
<1>3. QED
  BY <1>1, <1>2, PTL DEF Spec

(* TypeOK for every value of the constants: in particular the event channel *)
(* never holds more than its capacity, and only flows of requests that were *)
(* sent are stored.                                                        *)
THEOREM TypeCorrect == Spec => []TypeOK
<1>1. TypeInv => TypeOK
  BY DEF TypeInv
<1>2. QED
  BY <1>1, TypeInvAlways, PTL

-----------------------------------------------------------------------------
(* Orphans.  OrphansComeFromLateStops is inductive: a capture is let in    *)
(* only when there is no current one, and what a Stop removes has ended,   *)
(* or the Stop had waited for something else.                              *)
LEMMA CaptureStaysAlive ==
  ASSUME TypeInv, NEW r \in Runs, Capture(r)
  PROVE  \A d \in Runs : /\ run'[d].cancelled = run[d].cancelled
                         /\ run'[d].pc \notin {"none", "ended"} =>
                              run[d].pc \notin {"none", "ended"}
<1>1. run \in [Runs -> RunState]
  BY TypeInvTypes
<1>2. run[r].pc \notin {"none", "ended"}
  BY DEF Capture, Dial, Enabled, LoopEnds, HandleEvent, BodyArrives, Persist
<1>3. \/ \E k : run' = [run EXCEPT ![r].pc = k]
      \/ \E k, h : run' = [run EXCEPT ![r].pc = k, ![r].hand = h]
      \/ UNCHANGED run
  BY DEF Capture, Dial, Enabled, LoopEnds, HandleEvent, BodyArrives, Persist, Ends, Goto,
         Remember
<1>4. \A d \in Runs : run'[d].cancelled = run[d].cancelled
  <2>1. ASSUME NEW x \in RunState, NEW k, NEW h
        PROVE  /\ [x EXCEPT !.pc = k].cancelled = x.cancelled
               /\ [x EXCEPT !.pc = k, !.hand = h].cancelled = x.cancelled
    BY DEF RunState
  <2>2. ASSUME NEW k, run' = [run EXCEPT ![r].pc = k], NEW d \in Runs
        PROVE  run'[d].cancelled = run[d].cancelled
    BY <1>1, <2>1, <2>2
  <2>3. ASSUME NEW k, NEW h, run' = [run EXCEPT ![r].pc = k, ![r].hand = h], NEW d \in Runs
        PROVE  run'[d].cancelled = run[d].cancelled
    BY <1>1, <2>1, <2>3
  <2>4. QED
    BY <1>3, <2>2, <2>3
<1>5. \A d \in Runs \ {r} : run'[d] = run[d]
  BY <1>1, <1>3
<1>6. QED
  BY <1>2, <1>4, <1>5

LEMMA NextOrphans ==
  TypeInv /\ OrphansComeFromLateStops /\ [Next]_vars => OrphansComeFromLateStops'
<1> SUFFICES ASSUME TypeInv, OrphansComeFromLateStops, [Next]_vars, NEW d \in Runs, Alive(d)'
             PROVE  (current = d \/ run[d].cancelled \/ d \in late)'
  BY DEF OrphansComeFromLateStops
<1>1. run \in [Runs -> RunState] /\ run[d] \in RunState
  BY TypeInvTypes
<1>2. Alive(d) => current = d \/ run[d].cancelled \/ d \in late
  BY DEF OrphansComeFromLateStops
<1>3. ASSUME NEW r \in Runs, Start(r) PROVE (current = d \/ run[d].cancelled \/ d \in late)'
  <2>1. CASE r = d
    BY <1>3, <2>1 DEF Start
  <2>2. CASE r # d
    <3>1. run'[d] = run[d] /\ current # d /\ UNCHANGED late
      BY <1>1, <1>3, <2>2, NoRunAssumption DEF Start, Goto
    <3>2. QED
      BY <1>2, <3>1 DEF Alive
  <2>3. QED
    BY <2>1, <2>2
<1>4. ASSUME NEW r \in Runs, Capture(r) PROVE (current = d \/ run[d].cancelled \/ d \in late)'
  BY <1>2, <1>4, CaptureStaysAlive DEF Capture, managerVars, Alive
<1>5. ASSUME NEW c \in Controllers, StopCancels(c)
      PROVE  (current = d \/ run[d].cancelled \/ d \in late)'
  <2>1. run'[d].pc = run[d].pc /\ (run[d].cancelled => run'[d].cancelled)
    BY <1>1, <1>5 DEF StopCancels, RunState
  <2>2. QED
    BY <1>2, <1>5, <2>1 DEF StopCancels, Alive
<1>6. ASSUME NEW c \in Controllers, StopReturns(c)
      PROVE  (current = d \/ run[d].cancelled \/ d \in late)'
  <2>1. UNCHANGED run /\ Alive(d)
    BY <1>6 DEF StopReturns, Alive
  <2>2. current = d => d \notin {stop[c].of, NoRun}
    BY <1>6, <2>1, NoRunAssumption DEF StopReturns, Alive
  <2>3. QED
    BY <1>2, <1>6, <2>1, <2>2 DEF StopReturns
<1>7. ASSUME Browser \/ UNCHANGED vars PROVE (current = d \/ run[d].cancelled \/ d \in late)'
  <2>1. UNCHANGED <<current, late, run>>
    BY <1>7
    DEF Browser, Sends, Responds, Finishes, Fails, Deliver, Replies, HangsUp, managerVars,
        vars
  <2>2. QED
    BY <1>2, <2>1 DEF Alive
<1>8. QED
  BY <1>3, <1>4, <1>5, <1>6, <1>7 DEF Next

(* OrphansComeFromLateStops: a capture that goes on without being current  *)
(* was cancelled, or was removed by a Stop that had waited for another.    *)
THEOREM OrphansOnlyFromLateStops == Spec => []OrphansComeFromLateStops
<1>1. Init => OrphansComeFromLateStops
  BY DEF Init, OrphansComeFromLateStops, Alive
<1>2. TypeInv /\ OrphansComeFromLateStops /\ [Next]_vars => OrphansComeFromLateStops'
  BY NextOrphans
<1>3. QED
  BY <1>1, <1>2, TypeInvAlways, PTL DEF Spec

-----------------------------------------------------------------------------
(* The events of one request in a channel E, for a goroutine that has p    *)
(* pending for it.                                                         *)
(*                                                                         *)
(* The events of a request come in the order in which the browser sent     *)
(* them, and while none is dropped each follows the one before it: before  *)
(* a response there is its request, in the channel or already handled (or  *)
(* never seen), and before the end of a request there is its response.     *)
SentState(h) == [hop |-> h, answered |-> 0]

AnsweredState(h) == [hop |-> h, answered |-> h]

Positions(E, q) == {n \in 1..Len(E) : E[n].request = q}

InOrder(E, q) ==
  \A i \in Positions(E, q), j \in Positions(E, q) : i < j =>
    /\ E[i].kind \in {"request", "response"}
    /\ E[j].kind = "request" => E[i].kind = "request" /\ E[i].hop < E[j].hop
    /\ E[j].kind = "response" => E[i].kind = "request" /\ E[i].hop <= E[j].hop

Preceded(E, q, p, j, kind, seen) ==
  \/ \E i \in Positions(E, q) : i < j /\ E[i].kind = kind /\ E[i].hop = E[j].hop
  \/ (\A i \in Positions(E, q) : ~(i < j)) /\ p \in {NotPending, seen}

Chained(E, q, p) ==
  \A j \in Positions(E, q) :
    /\ E[j].kind = "response" =>
         Preceded(E, q, p, j, "request", SentState(E[j].hop))
    /\ E[j].kind = "finished" =>
         Preceded(E, q, p, j, "response", AnsweredState(E[j].hop))

QueueInv(E, q, p) == InOrder(E, q) /\ Chained(E, q, p)

(* How the channel and the pending map stand to the browser, which is at b *)
(* with the request; h tells whether the goroutine is handling its end.    *)
LastSeen(E, q, p, kind, b, seen) ==
  \/ \E i \in Positions(E, q) : E[i].kind = kind /\ E[i].hop = b.hop
  \/ Positions(E, q) = {} /\ p \in {NotPending, seen}

Behind(E, q, p, b, h) ==
  /\ \A i \in Positions(E, q) :
       /\ E[i].hop <= b.hop
       /\ b.stage \in {"new", "sent"} => E[i].kind = "request"
       /\ b.stage = "responded" => E[i].kind \in {"request", "response"}
  /\ b.stage = "sent" =>
       LastSeen(E, q, p, "request", b, SentState(b.hop))
  /\ b.stage = "responded" =>
       LastSeen(E, q, p, "response", b, AnsweredState(b.hop))
  /\ b.stage = "over" =>
       \/ \E i \in Positions(E, q) : E[i].kind \in {"finished", "failed"}
       \/ Positions(E, q) = {} /\ (p = NotPending \/ h)

LEMMA EventTypes ==
  \A e \in Event : /\ e.kind \in {"request", "response", "finished", "failed"}
                   /\ e.hop \in Nat /\ e.hop # 0
  BY BoundAssumption DEF Event

(* T is E without its first event. *)
IsTail(T, E) == E # <<>> /\ T = Tail(E)

LEMMA TailIndices ==
  ASSUME NEW E \in Seq(Event), NEW T \in Seq(Event), IsTail(T, E)
  PROVE  /\ Len(E) \in Nat /\ Len(E) # 0 /\ Len(T) = Len(E) - 1
         /\ \A n \in 1..Len(E) : E[n] \in Event
         /\ \A n \in 1..Len(T) : /\ n \in Nat /\ n + 1 \in 1..Len(E) /\ n + 1 # 1
                                 /\ T[n] = E[n + 1]
         /\ \A n \in 1..Len(E) : /\ n \in Nat
                                 /\ n # 1 => n - 1 \in 1..Len(T) /\ 1 < n /\ T[n - 1] = E[n]
         /\ 1 \in 1..Len(E)
<1> DEFINE m == Len(E)
<1>1. /\ m \in Nat /\ m # 0 /\ Len(T) = m - 1
      /\ \A n \in 1..m : E[n] \in Event
      /\ \A n \in 1..(m - 1) : T[n] = E[n + 1]
  BY HeadTailProperties DEF IsTail
<1> HIDE DEF m
<1>2. \A n \in 1..(m - 1) : n \in Nat /\ n + 1 \in 1..m /\ n + 1 # 1
  BY <1>1
<1>3. \A n \in 1..m : n \in Nat /\ (n # 1 => n - 1 \in 1..(m - 1) /\ 1 < n /\ (n - 1) + 1 = n)
  BY <1>1
<1>4. \A n \in 1..m : n # 1 => T[n - 1] = E[n]
  BY <1>1, <1>3
<1>5. 1 \in 1..m
  BY <1>1
<1>6. QED
  BY <1>1, <1>2, <1>3, <1>4, <1>5 DEF m

LEMMA OfTail ==
  \A E \in Seq(Event), T \in Seq(Event), q \in Requests : \A n \in Positions(T, q) :
    IsTail(T, E) => /\ n \in Nat /\ n + 1 \in Positions(E, q) /\ n + 1 # 1
                    /\ T[n] = E[n + 1] /\ E[n + 1] \in Event
<1> SUFFICES ASSUME NEW E \in Seq(Event), NEW T \in Seq(Event), NEW q \in Requests,
                    NEW n \in Positions(T, q), IsTail(T, E)
             PROVE  /\ n \in Nat /\ n + 1 \in Positions(E, q) /\ n + 1 # 1
                    /\ T[n] = E[n + 1] /\ E[n + 1] \in Event
  OBVIOUS
<1>1. n \in 1..Len(T) /\ T[n].request = q
  BY DEF Positions
<1>2. /\ n \in Nat /\ n + 1 \in 1..Len(E) /\ n + 1 # 1
      /\ T[n] = E[n + 1] /\ E[n + 1] \in Event
  BY <1>1, TailIndices
<1>3. QED
  BY <1>1, <1>2 DEF Positions

LEMMA OfWhole ==
  \A E \in Seq(Event), T \in Seq(Event), q \in Requests : \A n \in Positions(E, q) :
    IsTail(T, E) => /\ n \in Nat /\ E[n] \in Event
                    /\ n # 1 => n - 1 \in Positions(T, q) /\ T[n - 1] = E[n] /\ 1 < n
<1> SUFFICES ASSUME NEW E \in Seq(Event), NEW T \in Seq(Event), NEW q \in Requests,
                    NEW n \in Positions(E, q), IsTail(T, E)
             PROVE  /\ n \in Nat /\ E[n] \in Event
                    /\ n # 1 => n - 1 \in Positions(T, q) /\ T[n - 1] = E[n] /\ 1 < n
  OBVIOUS
<1>1. n \in 1..Len(E) /\ E[n].request = q
  BY DEF Positions
<1>2. /\ n \in Nat /\ E[n] \in Event
      /\ n # 1 => n - 1 \in 1..Len(T) /\ 1 < n /\ T[n - 1] = E[n]
  BY <1>1, TailIndices
<1>3. QED
  BY <1>1, <1>2 DEF Positions

LEMMA OfHead ==
  \A E \in Seq(Event), T \in Seq(Event), q \in Requests :
    IsTail(T, E) => (1 \in Positions(E, q) <=> E[1].request = q) /\ E[1] \in Event
<1> SUFFICES ASSUME NEW E \in Seq(Event), NEW T \in Seq(Event), NEW q \in Requests,
                    IsTail(T, E)
             PROVE  (1 \in Positions(E, q) <=> E[1].request = q) /\ E[1] \in Event
  OBVIOUS
<1>1. 1 \in 1..Len(E) /\ E[1] \in Event
  BY TailIndices
<1>2. QED
  BY <1>1 DEF Positions

(* Taking an event from the channel. *)
LEMMA TailInOrder ==
  \A E \in Seq(Event), T \in Seq(Event), q \in Requests :
    IsTail(T, E) /\ InOrder(E, q) => InOrder(T, q)
<1> SUFFICES ASSUME NEW E \in Seq(Event), NEW T \in Seq(Event), NEW q \in Requests,
                    IsTail(T, E), InOrder(E, q),
                    NEW i \in Positions(T, q), NEW j \in Positions(T, q), i < j
             PROVE  /\ T[i].kind \in {"request", "response"}
                    /\ T[j].kind = "request" => T[i].kind = "request" /\ T[i].hop < T[j].hop
                    /\ T[j].kind = "response" => T[i].kind = "request" /\ T[i].hop <= T[j].hop
  BY DEF InOrder
<1>1. /\ i \in Nat /\ j \in Nat
      /\ i + 1 \in Positions(E, q) /\ T[i] = E[i + 1]
      /\ j + 1 \in Positions(E, q) /\ T[j] = E[j + 1]
  BY OfTail, OfWhole, OfHead
<1>2. i + 1 < j + 1
  BY <1>1
<1>3. /\ E[i + 1].kind \in {"request", "response"}
      /\ E[j + 1].kind = "request" => E[i + 1].kind = "request" /\ E[i + 1].hop < E[j + 1].hop
      /\ E[j + 1].kind = "response" =>
           E[i + 1].kind = "request" /\ E[i + 1].hop <= E[j + 1].hop
  BY <1>1, <1>2 DEF InOrder
<1>4. QED
  BY <1>1, <1>3

(* What precedes an event still does, unless it was the event taken and    *)
(* nothing of the request came in between.                                 *)
LEMMA TailPreceded ==
  \A E \in Seq(Event), T \in Seq(Event), q \in Requests, p \in FlowState, g \in FlowState,
     kind \in {"request", "response"}, seen \in FlowState : \A j \in Positions(T, q) :
    /\ IsTail(T, E)
    /\ Preceded(E, q, p, j + 1, kind, seen)
    /\ E[1].request # q => g = p
    /\ E[1].request = q /\ E[1].kind = kind /\ E[1].hop = E[j + 1].hop =>
         /\ g \in {NotPending, seen}
         /\ \A i \in Positions(E, q) : ~(1 < i /\ i < j + 1)
    => Preceded(T, q, g, j, kind, seen)
<1> SUFFICES ASSUME NEW E \in Seq(Event), NEW T \in Seq(Event), NEW q \in Requests,
                    NEW p \in FlowState, NEW g \in FlowState,
                    NEW kind \in {"request", "response"}, NEW seen \in FlowState,
                    NEW j \in Positions(T, q),
                    IsTail(T, E),
                    Preceded(E, q, p, j + 1, kind, seen),
                    E[1].request # q => g = p,
                    E[1].request = q /\ E[1].kind = kind /\ E[1].hop = E[j + 1].hop =>
                      /\ g \in {NotPending, seen}
                      /\ \A i \in Positions(E, q) : ~(1 < i /\ i < j + 1)
             PROVE  Preceded(T, q, g, j, kind, seen)
  OBVIOUS
<1>1. /\ j \in Nat /\ j + 1 \in Positions(E, q) /\ j + 1 # 1 /\ T[j] = E[j + 1]
      /\ (1 \in Positions(E, q) <=> E[1].request = q)
  BY OfTail, OfWhole, OfHead
<1>2. \A i \in Positions(T, q) : i \in Nat /\ i + 1 \in Positions(E, q) /\ i + 1 # 1
  BY OfTail, OfWhole, OfHead
<1>3. \A i \in Positions(T, q) : i < j => i + 1 < j + 1 /\ 1 < i + 1
  BY <1>1, <1>2
<1>4. CASE \E i \in Positions(E, q) : i < j + 1 /\ E[i].kind = kind /\ E[i].hop = E[j + 1].hop
  <2>1. PICK i \in Positions(E, q) :
          i < j + 1 /\ E[i].kind = kind /\ E[i].hop = E[j + 1].hop
    BY <1>4
  <2>2. CASE i # 1
    <3>1. /\ i \in Nat /\ i - 1 \in Positions(T, q) /\ T[i - 1] = E[i]
      BY <2>2, OfTail, OfWhole, OfHead
    <3>2. i - 1 < j
      BY <1>1, <2>1, <3>1
    <3>3. QED
      BY <1>1, <2>1, <3>1, <3>2 DEF Preceded
  <2>3. CASE i = 1
    <3>1. g \in {NotPending, seen} /\ \A k \in Positions(E, q) : ~(1 < k /\ k < j + 1)
      BY <1>1, <2>1, <2>3
    <3>2. \A k \in Positions(T, q) : ~(k < j)
      BY <1>2, <1>3, <3>1
    <3>3. QED
      BY <3>1, <3>2 DEF Preceded
  <2>4. QED
    BY <2>2, <2>3
<1>5. CASE (\A i \in Positions(E, q) : ~(i < j + 1)) /\ p \in {NotPending, seen}
  <2>1. 1 < j + 1
    BY <1>1
  <2>2. E[1].request # q
    BY <1>1, <1>5, <2>1
  <2>3. \A k \in Positions(T, q) : ~(k < j)
    BY <1>2, <1>3, <1>5
  <2>4. QED
    BY <1>5, <2>2, <2>3 DEF Preceded
<1>6. QED
  BY <1>4, <1>5 DEF Preceded

LEMMA SeenType ==
  \A e \in Event : /\ SentState(e.hop) \in FlowState
                   /\ AnsweredState(e.hop) \in FlowState
                   /\ NotPending \in FlowState
  BY BoundAssumption DEF Event, FlowState, SentState, AnsweredState, NotPending

LEMMA TakeOther ==
  \A E \in Seq(Event), T \in Seq(Event), q \in Requests, p \in FlowState :
    IsTail(T, E) /\ E[1].request # q /\ QueueInv(E, q, p) => QueueInv(T, q, p)
<1> SUFFICES ASSUME NEW E \in Seq(Event), NEW T \in Seq(Event), NEW q \in Requests,
                    NEW p \in FlowState, IsTail(T, E), E[1].request # q,
                    QueueInv(E, q, p)
             PROVE  QueueInv(T, q, p)
  OBVIOUS
<1>1. InOrder(T, q)
  BY TailInOrder DEF QueueInv
<1>2. ASSUME NEW j \in Positions(T, q), NEW kind \in {"request", "response"},
             NEW seen \in FlowState,
             Preceded(E, q, p, j + 1, kind, seen)
      PROVE  Preceded(T, q, p, j, kind, seen)
  BY <1>2, TailPreceded
<1>3. \A j \in Positions(T, q) : j + 1 \in Positions(E, q) /\ T[j] = E[j + 1]
  BY OfTail, OfWhole, OfHead
<1>4. \A j \in Positions(T, q) : /\ SentState(T[j].hop) \in FlowState
                                 /\ AnsweredState(T[j].hop) \in FlowState
  BY OfTail, SeenType
<1>5. Chained(T, q, p)
  BY <1>2, <1>3, <1>4 DEF QueueInv, Chained
<1>6. QED
  BY <1>1, <1>5 DEF QueueInv

LEMMA AnsweredPending ==
  \A h \in Nat \ {0} : \A p \in {NotPending, SentState(h)} :
    /\ AfterResponse(p, h) \in {NotPending, AnsweredState(h)}
    /\ p = NotPending => AfterResponse(p, h) = NotPending
  BY DEF AfterResponse, NotPending, SentState, AnsweredState

LEMMA TakeOwn ==
  \A E \in Seq(Event), T \in Seq(Event), q \in Requests, p \in FlowState :
    IsTail(T, E) /\ E[1].request = q /\ QueueInv(E, q, p) =>
      LET e == E[1] IN
      /\ e.kind = "request" => QueueInv(T, q, SentState(e.hop))
      /\ e.kind = "response" => /\ QueueInv(T, q, AfterResponse(p, e.hop))
                                /\ p \in {NotPending, SentState(e.hop)}
      /\ e.kind \in {"finished", "failed"} => Positions(T, q) = {}
      /\ e.kind = "finished" => p \in {NotPending, AnsweredState(e.hop)}
<1> SUFFICES ASSUME NEW E \in Seq(Event), NEW T \in Seq(Event), NEW q \in Requests,
                    NEW p \in FlowState, IsTail(T, E), E[1].request = q,
                    QueueInv(E, q, p)
             PROVE
      LET e == E[1] IN
      /\ e.kind = "request" => QueueInv(T, q, SentState(e.hop))
      /\ e.kind = "response" => /\ QueueInv(T, q, AfterResponse(p, e.hop))
                                /\ p \in {NotPending, SentState(e.hop)}
      /\ e.kind \in {"finished", "failed"} => Positions(T, q) = {}
      /\ e.kind = "finished" => p \in {NotPending, AnsweredState(e.hop)}
  OBVIOUS
<1> DEFINE e == E[1]
<1>1. /\ 1 \in Positions(E, q) /\ E[1] = e /\ e \in Event
      /\ \A n \in Positions(T, q) : /\ n \in Nat /\ n + 1 \in Positions(E, q) /\ n + 1 # 1
                                    /\ T[n] = E[n + 1] /\ E[n + 1] \in Event
  BY OfTail, OfWhole, OfHead
<1>2. \A n \in Positions(T, q) : 1 < n + 1
  BY <1>1
<1>3. \A n \in Positions(E, q) : n \in Nat /\ ~(n < 1) /\ (n # 1 => 1 < n)
  BY DEF Positions
<1>4. InOrder(E, q) /\ Chained(E, q, p)
  BY DEF QueueInv
<1>5. InOrder(T, q)
  BY <1>4, TailInOrder
<1>6. e.kind \in {"request", "response", "finished", "failed"} /\ e.hop \in Nat \ {0}
  BY <1>1, EventTypes
<1>7. \A k \in {"request", "response"}, seen \in FlowState :
        Preceded(E, q, p, 1, k, seen) => p \in {NotPending, seen}
  BY <1>3 DEF Preceded
<1> HIDE DEF e
<1>8. /\ e.kind = "response" => p \in {NotPending, SentState(e.hop)}
      /\ e.kind = "finished" => p \in {NotPending, AnsweredState(e.hop)}
  BY <1>1, <1>4, <1>7, SeenType DEF Chained
<1>9. e.kind \in {"finished", "failed"} => Positions(T, q) = {}
  <2> SUFFICES ASSUME e.kind \in {"finished", "failed"}, NEW n \in Positions(T, q) PROVE FALSE
    OBVIOUS
  <2>1. n + 1 \in Positions(E, q) /\ 1 < n + 1
    BY <1>1, <1>2
  <2>2. E[1].kind \in {"request", "response"}
    BY <1>1, <1>4, <2>1 DEF InOrder
  <2>3. QED
    BY <1>1, <2>2
(* After a request of a hop comes no other request of that hop, and what   *)
(* was preceded by it alone is preceded by nothing in the channel.         *)
<1>10. ASSUME e.kind = "request"
       PROVE  Chained(T, q, SentState(e.hop))
  <2> SUFFICES ASSUME NEW j \in Positions(T, q)
               PROVE  /\ T[j].kind = "response" =>
                           Preceded(T, q, SentState(e.hop), j, "request",
                                    SentState(T[j].hop))
                      /\ T[j].kind = "finished" =>
                           Preceded(T, q, SentState(e.hop), j, "response",
                                    AnsweredState(T[j].hop))
    BY DEF Chained
  <2>1. j + 1 \in Positions(E, q) /\ 1 < j + 1 /\ T[j] = E[j + 1]
    BY <1>1, <1>2
  <2>2. /\ SentState(T[j].hop) \in FlowState /\ AnsweredState(T[j].hop) \in FlowState
        /\ SentState(e.hop) \in FlowState
    BY <1>1, <2>1, SeenType
  <2>3. CASE T[j].kind = "response"
    <3>1. Preceded(E, q, p, j + 1, "request", SentState(T[j].hop))
      BY <1>4, <2>1, <2>3 DEF Chained
    <3>2. ASSUME e.hop = E[j + 1].hop, NEW i \in Positions(E, q), 1 < i, i < j + 1 PROVE FALSE
      <4>1. E[i].kind = "request" /\ E[i].hop <= E[j + 1].hop
        BY <1>4, <2>1, <2>3, <3>2 DEF InOrder
      <4>2. e.hop < E[i].hop
        BY <1>1, <1>4, <3>2, <4>1 DEF InOrder
      <4>3. E[i].hop \in Nat
        BY <3>2, EventTypes, OfTail, OfWhole, OfHead
      <4>4. QED
        BY <1>6, <3>2, <4>1, <4>2, <4>3
    <3>3. e.hop = E[j + 1].hop => SentState(e.hop) = SentState(T[j].hop)
      BY <2>1
    <3>4. e.hop = E[j + 1].hop => \A i \in Positions(E, q) : ~(1 < i /\ i < j + 1)
      BY <3>2
    <3>5. QED
      BY <2>1, <2>3, <2>2, <3>1, <3>3, <3>4, TailPreceded DEF e
  <2>4. CASE T[j].kind = "finished"
    <3>1. Preceded(E, q, p, j + 1, "response", AnsweredState(T[j].hop))
      BY <1>4, <2>1, <2>4 DEF Chained
    <3>2. E[1].kind # "response"
      BY <1>10 DEF e
    <3>3. QED
      BY <2>4, <2>2, <3>1, <3>2, TailPreceded
  <2>5. QED
    BY <2>3, <2>4
<1>11. ASSUME e.kind = "response"
       PROVE  Chained(T, q, AfterResponse(p, e.hop))
  <2> SUFFICES ASSUME NEW j \in Positions(T, q)
               PROVE  /\ T[j].kind = "response" => FALSE
                      /\ T[j].kind = "finished" =>
                           Preceded(T, q, AfterResponse(p, e.hop), j, "response",
                                    AnsweredState(T[j].hop))
    BY DEF Chained
  <2>1. j + 1 \in Positions(E, q) /\ 1 < j + 1 /\ T[j] = E[j + 1]
    BY <1>1, <1>2
  <2>2. T[j].kind # "response"
    BY <1>1, <1>4, <1>11, <2>1 DEF InOrder
  <2>3. CASE T[j].kind = "finished"
    <3>1. Preceded(E, q, p, j + 1, "response", AnsweredState(T[j].hop))
      BY <1>4, <2>1, <2>3 DEF Chained
    <3>2. ASSUME e.hop = E[j + 1].hop
          PROVE  AfterResponse(p, e.hop) \in
                   {NotPending, AnsweredState(T[j].hop)}
      BY <1>6, <1>8, <1>11, <2>1, <3>2, AnsweredPending
    <3>3. ASSUME NEW i \in Positions(E, q), 1 < i, i < j + 1 PROVE FALSE
      <4>1. E[i].kind \in {"request", "response"}
        BY <1>4, <2>1, <3>3 DEF InOrder
      <4>2. E[1].kind = "request"
        BY <1>1, <1>4, <3>3, <4>1 DEF InOrder
      <4>3. QED
        BY <1>1, <1>11, <4>2
    <3>4. /\ AnsweredState(T[j].hop) \in FlowState
          /\ AfterResponse(p, e.hop) \in FlowState
      BY <1>1, <2>1, SeenType, AfterResponseType DEF Event
    <3>5. \A i \in Positions(E, q) : ~(1 < i /\ i < j + 1)
      BY <3>3
    <3>6. E[1] = e /\ E[1].request = q
      BY DEF e
    <3>7. QED
      BY <2>1, <2>3, <3>1, <3>2, <3>4, <3>5, <3>6, TailPreceded
  <2>4. QED
    BY <2>2, <2>3
<1>12. QED
  BY <1>5, <1>8, <1>9, <1>10, <1>11 DEF QueueInv, e

(* A channel that the goroutine has emptied, or that never held anything.  *)
LEMMA NothingSeen ==
  \A q \in Requests, h \in BOOLEAN :
    /\ \A p : QueueInv(<<>>, q, p)
    /\ \A b \in BrowserState : Behind(<<>>, q, NotPending, b, h)
  BY DEF Positions, QueueInv, InOrder, Chained, Behind, LastSeen

LEMMA EmptyQueue ==
  \A E \in Seq(Event), q \in Requests, p \in FlowState :
    Positions(E, q) = {} => QueueInv(E, q, p)
  BY DEF QueueInv, InOrder, Chained

(* Storing a flow, or failing to, takes the request out of the map. *)
LEMMA ForgetPending ==
  \A E \in Seq(Event), q \in Requests, p \in FlowState, b \in BrowserState,
     h \in BOOLEAN, g \in BOOLEAN :
    /\ QueueInv(E, q, p) => QueueInv(E, q, NotPending)
    /\ Behind(E, q, p, b, h) => Behind(E, q, NotPending, b, g)
<1> SUFFICES ASSUME NEW E \in Seq(Event), NEW q \in Requests, NEW p \in FlowState,
                    NEW b \in BrowserState, NEW h \in BOOLEAN, NEW g \in BOOLEAN
             PROVE  /\ QueueInv(E, q, p) => QueueInv(E, q, NotPending)
                    /\ Behind(E, q, p, b, h) => Behind(E, q, NotPending, b, g)
  OBVIOUS
<1>1. ASSUME NEW j, NEW k, NEW seen, Preceded(E, q, p, j, k, seen)
      PROVE  Preceded(E, q, NotPending, j, k, seen)
  BY <1>1 DEF Preceded
<1>2. QueueInv(E, q, p) => QueueInv(E, q, NotPending)
  BY <1>1 DEF QueueInv, Chained
<1>3. ASSUME NEW k, NEW seen, LastSeen(E, q, p, k, b, seen)
      PROVE  LastSeen(E, q, NotPending, k, b, seen)
  BY <1>3 DEF LastSeen
<1>4. Behind(E, q, p, b, h) => Behind(E, q, NotPending, b, g)
  BY <1>3 DEF Behind
<1>5. QED
  BY <1>2, <1>4

LEMMA TakeOtherBehind ==
  \A E \in Seq(Event), T \in Seq(Event), q \in Requests, p \in FlowState, b \in BrowserState,
     h \in BOOLEAN, g \in BOOLEAN :
    IsTail(T, E) /\ E[1].request # q /\ ~g /\ Behind(E, q, p, b, g) => Behind(T, q, p, b, h)
<1> SUFFICES ASSUME NEW E \in Seq(Event), NEW T \in Seq(Event), NEW q \in Requests,
                    NEW p \in FlowState, NEW b \in BrowserState, NEW h \in BOOLEAN,
                    NEW g \in BOOLEAN,
                    IsTail(T, E), E[1].request # q, ~g, Behind(E, q, p, b, g)
             PROVE  Behind(T, q, p, b, h)
  OBVIOUS
<1>1. \A n \in Positions(T, q) : n + 1 \in Positions(E, q) /\ T[n] = E[n + 1]
  BY OfTail
<1>2. 1 \notin Positions(E, q)
  BY OfHead
<1>3. \A n \in Positions(E, q) : n - 1 \in Positions(T, q) /\ T[n - 1] = E[n]
  BY <1>2, OfWhole
<1>4. Positions(E, q) = {} => Positions(T, q) = {}
  BY <1>1
<1>5. ASSUME NEW k, NEW seen, LastSeen(E, q, p, k, b, seen)
      PROVE  LastSeen(T, q, p, k, b, seen)
  BY <1>3, <1>4, <1>5 DEF LastSeen
<1>6. /\ b.stage = "sent" => LastSeen(T, q, p, "request", b, SentState(b.hop))
      /\ b.stage = "responded" => LastSeen(T, q, p, "response", b, AnsweredState(b.hop))
  BY <1>5 DEF Behind
<1>7. b.stage = "over" =>
        \/ \E i \in Positions(T, q) : T[i].kind \in {"finished", "failed"}
        \/ Positions(T, q) = {} /\ (p = NotPending \/ h)
  BY <1>3, <1>4 DEF Behind
<1>8. \A i \in Positions(T, q) :
        /\ T[i].hop <= b.hop
        /\ b.stage \in {"new", "sent"} => T[i].kind = "request"
        /\ b.stage = "responded" => T[i].kind \in {"request", "response"}
  BY <1>1 DEF Behind
<1>9. QED
  BY <1>6, <1>7, <1>8 DEF Behind

LEMMA TakeOwnBehind ==
  \A E \in Seq(Event), T \in Seq(Event), q \in Requests, p \in FlowState, b \in BrowserState,
     h \in BOOLEAN, g \in BOOLEAN :
    IsTail(T, E) /\ E[1].request = q /\ QueueInv(E, q, p) /\ Behind(E, q, p, b, h) =>
      /\ E[1].kind = "request" => Behind(T, q, SentState(E[1].hop), b, g)
      /\ E[1].kind = "response" => Behind(T, q, AfterResponse(p, E[1].hop), b, g)
      /\ E[1].kind \in {"finished", "failed"} =>
           \A f \in FlowState : f = NotPending \/ g => Behind(T, q, f, b, g)
<1> SUFFICES ASSUME NEW E \in Seq(Event), NEW T \in Seq(Event), NEW q \in Requests,
                    NEW p \in FlowState, NEW b \in BrowserState, NEW h \in BOOLEAN,
                    NEW g \in BOOLEAN,
                    IsTail(T, E), E[1].request = q, QueueInv(E, q, p), Behind(E, q, p, b, h)
             PROVE
      /\ E[1].kind = "request" => Behind(T, q, SentState(E[1].hop), b, g)
      /\ E[1].kind = "response" => Behind(T, q, AfterResponse(p, E[1].hop), b, g)
      /\ E[1].kind \in {"finished", "failed"} =>
           \A f \in FlowState : f = NotPending \/ g => Behind(T, q, f, b, g)
  OBVIOUS
<1>1. \A n \in Positions(T, q) : /\ n \in Nat /\ n + 1 \in Positions(E, q) /\ 1 < n + 1
                                 /\ T[n] = E[n + 1] /\ E[n + 1] \in Event
  <2>1. \A n \in Positions(T, q) : /\ n \in Nat /\ n + 1 \in Positions(E, q) /\ n + 1 # 1
                                   /\ T[n] = E[n + 1] /\ E[n + 1] \in Event
    BY OfTail
  <2>2. \A n \in Nat : n + 1 # 1 => 1 < n + 1
    OBVIOUS
  <2>3. QED
    BY <2>1, <2>2
<1>2. 1 \in Positions(E, q) /\ E[1] \in Event
  BY OfHead
<1>3. \A n \in Positions(E, q) : n # 1 => n - 1 \in Positions(T, q) /\ T[n - 1] = E[n]
  BY OfWhole
<1>4. InOrder(E, q)
  BY DEF QueueInv
<1>5. /\ b.stage \in {"new", "sent", "responded", "over"}
      /\ b.hop \in Nat /\ E[1].hop \in Nat /\ E[1].hop # 0
  BY <1>2, EventTypes, BoundAssumption DEF BrowserState
<1>6. ASSUME NEW i \in Positions(T, q)
      PROVE  /\ T[i].hop <= b.hop
             /\ b.stage \in {"new", "sent"} => T[i].kind = "request"
             /\ b.stage = "responded" => T[i].kind \in {"request", "response"}
  BY <1>1 DEF Behind
<1>7. b.stage = "sent" =>
        /\ E[1].kind = "request"
        /\ LastSeen(T, q, SentState(E[1].hop), "request", b, SentState(b.hop))
  <2> SUFFICES ASSUME b.stage = "sent"
               PROVE  /\ E[1].kind = "request"
                      /\ LastSeen(T, q, SentState(E[1].hop), "request", b, SentState(b.hop))
    OBVIOUS
  <2>1. E[1].kind = "request"
    BY <1>2 DEF Behind
  <2>2. PICK i \in Positions(E, q) : E[i].kind = "request" /\ E[i].hop = b.hop
    BY <1>2 DEF Behind, LastSeen
  <2>3. CASE i # 1
    BY <1>3, <2>1, <2>2, <2>3 DEF LastSeen
  <2>4. CASE i = 1
    <3>1. ASSUME NEW n \in Positions(T, q) PROVE FALSE
      <4>1. E[n + 1].kind = "request" /\ E[n + 1].hop <= b.hop
        BY <1>1, <3>1 DEF Behind
      <4>2. E[1].hop < E[n + 1].hop
        BY <1>1, <1>2, <1>4, <3>1, <4>1 DEF InOrder
      <4>3. E[n + 1].hop \in Nat
        BY <1>1, <3>1, EventTypes
      <4>4. QED
        BY <1>5, <2>2, <2>4, <4>1, <4>2, <4>3
    <3>2. QED
      BY <2>1, <2>2, <2>4, <3>1 DEF LastSeen
  <2>5. QED
    BY <2>3, <2>4
<1>8. b.stage = "responded" =>
        /\ E[1].kind \in {"request", "response"}
        /\ E[1].kind = "request" =>
             \A f : LastSeen(T, q, f, "response", b, AnsweredState(b.hop))
        /\ E[1].kind = "response" =>
             LastSeen(T, q, AfterResponse(p, E[1].hop), "response", b, AnsweredState(b.hop))
  <2> SUFFICES ASSUME b.stage = "responded"
               PROVE
        /\ E[1].kind \in {"request", "response"}
        /\ E[1].kind = "request" =>
             \A f : LastSeen(T, q, f, "response", b, AnsweredState(b.hop))
        /\ E[1].kind = "response" =>
             LastSeen(T, q, AfterResponse(p, E[1].hop), "response", b, AnsweredState(b.hop))
    OBVIOUS
  <2>1. E[1].kind \in {"request", "response"}
    BY <1>2 DEF Behind
  <2>2. PICK i \in Positions(E, q) : E[i].kind = "response" /\ E[i].hop = b.hop
    BY <1>2 DEF Behind, LastSeen
  <2>3. CASE i # 1
    BY <1>3, <2>1, <2>2, <2>3 DEF LastSeen
  <2>4. CASE i = 1
    <3>1. ASSUME NEW n \in Positions(T, q) PROVE FALSE
      <4>1. E[n + 1].kind \in {"request", "response"}
        BY <1>1, <3>1 DEF Behind
      <4>2. E[1].kind = "request"
        BY <1>1, <1>2, <1>4, <3>1, <4>1 DEF InOrder
      <4>3. QED
        BY <2>2, <2>4, <4>2
    <3>2. p \in {NotPending, SentState(E[1].hop)}
      BY <2>2, <2>4, TakeOwn
    <3>3. AfterResponse(p, E[1].hop) \in {NotPending, AnsweredState(b.hop)}
      BY <1>5, <2>2, <2>4, <3>2, AnsweredPending
    <3>4. QED
      BY <2>1, <2>2, <2>4, <3>1, <3>3 DEF LastSeen
  <2>5. QED
    BY <2>3, <2>4
<1>9. b.stage = "over" /\ E[1].kind \in {"request", "response"} =>
        \E i \in Positions(T, q) : T[i].kind \in {"finished", "failed"}
  <2> SUFFICES ASSUME b.stage = "over", E[1].kind \in {"request", "response"}
               PROVE  \E i \in Positions(T, q) : T[i].kind \in {"finished", "failed"}
    OBVIOUS
  <2>1. PICK i \in Positions(E, q) : E[i].kind \in {"finished", "failed"}
    BY <1>2 DEF Behind
  <2>2. i # 1
    BY <2>1
  <2>3. QED
    BY <1>3, <2>1, <2>2
<1>10. E[1].kind \in {"finished", "failed"} => b.stage = "over" /\ Positions(T, q) = {}
  <2>1. E[1].kind \in {"finished", "failed"} => b.stage = "over"
    BY <1>2, <1>5 DEF Behind
  <2>2. E[1].kind \in {"finished", "failed"} => Positions(T, q) = {}
    BY TakeOwn
  <2>3. QED
    BY <2>1, <2>2
<1>11. E[1].kind = "request" => Behind(T, q, SentState(E[1].hop), b, g)
  BY <1>6, <1>7, <1>8, <1>9 DEF Behind
<1>12. E[1].kind = "response" => Behind(T, q, AfterResponse(p, E[1].hop), b, g)
  BY <1>6, <1>7, <1>8, <1>9 DEF Behind
<1>13. E[1].kind \in {"finished", "failed"} =>
           \A f \in FlowState : f = NotPending \/ g => Behind(T, q, f, b, g)
  BY <1>6, <1>10 DEF Behind
<1>14. QED
  BY <1>11, <1>12, <1>13

(* Once e is taken, f is pending where p was; g tells whether the goroutine *)
(* then holds the end of the request.                                      *)
Takes(e, p, f, g) ==
  \/ e.kind = "request" /\ f = SentState(e.hop)
  \/ e.kind = "response" /\ f = AfterResponse(p, e.hop)
  \/ e.kind \in {"finished", "failed"} /\ (f = NotPending \/ g)

LEMMA TakesBehind ==
  \A E \in Seq(Event), T \in Seq(Event), q \in Requests, p \in FlowState, f \in FlowState,
     b \in BrowserState, h \in BOOLEAN, g \in BOOLEAN :
    /\ IsTail(T, E) /\ E[1].request = q /\ Takes(E[1], p, f, g)
    /\ QueueInv(E, q, p) /\ Behind(E, q, p, b, h)
    => Behind(T, q, f, b, g)
<1> SUFFICES ASSUME NEW E \in Seq(Event), NEW T \in Seq(Event), NEW q \in Requests,
                    NEW p \in FlowState, NEW f \in FlowState, NEW b \in BrowserState,
                    NEW h \in BOOLEAN, NEW g \in BOOLEAN,
                    IsTail(T, E), E[1].request = q, Takes(E[1], p, f, g),
                    QueueInv(E, q, p), Behind(E, q, p, b, h)
             PROVE  Behind(T, q, f, b, g)
  OBVIOUS
<1>1. /\ E[1].kind = "request" => Behind(T, q, SentState(E[1].hop), b, g)
      /\ E[1].kind = "response" => Behind(T, q, AfterResponse(p, E[1].hop), b, g)
      /\ E[1].kind \in {"finished", "failed"} =>
           \A k \in FlowState : k = NotPending \/ g => Behind(T, q, k, b, g)
  BY TakeOwnBehind
<1>2. QED
  BY <1>1 DEF Takes

(* Putting an event into the channel.  A is E with e at its end. *)
IsAppend(A, E, e) == A = Append(E, e)

LEMMA OfAppend ==
  \A E \in Seq(Event), A \in Seq(Event), e \in Event, q \in Requests :
    IsAppend(A, E, e) =>
      /\ \A i \in Positions(E, q) : /\ i \in Positions(A, q) /\ A[i] = E[i]
                                    /\ i \in Nat /\ i < Len(E) + 1 /\ E[i] \in Event
      /\ \A i \in Positions(A, q) : i = Len(E) + 1 \/ i \in Positions(E, q)
      /\ A[Len(E) + 1] = e /\ Len(E) + 1 \in Nat
      /\ Len(E) + 1 \in Positions(A, q) <=> e.request = q
<1> SUFFICES ASSUME NEW E \in Seq(Event), NEW A \in Seq(Event), NEW e \in Event,
                    NEW q \in Requests, IsAppend(A, E, e)
             PROVE
      /\ \A i \in Positions(E, q) : /\ i \in Positions(A, q) /\ A[i] = E[i]
                                    /\ i \in Nat /\ i < Len(E) + 1 /\ E[i] \in Event
      /\ \A i \in Positions(A, q) : i = Len(E) + 1 \/ i \in Positions(E, q)
      /\ A[Len(E) + 1] = e /\ Len(E) + 1 \in Nat
      /\ Len(E) + 1 \in Positions(A, q) <=> e.request = q
  OBVIOUS
<1> DEFINE k == Len(E) + 1
<1>1. /\ A[k] = e /\ k \in Nat /\ Len(A) = k /\ Len(E) \in Nat
      /\ \A i \in 1..Len(E) : A[i] = E[i] /\ E[i] \in Event /\ i \in Nat /\ i < k
  BY DEF IsAppend
<1>2. 1..k = (1..Len(E)) \cup {k} /\ k \notin 1..Len(E)
  BY <1>1
<1> HIDE DEF k
<1>3. QED
  BY <1>1, <1>2 DEF Positions, k

LEMMA AppendOther ==
  \A E \in Seq(Event), A \in Seq(Event), e \in Event, q \in Requests, p \in FlowState,
     b \in BrowserState, h \in BOOLEAN :
    IsAppend(A, E, e) /\ e.request # q =>
      /\ QueueInv(E, q, p) => QueueInv(A, q, p)
      /\ Behind(E, q, p, b, h) => Behind(A, q, p, b, h)
<1> SUFFICES ASSUME NEW E \in Seq(Event), NEW A \in Seq(Event), NEW e \in Event,
                    NEW q \in Requests, NEW p \in FlowState, NEW b \in BrowserState,
                    NEW h \in BOOLEAN, IsAppend(A, E, e), e.request # q
             PROVE  /\ QueueInv(E, q, p) => QueueInv(A, q, p)
                    /\ Behind(E, q, p, b, h) => Behind(A, q, p, b, h)
  OBVIOUS
<1>1. Positions(A, q) = Positions(E, q) /\ \A i \in Positions(E, q) : A[i] = E[i]
  <2>1. /\ \A i \in Positions(E, q) : i \in Positions(A, q) /\ A[i] = E[i]
        /\ \A i \in Positions(A, q) : i = Len(E) + 1 \/ i \in Positions(E, q)
        /\ Len(E) + 1 \notin Positions(A, q)
    BY OfAppend
  <2>2. \A i : i \in Positions(A, q) <=> i \in Positions(E, q)
    BY <2>1
  <2>3. QED
    BY <2>1, <2>2
<1>2. InOrder(E, q) => InOrder(A, q)
  BY <1>1 DEF InOrder
<1>3. Chained(E, q, p) => Chained(A, q, p)
  BY <1>1 DEF Chained, Preceded
<1>4. Behind(E, q, p, b, h) => Behind(A, q, p, b, h)
  BY <1>1 DEF Behind, LastSeen
<1>5. QED
  BY <1>2, <1>3, <1>4 DEF QueueInv

(* The browser sends e and goes on from b to d. *)
Emits(b, e, d) ==
  \/ /\ e.kind = "request" /\ b.stage \in {"new", "sent"} /\ e.hop = b.hop + 1
     /\ d.stage = "sent" /\ d.hop = e.hop
  \/ /\ e.kind = "response" /\ b.stage = "sent" /\ e.hop = b.hop
     /\ d.stage = "responded" /\ d.hop = e.hop
  \/ /\ e.kind = "finished" /\ b.stage = "responded" /\ e.hop = b.hop
     /\ d.stage = "over" /\ d.hop = e.hop
  \/ /\ e.kind = "failed" /\ b.stage \in {"sent", "responded"} /\ e.hop = b.hop
     /\ d.stage = "over" /\ d.hop = e.hop

LEMMA AppendOwn ==
  \A E \in Seq(Event), A \in Seq(Event), e \in Event, q \in Requests, p \in FlowState,
     b \in BrowserState, d \in BrowserState, h \in BOOLEAN :
    /\ IsAppend(A, E, e) /\ e.request = q /\ Emits(b, e, d)
    /\ QueueInv(E, q, p) /\ Behind(E, q, p, b, h)
    => QueueInv(A, q, p) /\ Behind(A, q, p, d, h)
<1> SUFFICES ASSUME NEW E \in Seq(Event), NEW A \in Seq(Event), NEW e \in Event,
                    NEW q \in Requests, NEW p \in FlowState, NEW b \in BrowserState,
                    NEW d \in BrowserState, NEW h \in BOOLEAN,
                    IsAppend(A, E, e), e.request = q, Emits(b, e, d),
                    QueueInv(E, q, p), Behind(E, q, p, b, h)
             PROVE  QueueInv(A, q, p) /\ Behind(A, q, p, d, h)
  OBVIOUS
<1> DEFINE k == Len(E) + 1
<1>1. /\ \A i \in Positions(E, q) : /\ i \in Positions(A, q) /\ A[i] = E[i]
                                    /\ i \in Nat /\ i < k /\ E[i] \in Event
      /\ \A i \in Positions(A, q) : i = k \/ i \in Positions(E, q)
      /\ A[k] = e /\ k \in Nat /\ k \in Positions(A, q)
  BY OfAppend
<1> HIDE DEF k
<1>2. InOrder(E, q) /\ Chained(E, q, p)
  BY DEF QueueInv
<1>3. /\ e.kind \in {"request", "response", "finished", "failed"}
      /\ e.hop \in Nat /\ b.hop \in Nat
      /\ \A i \in Positions(E, q) : E[i].hop \in Nat
  BY <1>1, EventTypes, BoundAssumption DEF BrowserState
<1>4. \A i \in Positions(E, q) :
        /\ E[i].hop <= b.hop
        /\ b.stage \in {"new", "sent"} => E[i].kind = "request"
        /\ b.stage = "responded" => E[i].kind \in {"request", "response"}
  BY DEF Behind
<1>5. \A i \in Positions(E, q) :
        /\ E[i].kind \in {"request", "response"}
        /\ e.kind = "request" => E[i].kind = "request" /\ E[i].hop < e.hop
        /\ e.kind = "response" => E[i].kind = "request" /\ E[i].hop <= e.hop
        /\ E[i].hop <= d.hop
  <2> SUFFICES ASSUME NEW i \in Positions(E, q)
               PROVE  /\ E[i].kind \in {"request", "response"}
                      /\ e.kind = "request" => E[i].kind = "request" /\ E[i].hop < e.hop
                      /\ e.kind = "response" => E[i].kind = "request" /\ E[i].hop <= e.hop
                      /\ E[i].hop <= d.hop
    OBVIOUS
  <2>1. E[i].hop <= b.hop /\ E[i].hop < b.hop + 1 /\ E[i].hop <= b.hop + 1
    BY <1>3, <1>4
  <2>2. QED
    BY <1>4, <2>1 DEF Emits
<1>6. \A i \in Positions(A, q), j \in Positions(A, q) : i < j =>
        i \in Positions(E, q) /\ (j = k \/ j \in Positions(E, q))
  <2>1. \A j \in Positions(E, q) : ~(k < j)
    BY <1>1
  <2>2. ~(k < k)
    BY <1>1
  <2>3. QED
    BY <1>1, <2>1, <2>2
<1>7. InOrder(A, q)
  BY <1>1, <1>2, <1>5, <1>6 DEF InOrder
<1>8. ASSUME NEW j \in Positions(E, q), NEW kind, NEW seen, Preceded(E, q, p, j, kind, seen)
      PROVE  Preceded(A, q, p, j, kind, seen)
  BY <1>1, <1>6, <1>8 DEF Preceded
<1>9. ASSUME NEW kind, NEW seen, LastSeen(E, q, p, kind, b, seen), e.hop = b.hop
      PROVE  Preceded(A, q, p, k, kind, seen)
  BY <1>1, <1>6, <1>9 DEF Preceded, LastSeen
<1>10. /\ e.kind = "response" => /\ e.hop = b.hop
                                 /\ LastSeen(E, q, p, "request", b, SentState(e.hop))
       /\ e.kind = "finished" => /\ e.hop = b.hop
                                 /\ LastSeen(E, q, p, "response", b, AnsweredState(e.hop))
  BY DEF Emits, Behind
<1>11. Chained(A, q, p)
  <2>1. /\ e.kind = "response" => Preceded(A, q, p, k, "request", SentState(A[k].hop))
        /\ e.kind = "finished" => Preceded(A, q, p, k, "response", AnsweredState(A[k].hop))
    BY <1>1, <1>9, <1>10
  <2>2. ASSUME NEW j \in Positions(E, q)
        PROVE  /\ A[j].kind = "response" =>
                    Preceded(A, q, p, j, "request", SentState(A[j].hop))
               /\ A[j].kind = "finished" =>
                    Preceded(A, q, p, j, "response", AnsweredState(A[j].hop))
    BY <1>1, <1>2, <1>8 DEF Chained
  <2>3. QED
    BY <1>1, <2>1, <2>2 DEF Chained
<1>12. Behind(A, q, p, d, h)
  <2>1. \A i \in Positions(A, q) :
          /\ A[i].hop <= d.hop
          /\ d.stage \in {"new", "sent"} => A[i].kind = "request"
          /\ d.stage = "responded" => A[i].kind \in {"request", "response"}
    <3>1. e.hop <= d.hop
      BY <1>3 DEF Emits
    <3>2. QED
      BY <1>1, <1>5, <3>1 DEF Emits
  <2>2. /\ d.stage = "sent" => A[k].kind = "request" /\ A[k].hop = d.hop
        /\ d.stage = "responded" => A[k].kind = "response" /\ A[k].hop = d.hop
        /\ d.stage = "over" => A[k].kind \in {"finished", "failed"}
    BY <1>1 DEF Emits
  <2>3. QED
    BY <1>1, <2>1, <2>2 DEF Behind, LastSeen
<1>13. QED
  BY <1>7, <1>11, <1>12 DEF QueueInv

-----------------------------------------------------------------------------
(* Pairing and completeness. *)
Handling(r, q) == run[r].hand = q /\ run[r].pc \in HandlingEnd

(* What holds of each run: nothing is seen before Network.enable is        *)
(* answered; and of each request of which no event was dropped, the order  *)
(* of its events, and how far the goroutine is behind the browser.         *)
SeesNothingBefore(r) ==
  /\ ~link[r].enabled => link[r].events = <<>> /\ pending[r] = NothingPending
  /\ run[r].pc \in {"none", "dial"} => ~link[r].open /\ ~link[r].enabled

FollowsTheBrowser(r) ==
  \A q \in Requests \ dropped[r] :
    /\ QueueInv(link[r].events, q, pending[r][q])
    /\ link[r].open => Behind(link[r].events, q, pending[r][q], browser[q], Handling(r, q))

(* A pending request was answered itself or not at all, and the body of a  *)
(* finished one is asked for only when it was answered.                    *)
Paired(flow) == flow.answered \in {0, flow.hop}

PendingPaired(r) == \A q \in Requests \ dropped[r] : Paired(pending[r][q])

AnsweredInHand(r) ==
  run[r].pc \in {"body", "persist"} /\ run[r].hand \notin dropped[r] =>
    pending[r][run[r].hand].answered = pending[r][run[r].hand].hop

RowsPaired(r) ==
  \A n \in DOMAIN rows[r] :
    rows[r][n].request \notin dropped[r] =>
      \/ rows[r][n].answered = rows[r][n].hop
      \/ rows[r][n].failed /\ rows[r][n].answered = 0

CaptureInv(r) ==
  /\ SeesNothingBefore(r)
  /\ FollowsTheBrowser(r)
  /\ PendingPaired(r)
  /\ AnsweredInHand(r)
  /\ RowsPaired(r)

PairInv == TypeInv /\ \A r \in Runs : CaptureInv(r)

LEMMA HandlingIsBoolean == \A r \in Runs, q \in Requests : Handling(r, q) \in BOOLEAN
  BY DEF Handling

LEMMA TypesOfRun ==
  ASSUME TypeInv, NEW r \in Runs
  PROVE  /\ run[r] \in RunState /\ link[r] \in LinkState
         /\ link[r].events \in Seq(Event) /\ rows[r] \in Seq(Row)
         /\ dropped[r] \subseteq Requests
         /\ \A q \in Requests : pending[r][q] \in FlowState /\ browser[q] \in BrowserState
<1>1. /\ run[r] \in RunState /\ link[r] \in LinkState /\ rows[r] \in Seq(Row)
      /\ \A q \in Requests : pending[r][q] \in FlowState /\ browser[q] \in BrowserState
  BY TypeInvTypes
<1>2. link[r].events \in Seq(Event)
  BY <1>1 DEF LinkState
<1>3. dropped[r] \subseteq Requests
  BY DEF TypeInv, TypeOK
<1>4. QED
  BY <1>1, <1>2, <1>3

(* A step that leaves the events, the pending map and the rows of a run    *)
(* alone, and does not begin to handle anything, keeps CaptureInv.         *)
LEMMA CaptureInvFrame ==
  ASSUME PairInv, NEW d \in Runs,
         run'[d].hand = run[d].hand,
         run'[d].pc \in HandlingEnd <=> run[d].pc \in HandlingEnd,
         run'[d].pc \in {"body", "persist"} => run[d].pc \in {"body", "persist"},
         run'[d].pc \in {"none", "dial"} => run[d].pc \in {"none", "dial"},
         link'[d].events = link[d].events,
         link'[d].open => link[d].open,
         \/ link'[d].enabled = link[d].enabled
         \/ link[d].open /\ link'[d].enabled,
         pending'[d] = pending[d], rows'[d] = rows[d], dropped'[d] = dropped[d],
         UNCHANGED browser
  PROVE  CaptureInv(d)'
<1>1. CaptureInv(d)
  BY DEF PairInv
<1>2. SeesNothingBefore(d)'
  BY <1>1 DEF CaptureInv, SeesNothingBefore
<1>3. FollowsTheBrowser(d)'
  <2>1. \A q \in Requests : Handling(d, q)' = Handling(d, q)
    BY DEF Handling
  <2>2. QED
    BY <1>1, <2>1 DEF CaptureInv, FollowsTheBrowser
<1>4. PendingPaired(d)' /\ AnsweredInHand(d)' /\ RowsPaired(d)'
  BY <1>1 DEF CaptureInv, PendingPaired, AnsweredInHand, RowsPaired
<1>5. QED
  BY <1>2, <1>3, <1>4 DEF CaptureInv

(* A run that has nothing to do with a step. *)
LEMMA SameRun ==
  ASSUME PairInv, NEW d \in Runs,
         run'[d] = run[d], link'[d] = link[d], pending'[d] = pending[d], rows'[d] = rows[d],
         dropped'[d] = dropped[d], UNCHANGED browser
  PROVE  CaptureInv(d)'
  BY CaptureInvFrame

LEMMA NothingIsPaired ==
  /\ Paired(NotPending)
  /\ \A h : Paired(SentState(h)) /\ Paired(AnsweredState(h))
  BY ShortNames DEF Paired, SentState, AnsweredState

LEMMA InitPairInv == Init => PairInv
<1> SUFFICES ASSUME Init, NEW r \in Runs PROVE CaptureInv(r)
  BY InitType DEF PairInv
<1>1. /\ link[r].events = <<>> /\ ~link[r].open /\ ~link[r].enabled
      /\ pending[r] = NothingPending /\ rows[r] = <<>> /\ run[r].pc = "none"
  BY ShortNames DEF Init
<1>2. FollowsTheBrowser(r)
  BY <1>1, NothingSeen DEF FollowsTheBrowser
<1>3. PendingPaired(r)
  BY <1>1, ShortNames, NothingIsPaired DEF PendingPaired
<1>4. QED
  BY <1>1, <1>2, <1>3 DEF CaptureInv, SeesNothingBefore, AnsweredInHand, RowsPaired

LEMMA EndsPairInv ==
  ASSUME PairInv, NEW r \in Runs, Ends(r), UNCHANGED <<managerVars, browser, dropped>>
  PROVE  CaptureInv(r)'
<1>1. TypeInv /\ CaptureInv(r)
  BY DEF PairInv
<1>2. /\ run'[r].pc = "ended" /\ link'[r] = NoLink /\ pending'[r] = NothingPending
      /\ rows'[r] = rows[r]
  BY <1>1, TypeInvTypes DEF Ends, Goto, RunState
<1>3. link'[r].events = <<>> /\ ~link'[r].open /\ ~link'[r].enabled
  BY <1>2, ShortNames
<1>4. FollowsTheBrowser(r)'
  BY <1>2, <1>3, NothingSeen DEF FollowsTheBrowser
<1>5. PendingPaired(r)'
  BY <1>2, ShortNames, NothingIsPaired DEF PendingPaired
<1>6. QED
  BY <1>1, <1>2, <1>3, <1>4, <1>5
  DEF CaptureInv, SeesNothingBefore, AnsweredInHand, RowsPaired

(* A goroutine that has dialled has seen nothing yet. *)
LEMMA DialPairInv ==
  ASSUME PairInv, NEW r \in Runs, Dial(r), UNCHANGED <<managerVars, browser, dropped>>
  PROVE  CaptureInv(r)'
<1>1. TypeInv /\ CaptureInv(r)
  BY DEF PairInv
<1>2. CASE Ends(r)
  BY <1>2, EndsPairInv
<1>3. CASE /\ Goto(r, "enable")
           /\ link' = [link EXCEPT ![r].open = TRUE, ![r].reply = "waiting"]
           /\ UNCHANGED captureVars
  <2>1. /\ run'[r].pc = "enable" /\ link'[r].events = link[r].events
        /\ link'[r].enabled = link[r].enabled
        /\ pending'[r] = pending[r] /\ rows'[r] = rows[r]
    BY <1>1, <1>3, TypeInvTypes DEF Goto, RunState, LinkState, captureVars
  <2>2. ~link[r].enabled /\ link[r].events = <<>> /\ pending[r] = NothingPending
    BY <1>1 DEF Dial, CaptureInv, SeesNothingBefore
  <2>3. FollowsTheBrowser(r)'
    <3>1. SUFFICES ASSUME NEW q \in Requests
                   PROVE  /\ QueueInv(<<>>, q, NotPending)
                          /\ Behind(<<>>, q, NotPending, browser[q], Handling(r, q)')
      BY <2>1, <2>2, ShortNames DEF FollowsTheBrowser
    <3>2. browser[q] \in BrowserState /\ Handling(r, q)' \in BOOLEAN
      BY <1>1, TypeInvTypes DEF Handling
    <3>3. QED
      BY <3>2, NothingSeen
  <2>4. QED
    BY <1>1, <2>1, <2>2, <2>3
    DEF CaptureInv, SeesNothingBefore, PendingPaired, AnsweredInHand, RowsPaired
<1>4. QED
  BY <1>2, <1>3 DEF Dial

LEMMA EnabledPairInv ==
  ASSUME PairInv, NEW r \in Runs, Enabled(r), UNCHANGED <<managerVars, browser, dropped>>
  PROVE  CaptureInv(r)'
<1>1. TypeInv
  BY DEF PairInv
<1>2. CASE Ends(r)
  BY <1>2, EndsPairInv
<1>3. CASE /\ Goto(r, "loop")
           /\ link' = [link EXCEPT ![r].reply = "none"]
           /\ UNCHANGED captureVars
  <2>1. /\ run'[r].pc = "loop" /\ run[r].pc = "enable" /\ run'[r].hand = run[r].hand
        /\ link'[r].events = link[r].events /\ link'[r].enabled = link[r].enabled
        /\ link'[r].open = link[r].open
        /\ pending'[r] = pending[r] /\ rows'[r] = rows[r]
    BY <1>1, <1>3, TypeInvTypes DEF Enabled, Goto, RunState, LinkState, captureVars
  <2>2. QED
    BY <2>1, CaptureInvFrame DEF HandlingEnd
<1>4. QED
  BY <1>2, <1>3 DEF Enabled

LEMMA BodyArrivesPairInv ==
  ASSUME PairInv, NEW r \in Runs, BodyArrives(r), UNCHANGED <<managerVars, browser, dropped>>
  PROVE  CaptureInv(r)'
<1>1. TypeInv
  BY DEF PairInv
<1>2. /\ run'[r].pc = "persist" /\ run[r].pc = "body" /\ run'[r].hand = run[r].hand
      /\ link'[r].events = link[r].events /\ link'[r].enabled = link[r].enabled
      /\ link'[r].open = link[r].open
      /\ pending'[r] = pending[r] /\ rows'[r] = rows[r]
  BY <1>1, TypeInvTypes DEF BodyArrives, Goto, RunState, LinkState, captureVars
<1>3. QED
  BY <1>2, CaptureInvFrame DEF HandlingEnd

LEMMA PersistPairInv ==
  ASSUME PairInv, NEW r \in Runs, Persist(r), UNCHANGED <<managerVars, browser, dropped>>
  PROVE  CaptureInv(r)'
<1> DEFINE q == run[r].hand
           row == [request |-> q, hop |-> pending[r][q].hop,
                   failed |-> run[r].pc = "persist_failed",
                   answered |-> pending[r][q].answered]
<1>1. TypeInv /\ CaptureInv(r)
  BY DEF PairInv
<1>2. /\ run[r].pc \in {"persist", "persist_failed"} /\ UNCHANGED link
      /\ run'[r].pc = "loop" /\ q \in Requests
      /\ pending' = [pending EXCEPT ![r] = [pending[r] EXCEPT ![q] = NotPending]]
      /\ rows' = [rows EXCEPT ![r] = Append(@, row)] \/ UNCHANGED rows
  BY <1>1, TypeInvTypes DEF Persist, Remember, AfterPersist, Goto, RunState
<1>3. /\ pending'[r][q] = NotPending
      /\ \A k \in Requests \ {q} : pending'[r][k] = pending[r][k]
  BY <1>1, <1>2, TypeInvTypes
<1>4. \A k \in Requests : /\ link[r].events \in Seq(Event) /\ pending[r][k] \in FlowState
                          /\ browser[k] \in BrowserState
                          /\ Handling(r, k) \in BOOLEAN /\ Handling(r, k)' \in BOOLEAN
  BY <1>1, TypesOfRun DEF Handling
<1>5. \A k \in Requests \ {q} : Handling(r, k) = FALSE /\ Handling(r, k)' = FALSE
  BY <1>2 DEF Handling, HandlingEnd
<1>6. FollowsTheBrowser(r)'
  <2>1. SUFFICES ASSUME NEW k \in Requests \ dropped[r]
                 PROVE  /\ QueueInv(link[r].events, k, pending'[r][k])
                        /\ link[r].open =>
                             Behind(link[r].events, k, pending'[r][k], browser[k],
                                    Handling(r, k)')
    BY <1>2 DEF FollowsTheBrowser
  <2>2. /\ QueueInv(link[r].events, k, pending[r][k])
        /\ link[r].open =>
             Behind(link[r].events, k, pending[r][k], browser[k], Handling(r, k))
    BY <1>1 DEF CaptureInv, FollowsTheBrowser
  <2>3. CASE k = q
    <3>1. /\ QueueInv(link[r].events, k, NotPending)
          /\ link[r].open =>
               Behind(link[r].events, k, NotPending, browser[k], Handling(r, k)')
      BY <1>4, <2>2, ForgetPending
    <3>2. QED
      BY <1>3, <2>3, <3>1
  <2>4. CASE k # q
    BY <1>3, <1>5, <2>2, <2>4
  <2>5. QED
    BY <2>3, <2>4
<1>7. SeesNothingBefore(r)'
  <2>1. pending[r][q] # NotPending
    BY <1>1, <1>2 DEF TypeInv, PendingWasSent, HandlingEnd
  <2>2. link[r].enabled
    BY <1>1, <1>2, <2>1, ShortNames DEF CaptureInv, SeesNothingBefore
  <2>3. QED
    BY <1>2, <2>2 DEF SeesNothingBefore
<1>8. RowsPaired(r)'
  <2>1. RowsPaired(r) /\ rows[r] \in Seq(Row) /\ rows \in [Runs -> Seq(Row)]
    BY <1>1, TypeInvTypes DEF CaptureInv
  <2>2. q \notin dropped[r] =>
          row.answered = row.hop \/ (row.failed /\ row.answered = 0)
    <3>1. CASE run[r].pc = "persist"
      BY <1>1, <3>1 DEF CaptureInv, AnsweredInHand
    <3>2. CASE run[r].pc = "persist_failed"
      BY <1>1, <1>2, <3>2 DEF CaptureInv, PendingPaired, Paired
    <3>3. QED
      BY <1>2, <3>1, <3>2
  <2>3. row.request = q
    OBVIOUS
  <2> HIDE DEF row
  <2>4. CASE UNCHANGED rows
    BY <2>1, <2>4 DEF RowsPaired
  <2>5. CASE rows' = [rows EXCEPT ![r] = Append(@, row)]
    <3>1. rows'[r] = Append(rows[r], row)
      BY <2>1, <2>5
    <3>2. \A n \in DOMAIN rows'[r] :
            \/ n \in DOMAIN rows[r] /\ rows'[r][n] = rows[r][n]
            \/ rows'[r][n] = row
      BY <2>1, <3>1
    <3>3. QED
      BY <2>1, <2>2, <2>3, <3>2 DEF RowsPaired
  <2>6. QED
    BY <1>2, <2>4, <2>5 DEF row
<1>9. AnsweredInHand(r)'
  BY <1>2 DEF AnsweredInHand
<1>10. PendingPaired(r)'
  BY <1>1, <1>2, <1>3, NothingIsPaired DEF CaptureInv, PendingPaired
<1>11. QED
  BY <1>6, <1>7, <1>8, <1>9, <1>10 DEF CaptureInv

(* What HandleEvent leaves behind, seen from the request of the event. *)
LEMMA HandleEventEffect ==
  ASSUME TypeInv, NEW r \in Runs, HandleEvent(r),
         NEW e, e = Head(link[r].events), NEW q, q = e.request
  PROVE  /\ e \in Event /\ q \in Requests /\ link[r].events # <<>>
         /\ link'[r].events = Tail(link[r].events)
         /\ link'[r].open = link[r].open /\ link'[r].enabled = link[r].enabled
         /\ \A k \in Requests \ {q} : pending'[r][k] = pending[r][k]
         /\ \/ e.kind = "request" /\ pending'[r][q] = SentState(e.hop) /\ run'[r].pc = "loop"
            \/ /\ e.kind = "response" /\ run'[r].pc = "loop"
               /\ pending'[r][q] = AfterResponse(pending[r][q], e.hop)
            \/ /\ e.kind \in {"finished", "failed"} /\ pending[r][q] = NotPending
               /\ pending'[r][q] = pending[r][q] /\ run'[r].pc = "loop"
            \/ /\ e.kind = "finished" /\ pending[r][q] # NotPending
               /\ pending'[r][q] = pending[r][q]
               /\ run'[r].pc = "body" /\ run'[r].hand = q
            \/ /\ e.kind = "failed" /\ pending'[r][q] = pending[r][q]
               /\ run'[r].pc = "persist_failed" /\ run'[r].hand = q
<1>1. /\ run[r].pc = "loop" /\ link[r].events # <<>> /\ e \in Event
      /\ \E s \in {"none", "waiting", "ok", "error"} :
           link' = [link EXCEPT ![r] = [link[r] EXCEPT !.events = Tail(@), !.reply = s]]
      /\ \/ /\ e.kind = "request" /\ Goto(r, "loop")
            /\ pending' = [pending EXCEPT ![r] =
                 [pending[r] EXCEPT ![q] = [hop |-> e.hop, answered |-> 0]]]
         \/ /\ e.kind = "response" /\ Goto(r, "loop")
            /\ pending' = [pending EXCEPT ![r] =
                 [pending[r] EXCEPT ![q] = AfterResponse(pending[r][q], e.hop)]]
         \/ /\ e.kind \in {"finished", "failed"} /\ pending[r][q] = NotPending
            /\ UNCHANGED <<pending, run>>
         \/ /\ e.kind = "finished" /\ pending[r][q] # NotPending /\ UNCHANGED pending
            /\ run' = [run EXCEPT ![r] = [run[r] EXCEPT !.pc = "body", !.hand = q]]
         \/ /\ e.kind = "failed" /\ pending[r][q] # NotPending /\ UNCHANGED pending
            /\ run' = [run EXCEPT ![r] = [run[r] EXCEPT !.pc = "persist_failed", !.hand = q]]
  BY HandleEventCases
<1>2. /\ q \in Requests /\ run \in [Runs -> RunState] /\ link \in [Runs -> LinkState]
      /\ pending \in [Runs -> [Requests -> FlowState]]
  BY <1>1, TypeInvTypes DEF Event
<1>3. /\ link'[r].events = Tail(link[r].events)
      /\ link'[r].open = link[r].open /\ link'[r].enabled = link[r].enabled
  <2>1. PICK s \in {"none", "waiting", "ok", "error"} :
          link' = [link EXCEPT ![r] = [link[r] EXCEPT !.events = Tail(@), !.reply = s]]
    BY <1>1
  <2>2. link'[r] = [link[r] EXCEPT !.events = Tail(@), !.reply = s] /\ link[r] \in LinkState
    BY <1>2, <2>1
  <2>3. QED
    BY <2>2 DEF LinkState
<1>4. ASSUME NEW f, pending' = [pending EXCEPT ![r] = [pending[r] EXCEPT ![q] = f]]
      PROVE  /\ pending'[r][q] = f
             /\ \A k \in Requests \ {q} : pending'[r][k] = pending[r][k]
  BY <1>2, <1>4
<1>5. ASSUME Goto(r, "loop") PROVE run'[r].pc = "loop"
  BY <1>2, <1>5 DEF Goto, RunState
<1>6. ASSUME NEW c, run' = [run EXCEPT ![r] = [run[r] EXCEPT !.pc = c, !.hand = q]]
      PROVE  run'[r].pc = c /\ run'[r].hand = q
  <2>1. run'[r] = [run[r] EXCEPT !.pc = c, !.hand = q] /\ run[r] \in RunState
    BY <1>2, <1>6
  <2>2. QED
    BY <2>1 DEF RunState
<1>7. CASE /\ e.kind = "request" /\ Goto(r, "loop")
           /\ pending' = [pending EXCEPT ![r] =
                [pending[r] EXCEPT ![q] = [hop |-> e.hop, answered |-> 0]]]
  BY <1>1, <1>2, <1>3, <1>4, <1>5, <1>7 DEF SentState
<1>8. CASE /\ e.kind = "response" /\ Goto(r, "loop")
           /\ pending' = [pending EXCEPT ![r] =
                [pending[r] EXCEPT ![q] = AfterResponse(pending[r][q], e.hop)]]
  BY <1>1, <1>2, <1>3, <1>4, <1>5, <1>8
<1>9. CASE e.kind \in {"finished", "failed"} /\ pending[r][q] = NotPending
           /\ UNCHANGED <<pending, run>>
  BY <1>1, <1>2, <1>3, <1>9
<1>10. CASE /\ e.kind = "finished" /\ pending[r][q] # NotPending /\ UNCHANGED pending
            /\ run' = [run EXCEPT ![r] = [run[r] EXCEPT !.pc = "body", !.hand = q]]
  BY <1>1, <1>2, <1>3, <1>6, <1>10
<1>11. CASE /\ e.kind = "failed" /\ pending[r][q] # NotPending /\ UNCHANGED pending
            /\ run' = [run EXCEPT ![r] = [run[r] EXCEPT !.pc = "persist_failed", !.hand = q]]
  BY <1>1, <1>2, <1>3, <1>6, <1>11
<1>12. QED
  BY <1>1, <1>7, <1>8, <1>9, <1>10, <1>11

LEMMA HandleEventPairInv ==
  ASSUME PairInv, NEW r \in Runs, HandleEvent(r), UNCHANGED <<managerVars, browser, dropped>>,
         NEW E, E = link[r].events, NEW T, T = link'[r].events,
         NEW e, e = Head(E), NEW q, q = e.request,
         NEW p, p = pending[r][q], NEW g, g = pending'[r][q]
  PROVE  CaptureInv(r)'
<1>1. TypeInv /\ CaptureInv(r)
  BY DEF PairInv
<1>2. /\ run[r].pc = "loop" /\ E # <<>> /\ e \in Event /\ q \in Requests
      /\ T = Tail(E) /\ link'[r].open = link[r].open /\ link'[r].enabled = link[r].enabled
      /\ \A k \in Requests \ {q} : pending'[r][k] = pending[r][k]
  BY <1>1, HandleEventEffect DEF HandleEvent
<1>3. \/ e.kind = "request" /\ g = SentState(e.hop) /\ run'[r].pc = "loop"
      \/ e.kind = "response" /\ g = AfterResponse(p, e.hop) /\ run'[r].pc = "loop"
      \/ /\ e.kind \in {"finished", "failed"} /\ p = NotPending /\ g = p
         /\ run'[r].pc = "loop"
      \/ /\ e.kind = "finished" /\ p # NotPending /\ g = p
         /\ run'[r].pc = "body" /\ run'[r].hand = q
      \/ /\ e.kind = "failed" /\ g = p
         /\ run'[r].pc = "persist_failed" /\ run'[r].hand = q
  BY SMTT(20), <1>1, HandleEventEffect
<1>4. /\ E \in Seq(Event) /\ T \in Seq(Event) /\ E[1] = e /\ IsTail(T, E)
      /\ rows'[r] = rows[r]
  BY <1>1, <1>2, EventsAreTyped DEF IsTail, HandleEvent
<1>5. /\ p \in FlowState /\ g \in FlowState
      /\ \A k \in Requests : pending[r][k] \in FlowState /\ browser[k] \in BrowserState
  <2>1. pending' \in [Runs -> [Requests -> FlowState]]
    BY <1>1, HandleEventType DEF TypeInv, TypeOK, FlowState
  <2>2. QED
    BY <1>1, <1>2, <2>1, TypesOfRun
<1>6. \A k \in Requests : /\ Handling(r, k) \in BOOLEAN /\ ~Handling(r, k)
                          /\ Handling(r, k)' \in BOOLEAN
  BY <1>2 DEF Handling, HandlingEnd
<1>7. \A k \in Requests \ dropped[r] :
        /\ QueueInv(E, k, pending[r][k])
        /\ link[r].open => Behind(E, k, pending[r][k], browser[k], Handling(r, k))
  BY <1>1 DEF CaptureInv, FollowsTheBrowser
<1>8. ASSUME NEW k \in Requests \ dropped[r], k # q, NEW h \in BOOLEAN
      PROVE  /\ QueueInv(T, k, pending'[r][k])
             /\ link[r].open => Behind(T, k, pending'[r][k], browser[k], h)
  <2>1. E[1].request # k /\ pending'[r][k] = pending[r][k]
    BY <1>2, <1>4, <1>8
  <2>2. QueueInv(T, k, pending[r][k])
    BY <1>4, <1>5, <1>7, <1>8, <2>1, TakeOther
  <2>3. link[r].open => Behind(T, k, pending[r][k], browser[k], h)
    BY <1>4, <1>5, <1>6, <1>7, <1>8, <2>1, TakeOtherBehind
  <2>4. QED
    BY <2>1, <2>2, <2>3
<1>9. ASSUME q \notin dropped[r], NEW h \in BOOLEAN,
             run'[r].pc \in {"body", "persist_failed"} => h
      PROVE  /\ QueueInv(T, q, g)
             /\ link[r].open => Behind(T, q, g, browser[q], h)
             /\ e.kind = "finished" => p \in {NotPending, AnsweredState(e.hop)}
             /\ e.kind = "response" => p \in {NotPending, SentState(e.hop)}
  <2>1. /\ QueueInv(E, q, p) /\ E[1].request = q /\ browser[q] \in BrowserState
        /\ link[r].open => Behind(E, q, p, browser[q], Handling(r, q))
        /\ Handling(r, q) \in BOOLEAN
    BY <1>2, <1>4, <1>5, <1>6, <1>7, <1>9
  <2>2. /\ E[1].kind = "request" => QueueInv(T, q, SentState(E[1].hop))
        /\ E[1].kind = "response" => QueueInv(T, q, AfterResponse(p, E[1].hop))
        /\ E[1].kind \in {"finished", "failed"} => Positions(T, q) = {}
        /\ E[1].kind = "finished" => p \in {NotPending, AnsweredState(E[1].hop)}
        /\ E[1].kind = "response" => p \in {NotPending, SentState(E[1].hop)}
    BY <1>2, <1>4, <1>5, <2>1, TakeOwn
  <2>3. Positions(T, q) = {} => QueueInv(T, q, p)
    BY <1>2, <1>4, <1>5, EmptyQueue
  <2>4. QueueInv(T, q, g)
    BY <1>3, <1>4, <2>2, <2>3
  <2>5. Takes(E[1], p, g, h)
    BY <1>3, <1>4, <1>9 DEF Takes
  <2>6. link[r].open => Behind(T, q, g, browser[q], h)
    <3>1. /\ E \in Seq(Event) /\ T \in Seq(Event) /\ IsTail(T, E)
          /\ q \in Requests /\ p \in FlowState /\ g \in FlowState
      BY <1>2, <1>4, <1>5
    <3>2. E[1].request = q /\ h \in BOOLEAN
      BY <1>9, <2>1
    <3>3. ASSUME NEW b \in BrowserState, NEW f \in BOOLEAN,
                 NEW x \in FlowState, NEW y \in FlowState,
                 QueueInv(E, q, x), Takes(E[1], x, y, h), Behind(E, q, x, b, f)
          PROVE  Behind(T, q, y, b, h)
      BY <3>1, <3>2, <3>3, TakesBehind
    <3>4. QED
      BY <2>1, <2>5, <3>1, <3>3
  <2>7. QED
    BY <1>4, <2>2, <2>4, <2>6
<1>10. ASSUME NEW k \in Requests \ dropped[r], NEW h \in BOOLEAN, h = Handling(r, k)'
       PROVE  /\ QueueInv(T, k, pending'[r][k])
              /\ link[r].open => Behind(T, k, pending'[r][k], browser[k], h)
  <2>1. k = q /\ run'[r].pc \in {"body", "persist_failed"} => h
    BY <1>3, <1>10 DEF Handling, HandlingEnd
  <2>2. CASE k = q
    BY <1>9, <1>10, <2>1, <2>2
  <2>3. CASE k # q
    BY <1>8, <1>10, <2>3
  <2>4. QED
    BY <2>2, <2>3
<1>11. FollowsTheBrowser(r)'
  <2>1. SUFFICES ASSUME NEW k \in Requests \ dropped[r]
                 PROVE  /\ QueueInv(T, k, pending'[r][k])
                        /\ link[r].open =>
                             Behind(T, k, pending'[r][k], browser[k], Handling(r, k)')
    BY <1>2 DEF FollowsTheBrowser
  <2>2. Handling(r, k)' \in BOOLEAN
    BY <1>6
  <2>3. QED
    BY <1>10, <2>2
<1>12. SeesNothingBefore(r)'
  <2>1. link[r].enabled
    BY <1>1, <1>2 DEF CaptureInv, SeesNothingBefore
  <2>2. QED
    BY <1>2, <1>3, <2>1 DEF SeesNothingBefore
<1>13. AnsweredInHand(r)'
  <2>1. SUFFICES ASSUME run'[r].pc \in {"body", "persist"}, run'[r].hand \notin dropped[r]
                 PROVE  pending'[r][run'[r].hand].answered = pending'[r][run'[r].hand].hop
    BY DEF AnsweredInHand
  <2>2. e.kind = "finished" /\ p # NotPending /\ g = p /\ run'[r].hand = q
    BY <1>3, <2>1
  <2>3. p = AnsweredState(e.hop)
    BY <1>9, <2>1, <2>2
  <2>4. AnsweredState(e.hop).answered = AnsweredState(e.hop).hop
    BY DEF AnsweredState
  <2>5. QED
    BY <2>2, <2>3, <2>4
<1>14. RowsPaired(r)'
  BY <1>1, <1>4 DEF CaptureInv, RowsPaired
<1>15. PendingPaired(r)'
  <2>1. SUFFICES ASSUME NEW k \in Requests \ dropped[r] PROVE Paired(pending'[r][k])
    BY <1>2 DEF PendingPaired
  <2>2. Paired(pending[r][k])
    BY <1>1 DEF CaptureInv, PendingPaired
  <2>3. CASE k = q
    <3>1. /\ e.kind = "response" => p \in {NotPending, SentState(e.hop)}
          /\ e.hop \in Nat \ {0}
      BY <1>2, <1>9, <2>3, EventTypes
    <3>2. e.kind = "response" => AfterResponse(p, e.hop) \in {NotPending, AnsweredState(e.hop)}
      BY <3>1, AnsweredPending
    <3>3. Paired(g)
      BY <1>3, <2>2, <2>3, <3>2, NothingIsPaired
    <3>4. QED
      BY <2>3, <3>3
  <2>4. CASE k # q
    BY <1>2, <2>2, <2>4
  <2>5. QED
    BY <2>3, <2>4
<1>16. QED
  BY <1>11, <1>12, <1>13, <1>14, <1>15 DEF CaptureInv

LEMMA CapturePairInv ==
  ASSUME PairInv, NEW r \in Runs, Capture(r)
  PROVE  PairInv'
<1>1. TypeInv /\ TypeInv' /\ UNCHANGED <<managerVars, browser, dropped>>
  BY CaptureType DEF PairInv, Capture
<1>2. CaptureInv(r)'
  <2>1. CASE Dial(r)
    BY <1>1, <2>1, DialPairInv
  <2>2. CASE Enabled(r)
    BY <1>1, <2>2, EnabledPairInv
  <2>3. CASE LoopEnds(r)
    BY <1>1, <2>3, EndsPairInv DEF LoopEnds
  <2>4. CASE HandleEvent(r)
    BY <1>1, <2>4, HandleEventPairInv
  <2>5. CASE BodyArrives(r)
    BY <1>1, <2>5, BodyArrivesPairInv
  <2>6. CASE Persist(r)
    BY <1>1, <2>6, PersistPairInv
  <2>7. QED
    BY <2>1, <2>2, <2>3, <2>4, <2>5, <2>6 DEF Capture
<1>3. ASSUME NEW d \in Runs, d # r
      PROVE  /\ run'[d] = run[d] /\ link'[d] = link[d] /\ pending'[d] = pending[d]
             /\ rows'[d] = rows[d]
  <2>1. /\ run \in [Runs -> RunState] /\ link \in [Runs -> LinkState]
        /\ pending \in [Runs -> [Requests -> FlowState]] /\ rows \in [Runs -> Seq(Row)]
    BY <1>1, TypeInvTypes
  <2>2. Ends(r) => /\ run'[d] = run[d] /\ link'[d] = link[d] /\ pending'[d] = pending[d]
                   /\ rows'[d] = rows[d]
    BY <1>3, <2>1 DEF Ends, Goto
  <2>3. run'[d] = run[d]
    BY <1>3, <2>1, <2>2
    DEF Capture, Dial, Enabled, LoopEnds, HandleEvent, BodyArrives, Persist, Goto, Remember
  <2>4. link'[d] = link[d]
    BY <1>3, <2>1, <2>2
    DEF Capture, Dial, Enabled, LoopEnds, HandleEvent, BodyArrives, Persist
  <2>5. pending'[d] = pending[d]
    BY <1>3, <2>1, <2>2
    DEF Capture, Dial, Enabled, LoopEnds, HandleEvent, BodyArrives, Persist, Remember,
        captureVars
  <2>6. rows'[d] = rows[d]
    BY <1>3, <2>1, <2>2
    DEF Capture, Dial, Enabled, LoopEnds, HandleEvent, BodyArrives, Persist, captureVars
  <2>7. QED
    BY <2>3, <2>4, <2>5, <2>6
<1>4. ASSUME NEW d \in Runs, d # r PROVE CaptureInv(d)'
  BY <1>1, <1>3, <1>4, SameRun
<1>5. QED
  BY <1>1, <1>2, <1>4 DEF PairInv

(* The manager moves a run from "none" to "dial" and cancels runs. *)
LEMMA ManagerPairInv ==
  ASSUME PairInv,
         \/ \E r \in Runs : Start(r)
         \/ \E c \in Controllers : StopCancels(c) \/ StopReturns(c)
  PROVE  PairInv'
<1>1. TypeInv /\ TypeInv'
  BY ManagerType DEF PairInv
<1>2. UNCHANGED <<captureVars, link, browser, dropped>>
  BY DEF Start, StopCancels, StopReturns
<1>3. ASSUME NEW d \in Runs
      PROVE  /\ run'[d].hand = run[d].hand
             /\ run'[d].pc = run[d].pc \/ (run[d].pc = "none" /\ run'[d].pc = "dial")
  <2>1. run \in [Runs -> RunState] /\ run[d] \in RunState
    BY <1>1, TypeInvTypes
  <2>2. ASSUME NEW r \in Runs, Start(r)
        PROVE  /\ run'[d].hand = run[d].hand
               /\ run'[d].pc = run[d].pc \/ (run[d].pc = "none" /\ run'[d].pc = "dial")
    <3>1. run' = [run EXCEPT ![r].pc = "dial"] /\ run[r].pc = "none"
      BY <2>2 DEF Start, Goto
    <3>2. QED
      BY <2>1, <3>1 DEF RunState
  <2>3. ASSUME NEW c \in Controllers, StopCancels(c)
        PROVE  run'[d].hand = run[d].hand /\ run'[d].pc = run[d].pc
    <3>1. run'[d] = run[d] \/ run'[d] = [run[d] EXCEPT !.cancelled = TRUE]
      BY <2>3 DEF StopCancels
    <3>2. QED
      BY <2>1, <3>1 DEF RunState
  <2>4. QED
    BY <2>2, <2>3 DEF StopReturns
<1>4. ASSUME NEW d \in Runs PROVE CaptureInv(d)'
  BY <1>2, <1>3, CaptureInvFrame DEF HandlingEnd, captureVars
<1>5. QED
  BY <1>1, <1>4 DEF PairInv

(* A reply, or the loss of the connection, changes neither the channel nor *)
(* what was handled of it.                                                 *)
LEMMA LinkPairInv ==
  ASSUME PairInv, NEW r \in Runs, NEW reply \in {"ok", "error"},
         Replies(r, reply) \/ HangsUp(r)
  PROVE  PairInv'
<1>1. TypeInv /\ TypeInv'
  BY BrowserType DEF PairInv, Browser
<1>2. UNCHANGED <<run, captureVars, browser, dropped>>
  BY DEF Replies, HangsUp
<1>3. ASSUME NEW d \in Runs
      PROVE  /\ link'[d].events = link[d].events /\ (link'[d].open => link[d].open)
             /\ \/ link'[d].enabled = link[d].enabled
                \/ link[d].open /\ link'[d].enabled
  <2>1. link \in [Runs -> LinkState] /\ link[d] \in LinkState
    BY <1>1, TypeInvTypes
  <2>2. CASE d # r
    BY <2>1, <2>2 DEF Replies, HangsUp
  <2>3. CASE d = r /\ HangsUp(r)
    BY <2>1, <2>3 DEF HangsUp, LinkState
  <2>4. CASE d = r /\ Replies(r, reply)
    BY <2>1, <2>4 DEF Replies, LinkState
  <2>5. QED
    BY <2>2, <2>3, <2>4
<1>4. ASSUME NEW d \in Runs PROVE CaptureInv(d)'
  BY <1>2, <1>3, CaptureInvFrame DEF captureVars
<1>5. QED
  BY <1>1, <1>4 DEF PairInv

(* An event the browser sends lands at the end of every attached channel,  *)
(* or the request counts as dropped there.                                 *)
LEMMA DeliverPairInv ==
  ASSUME PairInv, TypeInv', NEW e \in Event, NEW q, q = e.request,
         Deliver(e.kind, q, e.hop),
         browser' \in [Requests -> BrowserState], Emits(browser[q], e, browser'[q]),
         \A k \in Requests \ {q} : browser'[k] = browser[k]
  PROVE  PairInv'
<1>1. TypeInv
  BY DEF PairInv
<1>2. q \in Requests /\ e = [kind |-> e.kind, request |-> q, hop |-> e.hop]
  BY DEF Event
<1>3. UNCHANGED <<run, captureVars>>
  BY DEF Deliver
<1> SUFFICES ASSUME NEW r \in Runs PROVE CaptureInv(r)'
  BY DEF PairInv
<1>4. CaptureInv(r) /\ run'[r] = run[r] /\ pending'[r] = pending[r] /\ rows'[r] = rows[r]
  BY <1>3 DEF PairInv, captureVars
<1>5. /\ link[r].events \in Seq(Event) /\ link[r] \in LinkState
      /\ \A k \in Requests : pending[r][k] \in FlowState /\ browser[k] \in BrowserState
  BY <1>1, TypesOfRun
<1>6. \A k \in Requests : Handling(r, k) \in BOOLEAN /\ Handling(r, k)' = Handling(r, k)
  BY <1>4 DEF Handling
<1>7. \A k \in Requests \ dropped[r] :
        /\ QueueInv(link[r].events, k, pending[r][k])
        /\ link[r].open =>
             Behind(link[r].events, k, pending[r][k], browser[k], Handling(r, k))
  BY <1>4 DEF CaptureInv, FollowsTheBrowser
<1>8. ASSUME dropped[r] \subseteq dropped'[r], SeesNothingBefore(r)', FollowsTheBrowser(r)'
      PROVE  CaptureInv(r)'
  BY <1>4, <1>8 DEF CaptureInv, PendingPaired, AnsweredInHand, RowsPaired
<1>9. CASE r \notin Attached
  <2>1. link'[r] = link[r] /\ dropped'[r] = dropped[r] /\ ~(link[r].open /\ link[r].enabled)
    BY <1>9 DEF Deliver, Attached
  <2>2. ASSUME link[r].open PROVE link[r].events = <<>> /\ pending[r] = NothingPending
    BY <1>4, <2>1, <2>2 DEF CaptureInv, SeesNothingBefore
  <2>3. ASSUME NEW k \in Requests, link[r].open
        PROVE  Behind(link[r].events, k, pending[r][k], browser'[k], Handling(r, k))
    <3>1. Behind(<<>>, k, NotPending, browser'[k], Handling(r, k))
      BY <1>6, NothingSeen
    <3>2. QED
      BY <2>2, <2>3, <3>1, ShortNames
  <2>4. FollowsTheBrowser(r)'
    BY <1>4, <1>6, <1>7, <2>1, <2>3 DEF FollowsTheBrowser
  <2>5. SeesNothingBefore(r)'
    BY <1>4, <2>1 DEF CaptureInv, SeesNothingBefore
  <2>6. QED
    BY <1>8, <2>1, <2>4, <2>5
<1>10. ASSUME r \in Attached,
              NEW A \in Seq(Event), A = link'[r].events,
              link'[r].open = link[r].open /\ link'[r].enabled = link[r].enabled,
              dropped[r] \subseteq dropped'[r],
              \/ IsAppend(A, link[r].events, e)
              \/ A = link[r].events /\ q \in dropped'[r]
       PROVE  CaptureInv(r)'
  <2>1. SeesNothingBefore(r)'
    BY <1>4, <1>10 DEF CaptureInv, SeesNothingBefore, Attached
  <2>2. ASSUME NEW k \in Requests \ dropped'[r]
        PROVE  /\ QueueInv(A, k, pending[r][k])
               /\ Behind(A, k, pending[r][k], browser'[k], Handling(r, k))
    <3>1. /\ QueueInv(link[r].events, k, pending[r][k])
          /\ Behind(link[r].events, k, pending[r][k], browser[k], Handling(r, k))
          /\ pending[r][k] \in FlowState /\ browser[k] \in BrowserState
          /\ browser'[k] \in BrowserState /\ Handling(r, k) \in BOOLEAN
      BY <1>5, <1>6, <1>7, <1>10, <2>2 DEF Attached
    <3>2. CASE A = link[r].events /\ q \in dropped'[r]
      BY <2>2, <3>1, <3>2
    <3>3. CASE IsAppend(A, link[r].events, e) /\ k # q
      <4>1. e.request # k /\ browser'[k] = browser[k]
        BY <2>2, <3>3
      <4>2. QED
        BY <1>5, <1>10, <2>2, <3>1, <3>3, <4>1, AppendOther
    <3>4. CASE IsAppend(A, link[r].events, e) /\ k = q
      BY <1>5, <1>10, <2>2, <3>1, <3>4, AppendOwn
    <3>5. QED
      BY <1>10, <3>2, <3>3, <3>4
  <2>3. FollowsTheBrowser(r)'
    BY <1>4, <1>6, <1>10, <2>2 DEF FollowsTheBrowser
  <2>4. QED
    BY <1>8, <1>10, <2>1, <2>3
<1>11. CASE r \in Attached /\ Full(r)
  <2>1. link'[r] = link[r] /\ dropped'[r] = dropped[r] \cup {q}
    BY <1>11 DEF Deliver
  <2>2. QED
    BY <1>5, <1>10, <1>11, <2>1
<1>12. CASE r \in Attached /\ ~Full(r)
  <2>1. /\ link'[r] = [link[r] EXCEPT !.events = Append(@, e)]
        /\ dropped'[r] = dropped[r]
    BY <1>2, <1>12 DEF Deliver
  <2>2. /\ link'[r].events = Append(link[r].events, e)
        /\ link'[r].open = link[r].open /\ link'[r].enabled = link[r].enabled
    BY <1>5, <2>1 DEF LinkState
  <2>3. IsAppend(link'[r].events, link[r].events, e) /\ link'[r].events \in Seq(Event)
    BY <1>5, <2>2 DEF IsAppend
  <2>4. QED
    BY <1>10, <1>12, <2>1, <2>2, <2>3
<1>13. QED
  BY <1>9, <1>11, <1>12

LEMMA BrowserPairInv ==
  ASSUME PairInv, Browser
  PROVE  PairInv'
<1>1. TypeInv /\ TypeInv'
  BY BrowserType DEF PairInv
<1>2. ASSUME NEW q \in Requests, Sends(q) \/ Responds(q) \/ Finishes(q) \/ Fails(q)
      PROVE  PairInv'
  <2>1. /\ browser \in [Requests -> BrowserState] /\ browser[q] \in BrowserState
        /\ browser[q].stage # "new" => browser[q].hop # 0
    BY <1>1, TypeInvTypes DEF TypeInv, BrowserCountsHops
  <2>2. /\ browser' \in [Requests -> BrowserState]
        /\ \A k \in Requests \ {q} : browser'[k] = browser[k]
    BY <1>1, <1>2, <2>1 DEF TypeInv, TypeOK, BrowserState, Sends, Responds, Finishes, Fails
  <2>3. \E kind \in {"request", "response", "finished", "failed"}, h \in 1..MaxHops :
          LET e == [kind |-> kind, request |-> q, hop |-> h] IN
          Deliver(kind, q, h) /\ Emits(browser[q], e, browser'[q])
    <3>1. CASE Sends(q)
      <4>1. /\ browser[q].hop + 1 \in 1..MaxHops /\ browser[q].stage \in {"new", "sent"}
            /\ browser'[q] = [stage |-> "sent", hop |-> browser[q].hop + 1]
            /\ Deliver("request", q, browser[q].hop + 1)
        BY <2>1, <3>1, BoundAssumption DEF Sends, BrowserState
      <4>2. QED
        BY <4>1 DEF Emits
    <3>2. CASE Responds(q) \/ Finishes(q) \/ Fails(q)
      <4>1. browser[q].hop \in 1..MaxHops
        BY <2>1, <3>2, BoundAssumption DEF Responds, Finishes, Fails, BrowserState
      <4>2. CASE Responds(q)
        <5>1. browser'[q].stage = "responded" /\ browser'[q].hop = browser[q].hop
          BY <2>1, <4>2 DEF Responds, BrowserState
        <5>2. QED
          BY <4>1, <4>2, <5>1 DEF Responds, Emits
      <4>3. CASE Finishes(q)
        <5>1. browser'[q].stage = "over" /\ browser'[q].hop = browser[q].hop
          BY <2>1, <4>3 DEF Finishes, BrowserState
        <5>2. QED
          BY <4>1, <4>3, <5>1 DEF Finishes, Emits
      <4>4. CASE Fails(q)
        <5>1. browser'[q].stage = "over" /\ browser'[q].hop = browser[q].hop
          BY <2>1, <4>4 DEF Fails, BrowserState
        <5>2. QED
          BY <4>1, <4>4, <5>1 DEF Fails, Emits
      <4>5. QED
        BY <3>2, <4>2, <4>3, <4>4
    <3>3. QED
      BY <1>2, <3>1, <3>2
  <2>4. PICK kind \in {"request", "response", "finished", "failed"}, h \in 1..MaxHops :
          LET e == [kind |-> kind, request |-> q, hop |-> h] IN
          Deliver(kind, q, h) /\ Emits(browser[q], e, browser'[q])
    BY <2>3
  <2> DEFINE e == [kind |-> kind, request |-> q, hop |-> h]
  <2>5. /\ e \in Event /\ e.kind = kind /\ e.request = q /\ e.hop = h
        /\ Emits(browser[q], e, browser'[q])
    BY <2>4 DEF Event
  <2> HIDE DEF e
  <2>6. Deliver(e.kind, q, e.hop)
    BY <2>4, <2>5
  <2>7. QED
    BY <1>1, <2>2, <2>5, <2>6, DeliverPairInv
<1>3. QED
  BY <1>2, LinkPairInv DEF Browser

LEMMA NextPairInv == PairInv /\ [Next]_vars => PairInv'
<1> SUFFICES ASSUME PairInv, [Next]_vars PROVE PairInv'
  OBVIOUS
<1>1. CASE UNCHANGED vars
  <2>1. UNCHANGED <<run, link, pending, rows, dropped, browser>>
    BY <1>1 DEF vars, managerVars, captureVars
  <2>2. TypeInv'
    BY NextType DEF PairInv
  <2>3. QED
    BY <2>1, <2>2, SameRun DEF PairInv
<1>2. CASE Next
  BY <1>2, CapturePairInv, ManagerPairInv, BrowserPairInv DEF Next
<1>3. QED
  BY <1>1, <1>2

LEMMA PairInvAlways == Spec => []PairInv
<1>1. Init => PairInv
  BY InitPairInv
<1>2. PairInv /\ [Next]_vars => PairInv'
  BY NextPairInv
<1>3. QED
  BY <1>1, <1>2, PTL DEF Spec

(* PairedUnlessDropped: as long as no event of a request was dropped, a    *)
(* stored flow joins the request with the response to that very request of *)
(* the redirect chain, and a finished request has one.                     *)
THEOREM FlowsArePaired == Spec => []PairedUnlessDropped
<1>1. PairInv => PairedUnlessDropped
  BY DEF PairInv, CaptureInv, RowsPaired, PairedUnlessDropped
<1>2. QED
  BY <1>1, PairInvAlways, PTL

(* NothingLeftPending: a request that is over is pending only until the    *)
(* goroutine has come to its end, unless one of its events was dropped or  *)
(* the connection is gone.                                                 *)
THEOREM PendingIsStillToCome == Spec => []NothingLeftPending
<1>1. PairInv => NothingLeftPending
  <2> SUFFICES ASSUME PairInv, NEW r \in Runs, NEW q \in Requests,
                      pending[r][q] # NotPending, browser[q].stage = "over",
                      q \notin dropped[r], link[r].open
               PROVE  \/ /\ run[r].hand = q
                         /\ run[r].pc \in {"body", "persist", "persist_failed"}
                      \/ \E n \in DOMAIN link[r].events :
                           /\ link[r].events[n].request = q
                           /\ link[r].events[n].kind \in {"finished", "failed"}
    BY DEF NothingLeftPending
  <2>1. Behind(link[r].events, q, pending[r][q], browser[q], Handling(r, q))
    BY DEF PairInv, CaptureInv, FollowsTheBrowser
  <2>2. \/ \E n \in Positions(link[r].events, q) :
             link[r].events[n].kind \in {"finished", "failed"}
        \/ Handling(r, q)
    BY <2>1 DEF Behind
  <2>3. link[r].events \in Seq(Event)
    BY TypesOfRun DEF PairInv
  <2>4. QED
    BY <2>2, <2>3 DEF Positions, Handling, HandlingEnd
<1>2. QED
  BY <1>1, PairInvAlways, PTL

=============================================================================
