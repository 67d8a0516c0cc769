--------------------------- MODULE BrowserCapture ---------------------------
(***************************************************************************)
(* internal/browsercapture: the Manager that starts and stops captures     *)
(* from any JSON-RPC connection, the capture goroutine of each run, and    *)
(* the CDP client whose read loop feeds it over a bounded channel.         *)
(*                                                                         *)
(* The manager's mutex makes Start one step and Stop two: Stop cancels the *)
(* run it finds, waits for its goroutine without the mutex, and then takes *)
(* the mutex again.  The browser and the socket are external: an event the *)
(* browser sends is at once in the channel of every attached client, or    *)
(* dropped there because the channel is full.                              *)
(***************************************************************************)
EXTENDS Naturals, Sequences

CONSTANTS Controllers,  \* JSON-RPC connections that call Start and Stop
          Runs,         \* captures that may be started; ids are never reused
          Requests,     \* request ids of the browser
          MaxHops,      \* bound: requests that one request id stands for (redirects)
          ChanCap,      \* capacity of the event channel (256 in the code)
          IOFaults,     \* may a blob write or a store statement fail?
          NoRun

ASSUME NoRunAssumption == NoRun \notin Runs
ASSUME BoundAssumption == MaxHops \in Nat \ {0} /\ ChanCap \in Nat \ {0}
ASSUME FaultAssumption == IOFaults \in BOOLEAN
ASSUME RequestsAssumption == Requests # {}

VARIABLES
  current,   \* Manager.run
  stop,      \* controller -> its call of Stop
  run,       \* run -> runState, and where its goroutine is
  pending,   \* run -> request id -> the goroutine's pending map
  link,      \* run -> its cdpClient
  browser,   \* request id -> how far the browser has come with it
  rows,      \* run -> the flow rows it stored, in order: which request, whether it
             \* failed (status 0), and to which hop its response headers belong
  dropped,   \* history: run -> request ids of which an event was dropped
  late       \* history: runs a Stop removed that had waited for another one

managerVars == <<current, stop, late>>
captureVars == <<pending, rows>>
vars == <<managerVars, run, captureVars, link, browser, dropped>>

NotPending == [hop |-> 0, answered |-> 0]

NothingPending == [q \in Requests |-> NotPending]

NoLink == [open |-> FALSE, enabled |-> FALSE, reply |-> "none", events |-> <<>>]

Idle == [waiting |-> FALSE, of |-> NoRun]

Alive(r) == run[r].pc \notin {"none", "ended"}

Goto(r, l) == run' = [run EXCEPT ![r].pc = l]

-----------------------------------------------------------------------------
(* The manager. *)

(* Mutant of Start: the current run is not looked at. *)
StartAnyway(r) ==
  /\ run[r].pc = "none"
  /\ current' = r
  /\ Goto(r, "dial")
  /\ UNCHANGED <<stop, late, captureVars, link, browser, dropped>>

(* Start, lines 70-100; EnsureSession may fail, which changes nothing.     *)
Start(r) ==
  /\ current = NoRun
  /\ run[r].pc = "none"
  /\ current' = r
  /\ Goto(r, "dial")
  /\ UNCHANGED <<stop, late, captureVars, link, browser, dropped>>

(* Stop, lines 103-108: cancel the run that is current, if any. *)
StopCancels(c) ==
  /\ ~stop[c].waiting
  /\ stop' = [stop EXCEPT ![c] = [waiting |-> TRUE, of |-> current]]
  /\ run' = [r \in Runs |-> IF r = current THEN [run[r] EXCEPT !.cancelled = TRUE] ELSE run[r]]
  /\ UNCHANGED <<current, late, captureVars, link, browser, dropped>>

(* Lines 109-116: the goroutine has ended; whatever is current is removed. *)
StopReturns(c) ==
  /\ stop[c].waiting
  /\ stop[c].of # NoRun => run[stop[c].of].pc = "ended"
  /\ stop' = [stop EXCEPT ![c] = Idle]
  /\ current' = NoRun
  /\ late' = late \cup ({current} \ {stop[c].of, NoRun})
  /\ UNCHANGED <<run, captureVars, link, browser, dropped>>

-----------------------------------------------------------------------------
(* The capture goroutine. *)

(* The deferred client.Close and close(state.done); the error that setError *)
(* keeps for Status is left out, and so is the count of its flows.         *)
Ends(r) ==
  /\ Goto(r, "ended")
  /\ link' = [link EXCEPT ![r] = NoLink]
  /\ pending' = [pending EXCEPT ![r] = NothingPending]
  /\ UNCHANGED rows

(* dialCDP: discovery and handshake, then Network.enable is written. *)
Dial(r) ==
  /\ run[r].pc = "dial"
  /\ \/ /\ Goto(r, "enable")
        /\ link' = [link EXCEPT ![r].open = TRUE, ![r].reply = "waiting"]
        /\ UNCHANGED captureVars
     \/ Ends(r)

(* Mutant of CallGivesUp: Call does not watch the context. *)
CallWaitsForTheBrowser(r) == ~link[r].open

(* Call, lines 91-99 of client.go: the context or the connection ended.    *)
(* With a reply in the channel too, select takes any of them.              *)
CallGivesUp(r) == run[r].cancelled \/ ~link[r].open

(* Line 144. *)
Enabled(r) ==
  /\ run[r].pc = "enable"
  /\ \/ /\ link[r].reply = "ok"
        /\ Goto(r, "loop")
        /\ link' = [link EXCEPT ![r].reply = "none"]
        /\ UNCHANGED captureVars
     \/ /\ CallGivesUp(r) \/ link[r].reply = "error"
        /\ Ends(r)

(* Lines 150-158, but for the events; a closed channel is drained first.   *)
LoopEnds(r) ==
  /\ run[r].pc = "loop"
  /\ \/ run[r].cancelled /\ Ends(r)
     \/ ~link[r].open /\ link[r].events = <<>> /\ Ends(r)

(* Mutant of AfterResponse: a response to an unknown request is kept. *)
KeepUnknownResponse(flow, hop) == [flow EXCEPT !.answered = hop]

(* handleEvent, lines 185-192. *)
AfterResponse(flow, hop) ==
  IF flow = NotPending THEN flow ELSE [flow EXCEPT !.answered = hop]

Remember(r, q, flow) ==
  /\ pending' = [pending EXCEPT ![r][q] = flow]
  /\ Goto(r, "loop")

(* handleEvent, lines 165-222: a request overwrites what its id stood for; *)
(* the end of a request that is not pending is ignored; a finished one     *)
(* first asks the browser for the body.                                    *)
HandleEvent(r) ==
  /\ run[r].pc = "loop"
  /\ link[r].events # <<>>
  /\ LET event == Head(link[r].events)
         q == event.request
         asks == event.kind = "finished" /\ pending[r][q] # NotPending
     IN  /\ link' = [link EXCEPT ![r].events = Tail(@),
                                 ![r].reply = IF asks THEN "waiting" ELSE @]
         /\ \/ event.kind = "request" /\ Remember(r, q, [hop |-> event.hop, answered |-> 0])
            \/ event.kind = "response" /\ Remember(r, q, AfterResponse(pending[r][q], event.hop))
            \/ /\ event.kind \in {"finished", "failed"} /\ pending[r][q] = NotPending
               /\ UNCHANGED <<pending, run>>
            \/ /\ asks
               /\ run' = [run EXCEPT ![r].pc = "body", ![r].hand = q]
               /\ UNCHANGED pending
            \/ /\ event.kind = "failed" /\ pending[r][q] # NotPending
               /\ run' = [run EXCEPT ![r].pc = "persist_failed", ![r].hand = q]
               /\ UNCHANGED pending
  /\ UNCHANGED rows

(* responseBody: its errors are ignored, the flow is stored without. *)
BodyArrives(r) ==
  /\ run[r].pc = "body"
  /\ CallGivesUp(r) \/ link[r].reply \in {"ok", "error"}
  /\ Goto(r, "persist")
  /\ link' = [link EXCEPT ![r].reply = "none"]
  /\ UNCHANGED captureVars

(* Mutant of AfterPersist: a flow that could not be stored stays pending. *)
KeepUnstored(r, q, stored) == IF stored THEN NotPending ELSE pending[r][q]

(* Lines 209 and 220: delete(pending, requestID). *)
AfterPersist(r, q, stored) == NotPending

(* persist and lines 202-209, 217-220: InsertFlow refuses a cancelled      *)
(* context; stored or not, the request is not pending any more.  A request *)
(* that failed loses its status, not the headers of a response it had.     *)
Persist(r) ==
  LET q == run[r].hand
      failed == run[r].pc = "persist_failed"
  IN  /\ run[r].pc \in {"persist", "persist_failed"}
      /\ \/ /\ ~run[r].cancelled
            /\ rows' = [rows EXCEPT ![r] = Append(@,
                 [request |-> q, hop |-> pending[r][q].hop, failed |-> failed,
                  answered |-> pending[r][q].answered])]
            /\ Remember(r, q, AfterPersist(r, q, TRUE))
         \/ /\ IOFaults \/ run[r].cancelled
            /\ Remember(r, q, AfterPersist(r, q, FALSE))
            /\ UNCHANGED rows
      /\ UNCHANGED link

Capture(r) ==
  /\ \/ Dial(r)
     \/ Enabled(r)
     \/ LoopEnds(r)
     \/ HandleEvent(r)
     \/ BodyArrives(r)
     \/ Persist(r)
  /\ UNCHANGED <<managerVars, browser, dropped>>

-----------------------------------------------------------------------------
(* The browser, and readLoop (client.go, lines 116-149).                   *)

Attached == {r \in Runs : link[r].open /\ link[r].enabled}

(* Mutant of Full: one event too many is taken. *)
OverFull(r) == Len(link[r].events) > ChanCap

Full(r) == Len(link[r].events) >= ChanCap

(* readLoop puts an event into the channel or, when it is full, drops it. *)
Deliver(kind, q, hop) ==
  /\ link' = [r \in Runs |->
       IF r \in Attached /\ ~Full(r)
       THEN [link[r] EXCEPT !.events = Append(@, [kind |-> kind, request |-> q, hop |-> hop])]
       ELSE link[r]]
  /\ dropped' = [r \in Runs |-> IF r \in Attached /\ Full(r) THEN dropped[r] \cup {q} ELSE dropped[r]]
  /\ UNCHANGED <<managerVars, run, captureVars>>

(* requestWillBeSent: the first request of an id, or a redirect of it. *)
Sends(q) ==
  /\ browser[q].stage \in {"new", "sent"}
  /\ browser[q].hop < MaxHops
  /\ browser' = [browser EXCEPT ![q] = [stage |-> "sent", hop |-> @.hop + 1]]
  /\ Deliver("request", q, browser[q].hop + 1)

Responds(q) ==
  /\ browser[q].stage = "sent"
  /\ browser' = [browser EXCEPT ![q].stage = "responded"]
  /\ Deliver("response", q, browser[q].hop)

Finishes(q) ==
  /\ browser[q].stage = "responded"
  /\ browser' = [browser EXCEPT ![q].stage = "over"]
  /\ Deliver("finished", q, browser[q].hop)

Fails(q) ==
  /\ browser[q].stage \in {"sent", "responded"}
  /\ browser' = [browser EXCEPT ![q].stage = "over"]
  /\ Deliver("failed", q, browser[q].hop)

(* The reply to a Call; to Network.enable it comes with the first events.  *)
Replies(r, reply) ==
  /\ link[r].open /\ link[r].reply = "waiting"
  /\ link' = [link EXCEPT ![r].reply = reply, ![r].enabled = @ \/ reply = "ok"]
  /\ UNCHANGED <<managerVars, run, captureVars, browser, dropped>>

(* The browser goes away: ReadMessage fails. *)
HangsUp(r) ==
  /\ link[r].open
  /\ link' = [link EXCEPT ![r].open = FALSE]
  /\ UNCHANGED <<managerVars, run, captureVars, browser, dropped>>

-----------------------------------------------------------------------------

Init ==
  /\ current = NoRun
  /\ stop = [c \in Controllers |-> Idle]
  /\ run = [r \in Runs |-> [pc |-> "none", cancelled |-> FALSE,
                            hand |-> CHOOSE q \in Requests : TRUE]]
  /\ pending = [r \in Runs |-> NothingPending]
  /\ link = [r \in Runs |-> NoLink]
  /\ browser = [q \in Requests |-> [stage |-> "new", hop |-> 0]]
  /\ rows = [r \in Runs |-> <<>>]
  /\ dropped = [r \in Runs |-> {}]
  /\ late = {}

Browser ==
  \/ \E q \in Requests : Sends(q) \/ Responds(q) \/ Finishes(q) \/ Fails(q)
  \/ \E r \in Runs : (\E reply \in {"ok", "error"} : Replies(r, reply)) \/ HangsUp(r)

Next ==
  \/ \E r \in Runs : Start(r) \/ Capture(r)
  \/ \E c \in Controllers : StopCancels(c) \/ StopReturns(c)
  \/ Browser

(* Goroutines keep being scheduled, a dial ends (15 s handshake timeout,   *)
(* or the context) and store calls return; the browser owes nothing.       *)
Fairness ==
  /\ \A r \in Runs : WF_vars(Capture(r))
  /\ \A c \in Controllers : WF_vars(StopReturns(c))

Spec == Init /\ [][Next]_vars /\ Fairness

-----------------------------------------------------------------------------

Event == [kind : {"request", "response", "finished", "failed"},
          request : Requests, hop : 1..MaxHops]

(* The types of the variables. *)
TypeOK ==
  /\ current \in Runs \cup {NoRun}
  /\ stop \in [Controllers -> [waiting : BOOLEAN, of : Runs \cup {NoRun}]]
  /\ run \in [Runs -> [pc : {"none", "dial", "enable", "loop", "body", "persist",
                             "persist_failed", "ended"},
                       cancelled : BOOLEAN, hand : Requests]]
  /\ pending \in [Runs -> [Requests -> [hop : 0..MaxHops, answered : 0..MaxHops]]]
  /\ link \in [Runs -> [open : BOOLEAN, enabled : BOOLEAN,
                        reply : {"none", "waiting", "ok", "error"}, events : Seq(Event)]]
  /\ \A r \in Runs : Len(link[r].events) <= ChanCap
  /\ browser \in [Requests -> [stage : {"new", "sent", "responded", "over"},
                                hop : 0..MaxHops]]
  /\ rows \in [Runs -> Seq([request : Requests, hop : 1..MaxHops, failed : BOOLEAN,
                            answered : 0..MaxHops])]
  /\ dropped \in [Runs -> SUBSET Requests]
  /\ late \subseteq Runs

(* A capture that goes on without being the current one has been           *)
(* cancelled, or a Stop removed it that had waited for another run (or for *)
(* none) while Start let this one in: nothing can stop it any more.        *)
OrphansComeFromLateStops ==
  \A r \in Runs : Alive(r) => current = r \/ run[r].cancelled \/ r \in late

(* The pending map does not keep a request that is over: its end is still  *)
(* in the channel, or is being handled, or one of its events was dropped.  *)
NothingLeftPending ==
  \A r \in Runs, q \in Requests :
    pending[r][q] # NotPending /\ browser[q].stage = "over" =>
      \/ q \in dropped[r]
      \/ run[r].hand = q /\ run[r].pc \in {"body", "persist", "persist_failed"}
      \/ \E n \in DOMAIN link[r].events :
           link[r].events[n].request = q /\ link[r].events[n].kind \in {"finished", "failed"}
      \/ ~link[r].open

(* A stored flow joins a request with the response to that very request,   *)
(* not to an earlier or a later one of the redirect chain: a finished one  *)
(* has it, and the headers of a failed one, if it has any, are its own -   *)
(* unless an event of it was dropped on the full channel.                  *)
PairedUnlessDropped ==
  \A r \in Runs : \A n \in DOMAIN rows[r] :
    LET row == rows[r][n] IN
    row.request \notin dropped[r] =>
      row.answered = row.hop \/ (row.failed /\ row.answered = 0)

(* Stop returns: whatever the goroutine is doing and whatever the browser  *)
(* does or fails to do, a cancelled capture ends.                          *)
EveryStopReturns ==
  \A c \in Controllers : stop[c].waiting ~> ~stop[c].waiting

=============================================================================
