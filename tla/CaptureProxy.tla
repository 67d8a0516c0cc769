---------------------------- MODULE CaptureProxy ----------------------------
(***************************************************************************)
(* internal/proxy: the HTTP proxy that forwards plain requests, intercepts *)
(* CONNECT with a certificate of the local authority, and records every    *)
(* exchange as a flow; with its start and stop (proxy.start, proxy.stop)   *)
(* and the way cmd/deconstructd ends it.                                   *)
(*                                                                         *)
(* One goroutine serves a client's connection.  A plain request runs under *)
(* the context of its connection, which ends with the client; the requests *)
(* of a tunnel run under context.Background().  http.Server.Shutdown waits *)
(* for plain requests and not for hijacked connections, which tunnels are. *)
(***************************************************************************)
EXTENDS CertAuthority, FlowTable

CONSTANTS Clients,      \* connections; a closed one may be opened again
          StoreFaults,  \* may a blob or a store call fail?
          NoHost

ASSUME ProxyAssumption == /\ StoreFaults \in BOOLEAN
                          /\ NoHost \notin Hosts /\ NoFlow \notin FlowIds

VARIABLES
  enabled,  \* Server.enabled
  conn      \* the goroutine of each client's connection

proxyVars == <<enabled, conn>>

vars == <<caVars, tableVars, proxyVars>>

(* What an exchange with the server comes to: no response or one that      *)
(* broke off, or a whole one.                                              *)
Answers == {"failed", "whole"}

Row == [host : Hosts, answer : Answers, bodies : SUBSET {"request", "response"}]

ASSUME RowAssumption == NoFlow \notin Row

NoConn == [pc |-> "closed", tunnel |-> FALSE, host |-> NoHost, leaf |-> NoLeaf,
           answer |-> "failed", flow |-> NoFlow, left |-> FALSE]

Conn ==
  [pc : {"closed", "connect", "hello", "open", "body", "sent", "insert", "tag"},
   tunnel : BOOLEAN, host : Hosts \cup {NoHost}, leaf : Leaf \cup {NoLeaf},
   answer : Answers, flow : FlowIds \cup {NoFlow}, left : BOOLEAN]

Step(c, l) == conn' = [conn EXCEPT ![c].pc = l]

Close(c) == conn' = [conn EXCEPT ![c] = NoConn]

At(c, l) == Serving /\ conn[c].pc = l

(* The context of the exchange is cancelled: lines 80 and 141. *)
Cancelled(c) == conn[c].left /\ ~conn[c].tunnel

-----------------------------------------------------------------------------
(* ServeHTTP and handleConnect. *)

(* Lines 68-80: a plain request; enabled is read once. *)
AcceptPlain(c, h) ==
  /\ daemon = "up" /\ conn[c].pc = "closed"
  /\ enabled
  /\ conn' = [conn EXCEPT ![c] = [NoConn EXCEPT !.pc = "body", !.host = h]]
  /\ UNCHANGED <<caVars, tableVars, enabled>>

(* Lines 68-105: a CONNECT, hijacked. *)
AcceptConnect(c, h) ==
  /\ daemon = "up" /\ conn[c].pc = "closed"
  /\ enabled
  /\ conn' = [conn EXCEPT ![c] = [NoConn EXCEPT !.pc = "connect", !.host = h, !.tunnel = TRUE]]
  /\ UNCHANGED <<caVars, tableVars, enabled>>

(* Lines 107-121: the leaf that this connection will show. *)
GetLeaf(c) ==
  /\ At(c, "connect")
  /\ TakeLeaf(conn[c].host)
  /\ conn' = [conn EXCEPT ![c].pc = "hello", ![c].leaf = LeafFor(conn[c].host)]
  /\ UNCHANGED <<certFile, keyFile, trusted, daemon, ca, making, now, starts, used, cut,
                 tableVars, enabled>>

(* Lines 108-112: no certificate can be signed. *)
NoLeafForHost(c) ==
  /\ At(c, "connect")
  /\ Unlocked
  /\ ~HasLeaf(conn[c].host)
  /\ Close(c)
  /\ UNCHANGED <<caVars, tableVars, enabled>>

(* Lines 122-128: the client checks the leaf. *)
Handshake(c) ==
  /\ At(c, "hello")
  /\ ~conn[c].left
  /\ Acceptable(conn[c].leaf)
  /\ Step(c, "open")
  /\ UNCHANGED <<caVars, tableVars, enabled>>

(* Lines 113-125: the client refuses it, or has gone. *)
HandshakeFails(c) ==
  /\ At(c, "hello")
  /\ conn[c].left \/ ~Acceptable(conn[c].leaf)
  /\ Close(c)
  /\ UNCHANGED <<caVars, tableVars, enabled>>

(* Lines 130-141: the next request of a tunnel; enabled is not read. *)
TunnelRequest(c) ==
  /\ At(c, "open")
  /\ ~conn[c].left
  /\ Step(c, "body")
  /\ UNCHANGED <<caVars, tableVars, enabled>>

(* Lines 130-136: the client closes an idle tunnel. *)
TunnelEnds(c) ==
  /\ At(c, "open")
  /\ Close(c)
  /\ UNCHANGED <<caVars, tableVars, enabled>>

(* The client goes away in the middle of something; for a plain request    *)
(* net/http then ends the context of the request.                          *)
ClientLeaves(c) ==
  /\ Serving
  /\ conn[c].pc \notin {"closed", "open"} /\ ~conn[c].left
  /\ conn' = [conn EXCEPT ![c].left = TRUE]
  /\ UNCHANGED <<caVars, tableVars, enabled>>

-----------------------------------------------------------------------------
(* execute, lines 161-204, and record, lines 206-267. *)

(* What follows an exchange: the answer or a 502 is written, and a tunnel  *)
(* reads on (lines 82-87 and 142-158).                                     *)
AfterExchange(c) ==
  IF conn[c].tunnel /\ ~conn[c].left
  THEN [conn[c] EXCEPT !.pc = "open", !.answer = "failed", !.flow = NoFlow]
  ELSE NoConn

Respond(c) == conn' = [conn EXCEPT ![c] = AfterExchange(c)]

(* Lines 168-170 and 172-174: the store refuses the session, or the client *)
(* goes before it has sent the whole body.  Nothing was forwarded.         *)
NotForwarded(c) ==
  /\ At(c, "body")
  /\ conn[c].left \/ StoreFaults
  /\ Respond(c)
  /\ UNCHANGED <<caVars, tableVars, enabled>>

(* Lines 168-187: the session's row is there or is written, the body is    *)
(* read, for as long as it takes, and sent on.                             *)
Forward(c) ==
  /\ At(c, "body")
  /\ Step(c, "sent")
  /\ UNCHANGED <<caVars, tableVars, enabled>>

(* Lines 187-201: the server answers, or fails, or breaks off, or takes    *)
(* longer than the HTTP client's 60 seconds; or the context ends.          *)
ServerAnswers(c, a) ==
  /\ At(c, "sent")
  /\ Cancelled(c) => a # "whole"
  /\ conn' = [conn EXCEPT ![c].pc = "insert", ![c].answer = a]
  /\ UNCHANGED <<caVars, tableVars, enabled>>

(* What there is to put into the blob store: the response's body only when *)
(* it came whole (lines 189, 196 and 201).                                 *)
BodiesOf(a) == {"request"} \cup (IF a = "whole" THEN {"response"} ELSE {})

(* Lines 207-244: a Put that fails is logged, and its blob left empty.     *)
InsertFlow(c, f, kept) ==
  /\ At(c, "insert")
  /\ ~Cancelled(c)
  /\ StoreFaults \/ kept = BodiesOf(conn[c].answer)
  /\ InsertRow(f, [host |-> conn[c].host, answer |-> conn[c].answer, bodies |-> kept])
  /\ conn' = [conn EXCEPT ![c].pc = "tag", ![c].flow = f]
  /\ UNCHANGED <<caVars, enabled>>

(* Lines 244-247: the store refuses the flow, which record only logs. *)
InsertFails(c) ==
  /\ At(c, "insert")
  /\ Cancelled(c) \/ StoreFaults
  /\ Respond(c)
  /\ UNCHANGED <<caVars, tableVars, enabled>>

(* applyTags, lines 251-267: tag by tag, and an error is logged. *)
ApplyTags(c, T) ==
  /\ At(c, "tag")
  /\ Cancelled(c) \/ StoreFaults \/ T = Tags
  /\ TagRow(conn[c].flow, T)
  /\ Respond(c)
  /\ UNCHANGED <<caVars, enabled>>

-----------------------------------------------------------------------------
(* proxy.start and proxy.stop, lines 53-59. *)
StartCapture ==
  /\ Serving
  /\ enabled' = TRUE
  /\ UNCHANGED <<caVars, tableVars, conn>>

StopCapture ==
  /\ Serving
  /\ enabled' = FALSE
  /\ UNCHANGED <<caVars, tableVars, conn>>

(* maintenance.prune_flows, store.go:1225: what is old enough to go is left *)
(* open here.                                                              *)
PruneFlows(F) ==
  /\ daemon = "up"
  /\ DeleteRows(F)
  /\ UNCHANGED <<caVars, proxyVars>>

(* cmd/deconstructd/main.go:83-84, 138-141: the signal; Shutdown closes the *)
(* listener.                                                                *)
Signal ==
  /\ daemon = "up"
  /\ daemon' = "draining"
  /\ UNCHANGED <<certFile, keyFile, trusted, ca, leaves, making, now, starts, used, cut,
                 tableVars, proxyVars>>

(* Handlers end with the process, and with them what they had forwarded.  *)
Forgotten ==
  /\ Gone
  /\ conn' = [c \in Clients |-> NoConn]
  /\ enabled' = TRUE
  /\ UNCHANGED tableVars

(* Mutant of Drained: idle connections are all that Shutdown looks for. *)
NoneIsIdle == \A c \in Clients : conn[c].pc # "open"

(* Shutdown, main.go:141: no plain request is being served; connections    *)
(* that were hijacked are not counted.                                     *)
Drained == \A c \in Clients : conn[c].pc = "closed" \/ conn[c].tunnel

Exit ==
  /\ daemon = "draining"
  /\ Drained
  /\ Forgotten

(* config.ShutdownTimeout is over before that: lines 139-143. *)
Deadline ==
  /\ daemon = "draining"
  /\ ~Drained
  /\ daemon' = "late"
  /\ UNCHANGED <<certFile, keyFile, trusted, ca, leaves, making, now, starts, used, cut,
                 tableVars, proxyVars>>

ExitLate ==
  /\ daemon = "late"
  /\ Forgotten

(* The process is killed. *)
Crash ==
  /\ daemon \in {"boot", "up"}
  /\ Forgotten

-----------------------------------------------------------------------------

Init ==
  /\ CAInit /\ TableInit
  /\ enabled = TRUE
  /\ conn = [c \in Clients |-> NoConn]

ConnNext(c) ==
  \/ \E h \in Hosts : AcceptPlain(c, h) \/ AcceptConnect(c, h)
  \/ GetLeaf(c) \/ NoLeafForHost(c) \/ Handshake(c) \/ HandshakeFails(c)
  \/ TunnelRequest(c) \/ TunnelEnds(c) \/ ClientLeaves(c)
  \/ NotForwarded(c) \/ Forward(c)
  \/ \E a \in Answers : ServerAnswers(c, a)
  \/ \E f \in FlowIds, kept \in SUBSET BodiesOf(conn[c].answer) : InsertFlow(c, f, kept)
  \/ InsertFails(c)
  \/ \E T \in SUBSET Tags : ApplyTags(c, T)

Next ==
  \/ CANext /\ UNCHANGED <<tableVars, proxyVars>>
  \/ \E c \in Clients : ConnNext(c)
  \/ StartCapture \/ StopCapture
  \/ \E F \in SUBSET Stored : PruneFlows(F)
  \/ Signal \/ Exit \/ Deadline \/ ExitLate \/ Crash

(* A create that has begun goes on, file by file.  Go's mutex serves a     *)
(* waiting goroutine in the end, however often others take it.             *)
Fairness ==
  /\ WF_vars((OpenCertFile \/ WriteCertFile \/ OpenKeyFile \/ WriteKeyFile \/ Load
              \/ RotateFails \/ BootFails) /\ UNCHANGED <<tableVars, proxyVars>>)
  /\ \A c \in Clients : SF_vars(GetLeaf(c) \/ NoLeafForHost(c))

Spec == Init /\ [][Next]_vars /\ Fairness

-----------------------------------------------------------------------------
(* The types of the variables. *)
TypeOK ==
  /\ CATypeOK
  /\ flows \in [FlowIds -> Row \cup {NoFlow}]
  /\ flowTags \subseteq FlowIds \X Tags
  /\ enabled \in BOOLEAN
  /\ conn \in [Clients -> Conn]

InFlight(c) == conn[c].pc \in {"sent", "insert"}

(* An exchange that was forwarded gets a flow, also one that failed: it is *)
(* left out only when the store refused it, when the client of a plain     *)
(* request went away, when the process was killed or its deadline came,    *)
(* or, at an orderly end, when it went through a tunnel.                   *)
ForwardedIsRecorded ==
  [][\A c \in Clients :
       InFlight(c) /\ ~InFlight(c)' /\ conn[c]'.flow = NoFlow =>
         \/ StoreFaults
         \/ conn[c].left /\ ~conn[c].tunnel
         \/ daemon' = "down" /\ daemon \in {"up", "late"}
         \/ daemon' = "down" /\ conn[c].tunnel]_vars

(* A CONNECT is answered: the mutex that a rotation holds is given back.   *)
ConnectIsAnswered ==
  \A c \in Clients : conn[c].pc = "connect" ~> conn[c].pc # "connect"

=============================================================================
