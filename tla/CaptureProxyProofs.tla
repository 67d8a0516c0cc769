------------------------ MODULE CaptureProxyProofs ------------------------
(***************************************************************************)
(* Proofs about CertAuthority and CaptureProxy, for every set of roots,    *)
(* hosts, clients and flows, every lifetime of a leaf, and any number of   *)
(* rotations, restarts, crashes and failing accesses to the files.         *)
(***************************************************************************)
EXTENDS CaptureProxy, TLAPS

-----------------------------------------------------------------------------
(* The certificate authority.                                              *)
(*                                                                         *)
(* While it serves, the process has a root; a create is under way with a   *)
(* root that it has drawn, and none when there is no process.              *)
MakingHasARoot ==
  /\ making.pc # "idle" => making.root \in Roots
  /\ daemon = "down" => making.pc = "idle"
  /\ Serving => ca.cert \in Roots /\ ca.key \in Roots

(* What the files hold as long as no create was left half done: nothing or *)
(* one root before a create has touched them, then the root that is made;  *)
(* and while the process serves, the root it has.                          *)
Matching == certFile \in Roots /\ certFile = keyFile

FilesFollow ==
  ~cut =>
    /\ making.pc \in {"idle", "openCert"} => certFile = Missing \/ Matching
    /\ making.pc \in {"openKey", "writeKey"} => certFile = making.root
    /\ making.pc = "load" => certFile = making.root /\ keyFile = making.root
    /\ Serving /\ making.pc \in {"idle", "openCert"} =>
         Matching /\ certFile = ca.cert /\ keyFile = ca.key

CAInv == CATypeOK /\ MakingHasARoot /\ FilesFollow /\ LeavesComeFromTheRoot

LEMMA CAInitInv == CAInit => CAInv
<1> SUFFICES ASSUME CAInit PROVE CAInv
  OBVIOUS
<1>1. CATypeOK
  <2>1. now \in 0..MaxTime /\ starts \in 0..MaxStarts
    BY TimeAssumption, StartsAssumption DEF CAInit
  <2>2. /\ ca \in [cert : Roots \cup {NoRoot}, key : Roots \cup {NoRoot}]
        /\ leaves \in [Hosts -> Leaf \cup {NoLeaf}]
        /\ making \in [pc : {"idle", "openCert", "writeCert", "openKey", "writeKey", "load"},
                       root : Roots \cup {NoRoot}]
    BY DEF CAInit, NoCA, NoLeaves, NotMaking
  <2>3. QED
    BY <2>1, <2>2 DEF CAInit, CATypeOK
<1>2. MakingHasARoot /\ FilesFollow /\ LeavesComeFromTheRoot
  BY DEF CAInit, MakingHasARoot, FilesFollow, LeavesComeFromTheRoot, NotMaking, NoLeaves, Serving
<1>3. QED
  BY <1>1, <1>2 DEF CAInv

LEMMA CAUnchanged == CAInv /\ UNCHANGED caVars => CAInv'
  BY DEF CAInv, CATypeOK, MakingHasARoot, FilesFollow, Matching, LeavesComeFromTheRoot,
         Serving, CanSign, caVars

(* A create: it draws a root, and writes the two files. *)
LEMMA CreateInv ==
  ASSUME CAInv,
         (\E r \in Roots : CreateBegins(r) \/ RotateBegins(r))
         \/ OpenCertFile \/ WriteCertFile \/ OpenKeyFile \/ WriteKeyFile
  PROVE  CAInv'
<1> USE DEF CAInv
<1>1. ASSUME NEW r \in Roots, CreateBegins(r) PROVE CAInv'
  BY <1>1 DEF CreateBegins, Draw, Unlocked, CATypeOK, MakingHasARoot, FilesFollow, Matching,
              LeavesComeFromTheRoot, Serving, CanSign
<1>2. ASSUME NEW r \in Roots, RotateBegins(r) PROVE CAInv'
  BY <1>2 DEF RotateBegins, Draw, Unlocked, CATypeOK, MakingHasARoot, FilesFollow, Matching,
              LeavesComeFromTheRoot, Serving, CanSign
<1>3. CASE OpenCertFile
  BY <1>3 DEF OpenCertFile, Goto, CATypeOK, MakingHasARoot, FilesFollow, Matching,
              LeavesComeFromTheRoot, Serving, CanSign
<1>4. CASE WriteCertFile
  BY <1>4 DEF WriteCertFile, Goto, CATypeOK, MakingHasARoot, FilesFollow, Matching,
              LeavesComeFromTheRoot, Serving, CanSign
<1>5. CASE OpenKeyFile
  BY <1>5 DEF OpenKeyFile, Goto, CATypeOK, MakingHasARoot, FilesFollow, Matching,
              LeavesComeFromTheRoot, Serving, CanSign
<1>6. CASE WriteKeyFile
  BY <1>6 DEF WriteKeyFile, Goto, CATypeOK, MakingHasARoot, FilesFollow, Matching,
              LeavesComeFromTheRoot, Serving, CanSign
<1>7. QED
  BY <1>1, <1>2, <1>3, <1>4, <1>5, <1>6

(* A create ends: both files are loaded, or it is left. *)
LEMMA CreateEndsInv ==
  ASSUME CAInv, Load \/ BootFails \/ RotateFails
  PROVE  CAInv'
<1> USE DEF CAInv
<1>1. CASE Load
  <2>1. CATypeOK'
    BY <1>1 DEF Load, Readable, AfterLoad, NoLeaves, NotMaking, CATypeOK
  <2>2. MakingHasARoot'
    BY <1>1 DEF Load, Readable, NotMaking, MakingHasARoot, Unlocked, Serving, CATypeOK
  <2>3. FilesFollow'
    BY <1>1 DEF Load, Readable, NotMaking, FilesFollow, Matching, Unlocked, Serving,
                MakingHasARoot, CATypeOK, NullAssumption
  <2>4. LeavesComeFromTheRoot'
    BY <1>1 DEF Load, AfterLoad, NoLeaves, LeavesComeFromTheRoot
  <2>5. QED
    BY <2>1, <2>2, <2>3, <2>4
<1>2. CASE BootFails
  BY <1>2 DEF BootFails, Half, Unlocked, NotMaking, CATypeOK, MakingHasARoot, FilesFollow,
              Matching, LeavesComeFromTheRoot, Serving, CanSign
<1>3. CASE RotateFails
  BY <1>3 DEF RotateFails, Unlocked, NotMaking, CATypeOK, MakingHasARoot, FilesFollow,
              Matching, LeavesComeFromTheRoot, Serving, CanSign
<1>4. QED
  BY <1>1, <1>2, <1>3

(* The trust store, a start, the clock, and the end of the process. *)
LEMMA OutsideInv ==
  ASSUME CAInv, TrustRoot \/ RevokeRoot \/ Boot \/ Tick \/ Gone
  PROVE  CAInv'
<1> USE DEF CAInv
<1>1. CASE TrustRoot
  BY <1>1 DEF TrustRoot, CATypeOK, MakingHasARoot, FilesFollow, Matching,
              LeavesComeFromTheRoot, Serving, CanSign
<1>2. CASE RevokeRoot
  BY <1>2 DEF RevokeRoot, CATypeOK, MakingHasARoot, FilesFollow, Matching,
              LeavesComeFromTheRoot, Serving, CanSign
<1>3. CASE Boot
  BY <1>3, StartsAssumption DEF Boot, Unlocked, CATypeOK, MakingHasARoot, FilesFollow, Matching,
              LeavesComeFromTheRoot, Serving, CanSign
<1>4. CASE Tick
  BY <1>4, TimeAssumption DEF Tick, CATypeOK, MakingHasARoot, FilesFollow, Matching,
              LeavesComeFromTheRoot, Serving, CanSign
<1>5. CASE Gone
  <2>1. CATypeOK'
    BY <1>5 DEF Gone, NoCA, NoLeaves, NotMaking, CATypeOK
  <2>2. MakingHasARoot' /\ LeavesComeFromTheRoot'
    BY <1>5 DEF Gone, NoLeaves, NotMaking, MakingHasARoot, LeavesComeFromTheRoot, Serving
  <2>3. ASSUME ~cut' PROVE certFile = Missing \/ Matching
    <3>1. ~cut /\ making.pc \in {"idle", "openCert", "load"}
      BY <1>5, <2>3 DEF Gone, Half, CATypeOK
    <3>2. QED
      BY <3>1 DEF FilesFollow, Matching, MakingHasARoot
  <2>4. FilesFollow'
    BY <1>5, <2>3 DEF Gone, NotMaking, FilesFollow, Matching, Serving
  <2>5. QED
    BY <2>1, <2>2, <2>4
<1>6. QED
  BY <1>1, <1>2, <1>3, <1>4, <1>5

(* A leaf that is made now is of the root in memory. *)
LEMMA LeafType ==
  ASSUME CAInv, Serving, NEW h \in Hosts, HasLeaf(h)
  PROVE  LeafFor(h) \in Leaf /\ LeafFor(h).root = ca.cert /\ CanSign
<1>1. CASE leaves[h] # NoLeaf
  BY <1>1 DEF CAInv, CATypeOK, LeafFor, LeavesComeFromTheRoot
<1>2. CASE leaves[h] = NoLeaf
  <2>1. now + LeafLife \in 0..(MaxTime + LeafLife)
    BY TimeAssumption DEF CAInv, CATypeOK
  <2>2. QED
    BY <1>2, <2>1 DEF CAInv, MakingHasARoot, LeafFor, HasLeaf, Leaf
<1>3. QED
  BY <1>1, <1>2

LEMMA TakeLeafInv ==
  ASSUME CAInv, Serving, NEW h \in Hosts, TakeLeaf(h),
         UNCHANGED <<certFile, keyFile, trusted, daemon, ca, making, now, starts, used, cut>>
  PROVE  CAInv'
<1>1. LeafFor(h) \in Leaf /\ LeafFor(h).root = ca.cert /\ CanSign
  BY LeafType DEF TakeLeaf
<1>2. leaves' = [leaves EXCEPT ![h] = LeafFor(h)]
  BY DEF TakeLeaf
<1>3. CATypeOK' /\ LeavesComeFromTheRoot'
  BY <1>1, <1>2 DEF CAInv, CATypeOK, LeavesComeFromTheRoot, CanSign
<1>4. MakingHasARoot' /\ FilesFollow'
  BY DEF CAInv, MakingHasARoot, FilesFollow, Matching, Serving
<1>5. QED
  BY <1>3, <1>4 DEF CAInv

-----------------------------------------------------------------------------
(* The proxy.                                                              *)
(*                                                                         *)
(* A connection that is open has a host, and there is none but while the   *)
(* process serves.                                                         *)
Addressed ==
  \A c \in Clients : conn[c].pc # "closed" => conn[c].host \in Hosts /\ Serving

ProxyInv == CAInv /\ TypeOK /\ Addressed

LEMMA NoConnType == NoConn \in Conn /\ NoConn.pc = "closed"
  BY DEF NoConn, Conn, Answers

LEMMA InitInv == Init => ProxyInv
<1> SUFFICES ASSUME Init PROVE ProxyInv
  OBVIOUS
<1>1. CAInv
  BY CAInitInv DEF Init
<1>2. conn \in [Clients -> Conn] /\ Addressed
  BY NoConnType DEF Init, Addressed
<1>3. TypeOK
  BY <1>1, <1>2 DEF Init, TypeOK, CAInv, TableInit
<1>4. QED
  BY <1>1, <1>3, <1>2 DEF ProxyInv

(* A step of one connection keeps the invariant when what it makes of the  *)
(* connection and of the tables has the right type.                        *)
LEMMA ConnStepInv ==
  ASSUME ProxyInv, CAInv', Serving', NEW c \in Clients, NEW m \in Conn,
         conn' = [conn EXCEPT ![c] = m],
         m.pc # "closed" => m.host \in Hosts,
         flows' \in [FlowIds -> Row \cup {NoFlow}],
         flowTags' \subseteq FlowIds \X Tags,
         enabled' \in BOOLEAN
  PROVE  ProxyInv'
<1>1. conn' \in [Clients -> Conn]
  BY DEF ProxyInv, TypeOK
<1>2. \A d \in Clients : conn'[d].pc # "closed" => conn'[d].host \in Hosts
  BY DEF ProxyInv, TypeOK, Addressed
<1>3. QED
  BY <1>1, <1>2 DEF ProxyInv, TypeOK, CAInv, Addressed

(* The steps that change neither the authority nor the tables. *)
LEMMA QuietStepInv ==
  ASSUME ProxyInv, Serving, NEW c \in Clients, NEW m \in Conn,
         conn' = [conn EXCEPT ![c] = m],
         m.pc # "closed" => m.host \in Hosts,
         UNCHANGED <<caVars, tableVars, enabled>>
  PROVE  ProxyInv'
<1>1. CAInv' /\ Serving'
  BY CAUnchanged DEF ProxyInv, Serving, caVars
<1>2. QED
  BY <1>1, ConnStepInv DEF ProxyInv, TypeOK, tableVars

LEMMA AfterExchangeType ==
  ASSUME TypeOK, NEW c \in Clients
  PROVE  /\ AfterExchange(c) \in Conn
         /\ AfterExchange(c).pc # "closed" =>
              conn[c].pc = "closed" \/ AfterExchange(c).host = conn[c].host
  BY NoConnType DEF AfterExchange, TypeOK, Conn, Answers

LEMMA OpeningInv ==
  ASSUME ProxyInv, NEW c \in Clients,
         (\E h \in Hosts : AcceptPlain(c, h) \/ AcceptConnect(c, h))
         \/ GetLeaf(c) \/ NoLeafForHost(c) \/ Handshake(c) \/ HandshakeFails(c)
  PROVE  ProxyInv'
<1>1. conn[c] \in Conn /\ (conn[c].pc # "closed" => conn[c].host \in Hosts)
  BY DEF ProxyInv, TypeOK, Addressed
<1>2. ASSUME NEW h \in Hosts, AcceptPlain(c, h) PROVE ProxyInv'
  <2> DEFINE m == [NoConn EXCEPT !.pc = "body", !.host = h]
  <2>1. m \in Conn /\ m.host \in Hosts
    BY NoConnType DEF NoConn, Conn
  <2>2. Serving /\ conn' = [conn EXCEPT ![c] = m]
    BY <1>2 DEF AcceptPlain, Serving
  <2>3. QED
    BY <1>2, <2>1, <2>2, QuietStepInv DEF AcceptPlain
<1>3. ASSUME NEW h \in Hosts, AcceptConnect(c, h) PROVE ProxyInv'
  <2> DEFINE m == [NoConn EXCEPT !.pc = "connect", !.host = h, !.tunnel = TRUE]
  <2>1. m \in Conn /\ m.host \in Hosts
    BY NoConnType DEF NoConn, Conn
  <2>2. Serving /\ conn' = [conn EXCEPT ![c] = m]
    BY <1>3 DEF AcceptConnect, Serving
  <2>3. QED
    BY <1>3, <2>1, <2>2, QuietStepInv DEF AcceptConnect
<1>4. CASE GetLeaf(c)
  <2> DEFINE m == [conn[c] EXCEPT !.pc = "hello", !.leaf = LeafFor(conn[c].host)]
  <2>1. Serving /\ conn[c].host \in Hosts /\ TakeLeaf(conn[c].host)
    BY <1>1, <1>4 DEF GetLeaf, At
  <2>2. LeafFor(conn[c].host) \in Leaf
    BY <2>1, LeafType DEF TakeLeaf, ProxyInv
  <2>3. m \in Conn /\ m.host \in Hosts
    BY <1>1, <2>1, <2>2 DEF Conn
  <2>4. CAInv' /\ Serving'
    BY <1>4, <2>1, TakeLeafInv DEF GetLeaf, ProxyInv, Serving
  <2>5. conn' = [conn EXCEPT ![c] = m]
    BY <1>4 DEF GetLeaf, ProxyInv, TypeOK
  <2>6. QED
    BY <1>4, <2>3, <2>4, <2>5, ConnStepInv DEF GetLeaf, ProxyInv, TypeOK, tableVars
<1>5. CASE NoLeafForHost(c) \/ HandshakeFails(c)
  BY <1>5, NoConnType, QuietStepInv DEF NoLeafForHost, HandshakeFails, At, Close
<1>6. CASE Handshake(c)
  <2>1. [conn[c] EXCEPT !.pc = "open"] \in Conn
    BY <1>1 DEF Conn
  <2>2. Serving /\ conn' = [conn EXCEPT ![c] = [conn[c] EXCEPT !.pc = "open"]]
    BY <1>6 DEF Handshake, At, Step, ProxyInv, TypeOK
  <2>3. conn[c].host \in Hosts
    BY <1>1, <1>6 DEF Handshake, At
  <2>4. QED
    BY <1>6, <2>1, <2>2, <2>3, QuietStepInv DEF Handshake, Conn
<1>7. QED
  BY <1>2, <1>3, <1>4, <1>5, <1>6

(* The steps that leave the connection as it is, up to some of its fields. *)
LEMMA ServingInv ==
  ASSUME ProxyInv, NEW c \in Clients,
         TunnelRequest(c) \/ TunnelEnds(c) \/ ClientLeaves(c) \/ NotForwarded(c)
         \/ Forward(c) \/ (\E a \in Answers : ServerAnswers(c, a)) \/ InsertFails(c)
  PROVE  ProxyInv'
<1>1. conn[c] \in Conn /\ (conn[c].pc # "closed" => conn[c].host \in Hosts)
  BY DEF ProxyInv, TypeOK, Addressed
<1>2. ASSUME NEW l \in {"body", "sent"}, Step(c, l), At(c, "open") \/ At(c, "body"),
             UNCHANGED <<caVars, tableVars, enabled>>
      PROVE  ProxyInv'
  <2> DEFINE m == [conn[c] EXCEPT !.pc = l]
  <2>1. m \in Conn /\ m.host \in Hosts
    BY <1>1, <1>2 DEF At, Conn
  <2>2. Serving /\ conn' = [conn EXCEPT ![c] = m]
    BY <1>2 DEF At, Step, ProxyInv, TypeOK
  <2>3. QED
    BY <1>2, <2>1, <2>2, QuietStepInv
<1>3. CASE TunnelRequest(c) \/ Forward(c)
  BY <1>2, <1>3 DEF TunnelRequest, Forward
<1>4. CASE TunnelEnds(c)
  BY <1>4, NoConnType, QuietStepInv DEF TunnelEnds, At, Close
<1>5. CASE ClientLeaves(c)
  <2> DEFINE m == [conn[c] EXCEPT !.left = TRUE]
  <2>1. m \in Conn /\ m.host \in Hosts
    BY <1>1, <1>5 DEF ClientLeaves, Conn
  <2>2. Serving /\ conn' = [conn EXCEPT ![c] = m]
    BY <1>5 DEF ClientLeaves, ProxyInv, TypeOK
  <2>3. QED
    BY <1>5, <2>1, <2>2, QuietStepInv DEF ClientLeaves
<1>6. CASE NotForwarded(c) \/ InsertFails(c)
  <2>1. AfterExchange(c) \in Conn
        /\ (AfterExchange(c).pc # "closed" => AfterExchange(c).host \in Hosts)
    BY <1>1, <1>6, AfterExchangeType DEF NotForwarded, InsertFails, At, ProxyInv
  <2>2. QED
    BY <1>6, <2>1, QuietStepInv DEF NotForwarded, InsertFails, At, Respond
<1>7. ASSUME NEW a \in Answers, ServerAnswers(c, a) PROVE ProxyInv'
  <2> DEFINE m == [conn[c] EXCEPT !.pc = "insert", !.answer = a]
  <2>1. m \in Conn /\ m.host \in Hosts
    BY <1>1, <1>7 DEF ServerAnswers, At, Conn
  <2>2. Serving /\ conn' = [conn EXCEPT ![c] = m]
    BY <1>7 DEF ServerAnswers, At, ProxyInv, TypeOK
  <2>3. QED
    BY <1>7, <2>1, <2>2, QuietStepInv DEF ServerAnswers
<1>8. QED
  BY <1>3, <1>4, <1>5, <1>6, <1>7

(* A flow is stored, and tagged. *)
LEMMA RecordInv ==
  ASSUME ProxyInv, NEW c \in Clients,
         (\E f \in FlowIds, kept \in SUBSET BodiesOf(conn[c].answer) : InsertFlow(c, f, kept))
         \/ (\E T \in SUBSET Tags : ApplyTags(c, T))
  PROVE  ProxyInv'
<1>1. conn[c] \in Conn /\ (conn[c].pc # "closed" => conn[c].host \in Hosts)
  BY DEF ProxyInv, TypeOK, Addressed
<1>2. ASSUME NEW f \in FlowIds, NEW kept \in SUBSET BodiesOf(conn[c].answer),
             InsertFlow(c, f, kept)
      PROVE  ProxyInv'
  <2> DEFINE m == [conn[c] EXCEPT !.pc = "tag", !.flow = f]
             row == [host |-> conn[c].host, answer |-> conn[c].answer, bodies |-> kept]
  <2>1. m \in Conn /\ m.host \in Hosts
    BY <1>1, <1>2 DEF InsertFlow, At, Conn
  <2>2. conn' = [conn EXCEPT ![c] = m] /\ Serving /\ Serving' /\ UNCHANGED caVars
    BY <1>2 DEF InsertFlow, At, ProxyInv, TypeOK, caVars, Serving
  <2>3. CAInv'
    BY <2>2, CAUnchanged DEF ProxyInv
  <2>4. row \in Row
    <3>1. conn[c].host \in Hosts /\ conn[c].answer \in Answers
      BY <1>1, <1>2 DEF InsertFlow, At, Conn
    <3>2. kept \subseteq {"request", "response"}
      BY DEF BodiesOf
    <3>3. QED
      BY <3>1, <3>2 DEF Row
  <2>5. flows' = [flows EXCEPT ![f] = row] /\ UNCHANGED <<flowTags, enabled>>
    BY <1>2 DEF InsertFlow, InsertRow
  <2> HIDE DEF row, m
  <2>6. flows' \in [FlowIds -> Row \cup {NoFlow}]
    BY <2>4, <2>5 DEF ProxyInv, TypeOK
  <2>7. QED
    BY <2>1, <2>2, <2>3, <2>5, <2>6, ConnStepInv DEF ProxyInv, TypeOK
<1>3. ASSUME NEW T \in SUBSET Tags, ApplyTags(c, T) PROVE ProxyInv'
  <2>1. AfterExchange(c) \in Conn
        /\ (AfterExchange(c).pc # "closed" => AfterExchange(c).host \in Hosts)
    BY <1>1, <1>3, AfterExchangeType DEF ApplyTags, At, ProxyInv
  <2>2. conn' = [conn EXCEPT ![c] = AfterExchange(c)] /\ Serving /\ Serving' /\ UNCHANGED caVars
    BY <1>3 DEF ApplyTags, At, Respond, caVars, Serving
  <2>3. CAInv'
    BY <2>2, CAUnchanged DEF ProxyInv
  <2>4. flowTags' \subseteq FlowIds \X Tags /\ UNCHANGED <<flows, enabled>>
    BY <1>3 DEF ApplyTags, TagRow, Stored, ProxyInv, TypeOK
  <2>5. QED
    BY <2>1, <2>2, <2>3, <2>4, ConnStepInv DEF ProxyInv, TypeOK
<1>4. QED
  BY <1>2, <1>3

(* The process: its signal, its deadline and its end. *)
LEMMA ProcessInv ==
  ASSUME ProxyInv, Signal \/ Exit \/ Deadline \/ ExitLate \/ Crash
  PROVE  ProxyInv'
<1>1. CASE Signal \/ Deadline
  <2>1. /\ Serving /\ Serving' /\ daemon' \in {"draining", "late"}
        /\ UNCHANGED <<certFile, keyFile, trusted, ca, leaves, making, now, starts, used, cut,
                       tableVars, proxyVars>>
    BY <1>1 DEF Signal, Deadline, Serving
  <2>2. CAInv'
    BY <2>1 DEF ProxyInv, CAInv, CATypeOK, MakingHasARoot, FilesFollow, Matching,
                LeavesComeFromTheRoot, Serving, CanSign
  <2>3. QED
    BY <2>1, <2>2 DEF ProxyInv, TypeOK, CAInv, Addressed, tableVars, proxyVars
<1>2. CASE Exit \/ ExitLate \/ Crash
  <2>1. Gone /\ conn' = [c \in Clients |-> NoConn] /\ enabled' = TRUE /\ UNCHANGED tableVars
    BY <1>2 DEF Exit, ExitLate, Crash, Forgotten
  <2>2. CAInv'
    BY <2>1, OutsideInv DEF ProxyInv
  <2>3. conn' \in [Clients -> Conn] /\ Addressed'
    BY <2>1, NoConnType DEF Addressed
  <2>4. QED
    BY <2>1, <2>2, <2>3 DEF ProxyInv, TypeOK, CAInv, tableVars
<1>3. QED
  BY <1>1, <1>2

LEMMA CANextInv == CAInv /\ CANext => CAInv'
  BY CreateInv, CreateEndsInv, OutsideInv DEF CANext

(* The authority's own steps let the process serve while it does. *)
LEMMA CANextServing ==
  ASSUME CAInv, CANext, Serving
  PROVE  Serving'
<1>1. daemon' \in {daemon, "up"}
  BY DEF CANext, CreateBegins, RotateBegins, Draw, OpenCertFile, WriteCertFile, OpenKeyFile,
         WriteKeyFile, Load, BootFails, RotateFails, TrustRoot, RevokeRoot, Boot, Tick, Serving
<1>2. QED
  BY <1>1 DEF Serving

LEMMA NextInv == ProxyInv /\ [Next]_vars => ProxyInv'
<1> SUFFICES ASSUME ProxyInv, [Next]_vars PROVE ProxyInv'
  OBVIOUS
<1>1. CASE UNCHANGED vars
  <2>1. CAInv'
    BY <1>1, CAUnchanged DEF ProxyInv, vars
  <2>2. QED
    BY <1>1, <2>1 DEF ProxyInv, TypeOK, CAInv, Addressed, Serving, vars, caVars, tableVars, proxyVars
<1>2. CASE CANext /\ UNCHANGED <<tableVars, proxyVars>>
  <2>1. CAInv'
    BY <1>2, CANextInv DEF ProxyInv
  <2>2. Addressed'
    BY <1>2, CANextServing DEF ProxyInv, Addressed, proxyVars
  <2>3. QED
    BY <1>2, <2>1, <2>2 DEF ProxyInv, TypeOK, CAInv, tableVars, proxyVars
<1>3. ASSUME NEW c \in Clients, ConnNext(c) PROVE ProxyInv'
  BY <1>3, OpeningInv, ServingInv, RecordInv DEF ConnNext
<1>4. CASE StartCapture \/ StopCapture
  <2>1. CAInv'
    BY <1>4, CAUnchanged DEF StartCapture, StopCapture, ProxyInv
  <2>2. QED
    BY <1>4, <2>1 DEF StartCapture, StopCapture, ProxyInv, TypeOK, CAInv, Addressed, Serving,
                      caVars, tableVars
<1>5. ASSUME NEW F \in SUBSET Stored, PruneFlows(F) PROVE ProxyInv'
  <2>1. CAInv'
    BY <1>5, CAUnchanged DEF PruneFlows, ProxyInv
  <2>2. flows' \in [FlowIds -> Row \cup {NoFlow}] /\ flowTags' \subseteq FlowIds \X Tags
    BY <1>5 DEF PruneFlows, DeleteRows, ProxyInv, TypeOK
  <2>3. QED
    BY <1>5, <2>1, <2>2 DEF PruneFlows, ProxyInv, TypeOK, CAInv, Addressed, Serving, caVars, proxyVars
<1>6. CASE Signal \/ Exit \/ Deadline \/ ExitLate \/ Crash
  BY <1>6, ProcessInv
<1>7. QED
  BY <1>1, <1>2, <1>3, <1>4, <1>5, <1>6 DEF Next

(* The variables keep their types, for every set of roots, hosts, clients  *)
(* and flows.                                                              *)
THEOREM TypeCorrect == Spec => []TypeOK
<1>1. ProxyInv => TypeOK
  BY DEF ProxyInv
<1>2. QED
  BY <1>1, InitInv, NextInv, PTL DEF Spec

(* A certificate in the cache was signed by the root in memory, whatever   *)
(* was rotated, crashed or failed before.                                  *)
THEOREM CacheFollowsTheRoot == Spec => []LeavesComeFromTheRoot
<1>1. ProxyInv => LeavesComeFromTheRoot
  BY DEF ProxyInv, CAInv
<1>2. QED
  BY <1>1, InitInv, NextInv, PTL DEF Spec

(* As long as no create was left half done, the two files hold the root    *)
(* that is in memory: it is FilesFollow that is inductive.                 *)
THEOREM FilesHoldTheRoot == Spec => []FilesAreTheRoot
<1>1. ProxyInv => FilesAreTheRoot
  BY DEF ProxyInv, CAInv, FilesFollow, Matching, FilesAreTheRoot, Unlocked, CanSign
<1>2. QED
  BY <1>1, InitInv, NextInv, PTL DEF Spec

-----------------------------------------------------------------------------
(* What becomes of an exchange that was forwarded. *)

LeftForAReason(c) ==
  \/ StoreFaults
  \/ conn[c].left /\ ~conn[c].tunnel
  \/ daemon' = "down" /\ daemon \in {"up", "late"}
  \/ daemon' = "down" /\ conn[c].tunnel

LEMMA ConnRecords ==
  ASSUME ProxyInv, NEW c \in Clients, NEW d \in Clients, ConnNext(d),
         InFlight(c), ~InFlight(c)', conn'[c].flow = NoFlow
  PROVE  LeftForAReason(c)
<1>1. conn[c] \in Conn /\ conn \in [Clients -> Conn]
  BY DEF ProxyInv, TypeOK
<1>2. conn'[c] # conn[c]
  BY DEF InFlight
<1>3. d = c
  BY <1>1, <1>2
     DEF ConnNext, AcceptPlain, AcceptConnect, GetLeaf, NoLeafForHost, Handshake, HandshakeFails,
         TunnelRequest, TunnelEnds, ClientLeaves, NotForwarded, Forward, ServerAnswers,
         InsertFlow, InsertFails, ApplyTags, Step, Close, Respond
<1>4. CASE InsertFails(c)
  BY <1>4 DEF InsertFails, Cancelled, LeftForAReason
<1>5. ASSUME NEW f \in FlowIds, NEW kept \in SUBSET BodiesOf(conn[c].answer),
             InsertFlow(c, f, kept)
      PROVE  FALSE
  BY <1>1, <1>5, ProxyAssumption DEF InsertFlow, Conn
<1>6. CASE ClientLeaves(c) \/ (\E a \in Answers : ServerAnswers(c, a))
  BY <1>1, <1>6 DEF ClientLeaves, ServerAnswers, InFlight, Conn
<1>7. conn[c].pc \in {"sent", "insert"}
  BY DEF InFlight
<1>8. QED
  BY <1>3, <1>4, <1>5, <1>6, <1>7
     DEF ConnNext, AcceptPlain, AcceptConnect, GetLeaf, NoLeafForHost, Handshake, HandshakeFails,
         TunnelRequest, TunnelEnds, NotForwarded, Forward, ApplyTags, At

LEMMA StepRecords ==
  ASSUME ProxyInv, Next, NEW c \in Clients,
         InFlight(c), ~InFlight(c)', conn'[c].flow = NoFlow
  PROVE  LeftForAReason(c)
<1>1. conn'[c] # conn[c]
  BY DEF InFlight
<1>2. conn' # conn
  BY <1>1
<1>3. (\E d \in Clients : ConnNext(d)) \/ Exit \/ ExitLate \/ Crash
  BY <1>2 DEF Next, StartCapture, StopCapture, PruneFlows, Signal, Deadline, proxyVars
<1>4. CASE \E d \in Clients : ConnNext(d)
  BY <1>4, ConnRecords
<1>5. Serving /\ conn[c].pc # "closed"
  BY DEF InFlight, ProxyInv, Addressed
<1>6. CASE Exit
  BY <1>5, <1>6 DEF Exit, Drained, Forgotten, Gone, LeftForAReason
<1>7. CASE ExitLate \/ Crash
  BY <1>5, <1>7 DEF ExitLate, Crash, Forgotten, Gone, Serving, LeftForAReason
<1>8. QED
  BY <1>3, <1>4, <1>6, <1>7

(* An exchange that was forwarded gets its flow, but for the four reasons  *)
(* that the code gives it to be left out.                                  *)
THEOREM ForwardedGetAFlow == Spec => ForwardedIsRecorded
<1>1. ASSUME ProxyInv, [Next]_vars
      PROVE  [\A c \in Clients :
                InFlight(c) /\ ~InFlight(c)' /\ conn[c]'.flow = NoFlow => LeftForAReason(c)]_vars
  BY <1>1, StepRecords
<1>2. QED
  BY <1>1, InitInv, NextInv, PTL DEF Spec, ForwardedIsRecorded, LeftForAReason

=============================================================================
