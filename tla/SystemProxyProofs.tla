------------------------- MODULE SystemProxyProofs -------------------------
(***************************************************************************)
(* Proofs about SystemProxy for any number of services whose state files   *)
(* are their own, while calls do not overlap: however often Enable and     *)
(* Disable are repeated, fail half way or are cut by a crash.              *)
(***************************************************************************)
EXTENDS SystemProxy, TLAPS

Kinds == {"http", "https"}

(* What both promises are made under. *)
OneFileEach == \A s, t \in Services : PathOf[s] = PathOf[t] => s = t

Undisturbed == ~Overlap /\ OneFileEach

-----------------------------------------------------------------------------
(* Settings and commands.                                                  *)

(* Whatever is on has a server, and it is not the daemon's. *)
Theirs(p) == \A k \in Kinds : p[k].on => p[k].server \notin {NoServer, Ours}

Same(p, q, k) ==
  /\ p[k].on = q[k].on
  /\ q[k].server # NoServer => p[k].server = q[k].server

LEMMA SameDef == \A p, q : SameEffect(p, q) <=> \A k \in Kinds : Same(p, q, k)
  BY DEF SameEffect, Same, Kinds

LEMMA SameIsReflexive == \A p : SameEffect(p, p)
  BY DEF SameEffect

LEMMA SameIsTransitive ==
  \A p, q, r : SameEffect(p, q) /\ SameEffect(q, r) => SameEffect(p, r)
  BY DEF SameEffect

LEMMA TheirsIsKept ==
  \A p, q : SameEffect(p, q) /\ Theirs(q) => Theirs(p)
  BY DEF SameEffect, Theirs, Kinds

LEMMA TheirsIsNotOurs == \A p : Theirs(p) => ~PointsAtUs(p)
  BY DEF Theirs, PointsAtUs, Kinds

LEMMA UsersAreTheirs == \A p \in UserState : p \in ProxyState /\ Theirs(p)
  BY DEF UserState, Theirs, Kinds

(* A command changes the settings of its kind only. *)
LEMMA AppliedFact ==
  ASSUME NEW p \in ProxyState, NEW cmd \in Command
  PROVE  /\ Applied(p, cmd) \in ProxyState
         /\ \A k \in Kinds : k # cmd.kind => Applied(p, cmd)[k] = p[k]
         /\ Applied(p, cmd)[cmd.kind].on = cmd.on
         /\ Applied(p, cmd)[cmd.kind].server =
              IF cmd.server = Keep THEN p[cmd.kind].server ELSE cmd.server
<1>1. /\ cmd.kind \in Kinds /\ cmd.on \in BOOLEAN
      /\ cmd.server \in Servers \cup {Ours, Keep}
  BY DEF Command, Kinds
<1>2. /\ p = [http |-> p.http, https |-> p.https]
      /\ p.http \in Config /\ p.https \in Config
  BY DEF ProxyState
<1>3. CASE cmd.kind = "http"
  BY <1>1, <1>2, <1>3 DEF Applied, ProxyState, Config, Kinds
<1>4. CASE cmd.kind = "https"
  BY <1>1, <1>2, <1>4 DEF Applied, ProxyState, Config, Kinds
<1>5. QED
  BY <1>1, <1>3, <1>4 DEF Kinds

(* What is left of a restore: for each kind its switch, and its server     *)
(* before that, or what they would set is there.                           *)
SwitchAt(p, k, todo, i) == i \in DOMAIN todo /\ todo[i] = SwitchCommand(p, k)

ServerCommand(p, k) == [kind |-> k, server |-> p[k].server, on |-> TRUE]

ServerAt(p, k, todo, i) ==
  i \in DOMAIN todo /\ p[k].server # NoServer /\ todo[i] = ServerCommand(p, k)

Restoring(o, p, todo) ==
  /\ \A i \in DOMAIN todo : \E k \in Kinds :
       SwitchAt(p, k, todo, i) \/ ServerAt(p, k, todo, i)
  /\ \A k \in Kinds :
       /\ (\E i \in DOMAIN todo : SwitchAt(p, k, todo, i)) \/ o[k].on = p[k].on
       /\ \/ \E i \in DOMAIN todo : ServerAt(p, k, todo, i)
          \/ p[k].server # NoServer => o[k].server = p[k].server
       /\ \A i \in DOMAIN todo : ServerAt(p, k, todo, i) =>
            \E j \in DOMAIN todo : i < j /\ SwitchAt(p, k, todo, j)

LEMMA CommandsOf ==
  ASSUME NEW p \in ProxyState, NEW k \in Kinds
  PROVE  /\ RestoreKind(p, k) \in Seq(Command)
         /\ RestoreKind(p, k)[Len(RestoreKind(p, k))] = SwitchCommand(p, k)
         /\ IF p[k].server = NoServer THEN Len(RestoreKind(p, k)) = 1
            ELSE Len(RestoreKind(p, k)) = 2 /\ RestoreKind(p, k)[1] = ServerCommand(p, k)
<1>1. p[k] \in Config
  BY DEF ProxyState, Kinds
<1>2. /\ SwitchCommand(p, k) \in Command
      /\ p[k].server # NoServer => ServerCommand(p, k) \in Command
  BY <1>1 DEF SwitchCommand, ServerCommand, Command, Config, Kinds
<1>3. CASE p[k].server = NoServer
  BY <1>2, <1>3 DEF RestoreKind
<1>4. CASE p[k].server # NoServer
  BY <1>2, <1>4 DEF RestoreKind, ServerCommand
<1>5. QED
  BY <1>3, <1>4

LEMMA RestoreBegins ==
  ASSUME NEW p \in ProxyState, NEW o \in ProxyState
  PROVE  /\ RestoreCommands(p) \in Seq(Command)
         /\ Restoring(o, p, RestoreCommands(p))
<1> DEFINE a == RestoreKind(p, "http")
           b == RestoreKind(p, "https")
           todo == RestoreCommands(p)
<1>1. /\ a \in Seq(Command) /\ a[Len(a)] = SwitchCommand(p, "http")
      /\ IF p["http"].server = NoServer THEN Len(a) = 1
         ELSE Len(a) = 2 /\ a[1] = ServerCommand(p, "http")
  BY CommandsOf DEF Kinds
<1>2. /\ b \in Seq(Command) /\ b[Len(b)] = SwitchCommand(p, "https")
      /\ IF p["https"].server = NoServer THEN Len(b) = 1
         ELSE Len(b) = 2 /\ b[1] = ServerCommand(p, "https")
  BY CommandsOf DEF Kinds
<1>3. todo = a \o b
  BY DEF RestoreCommands
<1> HIDE DEF a, b, todo
<1>4. PICK m \in 1..2 : Len(a) = m
  BY <1>1
<1>5. PICK n \in 1..2 : Len(b) = n
  BY <1>2
<1>6. /\ todo \in Seq(Command) /\ DOMAIN todo = 1..(m + n)
      /\ \A i \in 1..m : todo[i] = a[i]
      /\ \A i \in 1..n : todo[m + i] = b[i]
  BY <1>1, <1>2, <1>3, <1>4, <1>5
<1>7. SwitchAt(p, "http", todo, m) /\ SwitchAt(p, "https", todo, m + n)
  <2>1. a[m] = SwitchCommand(p, "http") /\ b[n] = SwitchCommand(p, "https")
    BY <1>1, <1>2, <1>4, <1>5
  <2>2. todo[m] = a[m] /\ todo[m + n] = b[n]
    BY <1>6
  <2>3. m \in DOMAIN todo /\ m + n \in DOMAIN todo
    BY <1>6
  <2>4. QED
    BY <2>1, <2>2, <2>3 DEF SwitchAt
<1>8. /\ m = 2 => ServerAt(p, "http", todo, 1)
      /\ n = 2 => ServerAt(p, "https", todo, m + 1)
      /\ p["http"].server # NoServer => m = 2
      /\ p["https"].server # NoServer => n = 2
  <2>1. /\ p["http"].server # NoServer <=> m = 2
        /\ m = 2 => a[1] = ServerCommand(p, "http")
    BY <1>1, <1>4
  <2>2. /\ p["https"].server # NoServer <=> n = 2
        /\ n = 2 => b[1] = ServerCommand(p, "https")
    BY <1>2, <1>5
  <2>3. /\ todo[1] = a[1] /\ 1 \in DOMAIN todo
        /\ todo[m + 1] = b[1] /\ m + 1 \in DOMAIN todo
    BY <1>6
  <2>4. QED
    BY <2>1, <2>2, <2>3 DEF ServerAt
<1>9. ASSUME NEW i \in DOMAIN todo
      PROVE  \E k \in Kinds : SwitchAt(p, k, todo, i) \/ ServerAt(p, k, todo, i)
  <2>1. i = m \/ i = m + n \/ (i = 1 /\ m = 2)
        \/ (i = m + 1 /\ n = 2)
    BY <1>6, <1>7
  <2>2. QED
    BY <1>7, <1>8, <2>1 DEF Kinds
<1>10. ASSUME NEW k \in Kinds
      PROVE  /\ \E i \in DOMAIN todo : SwitchAt(p, k, todo, i)
             /\ \/ \E i \in DOMAIN todo : ServerAt(p, k, todo, i)
                \/ p[k].server = NoServer
             /\ \A i \in DOMAIN todo : ServerAt(p, k, todo, i) =>
                  \E j \in DOMAIN todo : i < j /\ SwitchAt(p, k, todo, j)
  <2>1. Keep # p[k].server
    BY ServerAssumption DEF ProxyState, Config, Kinds
  <2>2. ASSUME NEW i \in DOMAIN todo, ServerAt(p, k, todo, i)
        PROVE  \E j \in DOMAIN todo : i < j /\ SwitchAt(p, k, todo, j)
    <3>1. todo[i] = ServerCommand(p, k) /\ todo[i].server # Keep /\ todo[i].kind = k
      BY <2>1, <2>2 DEF ServerAt, ServerCommand
    <3>2. i # m /\ i # m + n
      BY <1>7, <3>1 DEF SwitchAt, SwitchCommand
    <3>3. (i = 1 /\ m = 2) \/ (i = m + 1 /\ n = 2)
      BY <1>6, <1>7, <3>2
    <3>4. CASE k = "http"
      <4>1. i = m + 1 /\ n = 2 => todo[i].kind = "https"
        BY <1>8 DEF ServerAt, ServerCommand
      <4>2. i < m
        BY <1>7, <3>1, <3>3, <3>4, <4>1
      <4>3. QED
        BY <1>7, <3>4, <4>2 DEF SwitchAt
    <3>5. CASE k = "https"
      <4>1. i < m + n
        BY <1>7, <3>3
      <4>2. QED
        BY <1>7, <3>5, <4>1 DEF SwitchAt
    <3>6. QED
      BY <3>4, <3>5 DEF Kinds
  <2>3. QED
    BY <1>7, <1>8, <2>2 DEF Kinds, SwitchAt, ServerAt
<1>11. Restoring(o, p, todo)
  BY <1>9, <1>10 DEF Restoring
<1>12. QED
  BY <1>6, <1>11 DEF todo

LEMMA RestoreGoesOn ==
  ASSUME NEW p \in ProxyState, NEW o \in ProxyState,
         NEW todo \in Seq(Command), todo # <<>>, Restoring(o, p, todo)
  PROVE  Restoring(Applied(o, Head(todo)), p, Tail(todo))
<1> DEFINE cmd == todo[1]
           o2 == Applied(o, cmd)
           rest == Tail(todo)
<1>1. /\ Head(todo) = cmd /\ cmd \in Command /\ rest \in Seq(Command)
      /\ 1 \in DOMAIN todo
      /\ \A i \in DOMAIN rest : i + 1 \in DOMAIN todo /\ rest[i] = todo[i + 1]
      /\ \A i \in DOMAIN todo : i # 1 => i - 1 \in DOMAIN rest /\ rest[i - 1] = todo[i]
      /\ DOMAIN todo \subseteq Nat \ {0} /\ DOMAIN rest \subseteq Nat \ {0}
  OBVIOUS
<1>2. /\ \A k \in Kinds : k # cmd.kind => o2[k] = o[k]
      /\ o2[cmd.kind].on = cmd.on
      /\ o2[cmd.kind].server = IF cmd.server = Keep THEN o[cmd.kind].server ELSE cmd.server
  BY <1>1, AppliedFact
<1> HIDE DEF cmd, o2, rest
<1>3. \A k \in Kinds : \A i \in DOMAIN rest :
        /\ SwitchAt(p, k, rest, i) <=> SwitchAt(p, k, todo, i + 1)
        /\ ServerAt(p, k, rest, i) <=> ServerAt(p, k, todo, i + 1)
  BY <1>1 DEF SwitchAt, ServerAt
<1>4. \A i \in DOMAIN rest : \E k \in Kinds : SwitchAt(p, k, rest, i) \/ ServerAt(p, k, rest, i)
  BY <1>1, <1>3 DEF Restoring
<1>5. ASSUME NEW k \in Kinds
      PROVE  /\ (\E i \in DOMAIN rest : SwitchAt(p, k, rest, i)) \/ o2[k].on = p[k].on
             /\ \/ \E i \in DOMAIN rest : ServerAt(p, k, rest, i)
                \/ p[k].server # NoServer => o2[k].server = p[k].server
             /\ \A i \in DOMAIN rest : ServerAt(p, k, rest, i) =>
                  \E j \in DOMAIN rest : i < j /\ SwitchAt(p, k, rest, j)
  <2>1. PICK h \in Kinds : SwitchAt(p, h, todo, 1) \/ ServerAt(p, h, todo, 1)
    BY <1>1 DEF Restoring
  <2>2. Keep # p[h].server
    BY ServerAssumption DEF ProxyState, Config, Kinds
  <2>3. /\ (\E i \in DOMAIN todo : SwitchAt(p, k, todo, i)) \/ o[k].on = p[k].on
        /\ \/ \E i \in DOMAIN todo : ServerAt(p, k, todo, i)
           \/ p[k].server # NoServer => o[k].server = p[k].server
        /\ \A i \in DOMAIN todo : ServerAt(p, k, todo, i) =>
             \E j \in DOMAIN todo : i < j /\ SwitchAt(p, k, todo, j)
    BY DEF Restoring
  <2>4. \A i \in DOMAIN todo : i # 1 =>
          /\ SwitchAt(p, k, todo, i) => SwitchAt(p, k, rest, i - 1)
          /\ ServerAt(p, k, todo, i) => ServerAt(p, k, rest, i - 1)
    BY <1>1 DEF SwitchAt, ServerAt
  <2>5. \A i \in DOMAIN rest : ServerAt(p, k, rest, i) =>
          \E j \in DOMAIN rest : i < j /\ SwitchAt(p, k, rest, j)
    <3>1. SUFFICES ASSUME NEW i \in DOMAIN rest, ServerAt(p, k, rest, i)
                   PROVE  \E j \in DOMAIN rest : i < j /\ SwitchAt(p, k, rest, j)
      OBVIOUS
    <3>2. PICK j \in DOMAIN todo : i + 1 < j /\ SwitchAt(p, k, todo, j)
      BY <1>1, <1>3, <2>3, <3>1
    <3>3. j - 1 \in DOMAIN rest /\ i < j - 1 /\ SwitchAt(p, k, rest, j - 1)
      BY <1>1, <2>4, <3>2
    <3>4. QED
      BY <3>3
  <2>6. CASE SwitchAt(p, h, todo, 1)
    <3>1. cmd.kind = h /\ cmd.on = p[h].on /\ cmd.server = Keep
      BY <2>6 DEF SwitchAt, SwitchCommand, cmd
    <3>2. ~ServerAt(p, k, todo, 1)
      BY <2>2, <3>1 DEF ServerAt, ServerCommand, cmd
    <3>3. h = k => o2[k].on = p[k].on /\ o2[k].server = o[k].server
      BY <1>2, <3>1
    <3>4. h # k => o2[k] = o[k] /\ ~SwitchAt(p, k, todo, 1)
      BY <1>2, <3>1 DEF SwitchAt, SwitchCommand, cmd
    <3>5. QED
      BY <1>1, <2>3, <2>4, <2>5, <3>2, <3>3, <3>4
  <2>7. CASE ServerAt(p, h, todo, 1)
    <3>1. cmd.kind = h /\ cmd.server = p[h].server
      BY <2>7 DEF ServerAt, ServerCommand, cmd
    <3>2. ~SwitchAt(p, k, todo, 1)
      BY <2>2, <3>1 DEF SwitchAt, SwitchCommand, cmd
    <3>3. h = k => /\ o2[k].server = p[k].server
                   /\ \E i \in DOMAIN todo : i # 1 /\ SwitchAt(p, k, todo, i)
      BY <1>1, <1>2, <2>2, <2>3, <2>7, <3>1
    <3>4. h # k => o2[k] = o[k] /\ ~ServerAt(p, k, todo, 1)
      BY <1>2, <3>1 DEF ServerAt, ServerCommand, cmd
    <3>5. QED
      BY <1>1, <2>3, <2>4, <2>5, <3>2, <3>3, <3>4
  <2>8. QED
    BY <2>1, <2>6, <2>7
<1>6. QED
  BY <1>1, <1>4, <1>5 DEF Restoring, o2, rest, cmd

LEMMA RestoreEnds ==
  ASSUME NEW o, NEW p, Restoring(o, p, <<>>)
  PROVE  SameEffect(o, p)
  BY SameDef DEF Restoring, Same

-----------------------------------------------------------------------------
(* The types.                                                              *)

LEMMA SomeService == (CHOOSE s \in Services : TRUE) \in Services
  BY PathAssumption

LEMMA BlankIsAState == Blank \in ProxyState /\ Theirs(Blank)
  BY DEF Blank, Off, ProxyState, Config, Theirs, Kinds

CallType == [pc : {"idle", "read_http", "read_https", "open", "write", "commands"},
             op : {"enable", "disable"}, service : Services, target : Services,
             seen : ProxyState, todo : Seq(Command)]

LEMMA IdleType == Idle \in CallType
  BY SomeService, BlankIsAState DEF Idle, CallType

LEMMA NoFileType == NoFile \in File
  BY SomeService, BlankIsAState DEF NoFile, File

LEMMA EnableType == EnableCommands \in Seq(Command)
  BY DEF EnableCommands, Command

LEMMA InitType == Init => TypeOK
<1> SUFFICES ASSUME Init PROVE TypeOK
  OBVIOUS
<1>1. user \in [Services -> ProxyState]
  BY UsersAreTheirs DEF Init
<1>2. call \in [Callers -> CallType]
  BY IdleType DEF Init
<1>3. saved \in [Paths -> File]
  BY NoFileType DEF Init
<1>4. QED
  BY <1>1, <1>2, <1>3, RestartAssumption DEF Init, TypeOK, CallType

LEMMA StepType ==
  ASSUME TypeOK, [Next]_vars
  PROVE  TypeOK'
<1>1. /\ os \in [Services -> ProxyState] /\ saved \in [Paths -> File]
      /\ call \in [Callers -> CallType] /\ restarts \in 0..MaxRestarts
      /\ user \in [Services -> ProxyState] /\ moved \subseteq Services
      /\ cut \subseteq Paths
  BY DEF TypeOK, CallType
<1>2. SUFFICES /\ os' \in [Services -> ProxyState] /\ saved' \in [Paths -> File]
               /\ call' \in [Callers -> CallType] /\ restarts' \in 0..MaxRestarts
               /\ user' \in [Services -> ProxyState] /\ moved' \subseteq Services
               /\ cut' \subseteq Paths
  BY DEF TypeOK, CallType
<1>3. ASSUME NEW c \in Callers PROVE [call EXCEPT ![c] = Idle] \in [Callers -> CallType]
  BY <1>1, IdleType
<1>4. ASSUME NEW c \in Callers, NEW s \in Services, EnableBegins(c, s)
      PROVE  call' \in [Callers -> CallType]
  <2>1. Enabling(s) \in CallType
    BY IdleType, EnableType DEF Enabling, CallType
  <2>2. [Enabling(s) EXCEPT !.pc = IF saved[PathOf[s]].state = "none"
                                   THEN "read_http" ELSE "commands"] \in CallType
    BY <2>1 DEF CallType
  <2>3. QED
    BY <1>1, <1>4, <2>2 DEF EnableBegins
<1>5. ASSUME NEW c \in Callers, NEW s \in Services, DisableBegins(c, s)
      PROVE  call' \in [Callers -> CallType]
  <2>1. saved[PathOf[s]] \in File
    BY <1>1, PathAssumption
  <2>2. /\ saved[PathOf[s]].service \in Services
        /\ saved[PathOf[s]].settings \in ProxyState
    BY <2>1 DEF File
  <2>3. RestoreCommands(saved[PathOf[s]].settings) \in Seq(Command)
    BY <2>2, RestoreBegins, BlankIsAState
  <2>4. QED
    BY <1>1, <1>5, <2>2, <2>3 DEF DisableBegins, CallType
<1>6. ASSUME NEW c \in Callers, ReadSettings(c) PROVE call' \in [Callers -> CallType]
  <2>1. call[c] \in CallType /\ os[call[c].service] \in ProxyState
    BY <1>1 DEF CallType
  <2>2. /\ [call[c] EXCEPT !.pc = "read_https", !.seen.http = os[call[c].service].http] \in CallType
        /\ [call[c] EXCEPT !.pc = "open", !.seen.https = os[call[c].service].https] \in CallType
    BY <2>1 DEF CallType, ProxyState
  <2>3. QED
    BY <1>1, <1>6, <2>2 DEF ReadSettings
<1>7. ASSUME NEW c \in Callers, NEW l \in {"write", "commands"}, Goto(c, l)
      PROVE  call' \in [Callers -> CallType]
  <2>1. [call[c] EXCEPT !.pc = l] \in CallType
    BY <1>1 DEF CallType
  <2>2. QED
    BY <1>1, <1>7, <2>1 DEF Goto
<1>8. ASSUME NEW c \in Callers, call[c].todo # <<>>
      PROVE  /\ [os EXCEPT ![call[c].target] = Applied(@, Head(call[c].todo))]
                  \in [Services -> ProxyState]
             /\ [call EXCEPT ![c].todo = Tail(@)] \in [Callers -> CallType]
  <2>1. /\ call[c].todo \in Seq(Command) /\ call[c].target \in Services
        /\ os[call[c].target] \in ProxyState
    BY <1>1 DEF CallType
  <2>2. Head(call[c].todo) \in Command /\ Tail(call[c].todo) \in Seq(Command)
    BY <1>8, <2>1
  <2>3. Applied(os[call[c].target], Head(call[c].todo)) \in ProxyState
    BY <2>1, <2>2, AppliedFact
  <2>4. QED
    BY <1>1, <2>2, <2>3 DEF CallType
<1>20. ASSUME NEW D \in SUBSET Callers, CutsOff(D) PROVE cut' \subseteq Paths
  BY <1>1, <1>20, PathAssumption DEF CutsOff, PathFor, CallType
<1>9. CASE UNCHANGED vars
  BY <1>1, <1>9 DEF vars
<1>10. ASSUME NEW c \in Callers, NEW s \in Services, EnableBegins(c, s) \/ DisableBegins(c, s)
       PROVE  TypeOK'
  BY <1>1, <1>4, <1>5, <1>10 DEF EnableBegins, DisableBegins, UserVars, History, TypeOK, CallType
<1>11. ASSUME NEW c \in Callers, ReadSettings(c) PROVE TypeOK'
  BY <1>1, <1>6, <1>11 DEF ReadSettings, UserVars, History, TypeOK, CallType
<1>12. ASSUME NEW c \in Callers, OpenStateFile(c) PROVE TypeOK'
  <2>1. saved' \in [Paths -> File]
    BY <1>1, <1>12 DEF OpenStateFile, File
  <2>2. QED
    BY <1>1, <1>7, <1>12, <2>1 DEF OpenStateFile, UserVars, History, TypeOK, CallType
<1>13. ASSUME NEW c \in Callers, WriteStateFile(c) PROVE TypeOK'
  <2>1. saved' \in [Paths -> File]
    BY <1>1, <1>13 DEF WriteStateFile, File, CallType
  <2>2. QED
    BY <1>1, <1>7, <1>13, <2>1 DEF WriteStateFile, UserVars, History, TypeOK, CallType
<1>14. ASSUME NEW c \in Callers, RunCommand(c) PROVE TypeOK'
  <2>1. os' \in [Services -> ProxyState]
    BY <1>8, <1>14 DEF RunCommand
  <2>2. call' \in [Callers -> CallType]
    BY <1>3, <1>8, <1>14 DEF RunCommand, Ends
  <2>3. QED
    BY <1>1, <1>14, <2>1, <2>2 DEF RunCommand, UserVars, History, TypeOK, CallType
<1>15. ASSUME NEW c \in Callers, RemoveStateFile(c) PROVE TypeOK'
  BY <1>1, <1>3, <1>15, NoFileType DEF RemoveStateFile, Ends, UserVars, History, TypeOK, CallType
<1>16. ASSUME NEW c \in Callers, CallFails(c) PROVE TypeOK'
  <2>1. os' \in [Services -> ProxyState]
    BY <1>1, <1>8, <1>16 DEF CallFails
  <2>2. call' \in [Callers -> CallType]
    BY <1>3, <1>16 DEF CallFails, Ends
  <2>3. QED
    BY <1>1, <1>16, <1>20, <2>1, <2>2 DEF CallFails, UserVars, TypeOK, CallType
<1>17. ASSUME NEW s \in Services, NEW p \in UserState, UserChanges(s, p) PROVE TypeOK'
  BY <1>1, <1>17, UsersAreTheirs DEF UserChanges, TypeOK, CallType
<1>18. CASE CrashAndRestart
  BY <1>1, <1>18, <1>20, IdleType, RestartAssumption DEF CrashAndRestart, UserVars
<1>19. QED
  BY <1>2, <1>9, <1>10, <1>11, <1>12, <1>13, <1>14, <1>15, <1>16, <1>17, <1>18
  DEF Next, TypeOK, CallType

(* The settings, the files and the calls keep their types, with calls that *)
(* overlap and services that share a file too.                             *)
THEOREM TypeCorrect == Spec => []TypeOK
<1>1. QED
  BY InitType, StepType, PTL DEF Spec

-----------------------------------------------------------------------------
(* The saved settings.                                                     *)
(*                                                                         *)
(* Without a file a service is as its user left it; with a whole one the   *)
(* file is what the user left.  "torn" says nothing of either: a file that *)
(* a crash cut is taken for the saved settings by the next Enable.         *)
FileOK(s) ==
  LET f == saved[PathOf[s]] IN
  /\ f.state = "none" => Theirs(os[s]) /\ (s \notin moved => SameEffect(os[s], user[s]))
  /\ f.state = "whole" => /\ f.service = s /\ Theirs(f.settings)
                          /\ s \notin moved => SameEffect(f.settings, user[s])

(* A file is torn while it is written, and after a write that was cut.     *)
Writes(c, s) == call[c].pc = "write" /\ call[c].service = s

TornOK(s) ==
  saved[PathOf[s]].state = "torn" =>
    PathOf[s] \in cut \/ \E c \in Callers : Writes(c, s)

(* What a call knows on its way: what it has read is what is there, as the *)
(* only call; what Disable has done and has still to do is a restore.      *)
CallOK(c) ==
  LET k == call[c]
      s == k.service
      f == saved[PathOf[s]]
  IN  /\ k.pc # "idle" => k.target = s
      /\ k.pc \in {"read_http", "read_https", "open"} => f.state = "none" /\ k.op = "enable"
      /\ k.pc = "read_https" => k.seen.http = os[s].http
      /\ k.pc = "open" => k.seen = os[s]
      /\ k.pc = "write" => /\ k.op = "enable" /\ Theirs(k.seen) /\ Theirs(os[s])
                           /\ s \notin moved => SameEffect(k.seen, user[s])
      /\ k.pc = "commands" => f.state # "none"
      /\ k.pc = "commands" /\ k.op = "disable" =>
           f.state = "whole" /\ k.seen = f.settings /\ Restoring(os[s], k.seen, k.todo)

OneCall == \A c, d \in Callers : call[c].pc # "idle" /\ call[d].pc # "idle" => c = d

SettingsInv ==
  /\ TypeOK
  /\ OneCall
  /\ \A s \in Services : FileOK(s)
  /\ \A c \in Callers : CallOK(c)

UndoInv == SettingsInv /\ \A s \in Services : TornOK(s)

LEMMA SettingsInitInv == Init => SettingsInv
<1> SUFFICES ASSUME Init PROVE SettingsInv
  OBVIOUS
<1>1. OneCall /\ \A c \in Callers : CallOK(c)
  BY DEF Init, OneCall, CallOK, Idle
<1>2. ASSUME NEW s \in Services PROVE FileOK(s)
  <2>1. os[s] = user[s] /\ user[s] \in UserState /\ saved[PathOf[s]].state = "none"
    BY PathAssumption DEF Init, NoFile
  <2>2. QED
    BY <2>1, UsersAreTheirs, SameIsReflexive DEF FileOK
<1>3. QED
  BY <1>1, <1>2, InitType DEF SettingsInv

(* A call that is idle is in the way of nothing. *)
LEMMA IdleIsOK == \A c \in Callers : call[c].pc = "idle" => CallOK(c)
  BY DEF CallOK

(* While c goes on, or begins, the others are idle and stay so.            *)
LEMMA OthersStayIdle ==
  ASSUME SettingsInv, NEW c \in Callers,
         call[c].pc # "idle" \/ Quiet,
         \A d \in Callers \ {c} : call'[d] = call[d],
         CallOK(c)'
  PROVE  OneCall' /\ \A d \in Callers : CallOK(d)'
<1>1. \A d \in Callers \ {c} : call'[d].pc = "idle"
  BY DEF SettingsInv, OneCall, Quiet
<1>2. QED
  BY <1>1 DEF OneCall, CallOK

(* A step that leaves one service's settings and its file alone.           *)
LEMMA FileStays ==
  ASSUME NEW s \in Services, FileOK(s), os'[s] = os[s],
         saved'[PathOf[s]] = saved[PathOf[s]], UNCHANGED <<user, moved>>
  PROVE  FileOK(s)'
  BY DEF FileOK

LEMMA CallStep ==
  ASSUME Undisturbed, SettingsInv, TypeOK', NEW c \in Callers,
         \/ \E s \in Services : EnableBegins(c, s) \/ DisableBegins(c, s)
         \/ ReadSettings(c) \/ OpenStateFile(c) \/ WriteStateFile(c)
         \/ RunCommand(c) \/ RemoveStateFile(c) \/ CallFails(c)
  PROVE  SettingsInv'
<1>1. /\ os \in [Services -> ProxyState] /\ saved \in [Paths -> File]
      /\ call \in [Callers -> CallType] /\ PathOf \in [Services -> Paths]
  BY PathAssumption DEF SettingsInv, TypeOK, CallType
<1>2. call[c] \in CallType /\ CallOK(c) /\ \A s \in Services : FileOK(s)
  BY <1>1 DEF SettingsInv
<1> DEFINE s == call[c].service
           f == saved[PathOf[s]]
<1>3. s \in Services /\ f \in File /\ PathOf[s] \in Paths /\ FileOK(s)
  BY <1>1, <1>2 DEF CallType
<1>4. UNCHANGED <<user, moved>>
  BY DEF EnableBegins, DisableBegins, ReadSettings, OpenStateFile, WriteStateFile, RunCommand,
         RemoveStateFile, CallFails, UserVars, History
<1>5. ASSUME \A t \in Services : FileOK(t)', CallOK(c)',
             call[c].pc # "idle" \/ Quiet, \A d \in Callers \ {c} : call'[d] = call[d]
      PROVE  SettingsInv'
  BY <1>5, OthersStayIdle DEF SettingsInv
<1>6. ASSUME NEW t \in Services, EnableBegins(c, t) PROVE SettingsInv'
  <2>1. call'[c] = [Enabling(t) EXCEPT !.pc = IF saved[PathOf[t]].state = "none"
                                               THEN "read_http" ELSE "commands"]
    BY <1>1, <1>6 DEF EnableBegins
  <2>2. /\ call'[c].service = t /\ call'[c].target = t /\ call'[c].op = "enable"
        /\ call'[c].pc = IF saved[PathOf[t]].state = "none" THEN "read_http" ELSE "commands"
    BY <2>1 DEF Enabling, Idle
  <2>3. CallOK(c)'
    BY <1>6, <2>2 DEF CallOK, EnableBegins
  <2>4. QED
    BY <1>1, <1>2, <1>4, <1>5, <1>6, <2>3, FileStays
    DEF EnableBegins, MayBegin, Undisturbed
<1>7. ASSUME NEW t \in Services, DisableBegins(c, t) PROVE SettingsInv'
  <2>1. /\ saved[PathOf[t]].state = "whole" /\ saved[PathOf[t]].service = t
        /\ saved[PathOf[t]].settings \in ProxyState /\ os[t] \in ProxyState
    BY <1>1, <1>2, <1>7 DEF DisableBegins, FileOK, File
  <2>2. call'[c] = [pc |-> "commands", op |-> "disable", service |-> t, target |-> t,
                    seen |-> saved[PathOf[t]].settings,
                    todo |-> RestoreCommands(saved[PathOf[t]].settings)]
    BY <1>1, <1>7, <2>1 DEF DisableBegins
  <2>3. Restoring(os[t], saved[PathOf[t]].settings, RestoreCommands(saved[PathOf[t]].settings))
    BY <2>1, RestoreBegins
  <2>4. /\ call'[c].pc = "commands" /\ call'[c].service = t /\ call'[c].target = t
        /\ call'[c].seen = saved[PathOf[t]].settings
        /\ call'[c].todo = RestoreCommands(saved[PathOf[t]].settings)
        /\ os' = os /\ saved' = saved
    BY <1>7, <2>2 DEF DisableBegins
  <2>5. Restoring(os'[t], call'[c].seen, call'[c].todo)
    BY <2>3, <2>4
  <2>6. CallOK(c)'
    BY <2>1, <2>4, <2>5 DEF CallOK
  <2>7. QED
    BY <1>1, <1>2, <1>4, <1>5, <1>7, <2>6, FileStays
    DEF DisableBegins, MayBegin, Undisturbed
<1>8. CASE ReadSettings(c)
  <2>1. CallOK(c)'
    <3>1. CASE call[c].pc = "read_http"
      <4>1. call'[c] = [call[c] EXCEPT !.pc = "read_https", !.seen.http = os[s].http]
        BY <1>1, <1>8, <3>1 DEF ReadSettings
      <4>2. call[c].seen \in ProxyState
        BY <1>2 DEF CallType
      <4>3. /\ call'[c].pc = "read_https" /\ call'[c].seen.http = os[s].http
            /\ call'[c].service = s /\ call'[c].target = call[c].target
            /\ call'[c].op = call[c].op
        BY <1>2, <4>1, <4>2 DEF CallType, ProxyState
      <4>4. QED
        BY <1>2, <1>8, <3>1, <4>3 DEF ReadSettings, CallOK
    <3>2. CASE call[c].pc = "read_https"
      <4>1. call'[c] = [call[c] EXCEPT !.pc = "open", !.seen.https = os[s].https]
        BY <1>1, <1>8, <3>2 DEF ReadSettings
      <4>2. call[c].seen \in ProxyState /\ call[c].seen.http = os[s].http /\ os[s] \in ProxyState
        BY <1>1, <1>2, <1>3, <3>2 DEF CallOK, CallType
      <4>3. call'[c].seen = os[s]
        BY <4>1, <4>2, <1>2 DEF ProxyState, CallType
      <4>4. QED
        BY <1>2, <1>8, <3>2, <4>1, <4>3 DEF ReadSettings, CallOK, CallType
    <3>3. QED
      BY <1>8, <3>1, <3>2 DEF ReadSettings
  <2>2. QED
    BY <1>1, <1>2, <1>4, <1>5, <1>8, <2>1, FileStays DEF ReadSettings
<1>9. CASE OpenStateFile(c)
  <2>1. /\ call[c].pc = "open" /\ f.state = "none" /\ os' = os
        /\ call' = [call EXCEPT ![c].pc = "write"]
        /\ saved' = [saved EXCEPT ![PathOf[s]].state = "torn"]
    BY <1>2, <1>9 DEF OpenStateFile, Goto, PathFor, CallOK
  <2>2. CallOK(c)'
    BY <1>1, <1>2, <1>3, <1>4, <2>1 DEF CallOK, FileOK, CallType
  <2>3. ASSUME NEW t \in Services PROVE FileOK(t)'
    <3>1. CASE t = s
      BY <1>1, <1>3, <2>1, <3>1 DEF FileOK, File
    <3>2. CASE t # s
      <4>1. saved'[PathOf[t]] = saved[PathOf[t]]
        BY <1>1, <1>3, <2>1, <3>2 DEF Undisturbed, OneFileEach
      <4>2. QED
        BY <1>2, <1>4, <2>1, <4>1, FileStays
    <3>3. QED
      BY <3>1, <3>2
  <2>4. QED
    BY <1>5, <2>1, <2>2, <2>3
<1>10. CASE WriteStateFile(c)
  <2>1. /\ call[c].pc = "write" /\ os' = os
        /\ call' = [call EXCEPT ![c].pc = "commands"]
        /\ saved' = [saved EXCEPT ![PathOf[s]] =
             [state |-> "whole", service |-> s, settings |-> call[c].seen]]
    BY <1>10 DEF WriteStateFile, Goto, PathFor
  <2>2. saved'[PathOf[s]] = [state |-> "whole", service |-> s, settings |-> call[c].seen]
    BY <1>1, <1>3, <2>1
  <2>3. CallOK(c)'
    BY <1>1, <1>2, <2>1, <2>2 DEF CallOK, CallType
  <2>4. ASSUME NEW t \in Services PROVE FileOK(t)'
    <3>1. CASE t = s
      BY <1>2, <1>4, <2>1, <2>2, <3>1 DEF FileOK, CallOK
    <3>2. CASE t # s
      <4>1. saved'[PathOf[t]] = saved[PathOf[t]]
        BY <1>1, <1>3, <2>1, <3>2 DEF Undisturbed, OneFileEach
      <4>2. QED
        BY <1>2, <1>4, <2>1, <4>1, FileStays
    <3>3. QED
      BY <3>1, <3>2
  <2>5. QED
    BY <1>5, <2>1, <2>3, <2>4
<1>11. ASSUME call[c].pc = "commands", saved' = saved,
              \A t \in Services : t # s => os'[t] = os[t]
       PROVE  \A t \in Services : FileOK(t)'
  <2>1. f.state # "none"
    BY <1>2, <1>11 DEF CallOK
  <2>2. ASSUME NEW t \in Services PROVE FileOK(t)'
    <3>1. CASE t = s
      BY <1>3, <1>4, <1>11, <2>1, <3>1 DEF FileOK
    <3>2. CASE t # s
      BY <1>2, <1>4, <1>11, <3>2, FileStays
    <3>3. QED
      BY <3>1, <3>2
  <2>3. QED
    BY <2>2
<1>12. ASSUME call[c].pc # "idle", call' = [call EXCEPT ![c] = Idle],
              \A t \in Services : FileOK(t)'
       PROVE  SettingsInv'
  <2>1. call'[c].pc = "idle"
    BY <1>1, <1>12 DEF Idle
  <2>2. QED
    BY <1>1, <1>5, <1>12, <2>1 DEF CallOK
<1>13. CASE RunCommand(c)
  <2>1. /\ call[c].pc = "commands" /\ call[c].todo # <<>> /\ saved' = saved
        /\ call[c].target = s
        /\ os' = [os EXCEPT ![s] = Applied(@, Head(call[c].todo))]
    BY <1>2, <1>13 DEF RunCommand, CallOK
  <2>2. \A t \in Services : FileOK(t)'
    BY <1>1, <1>11, <2>1
  <2>3. CASE call[c].op = "enable" /\ Len(call[c].todo) = 1
    BY <1>12, <1>13, <2>1, <2>2, <2>3 DEF RunCommand, Ends
  <2>4. CASE ~(call[c].op = "enable" /\ Len(call[c].todo) = 1)
    <3>1. call' = [call EXCEPT ![c].todo = Tail(@)]
      BY <1>13, <2>4 DEF RunCommand
    <3>2. /\ call'[c].pc = "commands" /\ call'[c].service = s /\ call'[c].target = s
          /\ call'[c].op = call[c].op /\ call'[c].seen = call[c].seen
          /\ call'[c].todo = Tail(call[c].todo)
      BY <1>1, <1>2, <2>1, <3>1 DEF CallType
    <3>3. call[c].op = "disable" =>
            /\ f.state = "whole" /\ call[c].seen = f.settings
            /\ Restoring(os'[s], call'[c].seen, call'[c].todo)
      <4>1. ASSUME call[c].op = "disable"
            PROVE  f.state = "whole" /\ call[c].seen = f.settings
                   /\ Restoring(os[s], call[c].seen, call[c].todo)
        BY <1>2, <2>1, <4>1 DEF CallOK
      <4>2. /\ call[c].seen \in ProxyState /\ call[c].todo \in Seq(Command)
            /\ os[s] \in ProxyState
        BY <1>1, <1>2, <1>3 DEF CallType
      <4>3. os'[s] = Applied(os[s], Head(call[c].todo))
        BY <1>1, <1>3, <2>1
      <4>4. QED
        BY <2>1, <3>2, <4>1, <4>2, <4>3, RestoreGoesOn
    <3>4. f.state # "none"
      BY <1>2, <2>1 DEF CallOK
    <3>5. CallOK(c)'
      BY <2>1, <3>2, <3>3, <3>4 DEF CallOK
    <3>6. QED
      BY <1>5, <2>1, <2>2, <3>1, <3>5
  <2>5. QED
    BY <2>3, <2>4
<1>14. CASE RemoveStateFile(c)
  <2>1. /\ call[c].pc = "commands" /\ call' = [call EXCEPT ![c] = Idle] /\ os' = os
        /\ saved' = [saved EXCEPT ![PathOf[s]] = NoFile]
    BY <1>14 DEF RemoveStateFile, Ends, PathFor
  <2>2. f.state = "whole" /\ SameEffect(os[s], f.settings)
    BY <1>2, <1>14, RestoreEnds DEF RemoveStateFile, CallOK
  <2>3. ASSUME NEW t \in Services PROVE FileOK(t)'
    <3>1. CASE t = s
      <4>1. saved'[PathOf[t]].state = "none"
        BY <1>1, <1>3, <2>1, <3>1 DEF NoFile
      <4>2. Theirs(os[s]) /\ (s \notin moved => SameEffect(os[s], user[s]))
        BY <1>3, <2>2, TheirsIsKept, SameIsTransitive DEF FileOK
      <4>3. QED
        BY <1>4, <2>1, <3>1, <4>1, <4>2 DEF FileOK
    <3>2. CASE t # s
      <4>1. saved'[PathOf[t]] = saved[PathOf[t]]
        BY <1>1, <1>3, <2>1, <3>2 DEF Undisturbed, OneFileEach
      <4>2. QED
        BY <1>2, <1>4, <2>1, <4>1, FileStays
    <3>3. QED
      BY <3>1, <3>2
  <2>4. QED
    BY <1>12, <2>1, <2>3
<1>15. CASE CallFails(c)
  <2>1. call[c].pc # "idle" /\ call' = [call EXCEPT ![c] = Idle] /\ saved' = saved
    BY <1>15 DEF CallFails, Ends
  <2>2. CASE UNCHANGED os
    BY <1>2, <1>4, <1>12, <2>1, <2>2, FileStays
  <2>3. CASE call[c].pc = "commands"
             /\ os' = [os EXCEPT ![call[c].target] = Applied(@, Head(call[c].todo))]
    <3>1. call[c].target = s
      BY <1>2, <2>3 DEF CallOK
    <3>2. \A t \in Services : FileOK(t)'
      BY <1>1, <1>11, <2>1, <2>3, <3>1
    <3>3. QED
      BY <1>12, <2>1, <3>2
  <2>4. QED
    BY <1>15, <2>2, <2>3 DEF CallFails
<1>16. QED
  BY <1>6, <1>7, <1>8, <1>9, <1>10, <1>13, <1>14, <1>15

LEMMA UserStep ==
  ASSUME Undisturbed, SettingsInv, TypeOK',
         NEW s \in Services, NEW p \in UserState, UserChanges(s, p)
  PROVE  SettingsInv'
<1>1. os \in [Services -> ProxyState] /\ user \in [Services -> ProxyState]
  BY DEF SettingsInv, TypeOK
<1>2. call' = call /\ saved' = saved /\ \A c \in Callers : call[c].pc = "idle"
  BY DEF UserChanges, Quiet
<1>3. OneCall' /\ \A c \in Callers : CallOK(c)'
  BY <1>2 DEF OneCall, CallOK
<1>4. ASSUME NEW t \in Services PROVE FileOK(t)'
  <2>1. CASE t = s
    <3>1. os'[t] = p /\ user'[t] = p /\ Theirs(p) /\ SameEffect(p, p)
      BY <1>1, <2>1, UsersAreTheirs, SameIsReflexive DEF UserChanges
    <3>2. CASE saved[PathOf[t]].state = "none"
      BY <1>2, <3>1, <3>2 DEF FileOK
    <3>3. CASE saved[PathOf[t]].state # "none"
      <4>1. t \in moved'
        BY <2>1, <3>3 DEF UserChanges
      <4>2. QED
        BY <1>2, <3>3, <4>1 DEF FileOK, SettingsInv
    <3>4. QED
      BY <3>2, <3>3
  <2>2. CASE t # s
    <3>1. os'[t] = os[t] /\ user'[t] = user[t] /\ (t \in moved' <=> t \in moved)
      BY <1>1, <2>2 DEF UserChanges
    <3>2. QED
      BY <1>2, <3>1 DEF FileOK, SettingsInv
  <2>3. QED
    BY <2>1, <2>2
<1>5. QED
  BY <1>3, <1>4 DEF SettingsInv

LEMMA CrashStep ==
  ASSUME SettingsInv, TypeOK', CrashAndRestart
  PROVE  SettingsInv'
<1>1. \A c \in Callers : call'[c].pc = "idle"
  BY DEF CrashAndRestart, Idle
<1>2. OneCall' /\ \A c \in Callers : CallOK(c)'
  BY <1>1 DEF OneCall, CallOK
<1>3. \A s \in Services : FileOK(s)'
  BY FileStays DEF CrashAndRestart, UserVars, History, SettingsInv
<1>4. QED
  BY <1>2, <1>3 DEF SettingsInv

LEMMA SettingsStep ==
  ASSUME Undisturbed, SettingsInv, [Next]_vars
  PROVE  SettingsInv'
<1>1. TypeOK'
  BY StepType DEF SettingsInv
<1>2. CASE UNCHANGED vars
  BY <1>1, <1>2 DEF vars, SettingsInv, OneCall, FileOK, CallOK
<1>3. CASE Next
  BY <1>1, <1>3, CallStep, UserStep, CrashStep DEF Next
<1>4. QED
  BY <1>2, <1>3

-----------------------------------------------------------------------------

LEMMA SettingsInvHolds == ASSUME Undisturbed PROVE Spec => []SettingsInv
<1>1. Init => SettingsInv
  BY SettingsInitInv
<1>2. SettingsInv /\ [Next]_vars => SettingsInv'
  BY SettingsStep
<1>3. QED
  BY <1>1, <1>2, PTL DEF Spec

(* A whole state file holds what the user of its service last chose, for   *)
(* any number of services with files of their own.                         *)
THEOREM SavedStaysTheUsers == ASSUME Undisturbed PROVE Spec => []SavedIsTheUsers
<1>1. SettingsInv => SavedIsTheUsers
  BY DEF SettingsInv, FileOK, SavedIsTheUsers
<1>2. QED
  BY <1>1, SettingsInvHolds, PTL

LEMMA TornStep ==
  ASSUME Undisturbed, UndoInv, [Next]_vars, NEW s \in Services
  PROVE  TornOK(s)'
<1>1. /\ saved \in [Paths -> File] /\ call \in [Callers -> CallType]
      /\ PathOf[s] \in Paths /\ TornOK(s)
      /\ \A c \in Callers : call[c].service \in Services
  BY PathAssumption DEF UndoInv, SettingsInv, TypeOK, CallType
<1>2. ASSUME saved'[PathOf[s]] = saved[PathOf[s]], cut \subseteq cut',
             \A c \in Callers : Writes(c, s) => Writes(c, s)' \/ PathOf[s] \in cut'
      PROVE  TornOK(s)'
  BY <1>1, <1>2 DEF TornOK
<1>3. CASE UNCHANGED vars
  BY <1>2, <1>3 DEF vars, Writes
<1>4. ASSUME NEW c \in Callers, UNCHANGED cut, call[c].pc # "write",
             \A d \in Callers \ {c} : call'[d] = call[d],
             saved'[PathOf[s]] = saved[PathOf[s]]
      PROVE  TornOK(s)'
  <2>1. \A d \in Callers : Writes(d, s) => d # c
    BY <1>4 DEF Writes
  <2>2. \A d \in Callers : Writes(d, s) => Writes(d, s)'
    BY <1>4, <2>1 DEF Writes
  <2>3. QED
    BY <1>2, <1>4, <2>2
<1>5. ASSUME NEW c \in Callers, NEW t \in Services, EnableBegins(c, t) \/ DisableBegins(c, t)
      PROVE  TornOK(s)'
  <2>1. /\ call[c].pc = "idle" /\ saved' = saved /\ cut' = cut
        /\ \A d \in Callers \ {c} : call'[d] = call[d]
    BY <1>1, <1>5 DEF EnableBegins, DisableBegins, MayBegin, History
  <2>2. QED
    BY <1>4, <2>1
<1>6. ASSUME NEW c \in Callers, ReadSettings(c) \/ RunCommand(c) PROVE TornOK(s)'
  <2>1. /\ call[c].pc # "write" /\ saved' = saved /\ cut' = cut
        /\ \A d \in Callers \ {c} : call'[d] = call[d]
    BY <1>1, <1>6 DEF ReadSettings, RunCommand, Ends, History
  <2>2. QED
    BY <1>4, <2>1
<1>7. ASSUME NEW c \in Callers, OpenStateFile(c) PROVE TornOK(s)'
  <2>1. /\ call[c].pc = "open" /\ cut' = cut
        /\ call' = [call EXCEPT ![c].pc = "write"]
        /\ saved' = [saved EXCEPT ![PathOf[call[c].service]].state = "torn"]
    BY <1>7 DEF OpenStateFile, Goto, PathFor, History
  <2>2. CASE call[c].service = s
    <3>1. Writes(c, s)'
      BY <1>1, <2>1, <2>2 DEF Writes, CallType
    <3>2. QED
      BY <3>1 DEF TornOK
  <2>3. CASE call[c].service # s
    <3>1. saved'[PathOf[s]] = saved[PathOf[s]]
      BY <1>1, <2>1, <2>3 DEF Undisturbed, OneFileEach
    <3>2. QED
      BY <1>1, <1>4, <2>1, <3>1
  <2>4. QED
    BY <2>2, <2>3
<1>8. ASSUME NEW c \in Callers, WriteStateFile(c) PROVE TornOK(s)'
  <2>1. /\ call[c].pc = "write" /\ cut' = cut
        /\ call' = [call EXCEPT ![c].pc = "commands"]
        /\ saved' = [saved EXCEPT ![PathOf[call[c].service]] =
             [state |-> "whole", service |-> call[c].service, settings |-> call[c].seen]]
    BY <1>8 DEF WriteStateFile, Goto, PathFor, History
  <2>2. CASE call[c].service = s
    BY <1>1, <2>1, <2>2 DEF TornOK
  <2>3. CASE call[c].service # s
    <3>1. saved'[PathOf[s]] = saved[PathOf[s]]
      BY <1>1, <2>1, <2>3 DEF Undisturbed, OneFileEach
    <3>2. \A d \in Callers : Writes(d, s) => d # c
      BY <2>3 DEF Writes
    <3>3. \A d \in Callers : Writes(d, s) => Writes(d, s)'
      BY <1>1, <2>1, <3>2 DEF Writes
    <3>4. QED
      BY <1>2, <2>1, <3>1, <3>3
  <2>4. QED
    BY <2>2, <2>3
<1>9. ASSUME NEW c \in Callers, RemoveStateFile(c) PROVE TornOK(s)'
  <2>1. /\ call[c].pc = "commands" /\ cut' = cut /\ call' = [call EXCEPT ![c] = Idle]
        /\ saved' = [saved EXCEPT ![PathOf[call[c].service]] = NoFile]
    BY <1>9 DEF RemoveStateFile, Ends, PathFor, History
  <2>2. CASE PathOf[call[c].service] = PathOf[s]
    BY <1>1, <2>1, <2>2 DEF TornOK, NoFile
  <2>3. CASE PathOf[call[c].service] # PathOf[s]
    <3>1. saved'[PathOf[s]] = saved[PathOf[s]]
      BY <1>1, <2>1, <2>3
    <3>2. QED
      BY <1>1, <1>4, <2>1, <3>1
  <2>4. QED
    BY <2>2, <2>3
<1>10. ASSUME NEW D \in SUBSET Callers, CutsOff(D), saved' = saved,
              \A d \in Callers \ D : call'[d] = call[d]
       PROVE  TornOK(s)'
  <2>1. ASSUME NEW d \in Callers, Writes(d, s) PROVE Writes(d, s)' \/ PathOf[s] \in cut'
    BY <1>10, <2>1 DEF Writes, CutsOff, PathFor
  <2>2. cut \subseteq cut'
    BY <1>10 DEF CutsOff
  <2>3. QED
    BY <1>2, <1>10, <2>1, <2>2
<1>11. ASSUME NEW c \in Callers, CallFails(c) PROVE TornOK(s)'
  <2>1. \A d \in Callers \ {c} : call'[d] = call[d]
    BY <1>11 DEF CallFails, Ends
  <2>2. QED
    BY <1>10, <1>11, <2>1 DEF CallFails
<1>12. CASE CrashAndRestart
  BY <1>10, <1>12 DEF CrashAndRestart
<1>13. ASSUME NEW t \in Services, NEW p \in UserState, UserChanges(t, p) PROVE TornOK(s)'
  BY <1>2, <1>13 DEF UserChanges, Writes
<1>14. QED
  BY <1>3, <1>5, <1>6, <1>7, <1>8, <1>9, <1>11, <1>12, <1>13 DEF Next

(* A service that uses the daemon's proxy has a whole state file of its    *)
(* own that takes it off again, unless writing that file was cut.          *)
THEOREM OursStaysUndoable == ASSUME Undisturbed PROVE Spec => []OursIsUndoable
<1>1. Init => UndoInv
  <2>1. Init => \A s \in Services : saved[PathOf[s]].state = "none"
    BY PathAssumption DEF Init, NoFile
  <2>2. QED
    BY <2>1, SettingsInitInv DEF UndoInv, TornOK
<1>2. UndoInv /\ [Next]_vars => UndoInv'
  BY SettingsStep, TornStep DEF UndoInv
<1>3. UndoInv => OursIsUndoable
  <2>1. SUFFICES ASSUME UndoInv, NEW s \in Services, PointsAtUs(os[s])
                 PROVE  LET f == saved[PathOf[s]] IN
                        \/ f.state = "whole" /\ f.service = s /\ ~PointsAtUs(f.settings)
                        \/ PathOf[s] \in cut
    BY DEF OursIsUndoable
  <2>2. /\ saved[PathOf[s]] \in File /\ FileOK(s) /\ TornOK(s) /\ ~Theirs(os[s])
        /\ \A c \in Callers : CallOK(c)
    BY <2>1, PathAssumption, TheirsIsNotOurs DEF UndoInv, SettingsInv, TypeOK
  <2>3. saved[PathOf[s]].state \in {"torn", "whole"}
    BY <2>2 DEF FileOK, File
  <2>4. \A c \in Callers : ~Writes(c, s)
    BY <2>2 DEF CallOK, Writes
  <2>5. QED
    BY <2>2, <2>3, <2>4, TheirsIsNotOurs DEF FileOK, TornOK
<1>4. QED
  BY <1>1, <1>2, <1>3, PTL DEF Spec

(* A state file goes when its service is back to what it says.             *)
THEOREM FilesGoWhenRestored == ASSUME Undisturbed PROVE Spec => ForgetsOnlyWhatIsRestored
<1> DEFINE Forgets(s) ==
      saved[PathOf[s]].state # "none" /\ saved'[PathOf[s]].state = "none" =>
        saved[PathOf[s]].state = "whole" /\ SameEffect(os[s], saved[PathOf[s]].settings)
<1>1. ASSUME SettingsInv, [Next]_vars PROVE [\A s \in Services : Forgets(s)]_vars
  <2>1. SUFFICES ASSUME NEW s \in Services, saved[PathOf[s]].state # "none",
                        saved'[PathOf[s]].state = "none", Next
                 PROVE  saved[PathOf[s]].state = "whole" /\ SameEffect(os[s], saved[PathOf[s]].settings)
    BY <1>1
  <2>2. /\ saved \in [Paths -> File] /\ PathOf[s] \in Paths /\ saved' # saved
        /\ \A c \in Callers : call[c].service \in Services
    BY <1>1, <2>1, PathAssumption DEF SettingsInv, TypeOK
  <2>3. PICK c \in Callers : OpenStateFile(c) \/ WriteStateFile(c) \/ RemoveStateFile(c)
    BY <2>1, <2>2 DEF Next, EnableBegins, DisableBegins, ReadSettings, RunCommand, CallFails,
                      UserChanges, CrashAndRestart
  <2>4. CASE OpenStateFile(c)
    BY <2>1, <2>2, <2>4 DEF OpenStateFile, PathFor, File
  <2>5. CASE WriteStateFile(c)
    BY <2>1, <2>2, <2>5 DEF WriteStateFile, PathFor
  <2>6. CASE RemoveStateFile(c)
    <3>1. PathOf[call[c].service] = PathOf[s] /\ call[c].pc = "commands"
          /\ call[c].op = "disable" /\ call[c].todo = <<>>
      BY <2>1, <2>2, <2>6 DEF RemoveStateFile, PathFor
    <3>2. call[c].service = s
      BY <2>2, <3>1 DEF Undisturbed, OneFileEach
    <3>3. QED
      BY <1>1, <3>1, <3>2, RestoreEnds DEF SettingsInv, CallOK
  <2>7. QED
    BY <2>3, <2>4, <2>5, <2>6
<1>2. QED
  BY <1>1, SettingsInvHolds, PTL DEF Spec, ForgetsOnlyWhatIsRestored

=============================================================================
