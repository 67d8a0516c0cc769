----------------------------- MODULE SystemProxy -----------------------------
(***************************************************************************)
(* internal/systemproxy: Enable points a macOS network service at the      *)
(* daemon's proxy after saving the settings it finds in a state file;      *)
(* Disable restores what the file says and removes it.  Each is a series   *)
(* of networksetup commands, any of which may fail half way; the manager   *)
(* has no lock, and system_proxy.enable and system_proxy.disable may come  *)
(* from any JSON-RPC connection.  The settings and the files survive the   *)
(* daemon.  networksetup is external: -setwebproxy also turns the proxy on.*)
(***************************************************************************)
EXTENDS Naturals, Sequences

CONSTANTS Services,      \* macOS network services
          Paths,         \* state files
          PathOf,        \* statePath: '/' and ' ' in the name both become '_'
          Callers,       \* connections that call Enable and Disable
          Overlap,       \* may a call begin while another one goes on?
          Servers,       \* proxies (host and port) a user may have configured
          Ours,          \* the daemon's own proxy
          NoServer,      \* no proxy configured
          Keep,          \* a command that leaves the server alone
          IOFaults,      \* may a command or a file operation fail?
          MaxRestarts    \* bound: crashes of the daemon

ASSUME PathAssumption == Services # {} /\ PathOf \in [Services -> Paths]
ASSUME ServerAssumption ==
  /\ Ours \notin Servers /\ NoServer \notin Servers /\ Keep \notin Servers
  /\ Ours # NoServer /\ Ours # Keep /\ NoServer # Keep
ASSUME SwitchAssumption == Overlap \in BOOLEAN /\ IOFaults \in BOOLEAN
ASSUME RestartAssumption == MaxRestarts \in Nat

VARIABLES
  os,        \* service -> its web proxy and secure web proxy settings
  saved,     \* path -> the state file
  call,      \* caller -> its call
  restarts,
  user,      \* history: service -> the settings its user last chose
  moved,     \* history: services whose user last changed them while a file was kept
  cut        \* history: files of which a write did not end

vars == <<os, saved, call, restarts, user, moved, cut>>

Config == [on : BOOLEAN, server : Servers \cup {NoServer, Ours}]

ProxyState == [http : Config, https : Config]

(* What a user sets up: a proxy that is on has a server. *)
UserState == {p \in ProxyState : \A k \in {"http", "https"} :
                p[k].server # Ours /\ (p[k].on => p[k].server # NoServer)}

File == [state : {"none", "torn", "whole"}, service : Services, settings : ProxyState]

(* A networksetup command: -setwebproxy names a server, which is never an  *)
(* empty one, and -setwebproxystate keeps it.                              *)
Command == [kind : {"http", "https"}, server : Servers \cup {Ours, Keep}, on : BOOLEAN]

(* Lines 79-90. *)
EnableCommands ==
  << [kind |-> "http",  server |-> Ours, on |-> TRUE],
     [kind |-> "https", server |-> Ours, on |-> TRUE],
     [kind |-> "http",  server |-> Keep, on |-> TRUE],
     [kind |-> "https", server |-> Keep, on |-> TRUE] >>

(* Mutant of RestoreCommands: the switches are not restored. *)
RestoreServersOnly(p) ==
  << [kind |-> "http",  server |-> p.http.server,  on |-> TRUE],
     [kind |-> "https", server |-> p.https.server, on |-> TRUE] >>

SwitchCommand(p, k) == [kind |-> k, server |-> Keep, on |-> p[k].on]

(* Mutant of RestoreKind: an empty server is restored as well. *)
RestoreEmptyToo(p, k) ==
  <<[kind |-> k, server |-> p[k].server, on |-> TRUE], SwitchCommand(p, k)>>

(* An empty server is not restored. *)
RestoreKind(p, k) ==
  IF p[k].server = NoServer THEN <<SwitchCommand(p, k)>>
  ELSE <<[kind |-> k, server |-> p[k].server, on |-> TRUE], SwitchCommand(p, k)>>

(* apply, lines 127-145. *)
RestoreCommands(p) == RestoreKind(p, "http") \o RestoreKind(p, "https")

Applied(p, cmd) ==
  [p EXCEPT ![cmd.kind] = [on |-> cmd.on,
                           server |-> IF cmd.server = Keep THEN @.server ELSE cmd.server]]

Off == [on |-> FALSE, server |-> NoServer]

Blank == [http |-> Off, https |-> Off]

Idle == [pc |-> "idle", op |-> "enable", service |-> CHOOSE s \in Services : TRUE,
         target |-> CHOOSE s \in Services : TRUE, seen |-> Blank, todo |-> <<>>]

Quiet == \A c \in Callers : call[c].pc = "idle"

MayBegin(c) == call[c].pc = "idle" /\ (Overlap \/ Quiet)

PathFor(c) == PathOf[call[c].service]

Goto(c, l) == call' = [call EXCEPT ![c].pc = l]

(* A call that ends, well or not: only the next call can put it right. *)
Ends(c) == call' = [call EXCEPT ![c] = Idle]

UserVars == <<user, moved>>

History == <<UserVars, cut>>

-----------------------------------------------------------------------------
(* Enable. *)

Enabling(s) == [Idle EXCEPT !.pc = "commands", !.service = s, !.target = s,
                            !.todo = EnableCommands]

(* Mutant of EnableBegins: the settings are saved again each time. *)
SaveAgain(c, s) ==
  /\ MayBegin(c)
  /\ call' = [call EXCEPT ![c] = [Enabling(s) EXCEPT !.pc = "read_http"]]
  /\ UNCHANGED <<os, saved, restarts, History>>

(* Lines 48-62: a state file that exists is taken for the saved settings.  *)
EnableBegins(c, s) ==
  /\ MayBegin(c)
  /\ call' = [call EXCEPT ![c] =
       [Enabling(s) EXCEPT !.pc = IF saved[PathOf[s]].state = "none"
                                  THEN "read_http" ELSE "commands"]]
  /\ UNCHANGED <<os, saved, restarts, History>>

(* Read, lines 115-125: one command for each kind. *)
ReadSettings(c) ==
  /\ \/ /\ call[c].pc = "read_http"
        /\ call' = [call EXCEPT ![c].pc = "read_https", ![c].seen.http = os[call[c].service].http]
     \/ /\ call[c].pc = "read_https"
        /\ call' = [call EXCEPT ![c].pc = "open", ![c].seen.https = os[call[c].service].https]
  /\ UNCHANGED <<os, saved, restarts, History>>

(* Line 71, os.WriteFile: the file is there before its contents are. *)
OpenStateFile(c) ==
  /\ call[c].pc = "open"
  /\ saved' = [saved EXCEPT ![PathFor(c)].state = "torn"]
  /\ Goto(c, "write")
  /\ UNCHANGED <<os, restarts, History>>

WriteStateFile(c) ==
  /\ call[c].pc = "write"
  /\ saved' = [saved EXCEPT ![PathFor(c)] = [state |-> "whole", service |-> call[c].service,
                                             settings |-> call[c].seen]]
  /\ Goto(c, "commands")
  /\ UNCHANGED <<os, restarts, History>>

-----------------------------------------------------------------------------
(* Disable. *)

(* Lines 94-105: without a file that decodes it is an error.  The service  *)
(* that is restored is the one that the file names.                        *)
DisableBegins(c, s) ==
  LET f == saved[PathOf[s]] IN
  /\ MayBegin(c)
  /\ f.state = "whole"
  /\ call' = [call EXCEPT ![c] = [pc |-> "commands", op |-> "disable", service |-> s,
                                  target |-> f.service, seen |-> f.settings,
                                  todo |-> RestoreCommands(f.settings)]]
  /\ UNCHANGED <<os, saved, restarts, History>>

NoFile == [state |-> "none", service |-> CHOOSE s \in Services : TRUE, settings |-> Blank]

(* Line 109: a file that is gone already is not an error. *)
RemoveStateFile(c) ==
  /\ call[c].pc = "commands" /\ call[c].todo = <<>> /\ call[c].op = "disable"
  /\ saved' = [saved EXCEPT ![PathFor(c)] = NoFile]
  /\ Ends(c)
  /\ UNCHANGED <<os, restarts, History>>

-----------------------------------------------------------------------------
(* One networksetup command of either. *)

RunCommand(c) ==
  /\ call[c].pc = "commands" /\ call[c].todo # <<>>
  /\ os' = [os EXCEPT ![call[c].target] = Applied(@, Head(call[c].todo))]
  /\ IF call[c].op = "enable" /\ Len(call[c].todo) = 1
     THEN Ends(c)
     ELSE call' = [call EXCEPT ![c].todo = Tail(@)]
  /\ UNCHANGED <<saved, restarts, History>>

(* The calls of D end where they are: what one was writing stays torn.     *)
CutsOff(D) == cut' = cut \cup {PathFor(d) : d \in {e \in D : call[e].pc = "write"}}

(* Mutant of CallFails: a command that fails is passed over. *)
PassOver(c) ==
  /\ IOFaults
  /\ call[c].pc # "idle"
  /\ IF call[c].pc = "commands" /\ call[c].todo # <<>>
     THEN call' = [call EXCEPT ![c].todo = Tail(@)]
     ELSE Ends(c)
  /\ CutsOff({c})
  /\ UNCHANGED <<os, saved, restarts, UserVars>>

(* A command or a file operation fails: the call returns the error there   *)
(* and undoes nothing.  A command that is killed may still have worked.    *)
CallFails(c) ==
  /\ IOFaults
  /\ call[c].pc # "idle"
  /\ \/ UNCHANGED os
     \/ /\ call[c].pc = "commands" /\ call[c].todo # <<>>
        /\ os' = [os EXCEPT ![call[c].target] = Applied(@, Head(call[c].todo))]
  /\ Ends(c)
  /\ CutsOff({c})
  /\ UNCHANGED <<saved, restarts, UserVars>>

CrashAndRestart ==
  /\ restarts < MaxRestarts
  /\ restarts' = restarts + 1
  /\ call' = [c \in Callers |-> Idle]
  /\ CutsOff(Callers)
  /\ UNCHANGED <<os, saved, UserVars>>

PointsAtUs(p) == \E k \in {"http", "https"} : p[k].on /\ p[k].server = Ours

(* The user changes the settings of a service that does not use our proxy. *)
UserChanges(s, p) ==
  /\ Quiet
  /\ ~PointsAtUs(os[s])
  /\ os' = [os EXCEPT ![s] = p]
  /\ user' = [user EXCEPT ![s] = p]
  /\ moved' = IF saved[PathOf[s]].state = "none" THEN moved \ {s} ELSE moved \cup {s}
  /\ UNCHANGED <<saved, call, restarts, cut>>

-----------------------------------------------------------------------------

Init ==
  /\ user \in [Services -> UserState]
  /\ os = user
  /\ saved = [p \in Paths |-> NoFile]
  /\ call = [c \in Callers |-> Idle]
  /\ restarts = 0
  /\ moved = {}
  /\ cut = {}

Next ==
  \/ \E c \in Callers :
       \/ \E s \in Services : EnableBegins(c, s) \/ DisableBegins(c, s)
       \/ ReadSettings(c)
       \/ OpenStateFile(c)
       \/ WriteStateFile(c)
       \/ RunCommand(c)
       \/ RemoveStateFile(c)
       \/ CallFails(c)
  \/ \E s \in Services, p \in UserState : UserChanges(s, p)
  \/ CrashAndRestart

Spec == Init /\ [][Next]_vars

-----------------------------------------------------------------------------

(* The types of the variables. *)
TypeOK ==
  /\ os \in [Services -> ProxyState]
  /\ saved \in [Paths -> File]
  /\ call \in [Callers -> [pc : {"idle", "read_http", "read_https", "open", "write", "commands"},
                           op : {"enable", "disable"}, service : Services, target : Services,
                           seen : ProxyState, todo : Seq(Command)]]
  /\ restarts \in 0..MaxRestarts
  /\ user \in [Services -> ProxyState]
  /\ moved \subseteq Services
  /\ cut \subseteq Paths

(* p sends traffic as q does, and names the server that q names.  (An empty *)
(* server is never restored: ours is left there, switched off.)             *)
SameEffect(p, q) ==
  \A k \in {"http", "https"} :
    /\ p[k].on = q[k].on
    /\ q[k].server # NoServer => p[k].server = q[k].server

(* While calls do not overlap, a state file that is whole holds what the   *)
(* user last chose, never the daemon's own proxy: however often Enable and *)
(* Disable are repeated, fail half way or are cut by a crash.  Only a user *)
(* who changes the settings while a file is left over makes it stale.      *)
SavedIsTheUsers ==
  \A s \in Services :
    saved[PathOf[s]].state = "whole" /\ s \notin moved =>
      saved[PathOf[s]].service = s /\ SameEffect(saved[PathOf[s]].settings, user[s])

(* A service that uses the daemon's proxy can be taken off it again: its   *)
(* file is whole, is its own, and says to use no proxy of ours.  The one   *)
(* exception is a file whose write was cut, by an error or by a crash: no  *)
(* Disable decodes it and no Enable writes it again.                       *)
OursIsUndoable ==
  \A s \in Services :
    LET f == saved[PathOf[s]] IN
    PointsAtUs(os[s]) =>
      \/ f.state = "whole" /\ f.service = s /\ ~PointsAtUs(f.settings)
      \/ PathOf[s] \in cut

(* The file of a service is removed only when the service is back to what  *)
(* the file says.                                                          *)
ForgetsOnlyWhatIsRestored ==
  [][\A s \in Services :
       saved[PathOf[s]].state # "none" /\ saved'[PathOf[s]].state = "none" =>
         saved[PathOf[s]].state = "whole" /\ SameEffect(os[s], saved[PathOf[s]].settings)]_vars

(* docs/backend.md:10, "Preserve and restore macOS system proxy settings   *)
(* through explicit JSON-RPC calls": no file, no call going on, and the    *)
(* service is as its user left it.                                         *)
RestoredToTheUsers ==
  \A s \in Services :
    Quiet /\ saved[PathOf[s]].state = "none" => SameEffect(os[s], user[s])

=============================================================================
