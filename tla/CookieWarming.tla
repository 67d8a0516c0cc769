--------------------------- MODULE CookieWarming ---------------------------
(***************************************************************************)
(* internal/auth/warming.go and runCookieWarming in cmd/deconstructd: at   *)
(* each tick main's goroutine lists the profiles that are due and runs     *)
(* their workflows one after the other, with the secrets of AuthVault      *)
(* opened by the vault that main built when the process started.  The list *)
(* is as old as the tick; the RPC handlers go on meanwhile.                *)
(***************************************************************************)
EXTENDS AuthVault

CONSTANTS Warmed,    \* settings with cookie warming on, and a workflow
          Interval,  \* of each profile, in ticks
          MaxTicks   \* bound: ticks in the life of a process

ASSUME WarmingAssumption == /\ Warmed \subseteq Settings
                            /\ Interval \in Nat /\ MaxTicks \in Nat

VARIABLES
  tick,      \* the time of the last tick
  todo,      \* profiles listed as due and not tried, as they were read
  opened,    \* the bundle whose secrets the running workflow uses, and for whom
  lastRuns   \* WarmingRunner.lastRuns

warmVars == <<tick, todo, opened, lastRuns>>

wvars == <<vars, warmVars>>

Never == MaxTicks + 1   \* no entry in lastRuns

NoneOpen == [profile |-> NoProfile, bundle |-> NoBundle]

Listed == [profile : Profiles, bundle : Bundles \cup {NoBundle}]

Ready == call[Main].pc = "ready" /\ opened = NoneOpen

(* Mutant of IsDue: the last run is not looked at. *)
IsOn(p) == profiles[p].settings \in Warmed

(* profileDue, lines 120-130. *)
IsDue(p) ==
  /\ profiles[p].settings \in Warmed
  /\ lastRuns[p] = Never \/ tick + 1 - lastRuns[p] >= Interval

(* runCookieWarming, main.go:150-164, and DueProfiles, lines 41-54: the    *)
(* goroutine is back at its select.                                        *)
Check ==
  /\ Ready /\ todo = {} /\ tick < MaxTicks
  /\ tick' = tick + 1
  /\ todo' = {[profile |-> p, bundle |-> profiles[p].bundle] : p \in {q \in Profiles : IsDue(q)}}
  /\ UNCHANGED <<vars, opened, lastRuns>>

(* Vault.Open, lines 80-94 of vault.go, by the key that main has read. *)
Opens(b) == b # NoBundle /\ IsStored(b) /\ bundles[b].key = call[Main].key

(* RunProfile, lines 69-101: the secrets are opened, the workflow starts.  *)
RunProfile(l) ==
  /\ Ready /\ l \in todo
  /\ Opens(l.bundle)
  /\ todo' = todo \ {l}
  /\ opened' = l
  /\ UNCHANGED <<vars, tick, lastRuns>>

(* Lines 80-101: no bundle, one that does not open, a workflow that is     *)
(* gone.  The profile stays due.                                           *)
RunProfileFails(l) ==
  /\ Ready /\ l \in todo
  /\ IOFaults \/ ~Opens(l.bundle)
  /\ todo' = todo \ {l}
  /\ UNCHANGED <<vars, tick, opened, lastRuns>>

(* Lines 102-117: the run came back, whatever became of it. *)
Ran ==
  /\ opened # NoneOpen
  /\ lastRuns' = [lastRuns EXCEPT ![opened.profile] = tick]
  /\ opened' = NoneOpen
  /\ UNCHANGED <<vars, tick, todo>>

(* Lines 107-110: Run could not be begun or its row not be stored. *)
NotRun ==
  /\ IOFaults
  /\ opened # NoneOpen
  /\ opened' = NoneOpen
  /\ UNCHANGED <<vars, tick, todo, lastRuns>>

(* A new process has an empty map and a new ticker. *)
WarmingRestarts ==
  /\ tick' = 0
  /\ todo' = {}
  /\ opened' = NoneOpen
  /\ lastRuns' = [p \in Profiles |-> Never]

WarmingInit ==
  /\ Init
  /\ tick = 0
  /\ todo = {}
  /\ opened = NoneOpen
  /\ lastRuns = [p \in Profiles |-> Never]

WarmingNext ==
  \/ VaultNext /\ UNCHANGED warmVars
  \/ Restart /\ WarmingRestarts
  \/ Check
  \/ \E l \in Listed : RunProfile(l) \/ RunProfileFails(l)
  \/ Ran \/ NotRun

WarmingSpec == WarmingInit /\ [][WarmingNext]_wvars

-----------------------------------------------------------------------------
(* The types of the variables. *)
WarmingTypeOK ==
  /\ TypeOK
  /\ tick \in 0..MaxTicks
  /\ todo \subseteq Listed
  /\ opened \in Listed \cup {NoneOpen}
  /\ lastRuns \in [Profiles -> 0..Never]

(* Secrets are used for the profile they were saved for: the bundle that a *)
(* profile names, that a tick has listed it with, or whose secrets its     *)
(* workflow runs with, is stored and sealed for this very profile.  Only a *)
(* client of auth.profiles.save can have named another.                    *)
SecretsAreTheirOwn ==
  /\ \A p \in Profiles : OwnOrGiven(p, profiles[p].bundle)
  /\ \A l \in todo : OwnOrGiven(l.profile, l.bundle)
  /\ opened # NoneOpen => OwnOrGiven(opened.profile, opened.bundle)

(* In the life of a process, runs of one profile that came back were       *)
(* listed by ticks that are an interval apart.  (A workflow may start long *)
(* after its tick, so the runs themselves may be closer; and a run that    *)
(* could not begin, NotRun, is not counted.)                               *)
RunsAreSpaced ==
  [][\A p \in Profiles : lastRuns[p] # Never /\ lastRuns'[p] \notin {Never, lastRuns[p]} =>
       lastRuns'[p] - lastRuns[p] >= Interval]_wvars

=============================================================================
