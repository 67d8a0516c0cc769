----------------------------- MODULE AuthVault -----------------------------
(***************************************************************************)
(* internal/auth (vault.go) with the JSON-RPC handlers auth.vault.save,    *)
(* auth.profiles.save and workflows.run and the daemon's start, which all  *)
(* build a Vault of their own.  NewVault reads the key file or, when that  *)
(* fails, creates it: nothing keeps two goroutines from doing so at once.  *)
(* A Vault keeps its key for as long as it lives: a call for RPC, the      *)
(* whole process for cookie warming.                                       *)
(*                                                                         *)
(* A key stands for the bytes of the file it is the hash of.  A bundle     *)
(* opens with the key that sealed it and with no other.                    *)
(***************************************************************************)
EXTENDS Naturals, FiniteSets

CONSTANTS Callers,     \* JSON-RPC connections
          Main,        \* the goroutine of main, which starts cookie warming
          Profiles, Bundles,
          Seeds,       \* what rand.Read yields; never the same twice
          Settings,    \* the other columns of a profile
          MaxRestarts, \* bound: ends of the process
          IOFaults,    \* may an access to the key file or a store call fail?
          NoFile, Empty, NoBundle, NoProfile

Everyone == Callers \cup {Main}
Contents == Seeds \cup {Empty}   \* of the key file, when it exists

ASSUME MainAssumption == Main \notin Callers
ASSUME NullAssumption == /\ NoFile \notin Contents /\ Empty \notin Seeds
                         /\ NoBundle \notin Bundles /\ NoProfile \notin Profiles
ASSUME SettingsAssumption == Settings # {}
ASSUME BoundAssumption == MaxRestarts \in Nat /\ IOFaults \in BOOLEAN

VARIABLES
  keyFile,   \* auth_vault.key
  profiles,  \* the auth_profiles table
  bundles,   \* the auth_secret_bundles table
  call,      \* the NewVault, and what it is for, of each goroutine
  restarts,
  writers,   \* history: seeds of the calls that opened the key file to write
  inUse,     \* history: seeds that were drawn
  foreign    \* history: bundles that clients gave profiles they are not sealed for

vars == <<keyFile, profiles, bundles, call, restarts, writers, inUse, foreign>>

Profile == [bundle : Bundles \cup {NoBundle}, settings : Settings]

Sealed == [profile : Profiles, key : Contents]

NoSealed == [profile |-> NoProfile, key |-> NoFile]

IsStored(b) == bundles[b] # NoSealed

NoCall == [pc |-> "idle", op |-> "none", profile |-> NoProfile,
           read |-> [bundle |-> NoBundle, settings |-> CHOOSE s \in Settings : TRUE],
           key |-> NoFile, bundle |-> NoBundle]

Start(c, op, p) ==
  call' = [call EXCEPT ![c] = [NoCall EXCEPT !.pc = "load", !.op = op, !.profile = p,
                                             !.read = profiles[p]]]

Goto(c, l) == call' = [call EXCEPT ![c].pc = l]

Return(c) == call' = [call EXCEPT ![c] = NoCall]

-----------------------------------------------------------------------------
(* The callers of NewVault. *)

(* auth.vault.save, jsonrpc/server.go:903-911: the profile is read. *)
VaultSaveBegins(c, p) ==
  /\ call[c].pc = "idle"
  /\ Start(c, "save", p)
  /\ UNCHANGED <<keyFile, profiles, bundles, restarts, writers, inUse, foreign>>

(* workflows.run, lines 776-786: a profile without a bundle is an error.   *)
RunBegins(c, p) ==
  /\ call[c].pc = "idle"
  /\ profiles[p].bundle # NoBundle
  /\ Start(c, "run", p)
  /\ UNCHANGED <<keyFile, profiles, bundles, restarts, writers, inUse, foreign>>

SealedFor(p, b) == bundles[b].profile = p

(* auth.profiles.save, lines 862-878: the client sends all columns, and    *)
(* nothing asks which bundle it names, or whether there is one.            *)
ProfileSave(p, s, b) ==
  /\ profiles' = [profiles EXCEPT ![p] = [bundle |-> b, settings |-> s]]
  /\ foreign' = IF b = NoBundle \/ SealedFor(p, b) THEN foreign
                ELSE foreign \cup {<<p, b>>}
  /\ UNCHANGED <<keyFile, bundles, call, restarts, writers, inUse>>

-----------------------------------------------------------------------------
(* loadOrCreateKey, lines 96-113. *)

NoKey == keyFile = NoFile

(* Line 97; whatever the file holds is hashed into the key. *)
LoadKey(c) ==
  /\ call[c].pc = "load"
  /\ ~NoKey
  /\ call' = [call EXCEPT ![c].pc = "ready", ![c].key = keyFile]
  /\ UNCHANGED <<keyFile, profiles, bundles, restarts, writers, inUse, foreign>>

(* Mutant of DrawSeed: the same seed again. *)
DrawAgain(c, seed) ==
  /\ call[c].pc = "load"
  /\ NoKey
  /\ call' = [call EXCEPT ![c].pc = "create", ![c].key = seed]
  /\ UNCHANGED <<keyFile, profiles, bundles, restarts, writers, inUse, foreign>>

(* Lines 97-107: a read that fails for any reason counts as no key file. *)
DrawSeed(c, seed) ==
  /\ call[c].pc = "load"
  /\ NoKey \/ IOFaults
  /\ seed \in Seeds \ inUse
  /\ call' = [call EXCEPT ![c].pc = "create", ![c].key = seed]
  /\ inUse' = inUse \cup {seed}
  /\ UNCHANGED <<keyFile, profiles, bundles, restarts, writers, foreign>>

(* Line 108, os.WriteFile: the file is created, or emptied ... *)
OpenKeyFile(c) ==
  /\ call[c].pc = "create"
  /\ keyFile' = Empty
  /\ writers' = writers \cup {call[c].key}
  /\ Goto(c, "write")
  /\ UNCHANGED <<profiles, bundles, restarts, inUse, foreign>>

(* Mutant of WriteKeyFile: the seed does not reach the file. *)
KeepKeyInMemory(c) ==
  /\ call[c].pc = "write"
  /\ Goto(c, "ready")
  /\ UNCHANGED <<keyFile, profiles, bundles, restarts, writers, inUse, foreign>>

(* ... and the 32 bytes written. *)
WriteKeyFile(c) ==
  /\ call[c].pc = "write"
  /\ keyFile' = call[c].key
  /\ Goto(c, "ready")
  /\ UNCHANGED <<profiles, bundles, restarts, writers, inUse, foreign>>

(* NewVault returns an error; in main that ends the process.               *)
KeyFails(c) ==
  /\ IOFaults
  /\ c # Main
  /\ call[c].pc \in {"create", "write"}
  /\ Return(c)
  /\ UNCHANGED <<keyFile, profiles, bundles, restarts, writers, inUse, foreign>>

-----------------------------------------------------------------------------
(* What the vault is for. *)

(* The id of a new bundle is random: nobody has named it before. *)
IsFresh(b) == ~IsStored(b) /\ \A p \in Profiles : <<p, b>> \notin foreign

(* Mutant of Seal: the bundle is not stored before the profile names it. *)
SealLater(c, b) ==
  /\ call[c].pc = "ready" /\ call[c].op = "save"
  /\ IsFresh(b) /\ \A d \in Callers : call[d].bundle # b
  /\ call' = [call EXCEPT ![c].pc = "refer", ![c].bundle = b]
  /\ UNCHANGED <<keyFile, profiles, bundles, restarts, writers, inUse, foreign>>

(* Vault.Save, lines 48-78, under a fresh id. *)
Seal(c, b) ==
  /\ call[c].pc = "ready" /\ call[c].op = "save"
  /\ IsFresh(b)
  /\ bundles' = [bundles EXCEPT ![b] = [profile |-> call[c].profile, key |-> call[c].key]]
  /\ call' = [call EXCEPT ![c].pc = "refer", ![c].bundle = b]
  /\ UNCHANGED <<keyFile, profiles, restarts, writers, inUse, foreign>>

(* jsonrpc/server.go:920-924: the whole profile is written back. *)
SaveReference(c) ==
  /\ call[c].pc = "refer"
  /\ profiles' = [profiles EXCEPT ![call[c].profile] =
                    [call[c].read EXCEPT !.bundle = call[c].bundle]]
  /\ Return(c)
  /\ UNCHANGED <<keyFile, bundles, restarts, writers, inUse, foreign>>

(* The store refuses the bundle or the profile. *)
SaveFails(c) ==
  /\ IOFaults
  /\ call[c].op = "save" /\ call[c].pc \in {"ready", "refer"}
  /\ Return(c)
  /\ UNCHANGED <<keyFile, profiles, bundles, restarts, writers, inUse, foreign>>

(* Vault.Open for a workflow run, lines 80-94; it changes nothing.         *)
OpenBundle(c) ==
  /\ call[c].pc = "ready" /\ call[c].op = "run"
  /\ Return(c)
  /\ UNCHANGED <<keyFile, profiles, bundles, restarts, writers, inUse, foreign>>

(* The process ends and is started again: main builds its vault, while the *)
(* RPC server serves already (cmd/deconstructd/main.go:114-136).           *)
Booting == [NoCall EXCEPT !.pc = "load", !.op = "warm"]

Restart ==
  /\ restarts < MaxRestarts
  /\ restarts' = restarts + 1
  /\ call' = [c \in Everyone |-> IF c = Main THEN Booting ELSE NoCall]
  /\ UNCHANGED <<keyFile, profiles, bundles, writers, inUse, foreign>>

-----------------------------------------------------------------------------

Init ==
  /\ keyFile = NoFile
  /\ profiles \in [Profiles -> {p \in Profile : p.bundle = NoBundle}]
  /\ bundles = [b \in Bundles |-> NoSealed]
  /\ call = [c \in Everyone |-> IF c = Main THEN Booting ELSE NoCall]
  /\ restarts = 0
  /\ writers = {}
  /\ inUse = {}
  /\ foreign = {}

(* The steps of the goroutines. *)
VaultNext ==
  \/ \E c \in Callers, p \in Profiles : VaultSaveBegins(c, p) \/ RunBegins(c, p)
  \/ \E p \in Profiles, s \in Settings, b \in Bundles \cup {NoBundle} : ProfileSave(p, s, b)
  \/ \E c \in Everyone :
       \/ LoadKey(c)
       \/ \E seed \in Seeds : DrawSeed(c, seed)
       \/ OpenKeyFile(c)
       \/ WriteKeyFile(c)
       \/ KeyFails(c)
  \/ \E c \in Callers :
       \/ \E b \in Bundles : Seal(c, b)
       \/ SaveReference(c)
       \/ SaveFails(c)
       \/ OpenBundle(c)

Next == VaultNext \/ Restart

Spec == Init /\ [][Next]_vars

-----------------------------------------------------------------------------
(* The types of the variables. *)
TypeOK ==
  /\ keyFile \in Contents \cup {NoFile}
  /\ profiles \in [Profiles -> Profile]
  /\ bundles \in [Bundles -> Sealed \cup {NoSealed}]
  /\ call \in [Everyone ->
       [pc : {"idle", "load", "create", "write", "ready", "refer"},
        op : {"none", "save", "run", "warm"}, profile : Profiles \cup {NoProfile},
        read : Profile, key : Contents \cup {NoFile}, bundle : Bundles \cup {NoBundle}]]
  /\ restarts \in 0..MaxRestarts
  /\ writers \subseteq inUse /\ inUse \subseteq Seeds
  /\ foreign \subseteq Profiles \X Bundles

(* The bundle is sealed for the profile, or a client gave it to the        *)
(* profile although it is not.                                             *)
OwnOrGiven(p, b) == b = NoBundle \/ SealedFor(p, b) \/ <<p, b>> \in foreign

NobodyWrites == \A c \in Everyone : call[c].pc \notin {"create", "write"}

KeysInUse == {bundles[b].key : b \in {d \in Bundles : IsStored(d)}}
             \cup {call[c].key : c \in {d \in Everyone : call[d].pc = "ready"}}

(* A bundle that the key file cannot open, or a vault that cannot open the *)
(* bundles of others (cookie warming's for the life of the process), has   *)
(* one of two causes: its key was read while the file was empty, or two    *)
(* calls have written the file.                                            *)
StrangeKeysHaveACause ==
  NobodyWrites => \A k \in KeysInUse : k \in {keyFile, Empty} \/ Cardinality(writers) > 1

(* docs/backend.md:163, "The RPC returns the bundle ID and updates the     *)
(* profile reference": auth.vault.save leaves the other columns alone.     *)
VaultSaveOnlyRefers ==
  [][\A c \in Callers : call[c].pc = "refer" /\ call'[c].pc = "idle" =>
       \A p \in Profiles : profiles'[p].settings = profiles[p].settings]_vars

=============================================================================
