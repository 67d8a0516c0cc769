------------------------ MODULE CookieWarmingProofs ------------------------
(***************************************************************************)
(* Proofs about AuthVault and CookieWarming, for every set of connections, *)
(* profiles, bundles and seeds, any number of restarts, any interval, and  *)
(* with or without failing accesses.                                       *)
(***************************************************************************)
EXTENDS CookieWarming, FiniteSetTheorems, TLAPS

-----------------------------------------------------------------------------
(* The vault.                                                              *)

CallRecord ==
  [pc : {"idle", "load", "create", "write", "ready", "refer"},
   op : {"none", "save", "run", "warm"}, profile : Profiles \cup {NoProfile},
   read : Profile, key : Contents \cup {NoFile}, bundle : Bundles \cup {NoBundle}]

(* What holds of one call: it saves for a profile, and refers to a bundle  *)
(* that was sealed for this profile.  The seed it has drawn is in use, and *)
(* becomes a writer's when the file is opened; the key of a vault that is  *)
(* ready is the seed of a writer, or that of the empty file.               *)
CallOK(c) ==
  /\ call[c].op = "save" => call[c].profile \in Profiles
  /\ call[c].pc = "refer" => /\ call[c].op = "save"
                             /\ bundles[call[c].bundle].profile = call[c].profile
                             /\ call[c].bundle \in Bundles
  /\ call[c].pc = "create" => call[c].key \in inUse \ writers
  /\ call[c].pc = "write" => call[c].key \in writers
  /\ call[c].pc = "ready" => call[c].key \in writers \cup {Empty}

(* Two calls that have drawn a seed have not drawn the same.               *)
SeedsDiffer ==
  \A c, d \in Everyone :
    call[c].pc = "create" /\ call[d].pc = "create" /\ c # d => call[c].key # call[d].key

(* What the file and the bundles hold comes from the writers; and while    *)
(* there is one writer, its key is in use only after it was written.       *)
InUse(k) ==
  \/ \E b \in Bundles : IsStored(b) /\ bundles[b].key = k
  \/ \E c \in Everyone : call[c].pc = "ready" /\ call[c].key = k

KeysInv ==
  /\ IsFiniteSet(writers)
  /\ keyFile = NoFile => writers = {}
  /\ keyFile \in writers \cup {Empty, NoFile}
  /\ \A b \in Bundles : IsStored(b) => bundles[b].key \in writers \cup {Empty}
  /\ \A w \in Seeds : writers = {w} /\ InUse(w) => keyFile = w

(* Profiles name bundles of their own, or those that clients gave them.    *)
References == \A p \in Profiles : OwnOrGiven(p, profiles[p].bundle)

VaultInv ==
  /\ TypeOK
  /\ \A c \in Everyone : CallOK(c)
  /\ SeedsDiffer
  /\ KeysInv
  /\ References

LEMMA NoCallFact == NoCall \in CallRecord /\ Booting \in CallRecord
<1>1. (CHOOSE s \in Settings : TRUE) \in Settings
  BY SettingsAssumption
<1>2. [bundle |-> NoBundle, settings |-> CHOOSE s \in Settings : TRUE] \in Profile
  BY <1>1 DEF Profile
<1>3. NoCall \in CallRecord
  BY <1>2 DEF NoCall, CallRecord
<1>4. QED
  BY <1>3 DEF Booting, CallRecord, NoCall

LEMMA VaultInitInv == Init => VaultInv
<1> SUFFICES ASSUME Init PROVE VaultInv
  OBVIOUS
<1>1. TypeOK
  <2>1. call \in [Everyone -> CallRecord]
    BY NoCallFact DEF Init
  <2>2. restarts \in 0..MaxRestarts
    BY BoundAssumption DEF Init
  <2>3. QED
    BY <2>1, <2>2 DEF Init, TypeOK, CallRecord
<1>2. \A c \in Everyone : call[c].pc \in {"idle", "load"} /\ call[c].op \in {"none", "warm"}
  BY DEF Init, NoCall, Booting
<1>3. (\A c \in Everyone : CallOK(c)) /\ SeedsDiffer
  BY <1>2 DEF CallOK, SeedsDiffer
<1>4. KeysInv
  BY <1>2, FS_EmptySet DEF Init, KeysInv, IsStored
<1>5. References
  BY DEF Init, References, OwnOrGiven, SealedFor
<1>6. QED
  BY <1>1, <1>3, <1>4, <1>5 DEF VaultInv

(* A call changes and the keys do not: enough that the new call is right,  *)
(* and that it is neither in creation nor has a key to use.                *)
LEMMA CallInv ==
  ASSUME VaultInv, NEW c \in Everyone, NEW new \in CallRecord,
         call' = [call EXCEPT ![c] = new],
         new.pc \in {"idle", "load", "refer"},
         UNCHANGED <<keyFile, bundles, restarts, writers, inUse, foreign>>,
         profiles' \in [Profiles -> Profile], References',
         new.op = "save" => new.profile \in Profiles,
         new.pc = "refer" => /\ new.op = "save" /\ new.bundle \in Bundles
                             /\ bundles[new.bundle].profile = new.profile
  PROVE  VaultInv'
<1> USE DEF VaultInv
<1>1. call'[c] = new /\ \A d \in Everyone \ {c} : call'[d] = call[d]
  BY DEF TypeOK
<1>2. TypeOK'
  BY DEF TypeOK, CallRecord
<1>3. \A d \in Everyone : CallOK(d)'
  BY <1>1 DEF CallOK
<1>4. SeedsDiffer'
  BY <1>1 DEF SeedsDiffer
<1>5. KeysInv'
  BY <1>1 DEF KeysInv, InUse, IsStored
<1>6. QED
  BY <1>2, <1>3, <1>4, <1>5

(* The callers of NewVault. *)
LEMMA BeginsInv ==
  ASSUME VaultInv, NEW c \in Callers, NEW p \in Profiles,
         VaultSaveBegins(c, p) \/ RunBegins(c, p)
  PROVE  VaultInv'
<1> USE DEF VaultInv
<1>1. PICK op \in {"save", "run"} : Start(c, op, p)
  BY DEF VaultSaveBegins, RunBegins
<1> DEFINE new == [NoCall EXCEPT !.pc = "load", !.op = op, !.profile = p, !.read = profiles[p]]
<1>2. call' = [call EXCEPT ![c] = new]
  BY <1>1 DEF Start
<1>3. new \in CallRecord /\ new.pc = "load" /\ new.profile = p
  <2>1. profiles[p] \in Profile
    BY DEF TypeOK
  <2>2. QED
    BY <2>1, NoCallFact DEF CallRecord, NoCall
<1>4. UNCHANGED <<keyFile, profiles, bundles, restarts, writers, inUse, foreign>>
  BY DEF VaultSaveBegins, RunBegins
<1>5. profiles' \in [Profiles -> Profile] /\ References'
  BY <1>4 DEF TypeOK, References, OwnOrGiven, SealedFor
<1>6. c \in Everyone
  BY DEF Everyone
<1> HIDE DEF new
<1>7. QED
  BY <1>2, <1>3, <1>4, <1>5, <1>6, CallInv

LEMMA ProfileSaveInv ==
  ASSUME VaultInv, NEW p \in Profiles, NEW s \in Settings, NEW b \in Bundles \cup {NoBundle},
         ProfileSave(p, s, b)
  PROVE  VaultInv'
<1> USE DEF VaultInv, ProfileSave
<1>1. TypeOK'
  BY DEF TypeOK, Profile
<1>2. (\A c \in Everyone : CallOK(c)') /\ SeedsDiffer' /\ KeysInv'
  BY DEF CallOK, SeedsDiffer, KeysInv, InUse, IsStored
<1>3. References'
  <2> SUFFICES ASSUME NEW q \in Profiles PROVE OwnOrGiven(q, profiles[q].bundle)'
    BY DEF References
  <2>1. CASE q = p
    BY <2>1 DEF TypeOK, OwnOrGiven, SealedFor
  <2>2. CASE q # p
    BY <2>2 DEF TypeOK, References, OwnOrGiven, SealedFor
  <2>3. QED
    BY <2>1, <2>2
<1>4. QED
  BY <1>1, <1>2, <1>3

(* A call returns: NewVault fails, the bundle or the profile is refused,   *)
(* or the secrets were opened.                                             *)
LEMMA ReturnsInv ==
  ASSUME VaultInv, NEW c \in Everyone, KeyFails(c) \/ SaveFails(c) \/ OpenBundle(c)
  PROVE  VaultInv'
<1>1. /\ call' = [call EXCEPT ![c] = NoCall]
      /\ UNCHANGED <<keyFile, profiles, bundles, restarts, writers, inUse, foreign>>
  BY DEF KeyFails, SaveFails, OpenBundle, Return
<1>2. profiles' \in [Profiles -> Profile] /\ References'
  BY <1>1 DEF VaultInv, TypeOK, References, OwnOrGiven, SealedFor
<1>3. NoCall.pc = "idle" /\ NoCall.op = "none"
  BY DEF NoCall
<1>4. QED
  BY <1>1, <1>2, <1>3, NoCallFact, CallInv

(* The key is read. *)
LEMMA LoadKeyInv ==
  ASSUME VaultInv, NEW c \in Everyone, LoadKey(c)
  PROVE  VaultInv'
<1> USE DEF VaultInv
<1> DEFINE new == [call[c] EXCEPT !.pc = "ready", !.key = keyFile]
<1>1. /\ call[c] \in CallRecord /\ keyFile \in Contents
      /\ call' = [call EXCEPT ![c] = new]
      /\ UNCHANGED <<keyFile, profiles, bundles, restarts, writers, inUse, foreign>>
  BY DEF LoadKey, NoKey, TypeOK, CallRecord
<1>2. /\ new \in CallRecord /\ new.pc = "ready" /\ new.key = keyFile
      /\ new.op = call[c].op /\ new.profile = call[c].profile
  BY <1>1 DEF CallRecord
<1>3. call'[c] = new /\ \A d \in Everyone \ {c} : call'[d] = call[d]
  BY <1>1 DEF TypeOK
<1>4. keyFile \in writers \cup {Empty}
  BY <1>1, NullAssumption DEF KeysInv
<1> HIDE DEF new
<1>5. TypeOK'
  BY <1>1, <1>2 DEF TypeOK, CallRecord
<1>6. \A d \in Everyone : CallOK(d)'
  BY <1>1, <1>2, <1>3, <1>4 DEF CallOK
<1>7. SeedsDiffer'
  BY <1>2, <1>3 DEF SeedsDiffer
<1>8. KeysInv'
  BY <1>1, <1>2, <1>3 DEF KeysInv, InUse, IsStored
<1>9. References'
  BY <1>1 DEF References, OwnOrGiven, SealedFor
<1>10. QED
  BY <1>5, <1>6, <1>7, <1>8, <1>9

(* A seed is drawn that nobody has. *)
LEMMA DrawSeedInv ==
  ASSUME VaultInv, NEW c \in Everyone, NEW seed \in Seeds, DrawSeed(c, seed)
  PROVE  VaultInv'
<1> USE DEF VaultInv
<1> DEFINE new == [call[c] EXCEPT !.pc = "create", !.key = seed]
<1>1. /\ call[c] \in CallRecord /\ seed \notin inUse
      /\ call' = [call EXCEPT ![c] = new]
      /\ inUse' = inUse \cup {seed}
      /\ UNCHANGED <<keyFile, profiles, bundles, restarts, writers, foreign>>
  BY DEF DrawSeed, TypeOK, CallRecord
<1>2. /\ new \in CallRecord /\ new.pc = "create" /\ new.key = seed
      /\ new.op = call[c].op /\ new.profile = call[c].profile
  BY <1>1 DEF CallRecord, Contents
<1>3. call'[c] = new /\ \A d \in Everyone \ {c} : call'[d] = call[d]
  BY <1>1 DEF TypeOK
<1> HIDE DEF new
<1>4. TypeOK'
  BY <1>1, <1>2 DEF TypeOK, CallRecord
<1>5. \A d \in Everyone : CallOK(d)'
  BY <1>1, <1>2, <1>3 DEF CallOK, TypeOK
<1>6. SeedsDiffer'
  BY <1>1, <1>2, <1>3 DEF SeedsDiffer, CallOK
<1>7. KeysInv'
  BY <1>1, <1>2, <1>3 DEF KeysInv, InUse, IsStored
<1>8. References'
  BY <1>1 DEF References, OwnOrGiven, SealedFor
<1>9. QED
  BY <1>4, <1>5, <1>6, <1>7, <1>8

(* The file is emptied by a writer more: if it is the first, no key but    *)
(* that of the empty file is in use.                                       *)
LEMMA OpenKeyFileInv ==
  ASSUME VaultInv, NEW c \in Everyone, OpenKeyFile(c)
  PROVE  VaultInv'
<1> USE DEF VaultInv
<1> DEFINE new == [call[c] EXCEPT !.pc = "write"]
           k == call[c].key
<1>1. /\ call[c] \in CallRecord /\ call[c].pc = "create"
      /\ k \in inUse \ writers /\ k \in Seeds
      /\ call' = [call EXCEPT ![c] = new]
      /\ keyFile' = Empty /\ writers' = writers \cup {k}
      /\ UNCHANGED <<profiles, bundles, restarts, inUse, foreign>>
  BY DEF OpenKeyFile, Goto, TypeOK, CallRecord, CallOK
<1>2. /\ new \in CallRecord /\ new.pc = "write" /\ new.key = k
      /\ new.op = call[c].op /\ new.profile = call[c].profile
  BY <1>1 DEF CallRecord
<1>3. call'[c] = new /\ \A d \in Everyone \ {c} : call'[d] = call[d]
  BY <1>1 DEF TypeOK
<1> HIDE DEF new
<1>4. TypeOK'
  BY <1>1, <1>2 DEF TypeOK, CallRecord, Contents
<1>5. \A d \in Everyone : CallOK(d)'
  <2>1. CallOK(c)'
    BY <1>1, <1>2, <1>3 DEF CallOK
  <2>2. ASSUME NEW d \in Everyone \ {c} PROVE CallOK(d)'
    BY <1>1, <1>3, <2>2 DEF CallOK, SeedsDiffer
  <2>3. QED
    BY <2>1, <2>2
<1>6. SeedsDiffer'
  BY <1>2, <1>3 DEF SeedsDiffer
<1>7. KeysInv'
  <2>1. IsFiniteSet(writers')
    BY <1>1, FS_AddElement DEF KeysInv
  <2>2. ASSUME NEW w \in Seeds, writers' = {w}, InUse(w)' PROVE FALSE
    <3>1. writers = {} /\ w = k
      BY <1>1, <2>2
    <3>2. InUse(w)
      BY <1>1, <1>2, <1>3, <2>2 DEF InUse, IsStored
    <3>3. w = Empty
      BY <3>1, <3>2 DEF InUse, KeysInv, CallOK
    <3>4. QED
      BY <3>3, NullAssumption
  <2>3. QED
    BY <1>1, <2>1, <2>2, NullAssumption DEF KeysInv, IsStored, Contents
<1>8. References'
  BY <1>1 DEF References, OwnOrGiven, SealedFor
<1>9. QED
  BY <1>4, <1>5, <1>6, <1>7, <1>8

LEMMA WriteKeyFileInv ==
  ASSUME VaultInv, NEW c \in Everyone, WriteKeyFile(c)
  PROVE  VaultInv'
<1> USE DEF VaultInv
<1> DEFINE new == [call[c] EXCEPT !.pc = "ready"]
           k == call[c].key
<1>1. /\ call[c] \in CallRecord /\ call[c].pc = "write"
      /\ k \in writers /\ k \in Seeds
      /\ call' = [call EXCEPT ![c] = new]
      /\ keyFile' = k
      /\ UNCHANGED <<profiles, bundles, restarts, writers, inUse, foreign>>
  BY DEF WriteKeyFile, Goto, TypeOK, CallRecord, CallOK
<1>2. /\ new \in CallRecord /\ new.pc = "ready" /\ new.key = k
      /\ new.op = call[c].op /\ new.profile = call[c].profile
  BY <1>1 DEF CallRecord
<1>3. call'[c] = new /\ \A d \in Everyone \ {c} : call'[d] = call[d]
  BY <1>1 DEF TypeOK
<1> HIDE DEF new
<1>4. TypeOK'
  BY <1>1, <1>2 DEF TypeOK, CallRecord, Contents
<1>5. \A d \in Everyone : CallOK(d)'
  BY <1>1, <1>2, <1>3 DEF CallOK
<1>6. SeedsDiffer'
  BY <1>2, <1>3 DEF SeedsDiffer
<1>7. KeysInv'
  BY <1>1, NullAssumption DEF KeysInv, IsStored, Contents
<1>8. References'
  BY <1>1 DEF References, OwnOrGiven, SealedFor
<1>9. QED
  BY <1>4, <1>5, <1>6, <1>7, <1>8

(* A bundle is sealed with the key of its vault, ... *)
LEMMA SealInv ==
  ASSUME VaultInv, NEW c \in Callers, NEW b \in Bundles, Seal(c, b)
  PROVE  VaultInv'
<1> USE DEF VaultInv
<1> DEFINE new == [call[c] EXCEPT !.pc = "refer", !.bundle = b]
           sealed == [profile |-> call[c].profile, key |-> call[c].key]
<1>1. /\ c \in Everyone /\ call[c] \in CallRecord
      /\ call[c].pc = "ready" /\ call[c].op = "save"
      /\ call[c].profile \in Profiles /\ call[c].key \in writers \cup {Empty}
      /\ ~IsStored(b)
      /\ bundles' = [bundles EXCEPT ![b] = sealed]
      /\ call' = [call EXCEPT ![c] = new]
      /\ UNCHANGED <<keyFile, profiles, restarts, writers, inUse, foreign>>
  BY DEF Seal, IsFresh, TypeOK, CallRecord, CallOK, Everyone
<1>2. /\ new \in CallRecord /\ new.pc = "refer" /\ new.bundle = b
      /\ new.op = "save" /\ new.profile = call[c].profile
  BY <1>1 DEF CallRecord
<1>3. /\ call'[c] = new /\ \A d \in Everyone \ {c} : call'[d] = call[d]
      /\ bundles'[b] = sealed /\ \A a \in Bundles \ {b} : bundles'[a] = bundles[a]
  BY <1>1 DEF TypeOK
<1>4. sealed \in Sealed /\ sealed.profile = call[c].profile /\ sealed.key = call[c].key
  BY <1>1 DEF Sealed, Contents, TypeOK
<1>5. bundles[b].profile \notin Profiles
  BY <1>1, NullAssumption DEF IsStored, NoSealed
<1> HIDE DEF new, sealed
<1>6. TypeOK'
  BY <1>1, <1>2, <1>4 DEF TypeOK, CallRecord
<1>7. \A d \in Everyone : CallOK(d)'
  <2>1. CallOK(c)'
    BY <1>1, <1>2, <1>3, <1>4 DEF CallOK
  <2>2. ASSUME NEW d \in Everyone \ {c} PROVE CallOK(d)'
    BY <1>1, <1>3, <1>5, <2>2 DEF CallOK
  <2>3. QED
    BY <2>1, <2>2
<1>8. SeedsDiffer'
  BY <1>2, <1>3 DEF SeedsDiffer
<1>9. KeysInv'
  <2>1. ASSUME NEW k, InUse(k)' PROVE InUse(k)
    BY <1>1, <1>2, <1>3, <1>4, <2>1 DEF InUse, IsStored
  <2>2. ASSUME NEW a \in Bundles, IsStored(a)' PROVE bundles'[a].key \in writers \cup {Empty}
    BY <1>1, <1>3, <1>4, <2>2 DEF KeysInv, IsStored
  <2>3. QED
    BY <1>1, <2>1, <2>2 DEF KeysInv
<1>10. References'
  <2> SUFFICES ASSUME NEW p \in Profiles PROVE OwnOrGiven(p, profiles[p].bundle)'
    BY DEF References
  <2>1. OwnOrGiven(p, profiles[p].bundle) /\ profiles[p].bundle \in Bundles \cup {NoBundle}
    BY DEF References, TypeOK, Profile
  <2>2. QED
    BY <1>1, <1>3, <1>5, <2>1 DEF OwnOrGiven, SealedFor
<1>11. QED
  BY <1>6, <1>7, <1>8, <1>9, <1>10

(* ... and the profile refers to it. *)
LEMMA SaveReferenceInv ==
  ASSUME VaultInv, NEW c \in Callers, SaveReference(c)
  PROVE  VaultInv'
<1> USE DEF VaultInv
<1> DEFINE p0 == call[c].profile
           row == [call[c].read EXCEPT !.bundle = call[c].bundle]
<1>1. /\ c \in Everyone /\ call[c] \in CallRecord /\ p0 \in Profiles
      /\ call[c].bundle \in Bundles /\ bundles[call[c].bundle].profile = p0
      /\ profiles' = [profiles EXCEPT ![p0] = row]
      /\ call' = [call EXCEPT ![c] = NoCall]
      /\ UNCHANGED <<keyFile, bundles, restarts, writers, inUse, foreign>>
  BY DEF SaveReference, Return, TypeOK, CallRecord, CallOK, Everyone
<1>2. row \in Profile /\ row.bundle = call[c].bundle
  BY <1>1 DEF CallRecord, Profile
<1>3. profiles'[p0] = row /\ \A q \in Profiles \ {p0} : profiles'[q] = profiles[q]
  BY <1>1 DEF TypeOK
<1> HIDE DEF row
<1>4. profiles' \in [Profiles -> Profile]
  BY <1>1, <1>2 DEF TypeOK
<1>5. References'
  BY <1>1, <1>2, <1>3 DEF References, OwnOrGiven, SealedFor
<1>6. NoCall.pc = "idle" /\ NoCall.op = "none"
  BY DEF NoCall
<1>7. QED
  BY <1>1, <1>4, <1>5, <1>6, NoCallFact, CallInv

LEMMA RestartInv ==
  ASSUME VaultInv, Restart
  PROVE  VaultInv'
<1> USE DEF VaultInv
<1>1. \A c \in Everyone : call'[c].pc \in {"idle", "load"} /\ call'[c].op \in {"none", "warm"}
  BY DEF Restart, NoCall, Booting
<1>2. TypeOK'
  <2>1. call' \in [Everyone -> CallRecord]
    BY NoCallFact DEF Restart
  <2>2. restarts' \in 0..MaxRestarts
    BY BoundAssumption DEF Restart, TypeOK
  <2>3. QED
    BY <2>1, <2>2 DEF Restart, TypeOK, CallRecord
<1>3. (\A c \in Everyone : CallOK(c)') /\ SeedsDiffer'
  BY <1>1 DEF CallOK, SeedsDiffer
<1>4. KeysInv' /\ References'
  BY <1>1 DEF Restart, KeysInv, InUse, IsStored, References, OwnOrGiven, SealedFor
<1>5. QED
  BY <1>2, <1>3, <1>4

LEMMA VaultStep == VaultInv /\ [Next]_vars => VaultInv'
<1> SUFFICES ASSUME VaultInv, [Next]_vars PROVE VaultInv'
  OBVIOUS
<1>1. CASE VaultNext
  <2>1. Callers \subseteq Everyone
    BY DEF Everyone
  <2>2. QED
    BY <1>1, <2>1, BeginsInv, ProfileSaveInv, ReturnsInv, LoadKeyInv, DrawSeedInv,
       OpenKeyFileInv, WriteKeyFileInv, SealInv, SaveReferenceInv DEF VaultNext
<1>2. CASE Restart
  BY <1>2, RestartInv
<1>3. CASE UNCHANGED vars
  BY <1>3 DEF vars, VaultInv, TypeOK, CallOK, SeedsDiffer, KeysInv, InUse, IsStored,
              References, OwnOrGiven, SealedFor
<1>4. QED
  BY <1>1, <1>2, <1>3 DEF Next

(* What was named once stays sealed for its profile, or given to it.       *)
LEMMA OwnStays ==
  ASSUME VaultInv, [Next]_vars, NEW p \in Profiles, NEW b \in Bundles \cup {NoBundle},
         OwnOrGiven(p, b)
  PROVE  OwnOrGiven(p, b)'
<1>1. foreign \subseteq foreign'
  BY DEF Next, VaultNext, Restart, vars, VaultSaveBegins, RunBegins, ProfileSave, LoadKey,
         DrawSeed, OpenKeyFile, WriteKeyFile, KeyFails, Seal, SaveReference, SaveFails, OpenBundle
<1>2. ASSUME b \in Bundles, SealedFor(p, b) PROVE SealedFor(p, b)'
  <2>1. IsStored(b)
    BY <1>2, NullAssumption DEF SealedFor, IsStored, NoSealed
  <2>2. CASE \E c \in Callers, d \in Bundles : Seal(c, d)
    BY <1>2, <2>1, <2>2 DEF Seal, IsFresh, SealedFor, VaultInv, TypeOK
  <2>3. CASE UNCHANGED bundles
    BY <1>2, <2>3 DEF SealedFor
  <2>4. QED
    BY <2>2, <2>3 DEF Next, VaultNext, Restart, vars, VaultSaveBegins, RunBegins, ProfileSave,
       LoadKey, DrawSeed, OpenKeyFile, WriteKeyFile, KeyFails, SaveReference, SaveFails, OpenBundle
<1>3. QED
  BY <1>1, <1>2 DEF OwnOrGiven

-----------------------------------------------------------------------------
(* The schedule of cookie warming.                                         *)
(*                                                                         *)
(* A profile that is listed, or whose workflow runs, was due at this tick  *)
(* and is so still: nothing but its own run sets lastRuns.                 *)
DueSince(p) == lastRuns[p] = Never \/ tick - lastRuns[p] >= Interval

ScheduleInv ==
  /\ \A l, m \in todo : l.profile = m.profile => l = m
  /\ \A l \in todo : DueSince(l.profile) /\ l.profile # opened.profile
  /\ opened # NoneOpen => DueSince(opened.profile)
  /\ \A p \in Profiles : lastRuns[p] = Never \/ lastRuns[p] <= tick

WarmingInv == VaultInv /\ WarmingTypeOK /\ ScheduleInv /\ SecretsAreTheirOwn

LEMMA TicksFact == MaxTicks \in Nat /\ Interval \in Nat /\ Never = MaxTicks + 1
  BY WarmingAssumption DEF Never

LEMMA NoneOpenFact == NoneOpen \notin Listed /\ NoneOpen.profile \notin Profiles
  BY NullAssumption DEF NoneOpen, Listed

LEMMA WarmingInitInv == WarmingInit => WarmingInv
<1> SUFFICES ASSUME WarmingInit PROVE WarmingInv
  OBVIOUS
<1>1. VaultInv
  BY VaultInitInv DEF WarmingInit
<1>2. WarmingTypeOK
  BY <1>1, TicksFact DEF WarmingInit, WarmingTypeOK, VaultInv
<1>3. ScheduleInv
  BY DEF WarmingInit, ScheduleInv
<1>4. SecretsAreTheirOwn
  BY <1>1 DEF WarmingInit, SecretsAreTheirOwn, VaultInv, References
<1>5. QED
  BY <1>1, <1>2, <1>3, <1>4 DEF WarmingInv

LEMMA CheckInv ==
  ASSUME WarmingInv, Check
  PROVE  ScheduleInv' /\ WarmingTypeOK'
<1> USE DEF WarmingInv
<1>1. /\ opened = NoneOpen /\ UNCHANGED <<vars, opened, lastRuns>>
      /\ tick \in Nat /\ tick < MaxTicks /\ tick' = tick + 1
      /\ todo' = {[profile |-> p, bundle |-> profiles[p].bundle] :
                    p \in {q \in Profiles : IsDue(q)}}
  BY TicksFact DEF Check, Ready, WarmingTypeOK
<1>2. ASSUME NEW l \in todo'
      PROVE  /\ l.profile \in Profiles /\ IsDue(l.profile)
             /\ l = [profile |-> l.profile, bundle |-> profiles[l.profile].bundle]
  BY <1>1, <1>2
<1>3. ASSUME NEW p \in Profiles, IsDue(p) PROVE DueSince(p)'
  <2>1. lastRuns[p] \in Nat /\ lastRuns'[p] = lastRuns[p] /\ Interval \in Nat
    BY <1>1, TicksFact DEF WarmingTypeOK
  <2>2. lastRuns[p] = Never \/ tick' - lastRuns'[p] >= Interval
    BY <1>1, <1>3, <2>1 DEF IsDue
  <2>3. QED
    BY <2>1, <2>2 DEF DueSince, Never
<1>4. WarmingTypeOK'
  <2>1. todo' \subseteq Listed
    BY <1>1 DEF Listed, VaultInv, TypeOK, Profile
  <2>2. TypeOK'
    BY <1>1 DEF VaultInv, TypeOK, vars
  <2>3. tick' \in 0..MaxTicks
    BY <1>1, TicksFact
  <2>4. QED
    BY <1>1, <2>1, <2>2, <2>3 DEF WarmingTypeOK
<1>5. ScheduleInv'
  <2>1. \A l, m \in todo' : l.profile = m.profile => l = m
    BY <1>2
  <2>2. ASSUME NEW l \in todo' PROVE DueSince(l.profile)' /\ l.profile # opened'.profile
    <3>1. l.profile \in Profiles /\ IsDue(l.profile)
      BY <1>2
    <3>2. DueSince(l.profile)'
      BY <3>1, <1>3
    <3>3. l.profile # opened'.profile
      BY <1>1, <3>1, NoneOpenFact
    <3>4. QED
      BY <3>2, <3>3
  <2>3. \A p \in Profiles : lastRuns'[p] = Never \/ lastRuns'[p] <= tick'
    BY <1>1, TicksFact DEF ScheduleInv, WarmingTypeOK
  <2>4. QED
    BY <1>1, <2>1, <2>2, <2>3 DEF ScheduleInv, Never
<1>6. QED
  BY <1>4, <1>5

(* A listed profile is tried. *)
LEMMA TriedInv ==
  ASSUME WarmingInv, NEW l \in Listed, RunProfile(l) \/ RunProfileFails(l)
  PROVE  ScheduleInv' /\ WarmingTypeOK'
<1> USE DEF WarmingInv
<1>1. /\ opened = NoneOpen /\ l \in todo
      /\ todo' = todo \ {l} /\ opened' \in {l, NoneOpen}
      /\ UNCHANGED <<vars, tick, lastRuns>>
  BY DEF RunProfile, RunProfileFails, Ready
<1>2. WarmingTypeOK'
  BY <1>1 DEF WarmingTypeOK, VaultInv, TypeOK, vars, Never
<1>3. ScheduleInv'
  <2>1. ASSUME NEW m \in todo' PROVE DueSince(m.profile)' /\ m.profile # opened'.profile
    <3>1. m \in todo /\ m # l /\ m.profile # l.profile /\ m.profile \in Profiles
      BY <1>1 DEF ScheduleInv, WarmingTypeOK, Listed
    <3>2. DueSince(m.profile)'
      BY <1>1, <3>1 DEF ScheduleInv, DueSince, Never
    <3>3. QED
      BY <1>1, <3>1, <3>2, NoneOpenFact
  <2>2. DueSince(l.profile)'
    BY <1>1 DEF ScheduleInv, DueSince, Never
  <2>3. QED
    BY <1>1, <2>1, <2>2 DEF ScheduleInv, Never
<1>4. QED
  BY <1>2, <1>3

(* A run ends: it came back, at the tick it was listed at, or not.         *)
LEMMA RanInv ==
  ASSUME WarmingInv, Ran \/ NotRun
  PROVE  ScheduleInv' /\ WarmingTypeOK'
<1> USE DEF WarmingInv
<1>1. /\ opened \in Listed /\ opened.profile \in Profiles
      /\ opened' = NoneOpen /\ UNCHANGED <<vars, tick, todo>>
      /\ \/ lastRuns' = [lastRuns EXCEPT ![opened.profile] = tick]
         \/ UNCHANGED lastRuns
      /\ tick \in 0..MaxTicks /\ tick \in 0..Never
  BY TicksFact DEF Ran, NotRun, WarmingTypeOK, Listed
<1>2. WarmingTypeOK'
  BY <1>1, TicksFact DEF WarmingTypeOK, VaultInv, TypeOK, vars
<1>3. ScheduleInv'
  <2>1. ASSUME NEW m \in todo PROVE DueSince(m.profile)' /\ m.profile # opened'.profile
    <3>1. m.profile \in Profiles /\ m.profile # opened.profile /\ DueSince(m.profile)
      BY DEF ScheduleInv, WarmingTypeOK, Listed
    <3>2. lastRuns'[m.profile] = lastRuns[m.profile]
      BY <1>1, <3>1 DEF WarmingTypeOK
    <3>3. QED
      BY <1>1, <3>1, <3>2, NoneOpenFact DEF DueSince, Never
  <2>2. \A p \in Profiles : lastRuns'[p] = Never \/ lastRuns'[p] <= tick
    BY <1>1 DEF ScheduleInv, WarmingTypeOK
  <2>3. QED
    BY <1>1, <2>1, <2>2 DEF ScheduleInv, Never
<1>4. QED
  BY <1>2, <1>3

(* What is listed and opened is a reference that a profile had.            *)
LEMMA SecretsStep ==
  ASSUME WarmingInv, [WarmingNext]_wvars, [Next]_vars, References'
  PROVE  SecretsAreTheirOwn'
<1> USE DEF WarmingInv
<1>1. ASSUME NEW l \in Listed, OwnOrGiven(l.profile, l.bundle)
      PROVE  OwnOrGiven(l.profile, l.bundle)'
  BY <1>1, OwnStays DEF Listed
<1>2. ASSUME NEW p \in Profiles PROVE OwnOrGiven(p, profiles[p].bundle)'
  BY DEF References
<1>3. ASSUME NEW l \in todo' PROVE OwnOrGiven(l.profile, l.bundle)'
  <2>1. CASE l \in todo
    BY <1>1, <2>1 DEF SecretsAreTheirOwn, WarmingTypeOK
  <2>2. CASE l \notin todo
    <3>1. Check
      BY <2>2 DEF WarmingNext, wvars, warmVars, WarmingRestarts, RunProfile, RunProfileFails,
                  Ran, NotRun
    <3>2. PICK p \in Profiles : l = [profile |-> p, bundle |-> profiles[p].bundle]
      BY <3>1 DEF Check
    <3>3. profiles' = profiles
      BY <3>1 DEF Check, vars
    <3>4. QED
      BY <1>2, <3>2, <3>3
  <2>3. QED
    BY <2>1, <2>2
<1>4. ASSUME opened' # NoneOpen PROVE OwnOrGiven(opened.profile, opened.bundle)'
  <2>1. opened' = opened \/ opened' \in todo
    BY <1>4 DEF WarmingNext, wvars, warmVars, WarmingRestarts, Check, RunProfile,
                RunProfileFails, Ran, NotRun
  <2>2. opened' \in Listed /\ OwnOrGiven(opened'.profile, opened'.bundle)
    BY <1>4, <2>1 DEF SecretsAreTheirOwn, WarmingTypeOK
  <2>3. PICK l \in Listed : l = opened' /\ OwnOrGiven(l.profile, l.bundle)
    BY <2>2
  <2>4. QED
    BY <1>1, <2>3
<1>5. QED
  BY <1>2, <1>3, <1>4 DEF SecretsAreTheirOwn

LEMMA WarmingStep == WarmingInv /\ [WarmingNext]_wvars => WarmingInv'
<1> SUFFICES ASSUME WarmingInv, [WarmingNext]_wvars PROVE WarmingInv'
  OBVIOUS
<1>1. [Next]_vars
  BY DEF WarmingNext, Next, Check, RunProfile, RunProfileFails, Ran, NotRun, wvars
<1>2. VaultInv' /\ TypeOK'
  BY <1>1, VaultStep DEF WarmingInv, VaultInv
<1>3. ScheduleInv' /\ WarmingTypeOK'
  <2>1. CASE UNCHANGED warmVars
    BY <1>2, <2>1 DEF warmVars, WarmingInv, ScheduleInv, DueSince, WarmingTypeOK, Never
  <2>2. CASE Restart /\ WarmingRestarts
    <3>1. /\ tick' = 0 /\ todo' = {} /\ opened' = NoneOpen
          /\ lastRuns' = [p \in Profiles |-> Never]
      BY <2>2 DEF WarmingRestarts
    <3>2. WarmingTypeOK'
      BY <1>2, <3>1, TicksFact DEF WarmingTypeOK
    <3>3. ScheduleInv'
      BY <3>1 DEF ScheduleInv, Never
    <3>4. QED
      BY <3>2, <3>3
  <2>3. CASE Check
    BY <2>3, CheckInv
  <2>4. ASSUME NEW l \in Listed, RunProfile(l) \/ RunProfileFails(l)
        PROVE  ScheduleInv' /\ WarmingTypeOK'
    BY <2>4, TriedInv
  <2>5. CASE Ran \/ NotRun
    BY <2>5, RanInv
  <2>6. QED
    BY <2>1, <2>2, <2>3, <2>4, <2>5 DEF WarmingNext, wvars
<1>4. SecretsAreTheirOwn'
  BY <1>1, <1>2, SecretsStep DEF VaultInv
<1>5. QED
  BY <1>2, <1>3, <1>4 DEF WarmingInv

LEMMA WarmingInvariant == WarmingSpec => []WarmingInv
  BY WarmingInitInv, WarmingStep, PTL DEF WarmingSpec

-----------------------------------------------------------------------------

(* The variables keep their types. *)
THEOREM WarmingTypeCorrect == WarmingSpec => []WarmingTypeOK
<1>1. WarmingInv => WarmingTypeOK
  BY DEF WarmingInv
<1>2. QED
  BY <1>1, WarmingInvariant, PTL

(* The bundles that profiles name, that ticks list and that workflows run  *)
(* with are sealed for their profile, unless a client gave the profile     *)
(* another by auth.profiles.save.                                          *)
THEOREM SecretsStayTheirOwn == WarmingSpec => []SecretsAreTheirOwn
<1>1. WarmingInv => SecretsAreTheirOwn
  BY DEF WarmingInv
<1>2. QED
  BY <1>1, WarmingInvariant, PTL

(* A key in use is that of the file, or that of the empty file, unless two *)
(* calls have written the file.                                            *)
THEOREM StrangeKeysAreCaused == WarmingSpec => []StrangeKeysHaveACause
<1>1. WarmingInv => StrangeKeysHaveACause
  <2> SUFFICES ASSUME WarmingInv, NEW k \in KeysInUse, k \notin {keyFile, Empty}
               PROVE  Cardinality(writers) > 1
    BY DEF StrangeKeysHaveACause
  <2> USE DEF WarmingInv, VaultInv
  <2>1. InUse(k) /\ k \in writers
    BY DEF KeysInUse, InUse, KeysInv, CallOK
  <2>2. writers # {k}
    BY <2>1 DEF KeysInv, TypeOK
  <2>3. /\ IsFiniteSet(writers) /\ Cardinality(writers) \in Nat
        /\ Cardinality(writers) # 0
    BY <2>1, FS_EmptySet, FS_CardinalityType DEF KeysInv
  <2>4. Cardinality(writers) # 1
    BY <2>1, <2>2, <2>3, FS_Singleton
  <2>5. QED
    BY <2>3, <2>4
<1>2. QED
  BY <1>1, WarmingInvariant, PTL

(* Runs of one profile that came back were listed an interval apart.       *)
THEOREM RunsKeepTheInterval == WarmingSpec => RunsAreSpaced
<1>1. WarmingInv /\ [WarmingNext]_wvars =>
        [\A p \in Profiles : lastRuns[p] # Never /\ lastRuns'[p] \notin {Never, lastRuns[p]} =>
           lastRuns'[p] - lastRuns[p] >= Interval]_wvars
  <2> SUFFICES ASSUME WarmingInv, WarmingNext, NEW p \in Profiles, lastRuns[p] # Never,
                      lastRuns'[p] \notin {Never, lastRuns[p]}
               PROVE  lastRuns'[p] - lastRuns[p] >= Interval
    BY DEF Never
  <2>1. Ran
    BY DEF WarmingNext, warmVars, WarmingRestarts, Check, RunProfile, RunProfileFails, NotRun
  <2>2. opened # NoneOpen /\ p = opened.profile /\ lastRuns'[p] = tick
    BY <2>1 DEF Ran, WarmingInv, WarmingTypeOK
  <2>3. QED
    BY <2>2 DEF WarmingInv, ScheduleInv, DueSince
<1>2. QED
  BY <1>1, WarmingInvariant, PTL DEF WarmingSpec, RunsAreSpaced

=============================================================================
