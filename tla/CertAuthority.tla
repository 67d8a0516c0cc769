--------------------------- MODULE CertAuthority ---------------------------
(***************************************************************************)
(* internal/certs and internal/truststore, with the handlers ca.trust,     *)
(* ca.revoke_trust and ca.rotate: the root that signs the certificates of  *)
(* intercepted hosts, the two files it is kept in, and the system keychain *)
(* that trusts it.  Rotate and TLSCertificateForHost share a mutex; trust  *)
(* and revoke take none and name the certificate by its path.              *)
(*                                                                         *)
(* A root stands for one key pair.  The certificate file holds the         *)
(* certificate of a root, the key file the key of a root: not necessarily  *)
(* of the same one.  A file being written is Torn, and remains so when the *)
(* writing is cut.                                                         *)
(***************************************************************************)
EXTENDS Naturals

CONSTANTS Roots,      \* key pairs that create may draw; never the same twice
          Hosts,      \* host names of CONNECT, without their ports
          Missing,    \* no such file
          Torn,       \* a file that was emptied or half written
          NoRoot, NoLeaf,
          LeafLife,   \* lifetime of a leaf certificate, in units of time
          MaxTime,    \* bound: the last instant
          MaxStarts,  \* bound: starts of the daemon
          IOFaults    \* may an access to the files fail?

ASSUME NullAssumption == /\ Missing \notin Roots /\ Torn \notin Roots
                         /\ NoRoot \notin Roots
ASSUME TimeAssumption == LeafLife \in Nat /\ MaxTime \in Nat
ASSUME StartsAssumption == MaxStarts \in Nat
ASSUME FaultAssumption == IOFaults \in BOOLEAN

VARIABLES
  certFile, keyFile,  \* deconstruct-root-ca.pem, deconstruct-root-ca-key.pem
  trusted,            \* roots that the system keychain trusts
  daemon,             \* where the process is
  ca,                 \* the root in memory: certificate and key
  leaves,             \* leafCache
  making,             \* the create that goes on, which for Rotate holds mu
  now,
  starts,
  used,               \* history: roots that were drawn
  cut                 \* history: was a create left that had emptied the certificate?

caVars == <<certFile, keyFile, trusted, daemon, ca, leaves, making, now, starts, used, cut>>

Leaf == [root : Roots, until : 0..(MaxTime + LeafLife)]

ASSUME LeafAssumption == NoLeaf \notin Leaf

NoCA == [cert |-> NoRoot, key |-> NoRoot]

NotMaking == [pc |-> "idle", root |-> NoRoot]

NoLeaves == [h \in Hosts |-> NoLeaf]

Serving == daemon \in {"up", "draining", "late"}

(* The mutex is free. *)
Unlocked == making.pc = "idle"

-----------------------------------------------------------------------------
(* create, authority.go:155-190: the certificate is written, then the key, *)
(* then both are loaded.                                                   *)

Goto(l) == making' = [making EXCEPT !.pc = l]

Draw(r) ==
  /\ r \in Roots \ used
  /\ used' = used \cup {r}
  /\ making' = [pc |-> "openCert", root |-> r]

(* LoadOrCreate, lines 36-41: only a missing certificate file leads here.  *)
CreateBegins(r) ==
  /\ daemon = "boot" /\ Unlocked
  /\ certFile = Missing
  /\ Draw(r)
  /\ UNCHANGED <<certFile, keyFile, trusted, daemon, ca, leaves, now, starts, cut>>

(* ca.rotate: Rotate takes the mutex and creates anew, lines 56-59. *)
RotateBegins(r) ==
  /\ Serving /\ Unlocked
  /\ Draw(r)
  /\ UNCHANGED <<certFile, keyFile, trusted, daemon, ca, leaves, now, starts, cut>>

(* Lines 183-185, os.WriteFile: the file is emptied, ... *)
OpenCertFile ==
  /\ making.pc = "openCert"
  /\ certFile' = Torn
  /\ Goto("writeCert")
  /\ UNCHANGED <<keyFile, trusted, daemon, ca, leaves, now, starts, used, cut>>

(* ... and filled. *)
WriteCertFile ==
  /\ making.pc = "writeCert"
  /\ certFile' = making.root
  /\ Goto("openKey")
  /\ UNCHANGED <<keyFile, trusted, daemon, ca, leaves, now, starts, used, cut>>

(* Lines 186-188, the same for the key. *)
OpenKeyFile ==
  /\ making.pc = "openKey"
  /\ keyFile' = Torn
  /\ Goto("writeKey")
  /\ UNCHANGED <<certFile, trusted, daemon, ca, leaves, now, starts, used, cut>>

(* Mutant of WriteKeyFile: the old key is written again. *)
WriteOldKey ==
  /\ making.pc = "writeKey"
  /\ keyFile' = IF ca = NoCA THEN making.root ELSE ca.key
  /\ Goto("load")
  /\ UNCHANGED <<certFile, trusted, daemon, ca, leaves, now, starts, used, cut>>

WriteKeyFile ==
  /\ making.pc = "writeKey"
  /\ keyFile' = making.root
  /\ Goto("load")
  /\ UNCHANGED <<certFile, trusted, daemon, ca, leaves, now, starts, used, cut>>

(* Mutant of AfterLoad: Rotate replaces the root and keeps the cache. *)
KeepLeaves == IF daemon = "boot" THEN NoLeaves ELSE leaves

(* load makes an empty cache, line 151; Rotate empties its own, line 66. *)
AfterLoad == NoLeaves

(* Mutant of Readable: the certificate is not decoded. *)
KeyDecodes == keyFile \in Roots

(* load, lines 120-153: both files must decode; nothing compares them.     *)
Readable == certFile \in Roots /\ keyFile \in Roots

Load ==
  /\ making.pc = "load" \/ (daemon = "boot" /\ Unlocked /\ certFile # Missing)
  /\ Readable
  /\ ca' = [cert |-> certFile, key |-> keyFile]
  /\ leaves' = AfterLoad
  /\ making' = NotMaking
  /\ daemon' = IF daemon = "boot" THEN "up" ELSE daemon
  /\ UNCHANGED <<certFile, keyFile, trusted, now, starts, used, cut>>

Half == making.pc \in {"writeCert", "openKey", "writeKey"}

(* LoadOrCreate fails, and main returns the error: cmd/deconstructd/       *)
(* main.go:78-81.  The next start meets the same files.                    *)
BootFails ==
  /\ daemon = "boot"
  /\ \/ Unlocked /\ certFile # Missing /\ (IOFaults \/ ~Readable)
     \/ ~Unlocked /\ IOFaults
  /\ daemon' = "down"
  /\ making' = NotMaking
  /\ cut' = (cut \/ Half)
  /\ UNCHANGED <<certFile, keyFile, trusted, ca, leaves, now, starts, used>>

(* Mutant of RotateFails: the mutex is not given back. *)
KeepMutex ==
  /\ IOFaults
  /\ Serving /\ ~Unlocked
  /\ Goto("load")
  /\ UNCHANGED <<certFile, keyFile, trusted, daemon, ca, leaves, now, starts, used, cut>>

(* Rotate returns an error, lines 59-62: the root in memory stays.         *)
RotateFails ==
  /\ IOFaults
  /\ Serving /\ ~Unlocked
  /\ making' = NotMaking
  /\ cut' = (cut \/ making.pc # "openCert")
  /\ UNCHANGED <<certFile, keyFile, trusted, daemon, ca, leaves, now, starts, used>>

-----------------------------------------------------------------------------
(* TLSCertificateForHost, lines 70-118, under the mutex. *)

(* x509.CreateCertificate refuses a key that is not the certificate's. *)
CanSign == ca.cert = ca.key

HasLeaf(h) == leaves[h] # NoLeaf \/ CanSign

(* Lines 78-80 and 95-96: what the cache has, however old, or a new one. *)
LeafFor(h) ==
  IF leaves[h] # NoLeaf THEN leaves[h] ELSE [root |-> ca.cert, until |-> now + LeafLife]

TakeLeaf(h) ==
  /\ Unlocked
  /\ HasLeaf(h)
  /\ leaves' = [leaves EXCEPT ![h] = LeafFor(h)]

(* A client's check of a leaf (external). *)
Acceptable(leaf) == leaf.root \in trusted /\ now <= leaf.until

-----------------------------------------------------------------------------
(* The trust store: the security command reads the file at the path. *)

(* ca.trust: TrustRoot, truststore.go:30-38. *)
TrustRoot ==
  /\ daemon = "up"
  /\ certFile \in Roots
  /\ trusted' = trusted \cup {certFile}
  /\ UNCHANGED <<certFile, keyFile, daemon, ca, leaves, making, now, starts, used, cut>>

(* ca.revoke_trust: RevokeRoot, lines 40-48. *)
RevokeRoot ==
  /\ daemon = "up"
  /\ certFile \in Roots
  /\ trusted' = trusted \ {certFile}
  /\ UNCHANGED <<certFile, keyFile, daemon, ca, leaves, making, now, starts, used, cut>>

-----------------------------------------------------------------------------

Boot ==
  /\ daemon = "down" /\ starts < MaxStarts
  /\ daemon' = "boot"
  /\ starts' = starts + 1
  /\ UNCHANGED <<certFile, keyFile, trusted, ca, leaves, making, now, used, cut>>

(* The process is gone, and with it what it had in memory. *)
Gone ==
  /\ daemon' = "down"
  /\ ca' = NoCA
  /\ leaves' = NoLeaves
  /\ making' = NotMaking
  /\ cut' = (cut \/ Half)
  /\ UNCHANGED <<certFile, keyFile, trusted, now, starts, used>>

Tick ==
  /\ now < MaxTime
  /\ now' = now + 1
  /\ UNCHANGED <<certFile, keyFile, trusted, daemon, ca, leaves, making, starts, used, cut>>

CAInit ==
  /\ certFile = Missing /\ keyFile = Missing
  /\ trusted = {}
  /\ daemon = "down"
  /\ ca = NoCA
  /\ leaves = NoLeaves
  /\ making = NotMaking
  /\ now = 0 /\ starts = 0
  /\ used = {} /\ cut = FALSE

(* The steps that are the authority's alone. *)
CANext ==
  \/ \E r \in Roots : CreateBegins(r) \/ RotateBegins(r)
  \/ OpenCertFile \/ WriteCertFile \/ OpenKeyFile \/ WriteKeyFile
  \/ Load \/ BootFails \/ RotateFails
  \/ TrustRoot \/ RevokeRoot
  \/ Boot \/ Tick

-----------------------------------------------------------------------------
(* The types of the authority's variables. *)
CATypeOK ==
  /\ certFile \in Roots \cup {Missing, Torn}
  /\ keyFile \in Roots \cup {Missing, Torn}
  /\ trusted \subseteq Roots
  /\ daemon \in {"down", "boot", "up", "draining", "late"}
  /\ ca \in [cert : Roots \cup {NoRoot}, key : Roots \cup {NoRoot}]
  /\ leaves \in [Hosts -> Leaf \cup {NoLeaf}]
  /\ making \in [pc : {"idle", "openCert", "writeCert", "openKey", "writeKey", "load"},
                 root : Roots \cup {NoRoot}]
  /\ now \in 0..MaxTime /\ starts \in 0..MaxStarts
  /\ used \subseteq Roots /\ cut \in BOOLEAN

(* docs/backend.md:76, "ca.rotate replaces the local root CA and clears    *)
(* the daemon's generated leaf-certificate cache": each certificate in the *)
(* cache was signed by the root that is in memory now, with its own key.   *)
LeavesComeFromTheRoot ==
  \A h \in Hosts : leaves[h] # NoLeaf => leaves[h].root = ca.cert /\ CanSign

(* What ca.trust trusts and a restart loads is what signs the leaves: the  *)
(* files hold the certificate and the key of the root in memory, unless a  *)
(* rotation is going on or the writing of the files was once cut.          *)
FilesAreTheRoot ==
  Serving /\ Unlocked /\ ~cut => certFile = ca.cert /\ keyFile = ca.key /\ CanSign

=============================================================================
