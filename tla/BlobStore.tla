------------------------------ MODULE BlobStore ------------------------------
(***************************************************************************)
(* internal/blobstore: bodies kept as compressed files named by their      *)
(* SHA-256.  Put checks whether the file exists and, if not, writes it in  *)
(* place (os.WriteFile: open with O_TRUNC, write, close); nothing is       *)
(* locked, synced or renamed.  Every recorder of flows calls Put from a    *)
(* goroutine of its own: har.import, replay, browser capture and the proxy.*)
(*                                                                         *)
(* A body stands for its own hash.  Its file is a set of parts: the writes *)
(* of the compressed bytes, each at its own offset, so that a part that a  *)
(* truncation took away leaves a hole below the later ones.                *)
(***************************************************************************)
EXTENDS Naturals

CONSTANTS Bodies,    \* non-empty bodies; distinct bodies have distinct hashes
          NoBody,    \* the empty body, whose hash is the empty string
          Callers,   \* goroutines that call Put
          Parts,     \* writes that one file takes
          IOFaults   \* may a stat, an open or a write fail?

ASSUME PartsAssumption == Parts \in Nat \ {0}
ASSUME BodyAssumption == NoBody \notin Bodies
ASSUME FaultAssumption == IOFaults \in BOOLEAN

VARIABLES
  file,   \* body -> its file: does it exist, and which parts are written
  put,    \* caller -> its call of Put
  cut     \* history: the bodies of which a write was left unfinished

blobVars == <<file, put, cut>>

AllParts == 1..Parts

File == [exists : BOOLEAN, parts : SUBSET AllParts]

NoPut == [at |-> "none", body |-> NoBody, part |-> 1]

PutCall == [at : {"none", "open", "write", "hash", "error"},
            body : Bodies \cup {NoBody}, part : 1..(Parts + 1)]

(* Get, lines 57-79: an error unless the file decodes to bytes that have   *)
(* the hash asked for.                                                     *)
Readable(b) == file[b].exists /\ file[b].parts = AllParts

Writing(i, b) == put[i].at = "write" /\ put[i].body = b

(* Mutant of Missing: a body known to another goroutine counts as stored. *)
MissingAndUnclaimed(b) ==
  /\ b \in Bodies
  /\ ~file[b].exists
  /\ \A i \in Callers : put[i].body # b

(* Put, lines 27-33: the empty body has no file, and a file that exists    *)
(* counts as the whole body.                                               *)
Missing(b) == b \in Bodies /\ ~file[b].exists

(* Put up to line 37: a body that is not missing needs no write; os.Stat   *)
(* may fail.                                                               *)
PutBegins(i, b) ==
  /\ \E at \in {IF Missing(b) THEN "open" ELSE "hash"}
              \cup (IF IOFaults /\ b \in Bodies THEN {"error"} ELSE {}) :
       put' = [put EXCEPT ![i] = [at |-> at, body |-> b, part |-> 1]]
  /\ UNCHANGED <<file, cut>>

(* Compressing fails, the open fails, or a write fails (disk full): the    *)
(* error is returned and the file is left as it is.                        *)
PutFails(i) ==
  /\ IOFaults
  /\ put[i].at \in {"open", "write"}
  /\ put' = [put EXCEPT ![i].at = "error"]
  /\ cut' = cut \cup {b \in Bodies : Writing(i, b)}
  /\ UNCHANGED file

(* Line 51: the file is created, or emptied. *)
OpenFile(i) ==
  /\ put[i].at = "open"
  /\ file' = [file EXCEPT ![put[i].body] = [exists |-> TRUE, parts |-> {}]]
  /\ put' = [put EXCEPT ![i].at = "write"]
  /\ UNCHANGED cut

(* Mutant of Finished: the last write is forgotten. *)
OnePartShort(part) == part >= Parts - 1

(* Mutant of Finished: one write too many. *)
OnePartLate(part) == part > Parts

Finished(part) == part >= Parts

WritePart(i) ==
  /\ put[i].at = "write"
  /\ file' = [file EXCEPT ![put[i].body].parts = @ \cup {put[i].part}]
  /\ put' = [put EXCEPT ![i].part = @ + 1,
                        ![i].at = IF Finished(put[i].part) THEN "hash" ELSE "write"]
  /\ UNCHANGED cut

PutStep(i) == OpenFile(i) \/ WritePart(i) \/ PutFails(i)

(* The process ends: calls are forgotten, files stay as they are. *)
BlobCrash ==
  /\ put' = [i \in Callers |-> NoPut]
  /\ cut' = cut \cup {b \in Bodies : \E i \in Callers : Writing(i, b)}
  /\ UNCHANGED file

BlobInit ==
  /\ file = [b \in Bodies |-> [exists |-> FALSE, parts |-> {}]]
  /\ put = [i \in Callers |-> NoPut]
  /\ cut = {}

-----------------------------------------------------------------------------

BlobTypeOK ==
  /\ file \in [Bodies -> File]
  /\ put \in [Callers -> PutCall]
  /\ cut \subseteq Bodies

(* A hole in a file is the doing of a Put that was left unfinished or of   *)
(* one that is still below the hole, however many goroutines write the     *)
(* same file and truncate each other's work.                               *)
HolesHaveACause ==
  \A b \in Bodies : file[b].exists =>
    \A k \in AllParts \ file[b].parts :
      \/ b \in cut
      \/ \E i \in Callers : Writing(i, b) /\ put[i].part <= k

=============================================================================
