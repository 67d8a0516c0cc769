------------------------------ MODULE HarImport ------------------------------
(***************************************************************************)
(* internal/harimport on top of the blob store and the flows table: each   *)
(* har.import call runs Import on its own connection's goroutine.  For     *)
(* each entry it puts the request body and the response body and then      *)
(* inserts the flow row that names both; the first error ends the call and *)
(* nothing is undone.  Replay, browser capture and the proxy record one    *)
(* flow at a time by the same three calls, as a document of one entry.     *)
(***************************************************************************)
EXTENDS BlobStore, Sequences, FiniteSets

CONSTANTS Documents,   \* HAR documents: sequences of [request, response] bodies
          MaxRestarts  \* bound: crashes of the daemon

ASSUME DocumentAssumption ==
  Documents \subseteq Seq([request : Bodies \cup {NoBody}, response : Bodies \cup {NoBody}])

ASSUME RestartAssumption == MaxRestarts \in Nat

VARIABLES
  sessions,  \* the calls whose session row is in the store
  rows,      \* call -> its flow rows: entry number -> [request, response, tagged]
  import,    \* call -> [pc, doc, entry]
  restarts

vars == <<blobVars, sessions, rows, import, restarts>>

Entry(i) == import[i].doc[import[i].entry]

Goto(i, l) == import' = [import EXCEPT ![i].pc = l]

(* Import, lines 49-69. *)
EnsureSession(i, doc) ==
  /\ import[i].pc = "idle"
  /\ \/ /\ sessions' = sessions \cup {i}
        /\ import' = [import EXCEPT ![i] =
                        [pc |-> IF doc = <<>> THEN "done" ELSE "entry",
                         doc |-> doc, entry |-> 1]]
     \/ /\ IOFaults
        /\ Goto(i, "error")
        /\ UNCHANGED sessions
  /\ UNCHANGED <<blobVars, rows, restarts>>

(* importEntry, line 111. *)
PutRequest(i) ==
  /\ import[i].pc = "entry"
  /\ PutBegins(i, Entry(i).request)
  /\ Goto(i, "request")
  /\ UNCHANGED <<sessions, rows, restarts>>

(* Line 115, once the first Put has returned a hash. *)
PutResponse(i) ==
  /\ import[i].pc = "request" /\ put[i].at = "hash"
  /\ PutBegins(i, Entry(i).response)
  /\ Goto(i, "response")
  /\ UNCHANGED <<sessions, rows, restarts>>

(* Lines 126-143: one statement; the key on sessions holds. *)
InsertFlow(i) ==
  /\ import[i].pc = "response" /\ put[i].at = "hash"
  /\ rows' = [rows EXCEPT ![i] = Append(@, [request |-> Entry(i).request,
                                            response |-> Entry(i).response,
                                            tagged |-> FALSE])]
  /\ put' = [put EXCEPT ![i] = NoPut]
  /\ Goto(i, "tag")
  /\ UNCHANGED <<file, cut, sessions, restarts>>

(* Lines 144-150: the errors of TagFlow are ignored.  Then the next entry. *)
TagFlow(i) ==
  /\ import[i].pc = "tag"
  /\ \/ rows' = [rows EXCEPT ![i][import[i].entry].tagged = TRUE]
     \/ IOFaults /\ UNCHANGED rows
  /\ import' = [import EXCEPT
       ![i].pc = IF import[i].entry < Len(import[i].doc) THEN "entry" ELSE "done",
       ![i].entry = @ + 1]
  /\ UNCHANGED <<blobVars, sessions, restarts>>

(* Mutant of EntryFails: an entry that fails is skipped. *)
SkipEntry(i) ==
  /\ \/ import[i].pc \in {"request", "response"} /\ put[i].at = "error"
     \/ IOFaults /\ import[i].pc = "response" /\ put[i].at = "hash"
  /\ put' = [put EXCEPT ![i] = NoPut]
  /\ import' = [import EXCEPT
       ![i].pc = IF import[i].entry < Len(import[i].doc) THEN "entry" ELSE "done",
       ![i].entry = @ + 1]
  /\ UNCHANGED <<file, cut, sessions, rows, restarts>>

(* Lines 112, 116, 141 and 80: a Put or the insert failed. *)
EntryFails(i) ==
  /\ \/ import[i].pc \in {"request", "response"} /\ put[i].at = "error"
     \/ IOFaults /\ import[i].pc = "response" /\ put[i].at = "hash"
  /\ put' = [put EXCEPT ![i] = NoPut]
  /\ Goto(i, "error")
  /\ UNCHANGED <<file, cut, sessions, rows, restarts>>

Storing(i) == PutStep(i) /\ UNCHANGED <<sessions, rows, import, restarts>>

Ended == {"done", "error", "lost"}

(* The daemon dies and is started again: files and rows persist. *)
CrashAndRestart ==
  /\ restarts < MaxRestarts
  /\ restarts' = restarts + 1
  /\ BlobCrash
  /\ import' = [i \in Callers |->
       IF import[i].pc \in {"idle"} \cup Ended THEN import[i]
       ELSE [import[i] EXCEPT !.pc = "lost"]]
  /\ UNCHANGED <<sessions, rows>>

-----------------------------------------------------------------------------

Init ==
  /\ BlobInit
  /\ sessions = {}
  /\ rows = [i \in Callers |-> <<>>]
  /\ import = [i \in Callers |-> [pc |-> "idle", doc |-> <<>>, entry |-> 1]]
  /\ restarts = 0

Importing(i) ==
  \/ PutRequest(i)
  \/ PutResponse(i)
  \/ InsertFlow(i)
  \/ TagFlow(i)
  \/ EntryFails(i)
  \/ Storing(i)

Next ==
  \/ \E i \in Callers, doc \in Documents : EnsureSession(i, doc)
  \/ \E i \in Callers : Importing(i)
  \/ CrashAndRestart

(* A goroutine inside Import keeps being scheduled, and file and store     *)
(* calls return.                                                           *)
Fairness == \A i \in Callers : WF_vars(Importing(i))

Spec == Init /\ [][Next]_vars /\ Fairness

-----------------------------------------------------------------------------

Row == [request : Bodies \cup {NoBody}, response : Bodies \cup {NoBody}, tagged : BOOLEAN]

(* The types of the variables. *)
TypeOK ==
  /\ BlobTypeOK
  /\ sessions \subseteq Callers
  /\ rows \in [Callers -> Seq(Row)]
  /\ import \in [Callers -> [pc : {"idle", "entry", "request", "response", "tag"} \cup Ended,
                             doc : Documents \cup {<<>>}, entry : Nat \ {0}]]
  /\ restarts \in 0..MaxRestarts

Named(b) == \E i \in Callers : \E n \in DOMAIN rows[i] :
              b \in {rows[i][n].request, rows[i][n].response}

(* The row comes after its bodies: each body that a flow row names has a   *)
(* file, and if flows.read cannot read it then a write of that very body   *)
(* was left unfinished, or another goroutine that had not seen the file is *)
(* writing it again.                                                       *)
UnreadableHasACause ==
  \A b \in Bodies : Named(b) =>
    /\ file[b].exists
    /\ Readable(b) \/ b \in cut \/ \E i \in Callers : Writing(i, b)

(* The flows of an imported session are the document's first entries, in   *)
(* order and without a gap, whatever failed; all of them when Import       *)
(* returned a result.                                                      *)
SessionIsAPrefix ==
  \A i \in Callers :
    /\ rows[i] # <<>> => i \in sessions
    /\ Len(rows[i]) <= Len(import[i].doc)
    /\ \A n \in DOMAIN rows[i] : /\ rows[i][n].request = import[i].doc[n].request
                                 /\ rows[i][n].response = import[i].doc[n].response
    /\ import[i].pc = "done" => i \in sessions /\ Len(rows[i]) = Len(import[i].doc)

(* Every body that a flow row names is sooner or later readable for good,  *)
(* unless a write of it was left unfinished: goroutines that write the     *)
(* same file over each other do not leave it broken.                       *)
NamedBodiesSettle ==
  \A b \in Bodies : Named(b) ~> [](Readable(b) \/ b \in cut)

(* A body whose hash Put returned can be read back unless a write of it    *)
(* goes on: blobstore_test.go:18 has "restored, err := store.Get(hash)",   *)
(* which is to give the original.                                          *)
PutThenGet ==
  \A i \in Callers, b \in Bodies :
    put[i].at = "hash" /\ put[i].body = b /\ (\A j \in Callers : ~Writing(j, b))
      => Readable(b)

=============================================================================
