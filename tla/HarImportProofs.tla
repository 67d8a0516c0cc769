--------------------------- MODULE HarImportProofs ---------------------------
(***************************************************************************)
(* Proofs about BlobStore and HarImport, for every set of bodies, callers  *)
(* and documents, any number of writes per file and of restarts, and with  *)
(* or without failing file operations.                                     *)
(***************************************************************************)
EXTENDS HarImport, SequenceTheorems, TLAPS

-----------------------------------------------------------------------------
(* The blob store.                                                         *)
(*                                                                         *)
(* A Put that opens or writes a file has a body, and writes its parts in   *)
(* order from the first; while it writes, and once it has returned the     *)
(* hash, the file exists.                                                  *)
PutOK(i) ==
  /\ put[i].at \in {"open", "write"} => put[i].body \in Bodies
  /\ put[i].at = "open" => put[i].part = 1
  /\ put[i].at = "write" => put[i].part \in AllParts
  /\ put[i].at \in {"write", "hash"} /\ put[i].body \in Bodies => file[put[i].body].exists

PutInv == \A i \in Callers : PutOK(i)

BlobInv == BlobTypeOK /\ PutInv /\ HolesHaveACause

LEMMA PartsFact == Parts \in Nat /\ Parts >= 1
  BY PartsAssumption

LEMMA BlobInitInv == BlobInit => BlobInv
<1> SUFFICES ASSUME BlobInit PROVE BlobInv
  OBVIOUS
<1>1. NoPut \in PutCall
  BY PartsFact DEF NoPut, PutCall
<1>2. BlobTypeOK
  BY <1>1 DEF BlobInit, BlobTypeOK, File
<1>3. PutInv /\ HolesHaveACause
  BY DEF BlobInit, PutInv, PutOK, HolesHaveACause, NoPut
<1>4. QED
  BY <1>2, <1>3 DEF BlobInv

LEMMA BlobUnchanged == BlobInv /\ UNCHANGED blobVars => BlobInv'
  BY DEF BlobInv, BlobTypeOK, PutInv, PutOK, HolesHaveACause, Writing, blobVars

(* A Put begins when its caller has none under way that writes. *)
LEMMA PutBeginsInv ==
  ASSUME BlobInv, NEW i \in Callers, NEW b \in Bodies \cup {NoBody},
         put[i].at \notin {"open", "write"}, PutBegins(i, b)
  PROVE  /\ BlobInv'
         /\ put'[i].body = b
         /\ \A j \in Callers \ {i} : put'[j] = put[j]
<1> USE DEF BlobInv
<1>1. PICK at \in {IF Missing(b) THEN "open" ELSE "hash"}
                \cup (IF IOFaults /\ b \in Bodies THEN {"error"} ELSE {}) :
        put' = [put EXCEPT ![i] = [at |-> at, body |-> b, part |-> 1]]
  BY DEF PutBegins
<1>2. UNCHANGED <<file, cut>>
  BY DEF PutBegins
<1>3. /\ put'[i] = [at |-> at, body |-> b, part |-> 1]
      /\ \A j \in Callers \ {i} : put'[j] = put[j]
  BY <1>1 DEF BlobTypeOK
<1>4. /\ at \in {"open", "hash", "error"}
      /\ at = "open" => b \in Bodies
      /\ at = "hash" /\ b \in Bodies => file[b].exists
  BY <1>1 DEF Missing
<1>5. BlobTypeOK'
  <2>1. [at |-> at, body |-> b, part |-> 1] \in PutCall
    BY <1>4, PartsFact DEF PutCall
  <2>2. QED
    BY <1>1, <1>2, <2>1 DEF BlobTypeOK
<1>6. PutInv'
  BY <1>2, <1>3, <1>4 DEF PutInv, PutOK
<1>7. HolesHaveACause'
  BY <1>2, <1>3 DEF HolesHaveACause, Writing
<1>8. QED
  BY <1>3, <1>5, <1>6, <1>7

(* Its steps on the file.  What a truncation takes away is above the part  *)
(* that the truncating Put is at.                                          *)
LEMMA PutStepInv ==
  ASSUME BlobInv, NEW i \in Callers, PutStep(i)
  PROVE  /\ BlobInv'
         /\ put'[i].body = put[i].body
         /\ \A j \in Callers \ {i} : put'[j] = put[j]
         /\ \A b \in Bodies : file[b].exists => file'[b].exists
<1> USE DEF BlobInv
<1>1. CASE OpenFile(i)
  <2>1. /\ put[i].body \in Bodies /\ put[i].part = 1
        /\ put[i] \in PutCall
    BY <1>1 DEF OpenFile, PutInv, PutOK, BlobTypeOK
  <2>2. /\ file' = [file EXCEPT ![put[i].body] = [exists |-> TRUE, parts |-> {}]]
        /\ put' = [put EXCEPT ![i].at = "write"]
        /\ UNCHANGED cut
    BY <1>1 DEF OpenFile
  <2>3. /\ put'[i] = [put[i] EXCEPT !.at = "write"]
        /\ \A j \in Callers \ {i} : put'[j] = put[j]
        /\ \A b \in Bodies \ {put[i].body} : file'[b] = file[b]
        /\ file'[put[i].body] = [exists |-> TRUE, parts |-> {}]
    BY <2>1, <2>2 DEF BlobTypeOK
  <2>4. BlobTypeOK'
    BY <2>1, <2>2 DEF BlobTypeOK, PutCall, File
  <2>5. put'[i].at = "write" /\ put'[i].part = 1 /\ put'[i].body = put[i].body
    BY <2>1, <2>3 DEF PutCall
  <2>6. PutInv'
    <3>1. 1 \in AllParts /\ \A b \in Bodies : file[b].exists => file'[b].exists
      BY <2>3, PartsFact DEF AllParts
    <3>2. file'[put[i].body].exists
      BY <2>3
    <3>3. ASSUME NEW j \in Callers \ {i} PROVE PutOK(j)'
      BY <2>3, <3>1, <3>3 DEF PutInv, PutOK
    <3>4. PutOK(i)'
      BY <2>1, <2>5, <3>1, <3>2 DEF PutOK
    <3>5. QED
      BY <3>3, <3>4 DEF PutInv
  <2>7. HolesHaveACause'
    BY <2>1, <2>2, <2>3, <2>5 DEF HolesHaveACause, Writing, AllParts
  <2>8. QED
    BY <2>3, <2>4, <2>5, <2>6, <2>7
<1>2. CASE WritePart(i)
  <2>1. /\ put[i].body \in Bodies /\ put[i].part \in AllParts
        /\ put[i] \in PutCall /\ file[put[i].body] \in File
        /\ file[put[i].body].exists
        /\ put[i].at = "write"
    BY <1>2 DEF WritePart, PutInv, PutOK, BlobTypeOK
  <2> DEFINE b0 == put[i].body
             next == [put[i] EXCEPT !.part = @ + 1,
                        !.at = IF Finished(put[i].part) THEN "hash" ELSE "write"]
  <2>2. /\ file' = [file EXCEPT ![b0].parts = @ \cup {put[i].part}]
        /\ put' = [put EXCEPT ![i] = next]
        /\ UNCHANGED cut
    BY <1>2 DEF WritePart, BlobTypeOK, PutCall
  <2>3. /\ put'[i] = next
        /\ \A j \in Callers \ {i} : put'[j] = put[j]
        /\ \A b \in Bodies \ {b0} : file'[b] = file[b]
        /\ file'[b0].exists
        /\ file'[b0].parts = file[b0].parts \cup {put[i].part}
    BY <2>1, <2>2 DEF BlobTypeOK, File
  <2>4. /\ next.body = b0 /\ next.part = put[i].part + 1
        /\ next.at = IF put[i].part >= Parts THEN "hash" ELSE "write"
    BY <2>1 DEF PutCall, Finished
  <2>5. next \in PutCall
    <3>1. put[i].part + 1 \in 1..(Parts + 1)
      BY <2>1, PartsFact DEF AllParts
    <3>2. [put[i] EXCEPT !.part = @ + 1] \in PutCall
      BY <2>1, <3>1 DEF PutCall
    <3>3. QED
      BY <3>2 DEF PutCall
  <2>6. BlobTypeOK'
    <3>1. file' \in [Bodies -> File]
      BY <2>1, <2>2 DEF BlobTypeOK, File, AllParts
    <3>2. QED
      BY <2>2, <2>5, <3>1 DEF BlobTypeOK
  <2>7. PutInv'
    <3>1. /\ put'[i].at \in {"hash", "write"} /\ put'[i].body = b0
          /\ put'[i].at = "write" => put'[i].part \in AllParts
      BY <2>1, <2>3, <2>4, PartsFact DEF AllParts
    <3>2. PutOK(i)'
      BY <2>1, <2>3, <3>1 DEF PutOK
    <3>3. ASSUME NEW j \in Callers \ {i} PROVE PutOK(j)'
      BY <2>3, <3>3 DEF PutInv, PutOK
    <3>4. QED
      BY <3>2, <3>3 DEF PutInv
  <2>8. HolesHaveACause'
    <3> SUFFICES ASSUME NEW b \in Bodies, file'[b].exists, NEW k \in AllParts \ file'[b].parts,
                        b \notin cut
                 PROVE  \E j \in Callers : Writing(j, b)' /\ put'[j].part <= k
      BY <2>2 DEF HolesHaveACause
    <3>1. file[b].exists /\ k \notin file[b].parts
      BY <2>1, <2>3
    <3>2. PICK j \in Callers : Writing(j, b) /\ put[j].part <= k
      BY <3>1 DEF HolesHaveACause
    <3>3. CASE j # i
      BY <2>3, <3>2, <3>3 DEF Writing
    <3>4. CASE j = i
      <4>1. b = b0 /\ put[i].part < k
        BY <2>1, <2>3, <3>2, <3>4 DEF Writing, AllParts
      <4>2. put[i].part < Parts
        BY <2>1, <4>1, PartsFact DEF AllParts
      <4>3. Writing(i, b)' /\ put'[i].part <= k
        BY <2>1, <2>3, <2>4, <4>1, <4>2, PartsFact DEF Writing, AllParts
      <4>4. QED
        BY <4>3
    <3>5. QED
      BY <3>3, <3>4
  <2>9. QED
    BY <2>1, <2>3, <2>4, <2>6, <2>7, <2>8
<1>3. CASE PutFails(i)
  <2>1. /\ put[i] \in PutCall
        /\ put' = [put EXCEPT ![i].at = "error"]
        /\ cut' = cut \cup {b \in Bodies : Writing(i, b)}
        /\ UNCHANGED file
    BY <1>3 DEF PutFails, BlobTypeOK
  <2>2. /\ put'[i] = [put[i] EXCEPT !.at = "error"]
        /\ \A j \in Callers \ {i} : put'[j] = put[j]
    BY <2>1 DEF BlobTypeOK
  <2>3. put'[i].at = "error" /\ put'[i].body = put[i].body
    BY <2>1, <2>2 DEF PutCall
  <2>4. BlobTypeOK'
    BY <2>1 DEF BlobTypeOK, PutCall
  <2>5. PutInv'
    BY <2>1, <2>2, <2>3 DEF PutInv, PutOK
  <2>6. HolesHaveACause'
    BY <2>1, <2>2 DEF HolesHaveACause, Writing
  <2>7. QED
    BY <2>1, <2>2, <2>3, <2>4, <2>5, <2>6
<1>4. QED
  BY <1>1, <1>2, <1>3 DEF PutStep

(* A Put that does not write is forgotten by its caller. *)
LEMMA ForgetPutInv ==
  ASSUME BlobInv, NEW i \in Callers, put[i].at # "write",
         put' = [put EXCEPT ![i] = NoPut], UNCHANGED <<file, cut>>
  PROVE  BlobInv'
<1> USE DEF BlobInv
<1>1. NoPut \in PutCall
  BY PartsFact DEF NoPut, PutCall
<1>2. BlobTypeOK'
  BY <1>1 DEF BlobTypeOK
<1>3. put'[i] = NoPut /\ \A j \in Callers \ {i} : put'[j] = put[j]
  BY DEF BlobTypeOK
<1>4. PutInv'
  BY <1>3 DEF PutInv, PutOK, NoPut
<1>5. HolesHaveACause'
  BY <1>3 DEF HolesHaveACause, Writing
<1>6. QED
  BY <1>2, <1>4, <1>5

LEMMA BlobCrashInv ==
  ASSUME BlobInv, BlobCrash
  PROVE  BlobInv'
<1> USE DEF BlobInv
<1>1. NoPut \in PutCall
  BY PartsFact DEF NoPut, PutCall
<1>2. BlobTypeOK'
  BY <1>1 DEF BlobTypeOK, BlobCrash
<1>3. PutInv'
  BY DEF PutInv, PutOK, NoPut, BlobCrash
<1>4. HolesHaveACause'
  BY DEF HolesHaveACause, Writing, BlobCrash
<1>5. QED
  BY <1>2, <1>3, <1>4

-----------------------------------------------------------------------------
(* The import.                                                             *)
(*                                                                         *)
(* What holds of one call: it has a Put only in the two places that wait   *)
(* for one, and that Put is of the body the entry has there; its rows are  *)
(* those of the entries before the one it is at; and the bodies that its   *)
(* rows name, or its next row will, have files.                            *)
Pair == [request : Bodies \cup {NoBody}, response : Bodies \cup {NoBody}]

Stays(b) == b \in Bodies => file[b].exists

RowsMatch(i) ==
  /\ rows[i] # <<>> => i \in sessions
  /\ Len(rows[i]) <= Len(import[i].doc)
  /\ \A n \in DOMAIN rows[i] :
       /\ rows[i][n].request = import[i].doc[n].request
       /\ rows[i][n].response = import[i].doc[n].response
       /\ Stays(rows[i][n].request) /\ Stays(rows[i][n].response)
  /\ import[i].pc = "done" => i \in sessions /\ Len(rows[i]) = Len(import[i].doc)

ImportOK(i) ==
  /\ import[i].pc \notin {"request", "response"} => put[i].at = "none"
  /\ import[i].pc = "idle" => rows[i] = <<>>
  /\ import[i].pc \in {"entry", "request", "response", "tag"} =>
       i \in sessions /\ import[i].entry \in 1..Len(import[i].doc)
  /\ import[i].pc \in {"entry", "request", "response"} => Len(rows[i]) + 1 = import[i].entry
  /\ import[i].pc = "tag" => Len(rows[i]) = import[i].entry
  /\ import[i].pc = "request" => put[i].body = Entry(i).request
  /\ import[i].pc = "response" =>
       put[i].body = Entry(i).response /\ Stays(Entry(i).request)
  /\ RowsMatch(i)

ImportInv == TypeOK /\ BlobInv /\ \A i \in Callers : ImportOK(i)

LEMMA DocumentsFact == \A doc \in Documents \cup {<<>>} : doc \in Seq(Pair)
  BY DocumentAssumption, EmptySeq DEF Pair

LEMMA ImportInitInv == Init => ImportInv
<1> SUFFICES ASSUME Init PROVE ImportInv
  OBVIOUS
<1>1. BlobInv
  BY BlobInitInv DEF Init
<1>2. TypeOK
  BY <1>1, RestartAssumption DEF Init, BlobInv, TypeOK, Ended
<1>3. ASSUME NEW i \in Callers PROVE ImportOK(i)
  <2>1. /\ put[i].at = "none" /\ rows[i] = <<>>
        /\ import[i].pc = "idle" /\ import[i].doc = <<>>
    BY DEF Init, BlobInit, NoPut
  <2>2. QED
    BY <2>1 DEF ImportOK, RowsMatch
<1>4. QED
  BY <1>1, <1>2, <1>3 DEF ImportInv

(* A call that another one does not touch. *)
LEMMA OthersKeep ==
  ASSUME NEW j \in Callers, ImportOK(j),
         put'[j] = put[j], import'[j] = import[j], rows'[j] = rows[j],
         sessions \subseteq sessions',
         \A b \in Bodies : file[b].exists => file'[b].exists
  PROVE  ImportOK(j)'
  BY DEF ImportOK, RowsMatch, Stays, Entry

LEMMA EnsureSessionInv ==
  ASSUME ImportInv, NEW i \in Callers, NEW doc \in Documents, EnsureSession(i, doc)
  PROVE  ImportInv'
<1> USE DEF ImportInv
<1>1. /\ import[i].pc = "idle" /\ rows[i] = <<>> /\ put[i].at = "none"
      /\ UNCHANGED <<file, put, cut, rows, restarts>>
      /\ sessions \subseteq sessions' /\ sessions' \subseteq Callers
      /\ import[i] \in [pc : {"idle", "entry", "request", "response", "tag"} \cup Ended,
                        doc : Documents \cup {<<>>}, entry : Nat \ {0}]
      /\ doc \in Seq(Pair)
  BY DocumentsFact DEF EnsureSession, ImportOK, TypeOK, blobVars
<1>2. PICK new \in [pc : {"entry", "done", "error"},
                    doc : Documents \cup {<<>>}, entry : Nat \ {0}] :
        /\ import' = [import EXCEPT ![i] = new]
        /\ \/ /\ new.doc = doc /\ new.entry = 1 /\ i \in sessions'
              /\ new.pc = IF doc = <<>> THEN "done" ELSE "entry"
           \/ new.pc = "error"
  <2>1. CASE import' = [import EXCEPT ![i] = [pc |-> IF doc = <<>> THEN "done" ELSE "entry",
                                              doc |-> doc, entry |-> 1]]
              /\ sessions' = sessions \cup {i}
    <3>1. [pc |-> IF doc = <<>> THEN "done" ELSE "entry", doc |-> doc, entry |-> 1]
            \in [pc : {"entry", "done", "error"}, doc : Documents \cup {<<>>}, entry : Nat \ {0}]
      OBVIOUS
    <3>2. QED
      BY <2>1, <3>1
  <2>2. CASE Goto(i, "error")
    <3>1. [import[i] EXCEPT !.pc = "error"] \in [pc : {"entry", "done", "error"},
                    doc : Documents \cup {<<>>}, entry : Nat \ {0}]
      BY <1>1
    <3>2. import' = [import EXCEPT ![i] = [import[i] EXCEPT !.pc = "error"]]
      BY <2>2 DEF Goto
    <3>3. QED
      BY <1>1, <3>1, <3>2
  <2>3. QED
    BY <2>1, <2>2 DEF EnsureSession
<1>3. import'[i] = new /\ \A j \in Callers \ {i} : import'[j] = import[j]
  BY <1>2 DEF TypeOK
<1>4. BlobInv'
  BY <1>1, BlobUnchanged DEF blobVars
<1>5. TypeOK'
  BY <1>1, <1>2, <1>4 DEF TypeOK, BlobInv, Ended
<1>6. ASSUME NEW j \in Callers \ {i} PROVE ImportOK(j)'
  BY <1>1, <1>3, OthersKeep
<1>7. ImportOK(i)'
  <2>1. rows'[i] = <<>> /\ put'[i].at = "none" /\ Len(rows'[i]) = 0
    BY <1>1
  <2>2. doc # <<>> => Len(doc) >= 1
    BY <1>1, EmptySeq
  <2>3. new.doc \in Seq(Pair)
    BY DocumentsFact
  <2>4. CASE new.pc = "error"
    BY <1>3, <2>1, <2>3, <2>4 DEF ImportOK, RowsMatch
  <2>5. CASE /\ new.doc = doc /\ new.entry = 1 /\ i \in sessions'
             /\ new.pc = IF doc = <<>> THEN "done" ELSE "entry"
    BY <1>1, <1>3, <2>1, <2>2, <2>5 DEF ImportOK, RowsMatch
  <2>6. QED
    BY <1>2, <2>4, <2>5
<1>8. QED
  BY <1>4, <1>5, <1>6, <1>7

(* The two Puts of an entry begin. *)
LEMMA PutsInv ==
  ASSUME ImportInv, NEW i \in Callers, PutRequest(i) \/ PutResponse(i)
  PROVE  ImportInv'
<1> USE DEF ImportInv
<1>1. /\ i \in sessions /\ import[i].entry \in 1..Len(import[i].doc)
      /\ UNCHANGED <<sessions, rows, restarts>>
      /\ import[i] \in [pc : {"idle", "entry", "request", "response", "tag"} \cup Ended,
                        doc : Documents \cup {<<>>}, entry : Nat \ {0}]
  BY DEF PutRequest, PutResponse, ImportOK, TypeOK
<1>2. Entry(i) \in Pair
  BY <1>1, DocumentsFact DEF Entry
<1>3. PICK l \in {"request", "response"}, b \in Bodies \cup {NoBody} :
        /\ put[i].at \notin {"open", "write"}
        /\ PutBegins(i, b)
        /\ Goto(i, l)
        /\ l = "request" => import[i].pc = "entry" /\ b = Entry(i).request
        /\ l = "response" => /\ import[i].pc = "request" /\ put[i].at = "hash"
                             /\ b = Entry(i).response
  BY <1>2 DEF PutRequest, PutResponse, ImportOK, Pair
<1>4. /\ BlobInv' /\ put'[i].body = b
      /\ \A j \in Callers \ {i} : put'[j] = put[j]
      /\ UNCHANGED file
  BY <1>3, PutBeginsInv DEF PutBegins
<1>5. /\ import'[i] = [import[i] EXCEPT !.pc = l]
      /\ \A j \in Callers \ {i} : import'[j] = import[j]
  BY <1>3 DEF Goto, TypeOK
<1>6. import'[i].pc = l /\ import'[i].doc = import[i].doc /\ import'[i].entry = import[i].entry
  BY <1>1, <1>5
<1>7. TypeOK'
  BY <1>1, <1>3, <1>4 DEF TypeOK, BlobInv, Goto, Ended
<1>8. ASSUME NEW j \in Callers \ {i} PROVE ImportOK(j)'
  BY <1>1, <1>4, <1>5, OthersKeep
<1>9. ImportOK(i)'
  <2>1. RowsMatch(i)'
    BY <1>1, <1>3, <1>4, <1>6 DEF ImportOK, RowsMatch, Stays
  <2>2. Entry(i)' = Entry(i)
    BY <1>6 DEF Entry
  <2>3. l = "response" => Stays(Entry(i).request)'
    <3> SUFFICES ASSUME l = "response", Entry(i).request \in Bodies
                 PROVE  file[Entry(i).request].exists
      BY <1>4, <2>2 DEF Stays
    <3>1. put[i].at = "hash" /\ put[i].body = Entry(i).request
      BY <1>3 DEF ImportOK
    <3>2. QED
      BY <3>1 DEF BlobInv, PutInv, PutOK
  <2>4. Len(rows'[i]) + 1 = import'[i].entry
    BY <1>1, <1>3, <1>6 DEF ImportOK
  <2>5. QED
    BY <1>1, <1>3, <1>4, <1>6, <2>1, <2>2, <2>3, <2>4 DEF ImportOK
<1>10. QED
  BY <1>4, <1>7, <1>8, <1>9

LEMMA StoringInv ==
  ASSUME ImportInv, NEW i \in Callers, Storing(i)
  PROVE  ImportInv'
<1> USE DEF ImportInv
<1>1. PutStep(i) /\ UNCHANGED <<sessions, rows, import, restarts>>
  BY DEF Storing
<1>2. /\ BlobInv' /\ put'[i].body = put[i].body
      /\ \A j \in Callers \ {i} : put'[j] = put[j]
      /\ \A b \in Bodies : file[b].exists => file'[b].exists
  BY <1>1, PutStepInv
<1>3. TypeOK'
  BY <1>1, <1>2 DEF TypeOK, BlobInv
<1>4. ASSUME NEW j \in Callers \ {i} PROVE ImportOK(j)'
  BY <1>1, <1>2, OthersKeep
<1>5. ImportOK(i)'
  <2>1. put[i].at \in {"open", "write"}
    BY <1>1 DEF PutStep, OpenFile, WritePart, PutFails
  <2>2. import[i].pc \in {"request", "response"}
    BY <2>1 DEF ImportOK
  <2>3. QED
    BY <1>1, <1>2, <2>2 DEF ImportOK, RowsMatch, Stays, Entry
<1>6. QED
  BY <1>2, <1>3, <1>4, <1>5

(* An entry ends: with its row, or with an error. *)
LEMMA InsertFlowInv ==
  ASSUME ImportInv, NEW i \in Callers, InsertFlow(i)
  PROVE  ImportInv'
<1> USE DEF ImportInv
<1> DEFINE row == [request |-> Entry(i).request, response |-> Entry(i).response,
                   tagged |-> FALSE]
<1>1. /\ import[i].pc = "response" /\ put[i].at = "hash"
      /\ i \in sessions /\ import[i].entry \in 1..Len(import[i].doc)
      /\ Len(rows[i]) + 1 = import[i].entry
      /\ put[i].body = Entry(i).response /\ Stays(Entry(i).request)
      /\ RowsMatch(i)
      /\ UNCHANGED <<file, cut, sessions, restarts>>
      /\ import[i] \in [pc : {"idle", "entry", "request", "response", "tag"} \cup Ended,
                        doc : Documents \cup {<<>>}, entry : Nat \ {0}]
      /\ rows[i] \in Seq(Row)
  BY DEF InsertFlow, ImportOK, TypeOK
<1>2. Entry(i) \in Pair
  BY <1>1, DocumentsFact DEF Entry
<1>3. row \in Row
  BY <1>2 DEF Row, Pair
<1>4. /\ rows' = [rows EXCEPT ![i] = Append(rows[i], row)]
      /\ put' = [put EXCEPT ![i] = NoPut]
      /\ import' = [import EXCEPT ![i] = [import[i] EXCEPT !.pc = "tag"]]
  BY DEF InsertFlow, Goto
<1>5. /\ rows'[i] = Append(rows[i], row)
      /\ put'[i] = NoPut
      /\ import'[i] = [import[i] EXCEPT !.pc = "tag"]
      /\ \A j \in Callers \ {i} : /\ rows'[j] = rows[j] /\ put'[j] = put[j]
                                  /\ import'[j] = import[j]
  BY <1>4 DEF TypeOK, BlobInv, BlobTypeOK
<1>6. BlobInv'
  BY <1>1, <1>4, ForgetPutInv
<1>7. /\ Append(rows[i], row) \in Seq(Row)
      /\ Len(Append(rows[i], row)) = Len(rows[i]) + 1
      /\ \A n \in 1..Len(rows[i]) : Append(rows[i], row)[n] = rows[i][n]
      /\ Append(rows[i], row)[Len(rows[i]) + 1] = row
  BY <1>1, <1>3, AppendProperties
<1>8. TypeOK'
  BY <1>1, <1>4, <1>6, <1>7 DEF TypeOK, BlobInv, Ended
<1>9. ASSUME NEW j \in Callers \ {i} PROVE ImportOK(j)'
  BY <1>1, <1>5, OthersKeep
<1>10. /\ import'[i].pc = "tag" /\ import'[i].doc = import[i].doc
       /\ import'[i].entry = import[i].entry
  BY <1>1, <1>5
<1>11. RowsMatch(i)'
  <2>1. Stays(Entry(i).response)
    BY <1>1 DEF Stays, BlobInv, PutInv, PutOK
  <2>2. ASSUME NEW n \in DOMAIN rows'[i]
        PROVE  /\ rows'[i][n].request = import'[i].doc[n].request
               /\ rows'[i][n].response = import'[i].doc[n].response
               /\ Stays(rows[i][n].request)' /\ Stays(rows[i][n].response)'
    <3>1. n \in 1..(Len(rows[i]) + 1)
      BY <1>5, <1>7
    <3>2. CASE n = Len(rows[i]) + 1
      <4>1. rows'[i][n] = row /\ import'[i].doc[n] = Entry(i)
        BY <1>1, <1>5, <1>7, <1>10, <3>2 DEF Entry
      <4>2. QED
        BY <1>1, <2>1, <4>1 DEF Stays
    <3>3. CASE n \in 1..Len(rows[i])
      <4>1. rows'[i][n] = rows[i][n] /\ n \in DOMAIN rows[i]
        BY <1>1, <1>5, <1>7, <3>3
      <4>2. QED
        BY <1>1, <1>10, <4>1 DEF RowsMatch, Stays
    <3>4. Len(rows[i]) \in Nat
      BY <1>1
    <3>5. QED
      BY <3>1, <3>2, <3>3, <3>4
  <2>3. import[i].doc \in Seq(Pair)
    BY <1>1, DocumentsFact
  <2>4. Len(rows'[i]) <= Len(import'[i].doc)
    BY <1>1, <1>5, <1>7, <1>10, <2>3
  <2>5. QED
    BY <1>1, <1>10, <2>2, <2>4 DEF RowsMatch
<1>12. ImportOK(i)'
  <2>1. put'[i].at = "none"
    BY <1>5 DEF NoPut
  <2>2. Len(rows'[i]) = import'[i].entry
    BY <1>1, <1>5, <1>7, <1>10
  <2>3. QED
    BY <1>1, <1>10, <1>11, <2>1, <2>2 DEF ImportOK
<1>13. QED
  BY <1>6, <1>8, <1>9, <1>12

LEMMA EntryFailsInv ==
  ASSUME ImportInv, NEW i \in Callers, EntryFails(i)
  PROVE  ImportInv'
<1> USE DEF ImportInv
<1>1. /\ put[i].at # "write"
      /\ put' = [put EXCEPT ![i] = NoPut]
      /\ import' = [import EXCEPT ![i] = [import[i] EXCEPT !.pc = "error"]]
      /\ UNCHANGED <<file, cut, sessions, rows, restarts>>
      /\ import[i] \in [pc : {"idle", "entry", "request", "response", "tag"} \cup Ended,
                        doc : Documents \cup {<<>>}, entry : Nat \ {0}]
  BY DEF EntryFails, Goto, TypeOK
<1>2. /\ put'[i] = NoPut
      /\ import'[i] = [import[i] EXCEPT !.pc = "error"]
      /\ \A j \in Callers \ {i} : put'[j] = put[j] /\ import'[j] = import[j]
  BY <1>1 DEF TypeOK, BlobInv, BlobTypeOK
<1>3. BlobInv'
  BY <1>1, ForgetPutInv
<1>4. TypeOK'
  BY <1>1, <1>3 DEF TypeOK, BlobInv, Ended
<1>5. ASSUME NEW j \in Callers \ {i} PROVE ImportOK(j)'
  BY <1>1, <1>2, OthersKeep
<1>6. ImportOK(i)'
  <2>1. put'[i].at = "none" /\ import'[i].pc = "error" /\ import'[i].doc = import[i].doc
    BY <1>1, <1>2 DEF NoPut
  <2>2. QED
    BY <1>1, <2>1 DEF ImportOK, RowsMatch, Stays
<1>7. QED
  BY <1>3, <1>4, <1>5, <1>6

(* An entry is tagged, or not, and the next one begins. *)
LEMMA TagFlowInv ==
  ASSUME ImportInv, NEW i \in Callers, TagFlow(i)
  PROVE  ImportInv'
<1> USE DEF ImportInv
<1> DEFINE n0 == import[i].entry
           new == [import[i] EXCEPT
                     !.pc = IF import[i].entry < Len(import[i].doc) THEN "entry" ELSE "done",
                     !.entry = @ + 1]
<1>1. /\ import[i].pc = "tag" /\ put[i].at = "none" /\ i \in sessions
      /\ n0 \in 1..Len(import[i].doc) /\ Len(rows[i]) = n0
      /\ RowsMatch(i)
      /\ UNCHANGED <<file, put, cut, sessions, restarts>>
      /\ import[i] \in [pc : {"idle", "entry", "request", "response", "tag"} \cup Ended,
                        doc : Documents \cup {<<>>}, entry : Nat \ {0}]
      /\ rows[i] \in Seq(Row) /\ import[i].doc \in Seq(Pair)
  BY DocumentsFact DEF TagFlow, ImportOK, TypeOK, blobVars
<1>2. import' = [import EXCEPT ![i] = new]
  BY DEF TagFlow
<1>3. /\ import'[i] = new
      /\ \A j \in Callers \ {i} : import'[j] = import[j]
  BY <1>2 DEF TypeOK
<1>4. /\ new.doc = import[i].doc /\ new.entry = n0 + 1
      /\ new.pc = IF n0 < Len(import[i].doc) THEN "entry" ELSE "done"
  BY <1>1
<1>5. PICK r \in Seq(Row) :
        /\ rows' = [rows EXCEPT ![i] = r]
        /\ Len(r) = Len(rows[i])
        /\ \A n \in 1..Len(r) : /\ r[n].request = rows[i][n].request
                                /\ r[n].response = rows[i][n].response
  <2>1. CASE UNCHANGED rows
    <3>1. rows' = [rows EXCEPT ![i] = rows[i]]
      BY <2>1 DEF TypeOK
    <3>2. QED
      BY <1>1, <3>1
  <2>2. CASE rows' = [rows EXCEPT ![i][n0].tagged = TRUE]
    <3> DEFINE tagged == [rows[i][n0] EXCEPT !.tagged = TRUE]
    <3>1. rows[i][n0] \in Row
      BY <1>1, ElementOfSeq
    <3>2. tagged \in Row /\ tagged.request = rows[i][n0].request
                         /\ tagged.response = rows[i][n0].response
      BY <3>1 DEF Row
    <3>3. n0 \in 1..Len(rows[i])
      BY <1>1
    <3>4. /\ [rows[i] EXCEPT ![n0] = tagged] \in Seq(Row)
          /\ Len([rows[i] EXCEPT ![n0] = tagged]) = Len(rows[i])
          /\ \A n \in 1..Len(rows[i]) :
               [rows[i] EXCEPT ![n0] = tagged][n] = IF n = n0 THEN tagged ELSE rows[i][n]
      BY <1>1, <3>2, <3>3, ExceptSeq
    <3>5. rows' = [rows EXCEPT ![i] = [rows[i] EXCEPT ![n0] = tagged]]
      BY <2>2
    <3>6. ASSUME NEW n \in 1..Len(rows[i])
          PROVE  /\ [rows[i] EXCEPT ![n0] = tagged][n].request = rows[i][n].request
                 /\ [rows[i] EXCEPT ![n0] = tagged][n].response = rows[i][n].response
      BY <3>2, <3>4
    <3> HIDE DEF tagged
    <3>7. QED
      BY <3>4, <3>5, <3>6
  <2>3. QED
    BY <2>1, <2>2 DEF TagFlow
<1>6. rows'[i] = r /\ \A j \in Callers \ {i} : rows'[j] = rows[j]
  BY <1>5 DEF TypeOK
<1>7. BlobInv'
  BY <1>1, BlobUnchanged DEF blobVars
<1>8. new \in [pc : {"idle", "entry", "request", "response", "tag"} \cup Ended,
               doc : Documents \cup {<<>>}, entry : Nat \ {0}]
  <2>1. n0 + 1 \in Nat \ {0}
    BY <1>1
  <2>2. QED
    BY <1>1, <2>1 DEF Ended
<1>9. TypeOK'
  BY <1>1, <1>2, <1>5, <1>7, <1>8 DEF TypeOK, BlobInv
<1>10. ASSUME NEW j \in Callers \ {i} PROVE ImportOK(j)'
  BY <1>1, <1>3, <1>6, OthersKeep
<1>11. RowsMatch(i)'
  <2>1. ASSUME NEW n \in DOMAIN r
        PROVE  /\ r[n].request = new.doc[n].request
               /\ r[n].response = new.doc[n].response
               /\ Stays(r[n].request)' /\ Stays(r[n].response)'
    <3>1. n \in 1..Len(r) /\ n \in DOMAIN rows[i]
      BY <1>1, <1>5
    <3>2. QED
      BY <1>1, <1>4, <1>5, <3>1 DEF RowsMatch, Stays
  <2>2. new.pc = "done" => Len(r) = Len(new.doc)
    BY <1>1, <1>4, <1>5
  <2>3. Len(r) <= Len(new.doc)
    BY <1>1, <1>4, <1>5
  <2> HIDE DEF new
  <2>4. QED
    BY <1>1, <1>3, <1>5, <1>6, <2>1, <2>2, <2>3 DEF RowsMatch, Stays
<1>12. ImportOK(i)'
  <2>1. Len(r) + 1 = new.entry
    BY <1>1, <1>4, <1>5
  <2>2. new.pc \in {"entry", "done"}
        /\ (new.pc = "entry" => new.entry \in 1..Len(new.doc))
    BY <1>1, <1>4
  <2> HIDE DEF new
  <2>3. QED
    BY <1>1, <1>3, <1>6, <1>11, <2>1, <2>2 DEF ImportOK
<1>13. QED
  BY <1>7, <1>9, <1>10, <1>12

LEMMA CrashInv ==
  ASSUME ImportInv, CrashAndRestart
  PROVE  ImportInv'
<1> USE DEF ImportInv
<1>1. /\ BlobCrash /\ UNCHANGED <<file, sessions, rows>>
      /\ restarts < MaxRestarts /\ restarts' = restarts + 1
      /\ import' = [i \in Callers |->
           IF import[i].pc \in {"idle"} \cup Ended THEN import[i]
           ELSE [import[i] EXCEPT !.pc = "lost"]]
  BY DEF CrashAndRestart, BlobCrash
<1>2. BlobInv'
  BY <1>1, BlobCrashInv
<1>3. TypeOK'
  <2>1. restarts' \in 0..MaxRestarts
    BY <1>1, RestartAssumption DEF TypeOK
  <2>2. QED
    BY <1>1, <1>2, <2>1 DEF TypeOK, BlobInv, Ended
<1>4. ASSUME NEW i \in Callers PROVE ImportOK(i)'
  <2>1. put'[i].at = "none"
    BY <1>1 DEF BlobCrash, NoPut
  <2>2. /\ import'[i].pc \in {"idle"} \cup Ended
        /\ import'[i].doc = import[i].doc
        /\ import'[i].pc \in {"idle", "done"} => import'[i].pc = import[i].pc
    <3>1. import[i] \in [pc : {"idle", "entry", "request", "response", "tag"} \cup Ended,
                         doc : Documents \cup {<<>>}, entry : Nat \ {0}]
      BY DEF TypeOK
    <3>2. QED
      BY <1>1, <3>1 DEF Ended
  <2>3. RowsMatch(i)'
    BY <1>1, <2>2 DEF ImportOK, RowsMatch, Stays
  <2>4. QED
    BY <1>1, <2>1, <2>2, <2>3 DEF ImportOK, Ended
<1>5. QED
  BY <1>2, <1>3, <1>4

LEMMA ImportStep == ImportInv /\ [Next]_vars => ImportInv'
<1> SUFFICES ASSUME ImportInv, [Next]_vars PROVE ImportInv'
  OBVIOUS
<1>1. ASSUME NEW i \in Callers, NEW doc \in Documents, EnsureSession(i, doc) PROVE ImportInv'
  BY <1>1, EnsureSessionInv
<1>2. ASSUME NEW i \in Callers, Importing(i) PROVE ImportInv'
  BY <1>2, PutsInv, InsertFlowInv, TagFlowInv, EntryFailsInv, StoringInv DEF Importing
<1>3. CASE CrashAndRestart
  BY <1>3, CrashInv
<1>4. CASE UNCHANGED vars
  <2>1. BlobInv' /\ TypeOK'
    BY <1>4, BlobUnchanged DEF ImportInv, TypeOK, BlobInv, vars
  <2>2. ASSUME NEW i \in Callers PROVE ImportOK(i)'
    BY <1>4, OthersKeep DEF ImportInv, vars, blobVars
  <2>3. QED
    BY <2>1, <2>2 DEF ImportInv
<1>5. QED
  BY <1>1, <1>2, <1>3, <1>4 DEF Next

LEMMA ImportInvariant == Spec => []ImportInv
  BY ImportInitInv, ImportStep, PTL DEF Spec

-----------------------------------------------------------------------------

(* The variables keep their types. *)
THEOREM TypeCorrect == Spec => []TypeOK
<1>1. ImportInv => TypeOK
  BY DEF ImportInv
<1>2. QED
  BY <1>1, ImportInvariant, PTL

(* However many goroutines truncate each other's work, a hole in a file is *)
(* the doing of a Put left unfinished or of one that is still below it.    *)
THEOREM HolesAreCaused == Spec => []HolesHaveACause
<1>1. ImportInv => HolesHaveACause
  BY DEF ImportInv, BlobInv
<1>2. QED
  BY <1>1, ImportInvariant, PTL

(* A body that a flow row names has a file, and if it cannot be read, then *)
(* a write of it was left unfinished or is going on.                       *)
THEOREM UnreadableIsCaused == Spec => []UnreadableHasACause
<1>1. ImportInv => UnreadableHasACause
  <2> SUFFICES ASSUME ImportInv, NEW b \in Bodies, Named(b)
               PROVE  /\ file[b].exists
                      /\ Readable(b) \/ b \in cut \/ \E i \in Callers : Writing(i, b)
    BY DEF UnreadableHasACause
  <2>1. file[b].exists
    BY DEF ImportInv, ImportOK, RowsMatch, Stays, Named
  <2>2. ASSUME ~Readable(b) PROVE b \in cut \/ \E i \in Callers : Writing(i, b)
    <3>1. PICK k \in AllParts : k \notin file[b].parts
      BY <2>1, <2>2 DEF Readable, ImportInv, BlobInv, BlobTypeOK, File
    <3>2. QED
      BY <2>1, <3>1 DEF ImportInv, BlobInv, HolesHaveACause
  <2>3. QED
    BY <2>1, <2>2
<1>2. QED
  BY <1>1, ImportInvariant, PTL

(* The rows of an imported session are the first entries of its document,  *)
(* and all of them when Import returned a result.                          *)
THEOREM SessionsArePrefixes == Spec => []SessionIsAPrefix
<1>1. ImportInv => SessionIsAPrefix
  BY DEF ImportInv, ImportOK, RowsMatch, SessionIsAPrefix
<1>2. QED
  BY <1>1, ImportInvariant, PTL

=============================================================================
