----------------------------- MODULE AuthTrace -----------------------------
(***************************************************************************)
(* internal/auth/analyzer.go: the chain that Trace builds from a sequence  *)
(* of flows.  A flow is [id, row]; of its request the row tells the        *)
(* X-CSRF-Token header and the fields of a JSON body, of its response the  *)
(* same header and the leaves of a JSON body.  A value stands for its      *)
(* fingerprint.  Iteration over Go's maps makes several chains possible:   *)
(* TraceFlow yields the set of them.                                       *)
(***************************************************************************)
EXTENDS Naturals, Sequences, FiniteSets

CONSTANTS Values,      \* texts that requests and responses carry
          NoValue,
          Fields,      \* names of the fields of JSON bodies
          Paths,       \* JSON paths of the leaves of responses
          FieldOf,     \* the field a path ends in
          TokenNames,  \* fields that tokenKind knows, those of sessions apart
          CsrfNames,   \* those of them that isCSRFName knows
          Header,      \* the name X-CSRF-Token
          NoSource     \* an artifact without a source

ASSUME NamesAssumption == /\ CsrfNames \subseteq TokenNames /\ TokenNames \subseteq Fields
                          /\ Header \notin Fields /\ NoValue \notin Values
                          /\ FieldOf \in [Paths -> Fields]

IsCsrf(name) == name \in CsrfNames \cup {Header}

Artifact(name, value) == [name |-> name, value |-> value]

(* requestArtifacts, lines 233-248, with bodyArtifacts. *)
RequestArtifacts(row) ==
  {Artifact(Header, v) : v \in {row.header} \ {NoValue}}
  \cup {Artifact(n, row.fields[n]) : n \in {m \in TokenNames : row.fields[m] # NoValue}}

(* responseArtifacts, lines 250-262. *)
ResponseArtifacts(row) ==
  {Artifact(Header, v) : v \in {row.echo} \ {NoValue}}
  \cup {Artifact(FieldOf[p], row.answer[p]) :
          p \in {q \in Paths : FieldOf[q] \in TokenNames /\ row.answer[q] # NoValue}}

EmptyChain == [flowIds |-> << >>, sources |-> << >>, users |-> {}, links |-> {},
               refresh |-> {}, failures |-> {}]

Sourced(chain) == {a \in DOMAIN chain.sources : chain.sources[a] # NoSource}

(* upsert, lines 178-207, of the artifacts A: the entries, made when they  *)
(* are new.  A source stays the first that was seen.                       *)
Upsert(chain, A, source) ==
  [chain EXCEPT !.sources =
     [a \in DOMAIN chain.sources \cup A |->
        IF a \in A \ Sourced(chain) THEN source ELSE chain.sources[a]]]

(* findCSRFSource, lines 223-231: any artifact with this value. *)
CsrfSources(chain, value) ==
  {chain.sources[b] : b \in {c \in Sourced(chain) : c.value = value /\ IsCsrf(c.name)}}

(* Mutant of SourcesOfUse: only a source of the same name counts. *)
SameNameOnly(chain, a) == {chain.sources[a]} \ {NoSource}

(* Lines 84-87: where a csrf value that is used came from. *)
SourcesOfUse(chain, a) ==
  IF chain.sources[a] # NoSource THEN {chain.sources[a]} ELSE CsrfSources(chain, a.value)

(* Lines 88-96. *)
Link(a, source, flow) == [name |-> a.name, source |-> source, user |-> flow.id, value |-> a.value]

(* The links that a use may get: one, or none where the source is the very *)
(* flow or there is no source.                                             *)
LinksOfUse(chain, flow, a) ==
  IF ~IsCsrf(a.name) \/ SourcesOfUse(chain, a) = {} THEN {{}}
  ELSE {IF s = flow.id THEN {} ELSE {Link(a, s, flow)} : s \in SourcesOfUse(chain, a)}

(* refreshEndpoint, lines 327-359: a token path that issued a token that   *)
(* is not a csrf one.                                                      *)
IsRefresh(row) ==
  /\ row.class = "auth_session"
  /\ \E a \in ResponseArtifacts(row) : ~IsCsrf(a.name)

(* The entries after a flow: lines 73-83, its response first. *)
Seen(chain, flow) ==
  Upsert(Upsert(chain, ResponseArtifacts(flow.row), flow.id),
         RequestArtifacts(flow.row), NoSource)

(* A turn of the loop of Trace, lines 67-107: what the chain may be after  *)
(* it; the failures are those of ClassifyFailure, lines 375-391.           *)
TraceFlow(chain, flow) ==
  LET seen == Seen(chain, flow)
      uses == RequestArtifacts(flow.row)
      choices == {c \in [uses -> UNION {LinksOfUse(seen, flow, a) : a \in uses}] :
                    \A a \in uses : c[a] \in LinksOfUse(seen, flow, a)}
  IN  {[seen EXCEPT !.flowIds = Append(@, flow.id),
                    !.users = @ \cup {<<a, flow.id>> : a \in uses},
                    !.links = @ \cup UNION {c[a] : a \in uses},
                    !.refresh = @ \cup IF IsRefresh(flow.row) THEN {flow.id} ELSE {},
                    !.failures = @ \cup IF flow.row.denied THEN {flow.id} ELSE {}] :
         c \in choices}

(* sort.SliceStable, line 132: flows that were asked for by id. *)
InTime(flowSeq) ==
  LET before(i, j) == \/ flowSeq[i].row.at < flowSeq[j].row.at
                      \/ flowSeq[i].row.at = flowSeq[j].row.at /\ i < j
  IN  [k \in DOMAIN flowSeq |->
         flowSeq[CHOOSE i \in DOMAIN flowSeq :
                   Cardinality({j \in DOMAIN flowSeq : before(j, i)}) = k - 1]]

-----------------------------------------------------------------------------

(* Issued at position i under a csrf name. *)
Issues(flowSeq, i, value) ==
  \E a \in ResponseArtifacts(flowSeq[i].row) : IsCsrf(a.name) /\ a.value = value

Shown(flowSeq, i, a) == a \in ResponseArtifacts(flowSeq[i].row)

(* No response before position j shows the artifact that its request uses, *)
(* and the response at j is the first to show one with the same value: the *)
(* flow itself may then be found as the source.                            *)
MayHideItsSource(flowSeq, j, a) ==
  /\ \A i \in 1..(j - 1) : ~Shown(flowSeq, i, a)
  /\ \E b \in ResponseArtifacts(flowSeq[j].row) :
       /\ IsCsrf(b.name) /\ b.value = a.value
       /\ \A i \in 1..(j - 1) : ~Shown(flowSeq, i, b)

(* A link says that flow j uses the artifact, which flow i issued.         *)
LinksUse(flowSeq, l, i, j, a) ==
  l.name = a.name /\ l.user = flowSeq[j].id /\ l.source = flowSeq[i].id

(* A csrf value that a flow uses after another has issued it gets a link   *)
(* from a flow that issued it, also when the names differ, but for the one *)
(* that the response to its own request may hide.                          *)
UsesAreLinked(flowSeq, chain) ==
  \A j \in DOMAIN flowSeq : \A a \in RequestArtifacts(flowSeq[j].row) :
    LET issuers == {i \in 1..(j - 1) : Issues(flowSeq, i, a.value)}
    IN  IsCsrf(a.name) /\ issuers # {} =>
          \/ \E l \in chain.links : \E i \in issuers : LinksUse(flowSeq, l, i, j, a)
          \/ MayHideItsSource(flowSeq, j, a)

(* A link leads from a flow to a later one. *)
LinksAreForward(flowSeq, chain, Before(_, _)) ==
  \A l \in chain.links : \A i, j \in DOMAIN flowSeq :
    l.source = flowSeq[i].id /\ l.user = flowSeq[j].id =>
      ~Before(flowSeq[j].row.at, flowSeq[i].row.at)

=============================================================================
