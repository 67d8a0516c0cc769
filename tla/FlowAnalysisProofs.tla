------------------------- MODULE FlowAnalysisProofs -------------------------
(***************************************************************************)
(* Proofs about FlowAnalysis for any flows, whatever they hold: what a     *)
(* call has read is in order, and the links of the chain made of it.       *)
(***************************************************************************)
EXTENDS FlowAnalysis, FiniteSetTheorems, WellFoundedInduction, TLAPS

Flow == [id : FlowIds, row : Rows]

(* No id twice. *)
Distinct(s) == \A i, j \in DOMAIN s : s[i] = s[j] => i = j

DistinctIds(flowSeq) == \A i, j \in DOMAIN flowSeq : flowSeq[i].id = flowSeq[j].id => i = j

Ids == {s \in Seq(FlowIds) : Distinct(s) /\ Len(s) <= Cardinality(FlowIds)}

-----------------------------------------------------------------------------
(* The chain.                                                              *)
(*                                                                         *)
IsChain(c) ==
  /\ {"flowIds", "sources", "users", "links", "refresh", "failures"} \subseteq DOMAIN c
  /\ c.flowIds \in Seq(FlowIds)

(* What Upsert does to the entries of the artifacts A. *)
Upserted(after, chain, A, source) ==
  /\ IsChain(after)
  /\ after.flowIds = chain.flowIds /\ after.links = chain.links
  /\ after.sources = [a \in DOMAIN chain.sources \cup A |->
                        IF a \in A \ Sourced(chain) THEN source ELSE chain.sources[a]]

LEMMA UpsertFact ==
  ASSUME NEW chain, IsChain(chain), NEW A, NEW source
  PROVE  Upserted(Upsert(chain, A, source), chain, A, source)
BY DEF Upsert, Upserted, IsChain

(* After a flow was seen, an artifact has the source that it had before,   *)
(* or the flow if its response shows it.                                   *)
LEMMA SeenFact ==
  ASSUME NEW chain, IsChain(chain), NEW flow \in Flow
  PROVE  LET seen == Seen(chain, flow) IN
         /\ IsChain(seen)
         /\ seen.flowIds = chain.flowIds /\ seen.links = chain.links
         /\ Sourced(seen) = Sourced(chain) \cup ResponseArtifacts(flow.row)
         /\ RequestArtifacts(flow.row) \subseteq DOMAIN seen.sources
         /\ \A a \in Sourced(seen) :
              seen.sources[a] = IF a \in Sourced(chain) THEN chain.sources[a] ELSE flow.id
<1> DEFINE R == ResponseArtifacts(flow.row)
           Q == RequestArtifacts(flow.row)
           mid == Upsert(chain, R, flow.id)
           seen == Upsert(mid, Q, NoSource)
<1>1. Seen(chain, flow) = seen
  BY DEF Seen
<1>2. Upserted(mid, chain, R, flow.id) /\ IsChain(mid)
  BY UpsertFact DEF Upserted
<1> HIDE DEF mid, R, Q
<1>3. Upserted(seen, mid, Q, NoSource)
  BY <1>2, UpsertFact
<1> HIDE DEF seen
<1>4. flow.id # NoSource
  BY RowsAssumption DEF Flow
<1>5. /\ Sourced(mid) = Sourced(chain) \cup R
      /\ \A a \in Sourced(mid) :
           mid.sources[a] = IF a \in Sourced(chain) THEN chain.sources[a] ELSE flow.id
  BY <1>2, <1>4 DEF Sourced, Upserted
<1>6. /\ Sourced(seen) = Sourced(mid)
      /\ \A a \in Sourced(seen) : seen.sources[a] = mid.sources[a]
      /\ Q \subseteq DOMAIN seen.sources
  BY <1>3 DEF Sourced, Upserted
<1>7. QED
  BY <1>1, <1>2, <1>3, <1>5, <1>6 DEF R, Q, Upserted

(* The links of c are those of the chain and, for each use, a choice.      *)
AddsLinks(c, chain, seen, flow) ==
  /\ chain.links \subseteq c.links
  /\ \A l \in c.links : \/ l \in chain.links
                        \/ \E a \in RequestArtifacts(flow.row) : l \in UNION LinksOfUse(seen, flow, a)
  /\ \A a \in RequestArtifacts(flow.row) : \E L \in LinksOfUse(seen, flow, a) : L \subseteq c.links

(* What a turn adds. *)
LEMMA TraceFlowFact ==
  ASSUME NEW chain, IsChain(chain), NEW flow \in Flow, NEW c \in TraceFlow(chain, flow)
  PROVE  /\ IsChain(c) /\ c.flowIds = Append(chain.flowIds, flow.id)
         /\ c.sources = Seen(chain, flow).sources
         /\ AddsLinks(c, chain, Seen(chain, flow), flow)
<1> DEFINE seen == Seen(chain, flow)
           uses == RequestArtifacts(flow.row)
<1>1. IsChain(seen) /\ seen.flowIds = chain.flowIds /\ seen.links = chain.links
  BY SeenFact
<1>2. PICK h \in [uses -> UNION {LinksOfUse(seen, flow, a) : a \in uses}] :
        /\ \A a \in uses : h[a] \in LinksOfUse(seen, flow, a)
        /\ c = [seen EXCEPT !.flowIds = Append(@, flow.id),
                    !.users = @ \cup {<<a, flow.id>> : a \in uses},
                    !.links = @ \cup UNION {h[a] : a \in uses},
                    !.refresh = @ \cup IF IsRefresh(flow.row) THEN {flow.id} ELSE {},
                    !.failures = @ \cup IF flow.row.denied THEN {flow.id} ELSE {}]
  BY DEF TraceFlow
<1> HIDE DEF seen, uses
<1>3. Append(seen.flowIds, flow.id) \in Seq(FlowIds)
  BY <1>1 DEF IsChain, Flow
<1>4. IsChain(c) /\ c.flowIds = Append(seen.flowIds, flow.id) /\ c.sources = seen.sources
  BY <1>1, <1>2, <1>3 DEF IsChain
<1>5. c.links = chain.links \cup UNION {h[a] : a \in uses}
  BY <1>1, <1>2 DEF IsChain
<1>6. \A l \in c.links : l \in chain.links \/ \E a \in uses : l \in UNION LinksOfUse(seen, flow, a)
  <2>1. ASSUME NEW l \in c.links, l \notin chain.links
        PROVE  \E a \in uses : l \in UNION LinksOfUse(seen, flow, a)
    <3>1. PICK a \in uses : l \in h[a]
      BY <1>5, <2>1
    <3>2. QED
      BY <1>2, <3>1
  <2>2. QED
    BY <2>1
<1>7. ASSUME NEW a \in uses PROVE \E L \in LinksOfUse(seen, flow, a) : L \subseteq c.links
  <2>1. h[a] \in LinksOfUse(seen, flow, a) /\ h[a] \subseteq c.links
    BY <1>2, <1>5
  <2>2. QED
    BY <2>1
<1>8. QED
  BY <1>1, <1>4, <1>5, <1>6, <1>7 DEF seen, uses, AddsLinks

-----------------------------------------------------------------------------
(* The chain after the first k flows of the loop.                          *)
(*                                                                         *)
(* The artifacts with a source are those that a response has shown, and    *)
(* the source is a flow whose response has shown it.                       *)
SourcesOK(flowSeq, c, k) ==
  /\ \A a \in Sourced(c) : \E i \in 1..k :
       c.sources[a] = flowSeq[i].id /\ a \in ResponseArtifacts(flowSeq[i].row)
  /\ \A i \in 1..k : ResponseArtifacts(flowSeq[i].row) \subseteq Sourced(c)

(* Links lead from an earlier flow to a later one. *)
LinksOK(flowSeq, c, k) ==
  \A l \in c.links : \E i \in 1..k, j \in 1..k :
    i < j /\ l.source = flowSeq[i].id /\ l.user = flowSeq[j].id

(* The use of a csrf value that was issued before is linked, unless the    *)
(* response to that very request may be found as the source.               *)
UseOK(flowSeq, c, j, a) ==
  (IsCsrf(a.name) /\ \E i \in 1..(j - 1) : Issues(flowSeq, i, a.value)) =>
    \/ \E l \in c.links : /\ l.name = a.name /\ l.user = flowSeq[j].id
                          /\ \E i \in 1..(j - 1) :
                               Issues(flowSeq, i, a.value) /\ l.source = flowSeq[i].id
    \/ MayHideItsSource(flowSeq, j, a)

UsesOK(flowSeq, c, k) ==
  \A j \in 1..k : \A a \in RequestArtifacts(flowSeq[j].row) : UseOK(flowSeq, c, j, a)

ChainOK(flowSeq, c) ==
  LET k == Len(c.flowIds) IN
  /\ IsChain(c) /\ k <= Len(flowSeq)
  /\ SourcesOK(flowSeq, c, k) /\ LinksOK(flowSeq, c, k) /\ UsesOK(flowSeq, c, k)

LEMMA SourcesStep ==
  ASSUME NEW flowSeq \in Seq(Flow), NEW k \in Nat, k + 1 <= Len(flowSeq),
         NEW chain, IsChain(chain), SourcesOK(flowSeq, chain, k)
  PROVE  SourcesOK(flowSeq, Seen(chain, flowSeq[k + 1]), k + 1)
<1> DEFINE flow == flowSeq[k + 1]
           seen == Seen(chain, flow)
<1>1. flow \in Flow
  OBVIOUS
<1>2. /\ Sourced(seen) = Sourced(chain) \cup ResponseArtifacts(flow.row)
      /\ \A a \in Sourced(seen) :
           seen.sources[a] = IF a \in Sourced(chain) THEN chain.sources[a] ELSE flow.id
  BY <1>1, SeenFact
<1> HIDE DEF seen
<1>3. ASSUME NEW a \in Sourced(seen)
      PROVE  \E i \in 1..(k + 1) :
               seen.sources[a] = flowSeq[i].id /\ a \in ResponseArtifacts(flowSeq[i].row)
  <2>1. CASE a \in Sourced(chain)
    <3>1. PICK i \in 1..k : chain.sources[a] = flowSeq[i].id /\ a \in ResponseArtifacts(flowSeq[i].row)
      BY <2>1 DEF SourcesOK
    <3>2. i \in 1..(k + 1)
      OBVIOUS
    <3>3. QED
      BY <1>2, <1>3, <2>1, <3>1, <3>2
  <2>2. CASE a \notin Sourced(chain)
    BY <1>2, <1>3, <2>2
  <2>3. QED
    BY <2>1, <2>2
<1>4. ASSUME NEW i \in 1..(k + 1) PROVE ResponseArtifacts(flowSeq[i].row) \subseteq Sourced(seen)
  <2>1. CASE i = k + 1
    BY <1>2, <2>1
  <2>2. CASE i \in 1..k
    BY <1>2, <2>2 DEF SourcesOK
  <2>3. QED
    BY <2>1, <2>2
<1>5. QED
  BY <1>3, <1>4 DEF SourcesOK, seen

(* The source of a use issued its value. *)
LEMMA SourcesOfUseIssue ==
  ASSUME NEW flowSeq, NEW seen, NEW k, SourcesOK(flowSeq, seen, k),
         NEW a \in DOMAIN seen.sources, IsCsrf(a.name), NEW s \in SourcesOfUse(seen, a)
  PROVE  \E i \in 1..k : s = flowSeq[i].id /\ Issues(flowSeq, i, a.value)
<1>1. PICK b \in Sourced(seen) : s = seen.sources[b] /\ b.value = a.value /\ IsCsrf(b.name)
  <2>1. CASE a \in Sourced(seen)
    BY <2>1 DEF SourcesOfUse, Sourced
  <2>2. CASE a \notin Sourced(seen)
    BY <2>2 DEF SourcesOfUse, Sourced, CsrfSources
  <2>3. QED
    BY <2>1, <2>2
<1>2. PICK i \in 1..k : seen.sources[b] = flowSeq[i].id /\ b \in ResponseArtifacts(flowSeq[i].row)
  BY DEF SourcesOK
<1>3. QED
  BY <1>1, <1>2 DEF Issues

LEMMA TurnOK ==
  ASSUME NEW flowSeq \in Seq(Flow), DistinctIds(flowSeq), NEW chain, ChainOK(flowSeq, chain),
         NEW k \in Nat, k = Len(chain.flowIds), k + 1 <= Len(flowSeq),
         NEW c \in TraceFlow(chain, flowSeq[k + 1])
  PROVE  ChainOK(flowSeq, c) /\ Len(c.flowIds) = k + 1
<1> DEFINE flow == flowSeq[k + 1]
           seen == Seen(chain, flow)
           uses == RequestArtifacts(flow.row)
<1>1. /\ flow \in Flow /\ IsChain(chain) /\ k + 1 \in 1..(k + 1)
      /\ SourcesOK(flowSeq, chain, k) /\ LinksOK(flowSeq, chain, k) /\ UsesOK(flowSeq, chain, k)
  BY DEF ChainOK
<1>2. /\ Sourced(seen) = Sourced(chain) \cup ResponseArtifacts(flow.row)
      /\ uses \subseteq DOMAIN seen.sources
      /\ \A a \in Sourced(seen) :
           seen.sources[a] = IF a \in Sourced(chain) THEN chain.sources[a] ELSE flow.id
  <2>1. IsChain(chain) /\ flow \in Flow
    BY <1>1
  <2> HIDE DEF flow, uses
  <2>2. QED
    BY ZenonT(30), <2>1, SeenFact DEF uses
<1>3. /\ IsChain(c) /\ c.flowIds = Append(chain.flowIds, flow.id)
      /\ c.sources = seen.sources
      /\ AddsLinks(c, chain, seen, flow)
  BY <1>1, TraceFlowFact
<1>4. SourcesOK(flowSeq, seen, k + 1)
  BY <1>1, SourcesStep
<1> HIDE DEF seen, uses
<1>5. SourcesOK(flowSeq, c, k + 1)
  <2>1. Sourced(c) = Sourced(seen)
    BY <1>3 DEF Sourced
  <2>2. QED
    BY <1>3, <1>4, <2>1 DEF SourcesOK
<1>6. /\ chain.links \subseteq c.links
      /\ \A l \in c.links : l \in chain.links \/ \E a \in uses : l \in UNION LinksOfUse(seen, flow, a)
      /\ \A a \in uses : \E L \in LinksOfUse(seen, flow, a) : L \subseteq c.links
  BY <1>3 DEF AddsLinks, uses
<1>7. ASSUME NEW a \in uses, NEW l \in UNION LinksOfUse(seen, flow, a)
      PROVE  /\ IsCsrf(a.name) /\ l.name = a.name /\ l.user = flow.id
             /\ \E i \in 1..k : l.source = flowSeq[i].id /\ Issues(flowSeq, i, a.value)
  <2>1. IsCsrf(a.name)
    BY <1>7 DEF LinksOfUse
  <2>2. PICK s \in SourcesOfUse(seen, a) \ {flow.id} : l = Link(a, s, flow)
    BY <1>7, <2>1 DEF LinksOfUse
  <2>3. PICK i \in 1..(k + 1) : s = flowSeq[i].id /\ Issues(flowSeq, i, a.value)
    BY <1>2, <1>4, <2>1, <2>2, SourcesOfUseIssue
  <2>4. i # k + 1
    BY <2>2, <2>3
  <2>5. QED
    BY <2>1, <2>2, <2>3, <2>4 DEF Link
<1>8. LinksOK(flowSeq, c, k + 1)
  <2>1. SUFFICES ASSUME NEW l \in c.links
                 PROVE  \E i \in 1..(k + 1), j \in 1..(k + 1) :
                          i < j /\ l.source = flowSeq[i].id /\ l.user = flowSeq[j].id
    BY DEF LinksOK
  <2>2. CASE l \in chain.links
    <3>1. PICK i \in 1..k, j \in 1..k : i < j /\ l.source = flowSeq[i].id /\ l.user = flowSeq[j].id
      BY <1>1, <2>2 DEF LinksOK
    <3>2. i \in 1..(k + 1) /\ j \in 1..(k + 1)
      OBVIOUS
    <3>3. QED
      BY <3>1, <3>2
  <2>3. CASE \E a \in uses : l \in UNION LinksOfUse(seen, flow, a)
    <3>1. PICK i \in 1..k : l.source = flowSeq[i].id
      BY <1>7, <2>3
    <3>2. l.user = flowSeq[k + 1].id
      BY <1>7, <2>3
    <3>3. i \in 1..(k + 1) /\ i < k + 1
      OBVIOUS
    <3>4. QED
      BY <1>1, <3>1, <3>2, <3>3
  <2>4. QED
    BY <1>6, <2>2, <2>3
<1>9. ASSUME NEW a \in uses PROVE UseOK(flowSeq, c, k + 1, a)
  <2>1. SUFFICES ASSUME IsCsrf(a.name), NEW i \in 1..k, Issues(flowSeq, i, a.value),
                        ~MayHideItsSource(flowSeq, k + 1, a)
                 PROVE  \E l \in c.links : /\ l.name = a.name /\ l.user = flowSeq[k + 1].id
                                           /\ \E h \in 1..k : Issues(flowSeq, h, a.value)
                                                              /\ l.source = flowSeq[h].id
    BY DEF UseOK
  <2>2. ASSUME NEW b \in Sourced(chain)
        PROVE  /\ b \in Sourced(seen) /\ seen.sources[b] # flow.id /\ seen.sources[b] # NoSource
               /\ b \in DOMAIN seen.sources
    <3>1. PICK h \in 1..k : chain.sources[b] = flowSeq[h].id
      BY <1>1, <2>2 DEF SourcesOK
    <3>2. flowSeq[h].id # flow.id
      BY DEF DistinctIds
    <3>3. QED
      BY <1>2, <2>2, <3>1, <3>2 DEF Sourced
  <2>3. SourcesOfUse(seen, a) # {} /\ flow.id \notin SourcesOfUse(seen, a)
    <3>1. CASE a \in Sourced(chain)
      BY <2>2, <3>1 DEF SourcesOfUse
    <3>2. CASE a \notin Sourced(chain)
      <4>1. \A h \in 1..k : ~Shown(flowSeq, h, a)
        BY <1>1, <3>2 DEF SourcesOK, Shown
      <4>2. ASSUME NEW b \in ResponseArtifacts(flow.row), IsCsrf(b.name), b.value = a.value
            PROVE  b \in Sourced(chain)
        <5>1. PICK h \in 1..k : Shown(flowSeq, h, b)
          BY <2>1, <4>1, <4>2 DEF MayHideItsSource
        <5>2. QED
          BY <1>1, <5>1 DEF SourcesOK, Shown
      <4>3. a \notin Sourced(seen) /\ SourcesOfUse(seen, a) = CsrfSources(seen, a.value)
        <5>1. a \notin Sourced(seen)
          BY <1>2, <2>1, <3>2, <4>2
        <5>2. a \in DOMAIN seen.sources /\ seen.sources[a] = NoSource
          BY <1>2, <5>1 DEF Sourced
        <5>3. QED
          BY <5>1, <5>2 DEF SourcesOfUse
      <4>4. CsrfSources(seen, a.value) # {}
        <5>1. PICK b \in ResponseArtifacts(flowSeq[i].row) : IsCsrf(b.name) /\ b.value = a.value
          BY <2>1 DEF Issues
        <5>2. b \in Sourced(seen)
          BY <1>1, <1>2, <5>1 DEF SourcesOK
        <5>3. QED
          BY <5>1, <5>2 DEF CsrfSources
      <4>5. ASSUME NEW b \in Sourced(seen), IsCsrf(b.name), b.value = a.value
            PROVE  seen.sources[b] # flow.id
        BY <1>2, <2>2, <4>2, <4>5
      <4>6. QED
        BY <4>3, <4>4, <4>5 DEF CsrfSources
    <3>3. QED
      BY <3>1, <3>2
  <2>4. PICK L \in LinksOfUse(seen, flow, a) : L \subseteq c.links
    BY <1>6
  <2>5. PICK s \in SourcesOfUse(seen, a) : L = {Link(a, s, flow)}
    BY <2>1, <2>3, <2>4 DEF LinksOfUse
  <2>6. Link(a, s, flow) \in c.links /\ Link(a, s, flow) \in UNION LinksOfUse(seen, flow, a)
    BY <2>4, <2>5
  <2>7. QED
    BY <1>7, <2>6
<1>10. UsesOK(flowSeq, c, k + 1)
  <2>1. ASSUME NEW j \in 1..k, NEW a \in RequestArtifacts(flowSeq[j].row)
        PROVE  UseOK(flowSeq, c, j, a)
    BY <1>1, <1>6 DEF UsesOK, UseOK
  <2>2. \A j \in 1..(k + 1) : j \in 1..k \/ j = k + 1
    OBVIOUS
  <2>3. QED
    BY <1>9, <2>1, <2>2 DEF UsesOK, uses
<1>11. Len(c.flowIds) = k + 1
  <2>1. chain.flowIds \in Seq(FlowIds)
    BY <1>1 DEF IsChain
  <2>2. QED
    BY <1>3, <2>1
<1>12. QED
  BY <1>3, <1>5, <1>8, <1>10, <1>11 DEF ChainOK

-----------------------------------------------------------------------------
(* InTime sorts: what comes k-th is what k - 1 others come before.         *)
Earlier(s, i, j) ==
  s[i].row.at < s[j].row.at \/ (s[i].row.at = s[j].row.at /\ i < j)

EarlierThan(s, i) == {j \in DOMAIN s : Earlier(s, j, i)}

Rank(s, i) == Cardinality(EarlierThan(s, i))

LEMMA TimesFact ==
  ASSUME NEW s \in Seq(Flow)
  PROVE  /\ Len(s) \in Nat /\ DOMAIN s = 1..Len(s)
         /\ \A i \in DOMAIN s : s[i].row.at \in Nat
<1>1. ASSUME NEW i \in DOMAIN s PROVE s[i].row.at \in Nat
  <2>1. s[i] \in Flow
    OBVIOUS
  <2>2. s[i].row \in Rows
    BY <2>1 DEF Flow
  <2>3. QED
    BY <2>2, RowsAssumption, InspectorAssumption
<1>2. QED
  BY <1>1

LEMMA RanksDiffer ==
  ASSUME NEW s \in Seq(Flow), NEW i \in DOMAIN s, NEW j \in DOMAIN s, Earlier(s, i, j)
  PROVE  Rank(s, i) < Rank(s, j)
<1> DEFINE A == EarlierThan(s, i)
           B == EarlierThan(s, j)
<1>1. /\ Len(s) \in Nat /\ DOMAIN s = 1..Len(s) /\ \A h \in DOMAIN s : s[h].row.at \in Nat
  BY TimesFact
<1>2. i \notin A /\ i \in B /\ A \subseteq B
  BY <1>1 DEF Earlier, EarlierThan
<1>3. IsFiniteSet(DOMAIN s) /\ A \in SUBSET DOMAIN s /\ B \in SUBSET DOMAIN s
  <2>1. \A m \in Nat : m \in Int /\ 1 \in Int
    OBVIOUS
  <2>2. \A m \in Nat : IsFiniteSet(1..m)
    BY <2>1, FS_Interval
  <2>3. IsFiniteSet(DOMAIN s)
    BY <1>1, <2>2
  <2>4. QED
    BY <2>3 DEF EarlierThan
<1>4. IsFiniteSet(A) /\ IsFiniteSet(B)
  BY <1>3, FS_Subset
<1> HIDE DEF A, B
<1>5. Cardinality(A) \in Nat /\ Cardinality(B) \in Nat /\ Cardinality(A) <= Cardinality(B)
  BY <1>2, <1>4, FS_Subset, FS_CardinalityType
<1>6. Cardinality(A) # Cardinality(B)
  BY <1>2, <1>4, FS_Subset
<1>7. QED
  BY <1>5, <1>6 DEF Rank, A, B

LEMMA RanksAreReached ==
  ASSUME NEW s \in Seq(Flow), NEW k \in DOMAIN s
  PROVE  \E i \in DOMAIN s : Rank(s, i) = k - 1
<1> DEFINE n == Len(s)
           r == [i \in 1..n |-> Rank(s, i)]
<1>1. n \in Nat /\ DOMAIN s = 1..n /\ \A h \in DOMAIN s : s[h].row.at \in Nat
  BY TimesFact
<1>2. IsFiniteSet(1..n) /\ Cardinality(1..n) = n
  BY <1>1, FS_Interval
<1>3. ASSUME NEW i \in 1..n PROVE Rank(s, i) \in 0..(n - 1)
  <2>1. EarlierThan(s, i) \in SUBSET (1..n) /\ i \notin EarlierThan(s, i)
    BY <1>1 DEF EarlierThan, Earlier
  <2>2. IsFiniteSet(EarlierThan(s, i)) /\ Cardinality(EarlierThan(s, i)) <= n
    BY <1>2, <2>1, FS_Subset
  <2>3. Cardinality(EarlierThan(s, i)) # n
    BY <1>2, <2>1, FS_Subset
  <2>4. QED
    BY <1>1, <2>2, <2>3, FS_CardinalityType DEF Rank
<1>4. ASSUME NEW i \in 1..n, NEW j \in 1..n, i # j PROVE Rank(s, i) # Rank(s, j)
  <2>1. Earlier(s, i, j) \/ Earlier(s, j, i)
    BY <1>1, <1>4 DEF Earlier
  <2>2. Rank(s, i) < Rank(s, j) \/ Rank(s, j) < Rank(s, i)
    BY <1>1, <2>1, RanksDiffer
  <2>3. QED
    BY <1>3, <2>2
<1>5. r \in Injection(1..n, 0..(n - 1))
  BY <1>3, <1>4 DEF Injection, IsInjective
<1>6. IsFiniteSet(0..(n - 1)) /\ Cardinality(0..(n - 1)) = n
  <2>1. \A m \in Nat : m \in Int /\ 0 \in Int /\ m - 1 \in Int
    OBVIOUS
  <2>2. \A m \in Nat : IsFiniteSet(0..(m - 1)) /\ Cardinality(0..(m - 1)) = IF 0 > m - 1 THEN 0 ELSE (m - 1) - 0 + 1
    BY <2>1, FS_Interval
  <2>3. \A m \in Nat : (IF 0 > m - 1 THEN 0 ELSE (m - 1) - 0 + 1) = m
    OBVIOUS
  <2>4. \A m \in Nat : IsFiniteSet(0..(m - 1)) /\ Cardinality(0..(m - 1)) = m
    BY <2>2, <2>3
  <2>5. QED
    BY <1>1, <2>4
<1> HIDE DEF n, r
<1>7. r \in Surjection(1..n, 0..(n - 1))
  BY <1>2, <1>5, <1>6, FS_Injection
<1>8. k - 1 \in 0..(n - 1)
  BY <1>1
<1>9. QED
  BY <1>1, <1>7, <1>8 DEF Surjection, r

LEMMA InTimeFact ==
  ASSUME NEW s \in Seq(Flow), DistinctIds(s)
  PROVE  /\ InTime(s) \in Seq(Flow) /\ Len(InTime(s)) = Len(s) /\ DistinctIds(InTime(s))
         /\ \A k \in DOMAIN s, m \in DOMAIN s :
              k < m => InTime(s)[k].row.at <= InTime(s)[m].row.at
<1> DEFINE at(k) == CHOOSE i \in DOMAIN s : Rank(s, i) = k - 1
           t == InTime(s)
<1>1. t = [k \in DOMAIN s |-> s[at(k)]]
  BY DEF InTime, Rank, EarlierThan, Earlier
<1>2. \A k \in DOMAIN s : at(k) \in DOMAIN s /\ Rank(s, at(k)) = k - 1
  BY RanksAreReached
<1> HIDE DEF at, t
<1>3. Len(s) \in Nat /\ DOMAIN s = 1..Len(s) /\ \A h \in DOMAIN s : s[h].row.at \in Nat
  BY TimesFact
<1>4. t \in [1..Len(s) -> Flow]
  BY <1>1, <1>2, <1>3
<1>5. t \in Seq(Flow) /\ Len(t) = Len(s) /\ DOMAIN t = DOMAIN s
  BY <1>3, <1>4
<1>6. ASSUME NEW k \in DOMAIN s, NEW m \in DOMAIN s, t[k].id = t[m].id
      PROVE  k = m
  <2>1. at(k) = at(m)
    BY <1>1, <1>2, <1>6 DEF DistinctIds
  <2>2. k - 1 = m - 1
    BY <1>2, <2>1
  <2>3. QED
    BY <1>3, <2>2
<1>7. ASSUME NEW k \in DOMAIN s, NEW m \in DOMAIN s, k < m
      PROVE  t[k].row.at <= t[m].row.at
  <2>1. ~Earlier(s, at(m), at(k))
    <3>1. SUFFICES ASSUME Earlier(s, at(m), at(k)) PROVE FALSE
      OBVIOUS
    <3>2. Rank(s, at(m)) < Rank(s, at(k))
      BY <1>2, <3>1, RanksDiffer
    <3>3. m - 1 < k - 1
      BY <1>2, <3>2
    <3>4. QED
      BY <1>3, <1>7, <3>3
  <2>2. s[at(k)].row.at <= s[at(m)].row.at
    <3>1. s[at(k)].row.at \in Nat /\ s[at(m)].row.at \in Nat
      BY <1>2, <1>3
    <3>2. ~(s[at(m)].row.at < s[at(k)].row.at)
      BY <2>1 DEF Earlier
    <3>3. QED
      BY <3>1, <3>2
  <2>3. QED
    BY <1>1, <2>2
<1>8. QED
  BY <1>5, <1>6, <1>7 DEF DistinctIds, t

-----------------------------------------------------------------------------
(* The pages that a query may yield.                                       *)
(*                                                                         *)
(* A text begins with the second.                                          *)
LEMMA TextsTellSeconds ==
  ASSUME NEW a \in Nat, NEW b \in Nat, Second(a) < Second(b)
  PROVE  TextBefore(a, b)
<1> DEFINE Fraction(q) == IF q = 0 THEN << >> ELSE IF q = 2 THEN <<1>> ELSE <<q \div 2, 1>>
           Begins(s, x) == 1 \in DOMAIN s /\ s[1] = x
<1>1. ASSUME NEW t \in Nat PROVE Begins(Text(t), Second(t))
  <2>1. Second(t) \in Nat /\ t % 4 \in 0..3
    BY DEF Second
  <2>2. Fraction(t % 4) \in Seq(Nat)
    <3>1. \A q \in 0..3 : q \div 2 \in Nat
      OBVIOUS
    <3>2. QED
      BY <2>1, <3>1
  <2>3. Text(t) = <<Second(t)>> \o Fraction(t % 4) \o <<9>>
    BY DEF Text
  <2> HIDE DEF Fraction
  <2>4. QED
    BY <2>1, <2>2, <2>3
<1>2. 1 \in DOMAIN Text(a) \cap DOMAIN Text(b) /\ Text(a)[1] < Text(b)[1]
  BY <1>1
<1>3. 1..(1 - 1) = {}
  OBVIOUS
<1>4. QED
  BY <1>2, <1>3 DEF TextBefore

LEMMA FirstPageFact ==
  ASSUME NEW S, NEW s \in Seq(S)
  PROVE  LET p == FirstPage(s) IN
         /\ p \in Seq(S) /\ Len(p) <= Len(s) /\ DOMAIN p = 1..Len(p) /\ DOMAIN p \subseteq DOMAIN s
         /\ \A i \in DOMAIN p : p[i] = s[i]
<1> DEFINE n == IF Len(s) < MaxRows THEN Len(s) ELSE MaxRows
<1>1. n \in Nat /\ n <= Len(s) /\ FirstPage(s) = SubSeq(s, 1, n)
  BY InspectorAssumption DEF FirstPage
<1> HIDE DEF n
<1>2. QED
  BY <1>1

LEMMA SetToSeqsFact ==
  ASSUME NEW F \in SUBSET FlowIds, NEW s \in SetToSeqs(F)
  PROVE  /\ s \in Seq(FlowIds) /\ Distinct(s) /\ Len(s) <= Cardinality(FlowIds)
         /\ DOMAIN s = 1..Len(s) /\ \A i \in DOMAIN s : s[i] \in F
<1>1. IsFiniteSet(F) /\ Cardinality(F) \in Nat /\ Cardinality(F) <= Cardinality(FlowIds)
  BY InspectorAssumption, FS_Subset, FS_CardinalityType
<1>2. s \in [1..Cardinality(F) -> F] /\ \A i, j \in DOMAIN s : s[i] = s[j] => i = j
  BY <1>1 DEF SetToSeqs
<1>3. QED
  BY <1>1, <1>2 DEF Distinct

(* A page holds flows that are stored, each once, and in the order asked.  *)
LEMMA PageFact ==
  ASSUME NEW q, NEW asc \in BOOLEAN, NEW page \in Pages(q, asc)
  PROVE  /\ page \in Ids
         /\ \A i \in DOMAIN page : page[i] \in Stored
         /\ asc => \A i, j \in DOMAIN page :
                     i < j => ~TextBefore(flows[page[j]].at, flows[page[i]].at)
<1>1. PICK o \in Orders(Matching(q)) : page = FirstPage(IF asc THEN o ELSE Reverse(o))
  BY DEF Pages
<1>2. Matching(q) \in SUBSET FlowIds /\ Matching(q) \subseteq Stored
  BY DEF Matching, Stored
<1>3. /\ o \in SetToSeqs(Matching(q))
      /\ \A i, j \in DOMAIN o : i < j => ~TextBefore(flows[o[j]].at, flows[o[i]].at)
  BY DEF Orders
<1>4. /\ o \in Seq(FlowIds) /\ Distinct(o) /\ Len(o) <= Cardinality(FlowIds)
      /\ DOMAIN o = 1..Len(o) /\ \A i \in DOMAIN o : o[i] \in Matching(q)
  BY <1>2, <1>3, SetToSeqsFact
<1>5. Cardinality(FlowIds) \in Nat
  BY InspectorAssumption, FS_CardinalityType
<1>6. CASE asc
  <2>1. page = FirstPage(o)
    BY <1>1, <1>6
  <2>2. /\ page \in Seq(FlowIds) /\ Len(page) <= Len(o) /\ DOMAIN page \subseteq DOMAIN o
        /\ \A i \in DOMAIN page : page[i] = o[i]
    BY <1>4, <2>1, FirstPageFact
  <2>3. Distinct(page)
    BY <1>4, <2>2 DEF Distinct
  <2>4. Len(page) <= Cardinality(FlowIds)
    BY <1>4, <1>5, <2>2
  <2>5. \A i \in DOMAIN page : page[i] \in Stored
    BY <1>2, <1>4, <2>2
  <2>6. \A i, j \in DOMAIN page : i < j => ~TextBefore(flows[page[j]].at, flows[page[i]].at)
    BY <1>3, <2>2
  <2>7. QED
    BY <2>2, <2>3, <2>4, <2>5, <2>6 DEF Ids
<1>7. CASE ~asc
  <2> DEFINE r == Reverse(o)
  <2>1. r \in Seq(FlowIds) /\ Len(r) = Len(o) /\ DOMAIN r = 1..Len(o)
    BY <1>4 DEF Reverse
  <2>2. \A i \in DOMAIN r : (Len(o) - i) + 1 \in DOMAIN o /\ r[i] = o[(Len(o) - i) + 1]
    BY <1>4, <2>1 DEF Reverse
  <2>3. page = FirstPage(r)
    BY <1>1, <1>7
  <2> HIDE DEF r
  <2>4. /\ page \in Seq(FlowIds) /\ Len(page) <= Len(r) /\ DOMAIN page \subseteq DOMAIN r
        /\ \A i \in DOMAIN page : page[i] = r[i]
    BY <2>1, <2>3, FirstPageFact
  <2>5. ASSUME NEW i \in DOMAIN page, NEW j \in DOMAIN page, page[i] = page[j]
        PROVE  i = j
    <3>1. i \in 1..Len(o) /\ j \in 1..Len(o)
      BY <2>1, <2>4
    <3>2. o[(Len(o) - i) + 1] = o[(Len(o) - j) + 1]
      BY <2>2, <2>4, <2>5
    <3>3. (Len(o) - i) + 1 = (Len(o) - j) + 1
      BY <1>4, <2>2, <2>4, <3>2 DEF Distinct
    <3>4. QED
      BY <1>4, <3>1, <3>3
  <2>6. Len(page) <= Cardinality(FlowIds)
    BY <1>4, <1>5, <2>1, <2>4
  <2>7. \A i \in DOMAIN page : page[i] \in Stored
    BY <1>2, <1>4, <2>2, <2>4
  <2>8. QED
    BY <1>7, <2>4, <2>5, <2>6, <2>7 DEF Ids, Distinct
<1>8. QED
  BY <1>6, <1>7

LEMMA NamedFact == Named \subseteq Ids
<1>1. SUFFICES ASSUME NEW s \in Named PROVE s \in Ids
  OBVIOUS
<1>2. Cardinality(FlowIds) \in Nat
  BY InspectorAssumption, FS_CardinalityType
<1>3. PICK n \in 1..Cardinality(FlowIds) : s \in [1..n -> FlowIds]
  BY DEF Named
<1>4. s \in Seq(FlowIds) /\ Len(s) = n /\ n <= Cardinality(FlowIds)
  BY <1>2, <1>3
<1>5. Distinct(s)
  BY DEF Named, Distinct
<1>6. QED
  BY <1>4, <1>5 DEF Ids

-----------------------------------------------------------------------------
(* The draft after its first k flows were bound.                           *)
(*                                                                         *)
(* The response to a step that runs issued v, at the path p.               *)
IssuedAt(flowSeq, j, p, v) ==
  LET row == flowSeq[j].row IN Included(row) /\ p \in Leaves(row) /\ row.answer[p] = v

(* What was known after step j. *)
KnownAt(previous, j) == {v \in DOMAIN previous : previous[v].step <= j}

(* A value is known with the step and the path that issued it; all those   *)
(* that are of use are known of a response that was read and walked to its *)
(* end, but for the ones that came when there was no room.                 *)
PreviousOK(flowSeq, previous, k) ==
  /\ \A v \in DOMAIN previous :
       /\ v \in Useful /\ previous[v].step \in 1..k
       /\ IssuedAt(flowSeq, previous[v].step, previous[v].path, v)
  /\ \A j \in 1..k : ~Truncated(flowSeq[j].row) /\ ~flowSeq[j].row.largeResponse =>
       \A p \in Paths, v \in Useful : IssuedAt(flowSeq, j, p, v) =>
         v \in DOMAIN previous \/ Cardinality(KnownAt(previous, j)) = MaxBindings

(* An extraction follows a path of its response that has its key. *)
ExtractOK(flowSeq, step, j) ==
  \A key \in DOMAIN step.extract : /\ step.extract[key] \in Leaves(flowSeq[j].row)
                                    /\ KeyOf[step.extract[key]] = key

(* In place of u stands what an earlier step issued and has extracted. *)
PieceOK(flowSeq, steps, i, u, source) ==
  /\ source.step \in 1..(i - 1) /\ IssuedAt(flowSeq, source.step, source.path, u)
  /\ KeyOf[source.path] \in DOMAIN steps[source.step].extract

(* A part that was captured as v, where the values W can be replaced: each *)
(* that was issued before is, was missed or has given way.                 *)
TextOK(flowSeq, steps, i, part, v, W) ==
  /\ part.is = "text" /\ part.of = v
  /\ DOMAIN part.with \subseteq W \cap Useful
  /\ \A u \in DOMAIN part.with : PieceOK(flowSeq, steps, i, u, part.with[u])
  /\ \A u \in (W \cap IssuedBefore(flowSeq, i)) \ DOMAIN part.with :
       \/ MayBeMissed(flowSeq, i, u)
       \/ \E w \in DOMAIN part.with : Clash(v, u, w) /\ NoLater(flowSeq, i, w, u)

Within(row, v) == IF row.largeRequest THEN {} ELSE {v} \cup Inside[v]

IsStep(step) == {"included", "denied", "header", "body", "extract"} \subseteq DOMAIN step

PartsOK(flowSeq, steps, step, i, row) ==
  /\ TextOK(flowSeq, steps, i, step.header, row.header, {row.header})
  /\ \A n \in Fields :
       IF n \in InputFields(row) THEN step.body[n] = Input(n)
       ELSE TextOK(flowSeq, steps, i, step.body[n], row.fields[n], Within(row, row.fields[n]))

(* The step at i, made of a flow with this row. *)
MadeOK(flowSeq, steps, step, i, row) ==
  /\ IsStep(step) /\ step.included = Included(row) /\ ExtractOK(flowSeq, step, i)
  /\ Included(row) => PartsOK(flowSeq, steps, step, i, row)

StepOK(flowSeq, steps, i) == MadeOK(flowSeq, steps, steps[i], i, flowSeq[i].row)

IsSequence(s) == s \in Seq({s[i] : i \in DOMAIN s})

WorkflowOK(flowSeq, steps) ==
  /\ IsSequence(steps)
  /\ Len(steps) <= Len(flowSeq)
  /\ \A i \in DOMAIN steps : StepOK(flowSeq, steps, i)

DraftOK(flowSeq, d) ==
  /\ {"steps", "previous"} \subseteq DOMAIN d
  /\ WorkflowOK(flowSeq, d.steps) /\ PreviousOK(flowSeq, d.previous, Len(d.steps))

LEMMA LeavesHold ==
  ASSUME NEW row, NEW p \in Leaves(row)
  PROVE  p \in Paths /\ row.answer[p] # NoValue
BY DEF Leaves

(* What is walked are leaves, and all of them if they are not too many. *)
LEMMA WalksFact ==
  ASSUME NEW row, NEW w \in Walks(row)
  PROVE  w \subseteq Leaves(row) /\ (~Truncated(row) => w = Leaves(row))
BY DEF Walks, kSubset

(* What a step that runs adds to what is known: of the values it issues    *)
(* those that are taken, each with the first path to it.                   *)
NewIn(previous, row, w) == ({row.answer[p] : p \in w} \cap Useful) \ DOMAIN previous

AddsTo(after, previous, i, row, w, taken, first) ==
  /\ \/ taken = NewIn(previous, row, w)
     \/ Cardinality(DOMAIN previous \cup taken) = MaxBindings
  /\ \A v \in taken : row.answer[first[v]] = v
  /\ after = [v \in taken \cup DOMAIN previous |->
                IF v \in taken THEN [step |-> i, path |-> first[v]] ELSE previous[v]]

LEMMA TakenFact ==
  ASSUME NEW known, NEW issued, NEW taken \in Taken(known, issued)
  PROVE  /\ taken \in SUBSET issued
         /\ taken = issued \/ Cardinality(known \cup taken) = MaxBindings
BY DEF Taken

LEMMA AddedFact ==
  ASSUME NEW previous, NEW i, NEW row, NEW w, NEW after \in AddSources(previous, i, row, w)
  PROVE  \E taken \in SUBSET NewIn(previous, row, w) :
           \E first \in [taken -> w] : AddsTo(after, previous, i, row, w, taken, first)
<1> DEFINE known == DOMAIN previous
           firsts(taken) == {f \in [taken -> w] : \A v \in taken : row.answer[f[v]] = v}
           added(taken, first) ==
             [v \in taken \cup known |->
                IF v \in taken THEN [step |-> i, path |-> first[v]] ELSE previous[v]]
<1>1. after \in UNION {{added(taken, first) : first \in firsts(taken)} :
                         taken \in Taken(known, NewIn(previous, row, w))}
  BY Zenon DEF AddSources, NewIn
<1> HIDE DEF known, firsts, added
<1>2. PICK taken \in Taken(known, NewIn(previous, row, w)) :
        \E first \in firsts(taken) : after = added(taken, first)
  BY <1>1
<1>3. PICK first \in firsts(taken) : after = added(taken, first)
  BY <1>2
<1>4. first \in [taken -> w] /\ \A v \in taken : row.answer[first[v]] = v
  BY <1>3 DEF firsts
<1>5. AddsTo(after, previous, i, row, w, taken, first)
  BY <1>3, <1>4, TakenFact DEF AddsTo, added, known
<1>6. QED
  BY <1>4, <1>5, TakenFact

LEMMA AddSourcesFact ==
  ASSUME NEW flowSeq, NEW k \in Nat, NEW previous, PreviousOK(flowSeq, previous, k),
         NEW row, row = flowSeq[k + 1].row, TakesSources(row), NEW w \in Walks(row),
         NEW after \in AddSources(previous, k + 1, row, w)
  PROVE  PreviousOK(flowSeq, after, k + 1)
<1>0. PICK taken \in SUBSET NewIn(previous, row, w) :
        \E first \in [taken -> w] : AddsTo(after, previous, k + 1, row, w, taken, first)
  BY AddedFact
<1>1. PICK first \in [taken -> w] : AddsTo(after, previous, k + 1, row, w, taken, first)
  BY <1>0
<1>2. w \subseteq Leaves(row) /\ (~Truncated(row) => w = Leaves(row)) /\ Included(row)
  BY WalksFact DEF TakesSources
<1>3. DOMAIN after = taken \cup DOMAIN previous
  BY <1>1 DEF AddsTo
<1>4. ASSUME NEW v \in taken
      PROVE  /\ after[v].step = k + 1 /\ v \in Useful
             /\ IssuedAt(flowSeq, k + 1, after[v].path, v)
  <2>1. after[v] = [step |-> k + 1, path |-> first[v]] /\ first[v] \in w
    BY <1>1, <1>4 DEF AddsTo
  <2>2. after[v].step = k + 1 /\ after[v].path = first[v] /\ first[v] \in Leaves(row)
    BY <1>2, <2>1
  <2>3. row.answer[first[v]] = v /\ v \in Useful
    BY <1>1, <1>4 DEF AddsTo, NewIn
  <2>4. QED
    BY <1>2, <2>2, <2>3 DEF IssuedAt
<1>5. ASSUME NEW v \in DOMAIN previous
      PROVE  after[v] = previous[v]
  BY <1>1, <1>5 DEF AddsTo, NewIn
<1>6. ASSUME NEW v \in DOMAIN after
      PROVE  /\ v \in Useful /\ after[v].step \in 1..(k + 1)
             /\ IssuedAt(flowSeq, after[v].step, after[v].path, v)
  <2>1. CASE v \in taken
    BY <1>4, <2>1
  <2>2. CASE v \in DOMAIN previous
    <3>1. /\ v \in Useful /\ previous[v].step \in 1..k
          /\ IssuedAt(flowSeq, previous[v].step, previous[v].path, v)
      BY <2>2 DEF PreviousOK
    <3>2. QED
      BY <1>5, <2>2, <3>1
  <2>3. QED
    BY <1>3, <1>6, <2>1, <2>2
<1>7. ASSUME NEW j \in 1..k
      PROVE  KnownAt(after, j) = KnownAt(previous, j)
  <2>1. \A v \in taken : ~(after[v].step <= j)
    BY <1>4, <1>7
  <2>2. QED
    BY <1>3, <1>5, <2>1 DEF KnownAt
<1>8. KnownAt(after, k + 1) = DOMAIN after
  <2>1. \A v \in DOMAIN after : after[v].step <= k + 1
    BY <1>6
  <2>2. QED
    BY <2>1 DEF KnownAt
<1>9. ASSUME NEW j \in 1..(k + 1), ~Truncated(flowSeq[j].row), ~flowSeq[j].row.largeResponse,
             NEW p \in Paths, NEW v \in Useful, IssuedAt(flowSeq, j, p, v)
      PROVE  v \in DOMAIN after \/ Cardinality(KnownAt(after, j)) = MaxBindings
  <2>1. CASE j = k + 1
    <3>1. p \in w /\ row.answer[p] = v
      BY <1>2, <1>9, <2>1 DEF IssuedAt
    <3>2. CASE taken = NewIn(previous, row, w)
      BY <1>3, <3>1, <3>2 DEF NewIn
    <3>3. CASE Cardinality(DOMAIN previous \cup taken) = MaxBindings
      <4>1. DOMAIN after = DOMAIN previous \cup taken
        BY <1>3
      <4>2. QED
        BY <1>8, <2>1, <3>3, <4>1
    <3>4. QED
      BY <1>1, <3>2, <3>3 DEF AddsTo
  <2>2. CASE j \in 1..k
    <3>1. v \in DOMAIN previous \/ Cardinality(KnownAt(previous, j)) = MaxBindings
      BY <1>9, <2>2 DEF PreviousOK
    <3>2. QED
      BY <1>3, <1>7, <2>2, <3>1
  <2>3. QED
    BY <2>1, <2>2
<1>10. QED
  BY <1>6, <1>9 DEF PreviousOK

(* A step that does not run, or whose response is too long, adds nothing. *)
LEMMA NothingAdded ==
  ASSUME NEW flowSeq, NEW k \in Nat, NEW previous, PreviousOK(flowSeq, previous, k),
         ~TakesSources(flowSeq[k + 1].row)
  PROVE  PreviousOK(flowSeq, previous, k + 1)
<1>1. \A v \in DOMAIN previous :
        /\ v \in Useful /\ previous[v].step \in 1..(k + 1)
        /\ IssuedAt(flowSeq, previous[v].step, previous[v].path, v)
  BY DEF PreviousOK
<1>2. ASSUME NEW j \in 1..(k + 1), ~Truncated(flowSeq[j].row), ~flowSeq[j].row.largeResponse,
             NEW p \in Paths, NEW v \in Useful, IssuedAt(flowSeq, j, p, v)
      PROVE  v \in DOMAIN previous \/ Cardinality(KnownAt(previous, j)) = MaxBindings
  <2>1. j # k + 1
    BY <1>2 DEF IssuedAt, TakesSources
  <2>2. j \in 1..k
    BY <2>1
  <2>3. QED
    BY <1>2, <2>2 DEF PreviousOK
<1>3. QED
  BY <1>1, <1>2 DEF PreviousOK

(* Where there was no room for a value, more had been issued than fit. *)
LEMMA NoRoom ==
  ASSUME NEW flowSeq, NEW k \in Nat, NEW previous, PreviousOK(flowSeq, previous, k),
         NEW j \in 1..k, Cardinality(KnownAt(previous, j)) = MaxBindings,
         NEW v \in Useful \ DOMAIN previous, NEW p \in Paths, IssuedAt(flowSeq, j, p, v)
  PROVE  TooMany(flowSeq, j)
<1> DEFINE known == KnownAt(previous, j)
           issued == {u \in Useful : IssuersOf(flowSeq, j + 1, u) # {}}
<1>1. ASSUME NEW u \in Useful, NEW l \in 1..j, NEW q, IssuedAt(flowSeq, l, q, u)
      PROVE  u \in issued
  <2>1. l \in 1..((j + 1) - 1)
    OBVIOUS
  <2>2. l \in IssuersOf(flowSeq, j + 1, u)
    BY <1>1, <2>1 DEF IssuersOf, IssuedAt
  <2>3. QED
    BY <2>2
<1>2. ASSUME NEW u \in known
      PROVE  u \in issued \ {v}
  <2>1. /\ u \in Useful /\ previous[u].step \in 1..k /\ previous[u].step <= j /\ u # v
        /\ IssuedAt(flowSeq, previous[u].step, previous[u].path, u)
    BY <1>2 DEF PreviousOK, KnownAt
  <2>2. previous[u].step \in 1..j
    BY <2>1
  <2>3. QED
    BY <1>1, <2>1, <2>2
<1>3. v \in issued
  BY <1>1
<1>4. IsFiniteSet(issued)
  BY CompilerAssumption, FS_Subset
<1> HIDE DEF known, issued
<1>5. /\ IsFiniteSet(issued \ {v}) /\ Cardinality(issued \ {v}) = Cardinality(issued) - 1
      /\ Cardinality(issued) \in Nat
  BY <1>3, <1>4, FS_RemoveElement, FS_CardinalityType
<1>6. Cardinality(known) <= Cardinality(issued \ {v}) /\ Cardinality(known) \in Nat
  <2>1. known \subseteq issued \ {v}
    BY <1>2
  <2>2. QED
    BY <1>5, <2>1, FS_Subset, FS_CardinalityType
<1>7. Cardinality(known) = MaxBindings
  BY DEF known
<1>8. Cardinality(issued) > MaxBindings
  BY <1>5, <1>6, <1>7
<1>9. QED
  BY <1>8 DEF TooMany, issued

-----------------------------------------------------------------------------
(* The extractions of a turn. *)
LEMMA ExtractionsFact ==
  ASSUME NEW used, NEW last \in Extractions(used)
  PROVE  /\ \A s \in used : Entry(s) \in DOMAIN last
         /\ \A e \in DOMAIN last : last[e] \in used /\ Entry(last[e]) = e
BY DEF Extractions

LEMMA ExtractingFact ==
  ASSUME NEW step, IsStep(step), NEW j, NEW last, NEW e, e = Extracting(step, j, last)
  PROVE  /\ IsStep(e) /\ e.included = step.included
         /\ e.header = step.header /\ e.body = step.body
         /\ DOMAIN step.extract \subseteq DOMAIN e.extract
         /\ \A k : k \in DOMAIN e.extract <=> k \in DOMAIN step.extract \/ <<j, k>> \in DOMAIN last
         /\ \A k : /\ <<j, k>> \in DOMAIN last => e.extract[k] = last[<<j, k>>].path
                   /\ k \in DOMAIN step.extract /\ <<j, k>> \notin DOMAIN last =>
                        e.extract[k] = step.extract[k]
<1> DEFINE keys == {k \in {entry[2] : entry \in DOMAIN last} : <<j, k>> \in DOMAIN last}
           x == [k \in keys \cup DOMAIN step.extract |->
                   IF k \in keys THEN last[<<j, k>>].path ELSE step.extract[k]]
<1>1. e = [step EXCEPT !.extract = x]
  BY DEF Extracting
<1>2. \A k : k \in keys <=> <<j, k>> \in DOMAIN last
  OBVIOUS
<1>3. /\ DOMAIN step.extract \subseteq DOMAIN x
      /\ \A k : k \in DOMAIN x <=> k \in DOMAIN step.extract \/ <<j, k>> \in DOMAIN last
      /\ \A k : /\ <<j, k>> \in DOMAIN last => x[k] = last[<<j, k>>].path
                /\ k \in DOMAIN step.extract /\ <<j, k>> \notin DOMAIN last =>
                     x[k] = step.extract[k]
  BY <1>2
<1> HIDE DEF x
<1>4. /\ IsStep(e) /\ e.included = step.included /\ e.header = step.header
      /\ e.body = step.body /\ e.extract = x
  BY <1>1 DEF IsStep
<1>5. QED
  BY <1>3, <1>4

(* What an earlier step extracts is issued by it, before and after. *)
LEMMA ExtractingOK ==
  ASSUME NEW flowSeq, NEW k \in Nat, NEW previous, PreviousOK(flowSeq, previous, k),
         NEW used, \A s \in used : \E v \in DOMAIN previous : s = previous[v],
         NEW last \in Extractions(used), NEW j \in 1..k, NEW step, IsStep(step),
         ExtractOK(flowSeq, step, j)
  PROVE  ExtractOK(flowSeq, Extracting(step, j, last), j)
<1> DEFINE e == Extracting(step, j, last)
<1> SUFFICES ASSUME NEW key \in DOMAIN e.extract
             PROVE  e.extract[key] \in Leaves(flowSeq[j].row) /\ KeyOf[e.extract[key]] = key
  BY DEF ExtractOK
<1>1. CASE <<j, key>> \in DOMAIN last
  <2> DEFINE s == last[<<j, key>>]
  <2>1. s \in used /\ Entry(s) = <<j, key>> /\ e.extract[key] = s.path
    BY <1>1, ExtractionsFact, ExtractingFact
  <2>2. s.step = j /\ KeyOf[s.path] = key
    BY <2>1 DEF Entry
  <2>3. PICK v \in DOMAIN previous : s = previous[v]
    BY <2>1
  <2>4. IssuedAt(flowSeq, j, s.path, v)
    BY <2>2, <2>3 DEF PreviousOK
  <2>5. QED
    BY <2>1, <2>2, <2>4 DEF IssuedAt
<1>2. CASE <<j, key>> \notin DOMAIN last
  <2>1. key \in DOMAIN step.extract /\ e.extract[key] = step.extract[key]
    BY <1>2, ExtractingFact
  <2>2. QED
    BY <2>1 DEF ExtractOK
<1>3. QED
  BY <1>1, <1>2

-----------------------------------------------------------------------------
(* The parts of a step. *)
LEMMA KnownIsIssued ==
  ASSUME NEW flowSeq, NEW k \in Nat, NEW previous, PreviousOK(flowSeq, previous, k),
         NEW v \in DOMAIN previous
  PROVE  /\ previous[v].step \in 1..k /\ previous[v].step \in IssuersOf(flowSeq, k + 1, v)
         /\ IssuedAt(flowSeq, previous[v].step, previous[v].path, v)
<1>1. /\ previous[v].step \in 1..k
      /\ IssuedAt(flowSeq, previous[v].step, previous[v].path, v)
  BY DEF PreviousOK
<1>2. previous[v].step \in 1..((k + 1) - 1)
  BY <1>1
<1>3. QED
  BY <1>1, <1>2 DEF IssuedAt, IssuersOf

LEMMA UnknownIsMissed ==
  ASSUME NEW flowSeq, NEW k \in Nat, NEW previous, PreviousOK(flowSeq, previous, k),
         NEW v, v \notin DOMAIN previous
  PROVE  MayBeMissed(flowSeq, k + 1, v)
<1>1. ASSUME NEW j \in IssuersOf(flowSeq, k + 1, v), v \in Useful
      PROVE  \/ flowSeq[j].row.largeResponse \/ Truncated(flowSeq[j].row) \/ TooMany(flowSeq, j)
  <2>1. (k + 1) - 1 = k
    OBVIOUS
  <2>2. j \in 1..k /\ Included(flowSeq[j].row)
    BY <2>1 DEF IssuersOf
  <2>3. PICK p \in Leaves(flowSeq[j].row) : flowSeq[j].row.answer[p] = v
    BY DEF IssuersOf
  <2>4. p \in Paths /\ IssuedAt(flowSeq, j, p, v)
    BY <2>2, <2>3, LeavesHold DEF IssuedAt
  <2> SUFFICES ASSUME ~flowSeq[j].row.largeResponse, ~Truncated(flowSeq[j].row)
               PROVE  TooMany(flowSeq, j)
    OBVIOUS
  <2>5. Cardinality(KnownAt(previous, j)) = MaxBindings
    BY <1>1, <2>2, <2>4 DEF PreviousOK
  <2>6. QED
    BY <1>1, <2>2, <2>4, <2>5, NoRoom
<1>2. QED
  BY <1>1 DEF MayBeMissed

LEMMA RestrictFact ==
  ASSUME NEW v, NEW previous, NEW R
  PROVE  LET part == Template(v, Restrict(previous, R)) IN
         /\ part.is = "text" /\ part.of = v /\ DOMAIN part.with = R
         /\ \A u \in R : part.with[u] = previous[u]
BY DEF Template, Restrict

LEMMA CapturedFact ==
  ASSUME NEW v, NEW previous
  PROVE  Captured(v) = Template(v, Restrict(previous, {}))
<1>1. Nothing = Restrict(previous, {})
  BY DEF Nothing, Restrict
<1>2. QED
  BY <1>1 DEF Captured

LEMMA TextBound ==
  ASSUME NEW flowSeq, NEW k \in Nat, NEW previous, PreviousOK(flowSeq, previous, k),
         NEW steps, NEW v, NEW W, NEW R \in SUBSET (W \cap DOMAIN previous),
         \A u \in R : KeyOf[previous[u].path] \in DOMAIN steps[previous[u].step].extract,
         \A u \in (W \cap DOMAIN previous) \ R :
           \E w \in R : Clash(v, u, w) /\ previous[w].step <= previous[u].step
  PROVE  TextOK(flowSeq, steps, k + 1, Template(v, Restrict(previous, R)), v, W)
<1> DEFINE part == Template(v, Restrict(previous, R))
<1>1. /\ part.is = "text" /\ part.of = v /\ DOMAIN part.with = R
      /\ \A u \in R : part.with[u] = previous[u]
  BY RestrictFact
<1> HIDE DEF part
<1>2. (k + 1) - 1 = k
  OBVIOUS
<1>3. ASSUME NEW u \in R PROVE u \in Useful /\ PieceOK(flowSeq, steps, k + 1, u, part.with[u])
  <2>1. u \in Useful
    BY DEF PreviousOK
  <2>2. /\ previous[u].step \in 1..k
        /\ IssuedAt(flowSeq, previous[u].step, previous[u].path, u)
    BY KnownIsIssued
  <2>3. PieceOK(flowSeq, steps, k + 1, u, previous[u])
    BY <1>2, <2>2 DEF PieceOK
  <2>4. QED
    BY <1>1, <2>1, <2>3
<1>4. ASSUME NEW u \in W \ R
      PROVE  \/ MayBeMissed(flowSeq, k + 1, u)
             \/ \E w \in R : Clash(v, u, w) /\ NoLater(flowSeq, k + 1, w, u)
  <2>1. CASE u \in DOMAIN previous
    <3>1. PICK w \in R : Clash(v, u, w) /\ previous[w].step <= previous[u].step
      BY <2>1
    <3>2. /\ previous[w].step \in IssuersOf(flowSeq, k + 1, w)
          /\ previous[u].step \in IssuersOf(flowSeq, k + 1, u)
      BY <2>1, KnownIsIssued
    <3>3. NoLater(flowSeq, k + 1, w, u)
      BY <3>1, <3>2 DEF NoLater
    <3>4. QED
      BY <3>1, <3>3
  <2>2. CASE u \notin DOMAIN previous
    BY <2>2, UnknownIsMissed
  <2>3. QED
    BY <2>1, <2>2
<1>5. TextOK(flowSeq, steps, k + 1, part, v, W)
  BY <1>1, <1>3, <1>4 DEF TextOK
<1>6. QED
  BY <1>5 DEF part

(* A part stays as it is when more is extracted. *)
LEMMA TextKept ==
  ASSUME NEW flowSeq, NEW i \in Nat, NEW steps, NEW more,
         \A j \in 1..(i - 1) : DOMAIN steps[j].extract \subseteq DOMAIN more[j].extract,
         NEW part, NEW v, NEW W, TextOK(flowSeq, steps, i, part, v, W)
  PROVE  TextOK(flowSeq, more, i, part, v, W)
<1>1. \A u \in DOMAIN part.with : PieceOK(flowSeq, more, i, u, part.with[u])
  BY DEF TextOK, PieceOK
<1>2. QED
  BY <1>1 DEF TextOK

(* The step that is bound. *)
IsDrafted(d, row) ==
  /\ IsStep(d) /\ d.included = Included(row) /\ DOMAIN d.extract = {}
  /\ d.header = Captured(row.header)
  /\ \A n \in Fields : d.body[n] = IF n \in InputFields(row) /\ Included(row)
                                   THEN Input(n) ELSE Captured(row.fields[n])

LEMMA DraftStepFact ==
  ASSUME NEW flow
  PROVE  IsDrafted(DraftStep(flow), flow.row)
BY DEF DraftStep, IsStep, IsDrafted

IsBound(b, step, row, previous) ==
  /\ IsStep(b) /\ b.included = step.included /\ b.extract = step.extract
  /\ b.header = Template(row.header, Restrict(previous, {row.header} \cap DOMAIN previous))
  /\ \A n \in Fields : IF n \in Secret THEN b.body[n] \in BoundTexts(row, n, previous)
                       ELSE b.body[n] = step.body[n]

LEMMA BoundStepsFact ==
  ASSUME NEW step, IsStep(step), NEW row, NEW previous, NEW b \in BoundSteps(step, row, previous)
  PROVE  IsBound(b, step, row, previous)
<1> DEFINE header == Template(row.header, Restrict(previous, {row.header} \cap DOMAIN previous))
           body(t) == [n \in Fields |-> IF n \in Secret THEN t[n] ELSE step.body[n]]
<1>1. PICK t \in [Secret -> UNION {BoundTexts(row, n, previous) : n \in Secret}] :
        /\ \A n \in Secret : t[n] \in BoundTexts(row, n, previous)
        /\ b = [step EXCEPT !.header = header, !.body = body(t)]
  BY DEF BoundSteps
<1>2. \A n \in Fields : body(t)[n] = IF n \in Secret THEN t[n] ELSE step.body[n]
  OBVIOUS
<1> HIDE DEF body, header
<1>3. /\ IsStep(b) /\ b.included = step.included /\ b.extract = step.extract
      /\ b.header = header /\ b.body = body(t)
  BY <1>1 DEF IsStep
<1>4. QED
  BY <1>1, <1>2, <1>3 DEF header, IsBound

(* The text of a field after its turn. *)
LEMMA BoundTextsFact ==
  ASSUME NEW row, NEW n, NEW previous, NEW part \in BoundTexts(row, n, previous)
  PROVE  LET v == row.fields[n]
             W == Within(row, v)
         IN  \E R \in SUBSET (W \cap DOMAIN previous) :
               /\ part = Template(v, Restrict(previous, R))
               /\ \A u \in (W \cap DOMAIN previous) \ R :
                    \E w \in R : Clash(v, u, w) /\ previous[w].step <= previous[u].step
<1> DEFINE v == row.fields[n]
           W == Within(row, v)
<1>1. CASE row.largeRequest
  <2>1. W = {} /\ part = Captured(v)
    BY <1>1 DEF Within, BoundTexts
  <2> HIDE DEF W, v
  <2>2. part = Template(v, Restrict(previous, {}))
    BY <2>1, CapturedFact
  <2>3. QED
    BY <2>1, <2>2 DEF W, v
<1>2. CASE ~row.largeRequest
  <2>1. W \cap DOMAIN previous = Replaceable(v, previous)
    BY <1>2 DEF Within, Replaceable
  <2>2. PICK R \in ReplacedIn(v, previous) : part = Template(v, Restrict(previous, R))
    BY <1>2 DEF BoundTexts
  <2>3. /\ R \in SUBSET Replaceable(v, previous)
        /\ \A u \in Replaceable(v, previous) \ R :
             \E w \in R : Clash(v, u, w) /\ previous[w].step <= previous[u].step
    BY DEF ReplacedIn
  <2> HIDE DEF W, v
  <2>4. QED
    BY <2>1, <2>2, <2>3 DEF W, v
<1>3. QED
  BY <1>1, <1>2

(* Sources that are used are known ones, those of the texts of the step. *)
LEMMA UsedFact ==
  ASSUME NEW step, NEW part \in Parts(step), NEW v, NEW previous, NEW R,
         part = Template(v, Restrict(previous, R)), NEW u \in R
  PROVE  previous[u] \in SourcesUsed(step)
<1>1. part.is = "text" /\ DOMAIN part.with = R /\ part.with[u] = previous[u]
  BY RestrictFact
<1>2. part \in Texts(step)
  BY <1>1 DEF Texts
<1>3. QED
  BY <1>1, <1>2 DEF SourcesUsed

IsOfPrevious(part, previous) ==
  \E v : \E R \in SUBSET DOMAIN previous : part = Template(v, Restrict(previous, R))

TextsAreOfPrevious(step, previous) == \A part \in Texts(step) : IsOfPrevious(part, previous)

LEMMA UsedAreKnown ==
  ASSUME NEW step, NEW previous, TextsAreOfPrevious(step, previous)
  PROVE  \A s \in SourcesUsed(step) : \E v \in DOMAIN previous : s = previous[v]
<1>1. SUFFICES ASSUME NEW s \in SourcesUsed(step) PROVE \E v \in DOMAIN previous : s = previous[v]
  OBVIOUS
<1>2. PICK part \in Texts(step) : \E u \in DOMAIN part.with : s = part.with[u]
  BY DEF SourcesUsed
<1>3. PICK v : \E R \in SUBSET DOMAIN previous : part = Template(v, Restrict(previous, R))
  BY DEF TextsAreOfPrevious, IsOfPrevious
<1>4. PICK R \in SUBSET DOMAIN previous : part = Template(v, Restrict(previous, R))
  BY <1>3
<1>5. DOMAIN part.with = R /\ \A u \in R : part.with[u] = previous[u]
  BY <1>4, RestrictFact
<1>6. QED
  BY <1>2, <1>5

LEMMA TextsOfDraft ==
  ASSUME NEW d, NEW row, IsDrafted(d, row), NEW previous, NEW n \in Fields,
         d.body[n].is = "text"
  PROVE  IsOfPrevious(d.body[n], previous)
<1>1. d.body[n] = Input(n) \/ d.body[n] = Captured(row.fields[n])
  BY DEF IsDrafted
<1>2. Input(n).is # "text"
  BY DEF Input
<1>3. d.body[n] = Template(row.fields[n], Restrict(previous, {}))
  BY <1>1, <1>2, CapturedFact
<1>4. QED
  BY <1>3 DEF IsOfPrevious

LEMMA DraftUses ==
  ASSUME NEW d, NEW row, IsDrafted(d, row), NEW previous
  PROVE  \A s \in SourcesUsed(d) : \E v \in DOMAIN previous : s = previous[v]
<1>1. ASSUME NEW part \in Texts(d) PROVE IsOfPrevious(part, previous)
  <2>1. CASE part = d.header
    <3>1. part = Template(row.header, Restrict(previous, {}))
      BY <2>1, CapturedFact DEF IsDrafted
    <3>2. QED
      BY <3>1 DEF IsOfPrevious
  <2>2. ASSUME NEW n \in Fields, part = d.body[n] PROVE IsOfPrevious(part, previous)
    BY <2>2, TextsOfDraft DEF Texts
  <2>3. QED
    BY <2>1, <2>2 DEF Texts, Parts
<1>2. TextsAreOfPrevious(d, previous)
  BY <1>1 DEF TextsAreOfPrevious
<1>3. QED
  BY <1>2, UsedAreKnown

LEMMA BoundUses ==
  ASSUME NEW d, NEW row, IsDrafted(d, row), NEW previous, NEW b \in BoundSteps(d, row, previous)
  PROVE  \A s \in SourcesUsed(b) : \E v \in DOMAIN previous : s = previous[v]
<1>1. /\ b.header = Template(row.header, Restrict(previous, {row.header} \cap DOMAIN previous))
      /\ \A n \in Fields : IF n \in Secret THEN b.body[n] \in BoundTexts(row, n, previous)
                           ELSE b.body[n] = d.body[n]
  <2>1. IsStep(d)
    BY DEF IsDrafted
  <2>2. IsBound(b, d, row, previous)
    BY <2>1, BoundStepsFact
  <2>3. QED
    BY <2>2 DEF IsBound
<1>2. ASSUME NEW part \in Texts(b) PROVE IsOfPrevious(part, previous)
  <2>1. CASE part = b.header
    BY <1>1, <2>1 DEF IsOfPrevious
  <2>2. ASSUME NEW n \in Fields, part = b.body[n] PROVE IsOfPrevious(part, previous)
    <3>1. CASE n \in Secret
      <4>1. part \in BoundTexts(row, n, previous)
        BY <1>1, <2>2, <3>1
      <4>2. PICK R \in SUBSET (Within(row, row.fields[n]) \cap DOMAIN previous) :
              part = Template(row.fields[n], Restrict(previous, R))
        BY <4>1, BoundTextsFact
      <4>3. QED
        BY <4>2 DEF IsOfPrevious
    <3>2. CASE n \notin Secret
      BY <1>1, <1>2, <2>2, <3>2, TextsOfDraft DEF Texts
    <3>3. QED
      BY <3>1, <3>2
  <2>3. QED
    BY <2>1, <2>2 DEF Texts, Parts
<1>3. TextsAreOfPrevious(b, previous)
  BY <1>2 DEF TextsAreOfPrevious
<1>4. QED
  BY <1>3, UsedAreKnown

LEMMA BoundStepOK ==
  ASSUME NEW flowSeq, NEW k \in Nat, NEW previous, PreviousOK(flowSeq, previous, k),
         NEW row, Included(row), NEW d, IsDrafted(d, row), NEW b \in BoundSteps(d, row, previous),
         NEW steps, \A s \in SourcesUsed(b) : KeyOf[s.path] \in DOMAIN steps[s.step].extract
  PROVE  MadeOK(flowSeq, steps, b, k + 1, row)
<1>1. /\ IsStep(d) /\ d.included = Included(row) /\ DOMAIN d.extract = {}
      /\ \A n \in Fields : d.body[n] = IF n \in InputFields(row) THEN Input(n)
                                       ELSE Captured(row.fields[n])
  BY DEF IsDrafted
<1>2. /\ IsStep(b) /\ b.included = d.included /\ b.extract = d.extract
      /\ b.header = Template(row.header, Restrict(previous, {row.header} \cap DOMAIN previous))
      /\ \A n \in Fields : IF n \in Secret THEN b.body[n] \in BoundTexts(row, n, previous)
                           ELSE b.body[n] = d.body[n]
  <2>1. IsStep(d)
    BY <1>1
  <2>2. IsBound(b, d, row, previous)
    BY <2>1, BoundStepsFact
  <2>3. QED
    BY <2>2 DEF IsBound
<1>3. b.header \in Parts(b) /\ \A n \in Fields : b.body[n] \in Parts(b)
  BY DEF Parts
<1>4. ASSUME NEW v, NEW R, Template(v, Restrict(previous, R)) \in Parts(b)
      PROVE  \A u \in R : KeyOf[previous[u].path] \in DOMAIN steps[previous[u].step].extract
  BY <1>4, UsedFact
<1>5. TextOK(flowSeq, steps, k + 1, b.header, row.header, {row.header})
  <2> DEFINE R == {row.header} \cap DOMAIN previous
  <2>1. \A u \in R : KeyOf[previous[u].path] \in DOMAIN steps[previous[u].step].extract
    BY <1>2, <1>3, <1>4
  <2>2. TextOK(flowSeq, steps, k + 1, Template(row.header, Restrict(previous, R)),
               row.header, {row.header})
    BY <2>1, TextBound
  <2>3. QED
    BY <1>2, <2>2
<1>6. ASSUME NEW n \in Fields, n \notin InputFields(row)
      PROVE  TextOK(flowSeq, steps, k + 1, b.body[n], row.fields[n], Within(row, row.fields[n]))
  <2> DEFINE v == row.fields[n]
             W == Within(row, v)
  <2>1. PICK R \in SUBSET (W \cap DOMAIN previous) :
          /\ b.body[n] = Template(v, Restrict(previous, R))
          /\ \A u \in (W \cap DOMAIN previous) \ R :
               \E w \in R : Clash(v, u, w) /\ previous[w].step <= previous[u].step
    <3>1. CASE n \in Secret
      <4>1. b.body[n] \in BoundTexts(row, n, previous)
        BY <1>2, <3>1
      <4>2. QED
        BY <4>1, BoundTextsFact
    <3>2. CASE n \notin Secret
      <4>1. v = NoValue
        BY <1>6, <3>2 DEF InputFields
      <4>2. W \cap DOMAIN previous = {}
        <5>1. W \subseteq {NoValue}
          BY <4>1, CompilerAssumption DEF Within
        <5>2. NoValue \notin DOMAIN previous
          BY CompilerAssumption, NamesAssumption DEF PreviousOK
        <5>3. QED
          BY <5>1, <5>2
      <4>3. b.body[n] = Captured(v)
        BY <1>1, <1>2, <1>6, <3>2
      <4>4. b.body[n] = Template(v, Restrict(previous, {}))
        BY <4>3, CapturedFact
      <4>5. QED
        BY <4>2, <4>4
    <3>3. QED
      BY <3>1, <3>2
  <2> HIDE DEF v, W
  <2>2. \A u \in R : KeyOf[previous[u].path] \in DOMAIN steps[previous[u].step].extract
    BY <1>3, <1>4, <2>1
  <2>3. TextOK(flowSeq, steps, k + 1, b.body[n], v, W)
    BY <2>1, <2>2, TextBound
  <2>4. QED
    BY <2>3 DEF v, W
<1>7. ASSUME NEW n \in Fields, n \in InputFields(row)
      PROVE  b.body[n] = Input(n)
  <2>1. n \notin Secret
    BY <1>7 DEF InputFields
  <2>2. QED
    BY <1>1, <1>2, <1>7, <2>1
<1>8. ExtractOK(flowSeq, b, k + 1)
  BY <1>1, <1>2 DEF ExtractOK
<1>9. PartsOK(flowSeq, steps, b, k + 1, row)
  BY <1>5, <1>6, <1>7 DEF PartsOK
<1>10. QED
  BY <1>1, <1>2, <1>8, <1>9 DEF MadeOK

(* The steps before it, from which more may be extracted. *)
LEMMA EarlierStepOK ==
  ASSUME NEW flowSeq, NEW k \in Nat, NEW previous, PreviousOK(flowSeq, previous, k),
         NEW used, \A s \in used : \E v \in DOMAIN previous : s = previous[v],
         NEW last \in Extractions(used), NEW steps, NEW more,
         \A j \in 1..k : StepOK(flowSeq, steps, j) /\ more[j] = Extracting(steps[j], j, last),
         NEW i \in 1..k
  PROVE  StepOK(flowSeq, more, i)
<1> DEFINE row == flowSeq[i].row
<1>1. ASSUME NEW j \in 1..k
      PROVE  /\ IsStep(more[j]) /\ more[j].included = steps[j].included
             /\ more[j].header = steps[j].header /\ more[j].body = steps[j].body
             /\ DOMAIN steps[j].extract \subseteq DOMAIN more[j].extract
  <2>1. IsStep(steps[j]) /\ more[j] = Extracting(steps[j], j, last)
    BY DEF StepOK, MadeOK
  <2>2. QED
    BY <2>1, ExtractingFact
<1>2. /\ IsStep(steps[i]) /\ steps[i].included = Included(row) /\ ExtractOK(flowSeq, steps[i], i)
      /\ Included(row) => PartsOK(flowSeq, steps, steps[i], i, row)
  BY DEF StepOK, MadeOK
<1>3. i \in Nat /\ \A j \in 1..(i - 1) : j \in 1..k
  OBVIOUS
<1>4. \A part, v, W : TextOK(flowSeq, steps, i, part, v, W) => TextOK(flowSeq, more, i, part, v, W)
  BY <1>1, <1>3, TextKept
<1>5. ExtractOK(flowSeq, more[i], i)
  <2>1. more[i] = Extracting(steps[i], i, last)
    OBVIOUS
  <2>2. QED
    BY <1>2, <2>1, ExtractingOK
<1>6. /\ IsStep(more[i]) /\ more[i].included = steps[i].included
      /\ more[i].header = steps[i].header /\ more[i].body = steps[i].body
  BY <1>1
<1>7. more[i].included = Included(row)
  BY <1>2, <1>6
<1>8. Included(row) => PartsOK(flowSeq, more, more[i], i, row)
  BY <1>2, <1>4, <1>6 DEF PartsOK
<1>9. QED
  BY <1>5, <1>6, <1>7, <1>8 DEF StepOK, MadeOK

(* A sequence and one more element. *)
LEMMA AppendFact ==
  ASSUME NEW s, IsSequence(s), NEW x
  PROVE  LET a == Append(s, x) IN
         /\ IsSequence(a) /\ Len(a) = Len(s) + 1
         /\ DOMAIN a = 1..(Len(s) + 1)
         /\ \A i \in 1..Len(s) : a[i] = s[i]
         /\ a[Len(s) + 1] = x
<1> DEFINE S == {s[i] : i \in DOMAIN s} \cup {x}
           a == Append(s, x)
<1>1. s \in Seq(S) /\ x \in S
  BY DEF IsSequence
<1> HIDE DEF S
<1>2. /\ Len(s) \in Nat /\ Len(a) = Len(s) + 1 /\ DOMAIN a = 1..(Len(s) + 1)
      /\ \A i \in 1..Len(s) : a[i] = s[i]
      /\ a[Len(s) + 1] = x
      /\ a \in Seq(S)
  BY <1>1
<1>3. a \in Seq({a[i] : i \in DOMAIN a})
  BY <1>2
<1>4. QED
  BY <1>2, <1>3 DEF IsSequence

(* The steps after a turn. *)
AfterTurn(more, steps, last, bound) ==
  /\ IsSequence(more) /\ Len(more) = Len(steps) + 1
  /\ DOMAIN more = 1..(Len(steps) + 1) /\ more[Len(steps) + 1] = bound
  /\ \A j \in 1..Len(steps) : more[j] = Extracting(steps[j], j, last)

LEMMA StepsOfTurn ==
  ASSUME NEW steps, IsSequence(steps), NEW last, NEW bound
  PROVE  AfterTurn(Append(ExtractAll(steps, last), bound), steps, last, bound)
<1> DEFINE e == ExtractAll(steps, last)
           S == {e[i] : i \in DOMAIN e}
<1>1. DOMAIN steps = 1..Len(steps) /\ Len(steps) \in Nat
  BY DEF IsSequence
<1>2. DOMAIN e = 1..Len(steps) /\ \A j \in 1..Len(steps) : e[j] = Extracting(steps[j], j, last)
  BY <1>1 DEF ExtractAll
<1>3. IsSequence(e) /\ Len(e) = Len(steps)
  <2>1. e = [j \in 1..Len(steps) |-> e[j]]
    BY <1>1 DEF ExtractAll
  <2> HIDE DEF e
  <2>2. e \in [1..Len(steps) -> S]
    BY <1>2, <2>1
  <2> HIDE DEF S
  <2>3. e \in Seq(S)
    BY <1>1, <2>2
  <2>4. QED
    BY <1>1, <1>2, <2>3 DEF S, IsSequence
<1> HIDE DEF e
<1>4. AfterTurn(Append(e, bound), steps, last, bound)
  BY <1>1, <1>2, <1>3, AppendFact DEF AfterTurn
<1>5. QED
  BY <1>4 DEF e

LEMMA BindFlowOK ==
  ASSUME NEW flowSeq, NEW d, DraftOK(flowSeq, d), Len(flowSeq) \in Nat,
         Len(d.steps) + 1 <= Len(flowSeq),
         NEW after \in BindFlow(d, flowSeq[Len(d.steps) + 1])
  PROVE  DraftOK(flowSeq, after) /\ Len(after.steps) = Len(d.steps) + 1
<1> DEFINE k == Len(d.steps)
           flow == flowSeq[k + 1]
           step == DraftStep(flow)
           bounds == IF step.included THEN BoundSteps(step, flow.row, d.previous) ELSE {step}
           sources == IF TakesSources(flow.row)
                      THEN UNION {AddSources(d.previous, k + 1, flow.row, w) : w \in Walks(flow.row)}
                      ELSE {d.previous}
<1>0. PICK bound \in bounds :
        after \in {[steps |-> Append(ExtractAll(d.steps, last), bound), previous |-> previous] :
                    last \in Extractions(SourcesUsed(bound)), previous \in sources}
  BY DEF BindFlow
<1> DEFINE used == SourcesUsed(bound)
<1>1. PICK last \in Extractions(used), previous \in sources :
        after = [steps |-> Append(ExtractAll(d.steps, last), bound),
                 previous |-> previous]
  BY <1>0
<1>2. /\ WorkflowOK(flowSeq, d.steps) /\ PreviousOK(flowSeq, d.previous, k)
      /\ IsSequence(d.steps) /\ k \in Nat
      /\ DOMAIN d.steps = 1..k
      /\ \A i \in 1..k : StepOK(flowSeq, d.steps, i)
  BY DEF DraftOK, WorkflowOK, IsSequence
<1>3. /\ IsDrafted(step, flow.row)
      /\ IsStep(step) /\ step.included = Included(flow.row) /\ DOMAIN step.extract = {}
  BY DraftStepFact DEF IsDrafted
<1> DEFINE more == after.steps
<1> HIDE DEF bounds, used, sources
<1>4. /\ more = Append(ExtractAll(d.steps, last), bound)
      /\ after.previous = previous /\ {"steps", "previous"} \subseteq DOMAIN after
  BY <1>1
<1> HIDE DEF more
<1>5. /\ IsSequence(more) /\ Len(more) = k + 1
      /\ DOMAIN more = 1..(k + 1) /\ more[k + 1] = bound
      /\ \A j \in 1..k : more[j] = Extracting(d.steps[j], j, last)
  <2>1. AfterTurn(more, d.steps, last, bound)
    BY <1>2, <1>4, StepsOfTurn
  <2>2. QED
    BY <2>1 DEF AfterTurn
<1>6. k + 1 <= Len(flowSeq)
  OBVIOUS
<1> HIDE DEF k
<1> HIDE DEF step
<1>7. \A s \in used : \E v \in DOMAIN d.previous : s = d.previous[v]
  <2>1. bound \in BoundSteps(step, flow.row, d.previous) \/ bound = step
    BY DEF bounds
  <2>2. CASE bound \in BoundSteps(step, flow.row, d.previous)
    BY <1>3, <2>2, BoundUses DEF used
  <2>3. CASE bound = step
    BY <1>3, <2>3, DraftUses DEF used
  <2>4. QED
    BY <2>1, <2>2, <2>3
<1>8. ASSUME NEW i \in 1..k PROVE StepOK(flowSeq, more, i)
  <2>1. \A j \in 1..k : StepOK(flowSeq, d.steps, j) /\ more[j] = Extracting(d.steps[j], j, last)
    BY <1>2, <1>5
  <2>2. QED
    BY <1>2, <1>7, <2>1, EarlierStepOK
<1>9. StepOK(flowSeq, more, k + 1)
  <2>1. CASE Included(flow.row)
    <3>1. bound \in BoundSteps(step, flow.row, d.previous)
      BY <1>3, <2>1 DEF bounds
    <3>2. ASSUME NEW s \in used PROVE KeyOf[s.path] \in DOMAIN more[s.step].extract
      <4>1. Entry(s) \in DOMAIN last
        BY ExtractionsFact
      <4>2. <<s.step, KeyOf[s.path]>> \in DOMAIN last
        BY <4>1 DEF Entry
      <4>3. s.step \in 1..k
        BY <1>2, <1>7, <3>2 DEF PreviousOK
      <4>4. IsStep(d.steps[s.step]) /\ more[s.step] = Extracting(d.steps[s.step], s.step, last)
        BY <1>2, <1>5, <4>3 DEF StepOK, MadeOK
      <4>5. QED
        BY <4>2, <4>4, ExtractingFact
    <3>3. MadeOK(flowSeq, more, bound, k + 1, flow.row)
      BY <1>2, <1>3, <2>1, <3>1, <3>2, BoundStepOK DEF used
    <3>4. QED
      BY <1>5, <3>3 DEF StepOK
  <2>2. CASE ~Included(flow.row)
    <3>1. more[k + 1] = step
      BY <1>3, <1>5, <2>2 DEF bounds
    <3>2. ExtractOK(flowSeq, step, k + 1)
      BY <1>3 DEF ExtractOK
    <3>3. QED
      BY <1>3, <2>2, <3>1, <3>2 DEF StepOK, MadeOK
  <2>3. QED
    BY <2>1, <2>2
<1>10. PreviousOK(flowSeq, previous, k + 1)
  <2>1. CASE TakesSources(flow.row)
    <3>1. PICK w \in Walks(flow.row) : previous \in AddSources(d.previous, k + 1, flow.row, w)
      BY <2>1 DEF sources
    <3>2. QED
      BY <1>2, <2>1, <3>1, AddSourcesFact
  <2>2. CASE ~TakesSources(flow.row)
    <3>1. previous = d.previous
      BY <2>2 DEF sources
    <3>2. QED
      BY <1>2, <2>2, <3>1, NothingAdded
  <2>3. QED
    BY <2>1, <2>2
<1>11. WorkflowOK(flowSeq, more)
  <2>1. \A i \in 1..(k + 1) : i \in 1..k \/ i = k + 1
    BY <1>2
  <2>2. QED
    BY <1>5, <1>6, <1>8, <1>9, <2>1 DEF WorkflowOK
<1>12. QED
  BY <1>4, <1>5, <1>10, <1>11 DEF DraftOK, more, k

LEMMA EmptyDraftOK ==
  ASSUME NEW flowSeq, Len(flowSeq) \in Nat
  PROVE  DraftOK(flowSeq, EmptyDraft)
<1>1. /\ {"steps", "previous"} \subseteq DOMAIN EmptyDraft
      /\ EmptyDraft.steps = << >> /\ EmptyDraft.previous = << >> /\ Len(<< >>) = 0
  BY DEF EmptyDraft
<1>2. WorkflowOK(flowSeq, << >>)
  BY DEF WorkflowOK, IsSequence
<1>3. PreviousOK(flowSeq, << >>, 0)
  BY DEF PreviousOK
<1>4. QED
  BY <1>1, <1>2, <1>3 DEF DraftOK

-----------------------------------------------------------------------------
(* What a run sends.                                                       *)
(*                                                                         *)
(* What stands in a text was extracted, under the key of its path. *)
LEMMA PieceFact ==
  ASSUME NEW flowSeq, NEW steps, WorkflowOK(flowSeq, steps), NEW i \in DOMAIN steps,
         NEW u, NEW source, PieceOK(flowSeq, steps, i, u, source)
  PROVE  /\ source.step \in IssuersOf(flowSeq, i, u) /\ source.step \in 1..(i - 1)
         /\ steps[source.step].included /\ IsExtracted(steps, source)
         /\ ExtractedPath(steps, source) \in Leaves(flowSeq[source.step].row)
         /\ KeyOf[ExtractedPath(steps, source)] = KeyOf[source.path]
<1> DEFINE j == source.step
<1>1. /\ j \in 1..(i - 1) /\ IssuedAt(flowSeq, j, source.path, u)
      /\ KeyOf[source.path] \in DOMAIN steps[j].extract
  BY DEF PieceOK
<1>2. j \in DOMAIN steps
  <2>1. DOMAIN steps = 1..Len(steps) /\ Len(steps) \in Nat
    BY DEF WorkflowOK, IsSequence
  <2>2. QED
    BY <1>1, <2>1
<1>3. steps[j].included = Included(flowSeq[j].row) /\ ExtractOK(flowSeq, steps[j], j)
  BY <1>2 DEF WorkflowOK, StepOK, MadeOK
<1>4. steps[j].included /\ j \in IssuersOf(flowSeq, i, u)
  BY <1>1, <1>3 DEF IssuedAt, IssuersOf
<1>5. QED
  BY <1>1, <1>3, <1>4 DEF ExtractOK, IsExtracted, ExtractedPath

LEMMA PieceSentFresh ==
  ASSUME NEW flowSeq, NEW steps, WorkflowOK(flowSeq, steps), NEW i \in DOMAIN steps,
         NEW u, NEW source, PieceOK(flowSeq, steps, i, u, source)
  PROVE  \/ Output(flowSeq, steps, source) = New(u)
         \/ MayBeMissed(flowSeq, i, u)
<1> DEFINE j == source.step
           p == source.path
           q == ExtractedPath(steps, source)
           row == flowSeq[j].row
<1>1. /\ j \in IssuersOf(flowSeq, i, u) /\ IsExtracted(steps, source)
      /\ q \in Leaves(row) /\ KeyOf[q] = KeyOf[p]
  BY PieceFact
<1>2. p \in Leaves(row) /\ row.answer[p] = u
  BY DEF PieceOK, IssuedAt
<1>3. Output(flowSeq, steps, source) = Found(row, q)
  BY <1>1 DEF Output
<1> HIDE DEF j, p, q
<1>4. CASE q # p
  <2>1. \E a \in Leaves(row) \ {p} : KeyOf[p] = KeyOf[a]
    BY <1>1, <1>4
  <2>2. QED
    BY <1>1, <1>2, <2>1 DEF MayBeMissed
<1>5. CASE p \in Nested
  BY <1>1, <1>2, <1>5 DEF MayBeMissed
<1>6. CASE q = p /\ p \notin Nested
  BY <1>2, <1>3, <1>6 DEF Found
<1>7. QED
  BY <1>4, <1>5, <1>6

LEMMA TextSent ==
  ASSUME NEW flowSeq, NEW steps, NEW part, part.is = "text"
  PROVE  LET sent == SentPart(flowSeq, steps, part) IN
         /\ sent.of = part.of /\ DOMAIN sent.with = DOMAIN part.with
         /\ \A u \in DOMAIN part.with : sent.with[u] = Output(flowSeq, steps, part.with[u])
BY DEF SentPart, Sent

LEMMA TextSentFresh ==
  ASSUME NEW flowSeq, NEW steps, WorkflowOK(flowSeq, steps), NEW i \in DOMAIN steps,
         NEW part, NEW v, NEW W, TextOK(flowSeq, steps, i, part, v, W)
  PROVE  Renews(flowSeq, i, SentPart(flowSeq, steps, part), v, W)
<1> DEFINE sent == SentPart(flowSeq, steps, part)
           issued == W \cap IssuedBefore(flowSeq, i)
<1>1. part.is = "text" /\ part.of = v
  BY DEF TextOK
<1>2. /\ sent.of = v /\ DOMAIN sent.with = DOMAIN part.with
      /\ \A u \in DOMAIN part.with : sent.with[u] = Output(flowSeq, steps, part.with[u])
  BY <1>1, TextSent
<1> HIDE DEF sent
<1>3. ASSUME NEW u \in DOMAIN part.with
      PROVE  u \in issued /\ (sent.with[u] = New(u) \/ MayBeMissed(flowSeq, i, u))
  <2>1. u \in W /\ u \in Useful /\ PieceOK(flowSeq, steps, i, u, part.with[u])
    BY DEF TextOK
  <2>2. IssuersOf(flowSeq, i, u) # {}
    BY <2>1, PieceFact
  <2>3. u \in issued
    BY <2>1, <2>2, CompilerAssumption DEF IssuedBefore
  <2>4. QED
    BY <1>2, <2>1, <2>3, PieceSentFresh
<1>4. ASSUME NEW u \in issued, u \notin DOMAIN sent.with
      PROVE  \/ MayBeMissed(flowSeq, i, u)
             \/ \E w \in DOMAIN sent.with \ {u} : Clash(v, u, w) /\ NoLater(flowSeq, i, w, u)
  BY <1>2, <1>4 DEF TextOK
<1>5. QED
  BY <1>2, <1>3, <1>4 DEF Renews, sent

LEMMA ReachedRuns ==
  ASSUME NEW flowSeq, NEW steps, WorkflowOK(flowSeq, steps), NEW i \in DOMAIN steps, Reached(steps, i)
  PROVE  PartsOK(flowSeq, steps, steps[i], i, flowSeq[i].row)
<1>1. StepOK(flowSeq, steps, i)
  BY DEF WorkflowOK
<1>2. steps[i].included = Included(flowSeq[i].row) /\ steps[i].included
  BY <1>1 DEF StepOK, MadeOK, Reached
<1>3. QED
  BY <1>1, <1>2 DEF StepOK, MadeOK

LEMMA WorkflowSendsFresh ==
  ASSUME NEW flowSeq, NEW steps, WorkflowOK(flowSeq, steps)
  PROVE  RunSendsFresh(flowSeq, steps)
<1>1. ASSUME NEW i \in DOMAIN steps, Reached(steps, i), NEW n \in Secret
      PROVE  n \in Fields /\ n \notin InputFields(flowSeq[i].row)
  BY CompilerAssumption DEF InputFields
<1>2. ASSUME NEW i \in DOMAIN steps, Reached(steps, i)
      PROVE  LET row == flowSeq[i].row IN
             /\ TextOK(flowSeq, steps, i, steps[i].header, row.header, {row.header})
             /\ \A n \in Secret : TextOK(flowSeq, steps, i, steps[i].body[n], row.fields[n],
                                         Within(row, row.fields[n]))
  BY <1>1, <1>2, ReachedRuns DEF PartsOK
<1>3. QED
  BY <1>2, TextSentFresh DEF RunSendsFresh, Within

(* Some number of a set is the largest. *)
LEMMA Largest ==
  ASSUME NEW n \in Nat, NEW I, I \subseteq 1..n, I # {}
  PROVE  \E l \in I : \A m \in I : l >= m
<1> DEFINE below == {n - m : m \in I}
<1>1. below \subseteq Nat /\ below # {}
  <2>1. \A m \in I : n - m \in Nat /\ n - m \in below
    OBVIOUS
  <2>2. QED
    BY <2>1
<1>2. PICK d \in below : \A e \in below : <<e, d>> \notin OpToRel(<, Nat)
  BY <1>1, WFMin, NatLessThanWellFounded
<1>3. \A e \in below : ~(e < d)
  BY <1>1, <1>2 DEF OpToRel
<1>4. PICK l \in I : d = n - l
  OBVIOUS
<1>5. ASSUME NEW m \in I PROVE l >= m
  <2>1. n - m \in below /\ m \in Nat /\ l \in Nat
    OBVIOUS
  <2>2. QED
    BY <1>3, <1>4, <2>1
<1>6. QED
  BY <1>5

(* The default of an input is from its last flow.                          *)
LEMMA DefaultFact ==
  ASSUME NEW flowSeq \in Seq(Flow), NEW i \in DOMAIN flowSeq, NEW n,
         n \in InputFields(flowSeq[i].row)
  PROVE  \E l \in DOMAIN flowSeq : /\ l >= i /\ n \in InputFields(flowSeq[l].row)
                                  /\ Default(flowSeq, n) = flowSeq[l].row.fields[n]
<1> DEFINE I == {l \in 1..Len(flowSeq) : n \in InputFields(flowSeq[l].row)}
<1>1. I \subseteq 1..Len(flowSeq) /\ Len(flowSeq) \in Nat /\ i \in I
  OBVIOUS
<1>2. \E l \in I : \A m \in I : l >= m
  BY <1>1, Largest
<1>3. SelectLastInSeq(flowSeq, LAMBDA f : n \in InputFields(f.row)) = Max(I)
  BY <1>1 DEF SelectLastInSeq
<1>4. Max(I) \in I /\ \A m \in I : Max(I) >= m
  BY <1>2 DEF Max
<1>5. Default(flowSeq, n) = flowSeq[Max(I)].row.fields[n]
  BY <1>3 DEF Default
<1>6. Max(I) \in DOMAIN flowSeq /\ Max(I) >= i /\ n \in InputFields(flowSeq[Max(I)].row)
  BY <1>1, <1>4
<1>7. QED
  BY <1>5, <1>6

LEMMA WorkflowSendsDefaults ==
  ASSUME NEW flowSeq \in Seq(Flow), NEW steps, WorkflowOK(flowSeq, steps)
  PROVE  RunSendsDefaults(flowSeq, steps)
<1>1. DOMAIN steps = 1..Len(steps) /\ Len(steps) \in Nat /\ Len(steps) <= Len(flowSeq)
  BY DEF WorkflowOK, IsSequence
<1>2. SUFFICES ASSUME NEW i \in DOMAIN steps, Reached(steps, i), NEW n \in Fields \ Secret
               PROVE  \/ SentPart(flowSeq, steps, steps[i].body[n]) = AsCaptured(flowSeq[i].row.fields[n])
                      \/ \E j \in (i + 1)..Len(flowSeq) :
                           flowSeq[j].row.fields[n] \notin {NoValue, flowSeq[i].row.fields[n]}
  BY DEF RunSendsDefaults
<1> DEFINE row == flowSeq[i].row
<1>3. i \in DOMAIN flowSeq /\ n \in Fields
  BY <1>1
<1>4. IF n \in InputFields(row) THEN steps[i].body[n] = Input(n)
      ELSE TextOK(flowSeq, steps, i, steps[i].body[n], row.fields[n], Within(row, row.fields[n]))
  BY <1>2, ReachedRuns DEF PartsOK
<1>5. CASE n \in InputFields(row)
  <2>1. PICK l \in DOMAIN flowSeq : /\ l >= i /\ n \in InputFields(flowSeq[l].row)
                                    /\ Default(flowSeq, n) = flowSeq[l].row.fields[n]
    BY <1>3, <1>5, DefaultFact
  <2>2. steps[i].body[n] = Input(n)
    BY <1>4, <1>5
  <2>3. SentPart(flowSeq, steps, steps[i].body[n]) = AsCaptured(flowSeq[l].row.fields[n])
    BY <2>1, <2>2 DEF SentPart, Input
  <2>4. CASE flowSeq[l].row.fields[n] = row.fields[n]
    BY <2>3, <2>4
  <2>5. CASE flowSeq[l].row.fields[n] # row.fields[n]
    <3>1. l # i
      BY <2>5
    <3>2. l \in (i + 1)..Len(flowSeq)
      BY <1>3, <2>1, <3>1
    <3>3. flowSeq[l].row.fields[n] # NoValue
      BY <2>1 DEF InputFields
    <3>4. QED
      BY <2>5, <3>2, <3>3
  <2>6. QED
    BY <2>4, <2>5
<1>6. CASE n \notin InputFields(row)
  <2>1. row.fields[n] = NoValue
    BY <1>6 DEF InputFields
  <2> DEFINE part == steps[i].body[n]
  <2>2. TextOK(flowSeq, steps, i, part, NoValue, Within(row, NoValue))
    BY <1>4, <1>6, <2>1
  <2>3. part.is = "text" /\ part.of = NoValue /\ DOMAIN part.with = {}
    <3>1. Within(row, NoValue) \cap Useful = {}
      BY CompilerAssumption, NamesAssumption DEF Within
    <3>2. QED
      BY <2>2, <3>1 DEF TextOK
  <2>4. SentPart(flowSeq, steps, part) = AsCaptured(NoValue)
    BY <2>3 DEF SentPart, AsCaptured, Sent, Nothing
  <2>5. QED
    BY <2>1, <2>4
<1>7. QED
  BY <1>5, <1>6

-----------------------------------------------------------------------------
(* What the exported program sends.                                        *)
(*                                                                         *)
LEMMA PieceSentAlike ==
  ASSUME NEW flowSeq, NEW steps, WorkflowOK(flowSeq, steps), NEW i \in DOMAIN steps,
         Reached(steps, i), NEW part, part.is = "text", NEW u \in DOMAIN part.with,
         PieceOK(flowSeq, steps, i, u, part.with[u])
  PROVE  LET sent == SentPart(flowSeq, steps, part).with[u]
             client == BindPart(flowSeq, steps, part).with[u]
         IN  \/ sent = client
             \/ client = <<"blank">> /\ \E p \in Nested : sent = <<"array", p>>
<1> DEFINE source == part.with[u]
           row == flowSeq[source.step].row
           q == ExtractedPath(steps, source)
           sent == SentPart(flowSeq, steps, part).with[u]
           client == BindPart(flowSeq, steps, part).with[u]
<1>1. /\ IsExtracted(steps, source) /\ steps[source.step].included
      /\ source.step \in 1..(i - 1)
  BY PieceFact
<1>2. q \in Resolvable
  <2>1. ~StopsAt(steps[source.step])
    BY <1>1 DEF Reached
  <2>2. QED
    BY <1>1, <2>1 DEF StopsAt, IsExtracted, ExtractedPath
<1>3. sent = Found(row, q)
  BY <1>1, TextSent DEF Output
<1>4. client = IF q \in Nested THEN <<"blank">> ELSE New(row.answer[q])
  BY <1>1, <1>2 DEF BindPart, Sent
<1> HIDE DEF sent, client
<1>5. QED
  BY <1>3, <1>4 DEF Found, sent, client

LEMMA TextSentAlike ==
  ASSUME NEW flowSeq, NEW steps, WorkflowOK(flowSeq, steps), NEW i \in DOMAIN steps,
         Reached(steps, i), NEW part, NEW v, NEW W, TextOK(flowSeq, steps, i, part, v, W)
  PROVE  Alike(SentPart(flowSeq, steps, part), BindPart(flowSeq, steps, part))
<1> DEFINE sent == SentPart(flowSeq, steps, part)
           client == BindPart(flowSeq, steps, part)
<1>1. part.is = "text" /\ \A u \in DOMAIN part.with : PieceOK(flowSeq, steps, i, u, part.with[u])
  BY DEF TextOK
<1>2. sent.of = part.of /\ DOMAIN sent.with = DOMAIN part.with
  BY <1>1, TextSent
<1>3. client.of = part.of /\ DOMAIN client.with = DOMAIN part.with
  BY <1>1 DEF BindPart, Sent
<1>4. \A u \in DOMAIN part.with :
        \/ sent.with[u] = client.with[u]
        \/ client.with[u] = <<"blank">> /\ \E p \in Nested : sent.with[u] = <<"array", p>>
  BY <1>1, PieceSentAlike
<1> HIDE DEF sent, client
<1>5. QED
  BY <1>2, <1>3, <1>4 DEF Alike, sent, client

(* A text that was redacted. *)
LEMMA RedactedAlike ==
  ASSUME NEW flowSeq, NEW steps, NEW part, part.is = "text", DOMAIN part.with = {}
  PROVE  Alike(SentPart(flowSeq, steps, part), Redact(part.of))
<1> DEFINE sent == SentPart(flowSeq, steps, part)
           client == Redact(part.of)
<1>1. sent.of = part.of /\ DOMAIN sent.with = {}
  BY TextSent
<1>2. /\ client.of = IF part.of = NoValue THEN NoValue ELSE Redacted
      /\ DOMAIN client.with = {}
  BY DEF Redact, AsCaptured, Sent, Nothing
<1> HIDE DEF sent, client
<1>3. QED
  BY <1>1, <1>2 DEF Alike, sent, client

LEMMA WorkflowSendsAlike ==
  ASSUME NEW flowSeq, NEW steps, WorkflowOK(flowSeq, steps)
  PROVE  SendsWhatARunSends(flowSeq, steps)
<1> SUFFICES ASSUME NEW i \in DOMAIN steps, Reached(steps, i)
             PROVE  LET client == TypeScriptSends(flowSeq, steps, i) IN
                    /\ ClientReaches(steps, i)
                    /\ Alike(SentPart(flowSeq, steps, steps[i].header), client.header)
                    /\ \A n \in Fields : Alike(SentPart(flowSeq, steps, steps[i].body[n]),
                                               client.body[n])
  BY DEF SendsWhatARunSends
<1> DEFINE row == flowSeq[i].row
           client == TypeScriptSends(flowSeq, steps, i)
<1>1. ClientReaches(steps, i)
  BY DEF Reached, StopsAt, ClientReaches
<1>2. /\ TextOK(flowSeq, steps, i, steps[i].header, row.header, {row.header})
      /\ \A n \in Fields :
           IF n \in InputFields(row) THEN steps[i].body[n] = Input(n)
           ELSE TextOK(flowSeq, steps, i, steps[i].body[n], row.fields[n],
                       Within(row, row.fields[n]))
  BY ReachedRuns DEF PartsOK
<1>3. /\ client.header = IF DOMAIN steps[i].header.with = {} THEN Redact(row.header)
                         ELSE BindPart(flowSeq, steps, steps[i].header)
      /\ \A n \in Fields :
           client.body[n] = IF n \in Secret /\ ~OverridesBody(steps[i], row)
                            THEN Redact(row.fields[n])
                            ELSE BindPart(flowSeq, steps, steps[i].body[n])
  BY DEF TypeScriptSends
<1> HIDE DEF client
<1>4. Alike(SentPart(flowSeq, steps, steps[i].header), client.header)
  <2>1. steps[i].header.is = "text" /\ steps[i].header.of = row.header
    BY <1>2 DEF TextOK
  <2>2. CASE DOMAIN steps[i].header.with = {}
    BY <1>3, <2>1, <2>2, RedactedAlike
  <2>3. CASE DOMAIN steps[i].header.with # {}
    BY <1>2, <1>3, <2>3, TextSentAlike
  <2>4. QED
    BY <2>2, <2>3
<1>5. ASSUME NEW n \in Fields
      PROVE  Alike(SentPart(flowSeq, steps, steps[i].body[n]), client.body[n])
  <2> DEFINE part == steps[i].body[n]
  <2>1. CASE n \in Secret /\ ~OverridesBody(steps[i], row)
    <3>1. n \notin InputFields(row)
      BY <2>1 DEF InputFields
    <3>2. TextOK(flowSeq, steps, i, part, row.fields[n], Within(row, row.fields[n]))
      BY <1>2, <3>1
    <3>3. part.is = "text" /\ part.of = row.fields[n]
      BY <3>2 DEF TextOK
    <3>4. DOMAIN part.with = {}
      <4>1. CASE row.largeRequest
        BY <3>2, <4>1 DEF TextOK, Within
      <4>2. CASE SourcesUsed(steps[i]) = {}
        <5>1. part \in Texts(steps[i])
          BY <3>3 DEF Texts, Parts
        <5>2. \A u \in DOMAIN part.with : part.with[u] \in SourcesUsed(steps[i])
          BY <5>1 DEF SourcesUsed
        <5>3. QED
          BY <4>2, <5>2
      <4>3. QED
        BY <2>1, <4>1, <4>2 DEF OverridesBody
    <3>5. client.body[n] = Redact(part.of)
      BY <1>3, <2>1, <3>3
    <3> HIDE DEF part
    <3>6. QED
      BY <3>3, <3>4, <3>5, RedactedAlike DEF part
  <2>2. CASE ~(n \in Secret /\ ~OverridesBody(steps[i], row))
    <3>1. client.body[n] = BindPart(flowSeq, steps, part)
      BY <1>3, <2>2, Zenon
    <3>2. CASE n \in InputFields(row)
      <4>1. part = Input(n)
        BY <1>2, <3>2
      <4>2. part.is = "input"
        BY <4>1 DEF Input
      <4>3. SentPart(flowSeq, steps, part) = BindPart(flowSeq, steps, part)
        BY <4>2 DEF SentPart, BindPart
      <4>4. QED
        BY <3>1, <4>3 DEF Alike
    <3>3. CASE n \notin InputFields(row)
      <4>1. TextOK(flowSeq, steps, i, part, row.fields[n], Within(row, row.fields[n]))
        BY <1>2, <3>3
      <4>2. QED
        BY <3>1, <4>1, TextSentAlike
    <3>4. QED
      BY <3>2, <3>3
  <2>3. QED
    BY <2>1, <2>2
<1>6. QED
  BY <1>1, <1>4, <1>5 DEF client

-----------------------------------------------------------------------------
(* The variables in every state.                                           *)
(*                                                                         *)
TableOK == /\ flows \in [FlowIds -> Rows \cup {NoFlow}]
           /\ flowTags \subseteq FlowIds \X Tags

IsCall(c) == {"op", "pc", "query", "total", "ids", "got", "chain", "draft"} \subseteq DOMAIN c

(* What has been read are the flows of the first ids, ...                  *)
Got(c) == /\ Len(c.got) <= Len(c.ids)
          /\ \A i \in DOMAIN c.got : c.got[i].id = c.ids[i]
          /\ c.pc # "get" => c.got = << >>

(* ... and a chain is made once all of them are read.                      *)
Made(c) ==
  \/ c.chain = EmptyChain
  \/ /\ c.pc = "get" /\ c.op \in Traces /\ Len(c.got) = Len(c.ids)
     /\ ChainOK(TraceOrder(c), c.chain)

(* So is a draft.                                                          *)
Drafted(c) ==
  \/ c.draft = EmptyDraft
  \/ /\ c.pc = "get" /\ c.op = "suggest" /\ Len(c.got) = Len(c.ids)
     /\ DraftOK(c.got, c.draft)

CallOK(c) ==
  /\ IsCall(c)
  /\ c.op \in {"none"} \cup Ops /\ c.pc \in {"idle", "count", "page", "tags", "get"}
  /\ c.query \in Query /\ c.total \in 0..Cardinality(FlowIds)
  /\ c.ids \in Ids /\ c.got \in Seq(Flow)
  /\ Got(c) /\ Made(c) /\ Drafted(c)

(* What a trace returns: the chain of all the flows.                       *)
Traced(r) ==
  r.op \in Traces =>
    /\ r.flows \in Seq(Flow) /\ DistinctIds(r.flows)
    /\ ChainOK(r.flows, r.chain) /\ Len(r.chain.flowIds) = Len(r.flows)

(* What Suggest returns: a step for each of the flows.                     *)
Suggested(r) ==
  r.op = "suggest" =>
    r.flows \in Seq(Flow) /\ WorkflowOK(r.flows, r.steps) /\ Len(r.steps) = Len(r.flows)

ResultOK(r) == r.op \in {"none", "failed"} \cup Ops /\ Traced(r) /\ Suggested(r)

TypeInv == TableOK /\ CallOK(call) /\ ResultOK(result) /\ moved \in BOOLEAN

LEMMA EmptyChainOK ==
  ASSUME NEW flowSeq \in Seq(Flow)
  PROVE  ChainOK(flowSeq, EmptyChain)
<1>1. IsChain(EmptyChain) /\ Len(EmptyChain.flowIds) = 0 /\ EmptyChain.links = {}
  BY DEF IsChain, EmptyChain
<1>2. Sourced(EmptyChain) = {}
  BY DEF Sourced, EmptyChain
<1>3. 0 <= Len(flowSeq) /\ 1..0 = {}
  OBVIOUS
<1>4. QED
  BY <1>1, <1>2, <1>3 DEF ChainOK, SourcesOK, LinksOK, UsesOK

LEMMA GotDistinct ==
  ASSUME NEW c, CallOK(c)
  PROVE  DistinctIds(c.got) /\ c.got \in Seq(Flow)
<1>1. DOMAIN c.got \subseteq DOMAIN c.ids
  <2>1. c.got \in Seq(Flow) /\ c.ids \in Seq(FlowIds) /\ Len(c.got) <= Len(c.ids)
    BY DEF CallOK, Got, Ids
  <2>2. QED
    BY <2>1
<1>2. QED
  BY <1>1 DEF CallOK, Got, Ids, Distinct, DistinctIds

LEMMA TraceOrderFact ==
  ASSUME NEW c, CallOK(c)
  PROVE  LET t == TraceOrder(c) IN
         /\ t \in Seq(Flow) /\ Len(t) = Len(c.got) /\ DistinctIds(t)
         /\ c.op = "trace" => \A k \in DOMAIN t, m \in DOMAIN t :
                                k < m => t[k].row.at <= t[m].row.at
         /\ c.op # "trace" => t = c.got
<1>1. DistinctIds(c.got) /\ c.got \in Seq(Flow)
  BY GotDistinct
<1>2. CASE c.op = "trace"
  <2>1. TraceOrder(c) = InTime(c.got)
    BY <1>2 DEF TraceOrder
  <2>2. /\ InTime(c.got) \in Seq(Flow) /\ Len(InTime(c.got)) = Len(c.got)
        /\ DistinctIds(InTime(c.got))
        /\ \A k \in DOMAIN c.got, m \in DOMAIN c.got :
             k < m => InTime(c.got)[k].row.at <= InTime(c.got)[m].row.at
    BY <1>1, InTimeFact
  <2>3. DOMAIN InTime(c.got) = DOMAIN c.got
    BY <1>1, <2>2
  <2>4. QED
    BY <1>2, <2>1, <2>2, <2>3
<1>3. CASE c.op # "trace"
  BY <1>1, <1>3 DEF TraceOrder
<1>4. QED
  BY <1>2, <1>3

LEMMA NoCallOK == CallOK(NoCall)
<1>1. AnyQuery \in Query
  BY DEF AnyQuery, Query
<1>2. << >> \in Ids /\ << >> \in Seq(Flow) /\ 0 \in 0..Cardinality(FlowIds)
  <2>1. Cardinality(FlowIds) \in Nat
    BY InspectorAssumption, FS_CardinalityType
  <2>2. QED
    BY <2>1 DEF Ids, Distinct
<1>3. IsCall(NoCall)
  BY DEF IsCall, NoCall
<1>4. /\ NoCall.op = "none" /\ NoCall.pc = "idle" /\ NoCall.query = AnyQuery /\ NoCall.total = 0
      /\ NoCall.ids = << >> /\ NoCall.got = << >> /\ NoCall.chain = EmptyChain
      /\ NoCall.draft = EmptyDraft
  BY DEF NoCall
<1>5. Got(NoCall) /\ Made(NoCall) /\ Drafted(NoCall)
  BY <1>4 DEF Got, Made, Drafted
<1>6. QED
  BY <1>1, <1>2, <1>3, <1>4, <1>5 DEF CallOK

(* A call that goes on before it has read a row, a call that has begun     *)
(* among them.                                                             *)
LEMMA PlaceOK ==
  ASSUME NEW c, CallOK(c), c.pc # "get", NEW d, IsCall(d),
         d.op \in {"none"} \cup Ops, d.pc \in {"count", "page", "tags", "get"},
         d.query \in Query, d.total \in 0..Cardinality(FlowIds), d.ids \in Ids,
         d.got = c.got, d.chain = c.chain, d.draft = c.draft
  PROVE  CallOK(d)
<1>1. c.got = << >> /\ c.chain = EmptyChain /\ c.draft = EmptyDraft
  BY DEF CallOK, Got, Made, Drafted
<1>2. Got(d)
  <2>1. Len(d.ids) \in Nat
    BY DEF Ids
  <2>2. QED
    BY <1>1, <2>1 DEF Got
<1>3. Made(d) /\ Drafted(d)
  BY <1>1 DEF Made, Drafted
<1>4. << >> \in Seq(Flow)
  OBVIOUS
<1>5. QED
  BY <1>1, <1>2, <1>3, <1>4 DEF CallOK

(* A call that has read one more row.                                      *)
LEMMA RowReadOK ==
  ASSUME NEW c, CallOK(c), c.pc = "get", Len(c.got) < Len(c.ids),
         NEW row \in Rows, NEW d,
         d = [c EXCEPT !.got = Append(@, [id |-> c.ids[Len(c.got) + 1], row |-> row])]
  PROVE  CallOK(d)
<1> DEFINE n == Len(c.got)
           x == [id |-> c.ids[n + 1], row |-> row]
<1>1. /\ c.got \in Seq(Flow) /\ c.ids \in Seq(FlowIds) /\ Len(c.got) <= Len(c.ids) /\ n \in Nat
      /\ \A i \in DOMAIN c.got : c.got[i].id = c.ids[i]
  BY DEF CallOK, Got, Ids
<1>2. x \in Flow
  <2>1. n + 1 \in 1..Len(c.ids)
    BY <1>1
  <2>2. c.ids[n + 1] \in FlowIds
    BY <1>1, <2>1
  <2>3. QED
    BY <2>2 DEF Flow
<1>3. /\ IsCall(d) /\ d.got = Append(c.got, x) /\ d.op = c.op /\ d.pc = c.pc
      /\ d.query = c.query /\ d.total = c.total /\ d.ids = c.ids /\ d.chain = c.chain
      /\ d.draft = c.draft
  BY DEF CallOK, IsCall
<1>4. x.id = c.ids[n + 1]
  OBVIOUS
<1> HIDE DEF x
<1>5. d.got \in Seq(Flow) /\ Len(d.got) = n + 1 /\ DOMAIN d.got = 1..(n + 1)
      /\ d.got[n + 1] = x /\ \A i \in 1..n : d.got[i] = c.got[i]
  BY <1>1, <1>2, <1>3
<1>6. Got(d)
  <2>1. ASSUME NEW i \in 1..(n + 1) PROVE d.got[i].id = c.ids[i]
    <3>1. CASE i = n + 1
      BY <1>4, <1>5, <3>1
    <3>2. CASE i \in 1..n
      BY <1>1, <1>5, <3>2
    <3>3. QED
      BY <1>1, <3>1, <3>2
  <2>2. QED
    BY <1>1, <1>3, <1>5, <2>1 DEF Got
<1>7. Made(d) /\ Drafted(d)
  <2>1. c.chain = EmptyChain /\ c.draft = EmptyDraft
    BY <1>1 DEF CallOK, Made, Drafted
  <2>2. QED
    BY <1>3, <2>1 DEF Made, Drafted
<1>8. QED
  BY <1>3, <1>5, <1>6, <1>7 DEF CallOK

(* A call that has made a turn of the loop.                                *)
LEMMA TurnMadeOK ==
  ASSUME NEW c, CallOK(c), c.pc = "get", Len(c.got) = Len(c.ids), c.op \in Traces,
         NEW n, n = Len(c.chain.flowIds) + 1, n <= Len(c.got),
         NEW h \in TraceFlow(c.chain, TraceOrder(c)[n]),
         NEW d, d = [c EXCEPT !.chain = h]
  PROVE  CallOK(d)
<1> DEFINE t == TraceOrder(c)
           k == Len(c.chain.flowIds)
<1>1. t \in Seq(Flow) /\ Len(t) = Len(c.got) /\ DistinctIds(t)
  BY TraceOrderFact
<1>2. ChainOK(t, c.chain)
  BY <1>1, EmptyChainOK DEF CallOK, Made
<1>3. k \in Nat
  <2>1. c.chain.flowIds \in Seq(FlowIds)
    BY <1>2 DEF ChainOK, IsChain
  <2>2. QED
    BY <2>1
<1> HIDE DEF t, k
<1>4. ChainOK(t, h)
  <2>1. n = k + 1 /\ k = Len(c.chain.flowIds) /\ k + 1 <= Len(t)
    BY <1>1 DEF k
  <2>2. h \in TraceFlow(c.chain, t[k + 1])
    BY <2>1 DEF t
  <2>3. QED
    BY <1>1, <1>2, <1>3, <2>1, <2>2, TurnOK
<1>5. /\ IsCall(d) /\ d.chain = h /\ d.op = c.op /\ d.pc = c.pc /\ d.got = c.got
      /\ d.query = c.query /\ d.total = c.total /\ d.ids = c.ids /\ d.draft = c.draft
  BY DEF CallOK, IsCall
<1>6. TraceOrder(d) = t
  BY <1>5 DEF TraceOrder, t
<1>7. Got(d) /\ Made(d)
  BY <1>4, <1>5, <1>6 DEF CallOK, Got, Made
<1>8. Drafted(d)
  BY <1>5 DEF CallOK, Drafted, Traces
<1>9. QED
  BY <1>5, <1>7, <1>8 DEF CallOK

(* A call that has bound one more step.                                    *)
LEMMA StepBoundOK ==
  ASSUME NEW c, CallOK(c), c.pc = "get", Len(c.got) = Len(c.ids), c.op = "suggest",
         Len(c.draft.steps) + 1 <= Len(c.got),
         NEW h \in BindFlow(c.draft, c.got[Len(c.draft.steps) + 1]),
         NEW d, d = [c EXCEPT !.draft = h]
  PROVE  CallOK(d)
<1>1. c.got \in Seq(Flow) /\ Len(c.got) \in Nat
  BY DEF CallOK
<1>2. DraftOK(c.got, c.draft)
  BY <1>1, EmptyDraftOK DEF CallOK, Drafted
<1>3. DraftOK(c.got, h)
  BY <1>1, <1>2, BindFlowOK
<1>4. /\ IsCall(d) /\ d.chain = c.chain /\ d.op = c.op /\ d.pc = c.pc /\ d.got = c.got
      /\ d.query = c.query /\ d.total = c.total /\ d.ids = c.ids /\ d.draft = h
  BY DEF CallOK, IsCall
<1>5. Got(d) /\ Drafted(d)
  BY <1>3, <1>4 DEF CallOK, Got, Drafted
<1>6. Made(d)
  BY <1>4 DEF CallOK, Made, Traces
<1>7. QED
  BY <1>4, <1>5, <1>6 DEF CallOK

-----------------------------------------------------------------------------
LEMMA ReturnOK ==
  ASSUME TypeInv, NEW r, ResultOK(r), Return(r)
  PROVE  TypeInv'
<1>1. UNCHANGED tableVars /\ call' = NoCall /\ result' = r /\ moved' = FALSE
  BY DEF Return
<1>2. TableOK'
  BY <1>1 DEF TypeInv, TableOK, tableVars
<1>3. CallOK(call') /\ ResultOK(result')
  BY <1>1, NoCallOK
<1>4. QED
  BY <1>1, <1>2, <1>3 DEF TypeInv

(* The other connections. *)
LEMMA ChangeType ==
  ASSUME TypeInv,
         \/ \E f \in FlowIds : \/ \E row \in Rows : Insert(f, row)
                               \/ \E t \in Tags : AddTag(f, t) \/ RemoveTag(f, t)
         \/ \E t \in 0..MaxTime : PruneFlowsBefore(t)
  PROVE  TypeInv'
<1>1. call' = call /\ result' = result /\ moved' \in BOOLEAN
  BY DEF Insert, AddTag, RemoveTag, PruneFlowsBefore, Change
<1>2. TableOK'
  <2>1. ASSUME NEW f \in FlowIds, NEW row \in Rows, Insert(f, row) PROVE TableOK'
    BY <2>1 DEF TypeInv, TableOK, Insert, InsertRow
  <2>2. ASSUME NEW f \in FlowIds, NEW t \in Tags, AddTag(f, t) PROVE TableOK'
    BY <2>2 DEF TypeInv, TableOK, AddTag, TagRow
  <2>3. ASSUME NEW f \in FlowIds, NEW t \in Tags, RemoveTag(f, t) PROVE TableOK'
    BY <2>3 DEF TypeInv, TableOK, RemoveTag, UntagRow
  <2>4. ASSUME NEW t \in 0..MaxTime, PruneFlowsBefore(t) PROVE TableOK'
    BY <2>4 DEF TypeInv, TableOK, PruneFlowsBefore, DeleteRows
  <2>5. QED
    BY <2>1, <2>2, <2>3, <2>4
<1>3. QED
  BY <1>1, <1>2 DEF TypeInv

(* The steps of a call that go on with it.                                 *)
LEMMA CallType ==
  ASSUME TypeInv, UNCHANGED <<tableVars, result, moved>>, CallOK(call')
  PROVE  TypeInv'
BY DEF TypeInv, TableOK, tableVars

LEMMA BeginType ==
  ASSUME TypeInv,
         \/ \E q \in Query : QueryFlows(q)
         \/ \E s \in Named : NameFlows("trace", s) \/ NameFlows("suggest", s)
         \/ \E h \in Hosts : TraceHost(h)
  PROVE  TypeInv'
<1>1. CallOK(NoCall) /\ NoCall.pc # "get" /\ IsCall(NoCall)
  BY NoCallOK DEF CallOK, NoCall
<1>2. NoCall.query \in Query /\ NoCall.total \in 0..Cardinality(FlowIds) /\ NoCall.ids \in Ids
  BY <1>1 DEF CallOK
<1>3. ASSUME NEW q \in Query, NEW o \in Ops,
             call' = [NoCall EXCEPT !.op = o, !.pc = "count", !.query = q]
      PROVE  CallOK(call')
  <2>1. /\ IsCall(call') /\ call'.op = o /\ call'.pc = "count" /\ call'.query = q
        /\ call'.total = NoCall.total /\ call'.ids = NoCall.ids /\ call'.got = NoCall.got
        /\ call'.chain = NoCall.chain /\ call'.draft = NoCall.draft
    BY <1>1, <1>3 DEF IsCall
  <2>2. QED
    BY <1>1, <1>2, <2>1, PlaceOK
<1>4. ASSUME NEW s \in Ids, NEW o \in Ops,
             call' = [NoCall EXCEPT !.op = o, !.pc = "get", !.ids = s]
      PROVE  CallOK(call')
  <2>1. /\ IsCall(call') /\ call'.op = o /\ call'.pc = "get" /\ call'.query = NoCall.query
        /\ call'.total = NoCall.total /\ call'.ids = s /\ call'.got = NoCall.got
        /\ call'.chain = NoCall.chain /\ call'.draft = NoCall.draft
    BY <1>1, <1>4 DEF IsCall
  <2>2. QED
    BY <1>1, <1>2, <2>1, PlaceOK
<1>5. \A h \in Hosts : [AnyQuery EXCEPT !.host = h] \in Query
  BY DEF AnyQuery, Query
<1>6. UNCHANGED <<tableVars, result, moved>>
  BY DEF QueryFlows, NameFlows, TraceHost, Begin
<1>7. CallOK(call')
  BY <1>3, <1>4, <1>5, NamedFact DEF QueryFlows, NameFlows, TraceHost, Begin, Ops
<1>8. QED
  BY <1>6, <1>7, CallType

LEMMA CountFlowsType ==
  ASSUME TypeInv, CountFlows
  PROVE  TypeInv'
<1>1. Counted(call.query) \in 0..Cardinality(FlowIds)
  <2>1. Matching(call.query) \in SUBSET FlowIds
    BY DEF Matching, Stored
  <2>2. QED
    BY <2>1, InspectorAssumption, FS_Subset, FS_CardinalityType DEF Counted
<1>2. CallOK(call) /\ IsCall(call) /\ call.pc = "count"
  BY DEF TypeInv, CallOK, CountFlows
<1>3. call' = [call EXCEPT !.total = Counted(call.query), !.pc = "page"]
  BY DEF CountFlows
<1>4. /\ IsCall(call') /\ call'.op = call.op /\ call'.pc = "page" /\ call'.query = call.query
      /\ call'.total = Counted(call.query) /\ call'.ids = call.ids /\ call'.got = call.got
      /\ call'.chain = call.chain /\ call'.draft = call.draft
  BY <1>2, <1>3 DEF IsCall
<1>5. CallOK(call')
  BY <1>1, <1>2, <1>4, PlaceOK DEF CallOK
<1>6. QED
  BY <1>5, CallType DEF CountFlows

LEMMA PageFlowsType ==
  ASSUME TypeInv, PageFlows
  PROVE  TypeInv'
<1>1. CallOK(call) /\ IsCall(call) /\ call.pc = "page"
  BY DEF TypeInv, CallOK, PageFlows
<1>2. PICK page \in Pages(call.query, call.op = "traceQuery") :
        call' = [call EXCEPT !.ids = page, !.pc = "tags"]
  BY DEF PageFlows
<1>3. page \in Ids
  BY <1>2, PageFact
<1>4. /\ IsCall(call') /\ call'.op = call.op /\ call'.pc = "tags" /\ call'.query = call.query
      /\ call'.total = call.total /\ call'.ids = page /\ call'.got = call.got
      /\ call'.chain = call.chain /\ call'.draft = call.draft
  BY <1>1, <1>2 DEF IsCall
<1>5. CallOK(call')
  BY <1>1, <1>3, <1>4, PlaceOK DEF CallOK
<1>6. QED
  BY <1>5, CallType DEF PageFlows

LEMMA FlowsListedType ==
  ASSUME TypeInv, FlowsListed
  PROVE  TypeInv'
<1>1. CallOK(call) /\ IsCall(call) /\ call.pc = "tags"
  BY DEF TypeInv, CallOK, FlowsListed
<1>2. call' = [call EXCEPT !.pc = "get"]
  BY DEF FlowsListed
<1>3. /\ IsCall(call') /\ call'.op = call.op /\ call'.pc = "get" /\ call'.query = call.query
      /\ call'.total = call.total /\ call'.ids = call.ids /\ call'.got = call.got
      /\ call'.chain = call.chain /\ call'.draft = call.draft
  BY <1>1, <1>2 DEF IsCall
<1>4. CallOK(call')
  BY <1>1, <1>3, PlaceOK DEF CallOK
<1>5. QED
  BY <1>4, CallType DEF FlowsListed

(* A result that is no chain and no workflow. *)
LEMMA PlainResultOK ==
  ASSUME NEW r, r.op \in {"failed", "query"}
  PROVE  ResultOK(r)
BY DEF ResultOK, Traced, Suggested, Traces, Ops

LEMMA AttachTagsType ==
  ASSUME TypeInv, AttachTags
  PROVE  TypeInv'
<1> DEFINE r == [op |-> "query", total |-> call.total, page |-> call.ids,
                 tags |-> TagsOfPage(call.ids)]
<1>1. Return(r) /\ r.op = "query"
  BY DEF AttachTags
<1> HIDE DEF r
<1>2. QED
  BY <1>1, PlainResultOK, ReturnOK

(* The next row is read, or there is none. *)
LEMMA GetFlowCases ==
  ASSUME TypeInv, GetFlow
  PROVE  \/ Return([op |-> "failed", what |-> "flow not found"])
         \/ /\ Len(call.got) < Len(call.ids) /\ call.pc = "get"
            /\ UNCHANGED <<tableVars, result, moved>>
            /\ flows[call.ids[Len(call.got) + 1]] \in Rows
            /\ call' = [call EXCEPT !.got =
                          Append(@, [id |-> call.ids[Len(call.got) + 1],
                                     row |-> flows[call.ids[Len(call.got) + 1]]])]
<1>1. \A f \in Stored : flows[f] \in Rows
  BY DEF TypeInv, TableOK, Stored
<1>2. QED
  BY <1>1 DEF GetFlow

LEMMA GetFlowType ==
  ASSUME TypeInv, GetFlow
  PROVE  TypeInv'
<1>1. CASE Return([op |-> "failed", what |-> "flow not found"])
  <2> DEFINE r == [op |-> "failed", what |-> "flow not found"]
  <2>1. r.op = "failed"
    OBVIOUS
  <2>2. Return(r)
    BY <1>1
  <2> HIDE DEF r
  <2>3. QED
    BY <2>1, <2>2, PlainResultOK, ReturnOK
<1>2. CASE /\ Len(call.got) < Len(call.ids) /\ call.pc = "get"
           /\ UNCHANGED <<tableVars, result, moved>>
           /\ flows[call.ids[Len(call.got) + 1]] \in Rows
           /\ call' = [call EXCEPT !.got =
                         Append(@, [id |-> call.ids[Len(call.got) + 1],
                                    row |-> flows[call.ids[Len(call.got) + 1]]])]
  <2>1. CallOK(call')
    BY <1>2, RowReadOK DEF TypeInv
  <2>2. QED
    BY <1>2, <2>1, CallType
<1>3. QED
  BY <1>1, <1>2, GetFlowCases

LEMMA TraceNextType ==
  ASSUME TypeInv, TraceNext
  PROVE  TypeInv'
<1> DEFINE n == Len(call.chain.flowIds) + 1
<1>1. PICK h \in TraceFlow(call.chain, TraceOrder(call)[n]) : call' = [call EXCEPT !.chain = h]
  BY DEF TraceNext
<1>2. call.pc = "get" /\ Len(call.got) = Len(call.ids) /\ call.op \in Traces /\ n <= Len(call.got)
  BY DEF TraceNext, HaveAll
<1>3. CallOK(call')
  BY <1>1, <1>2, TurnMadeOK DEF TypeInv
<1>4. QED
  BY <1>3, CallType DEF TraceNext

(* What is returned is the order and the chain of a call that has traced   *)
(* all its flows.                                                          *)
LEMMA ReturnChainType ==
  ASSUME TypeInv, ReturnChain
  PROVE  TypeInv'
<1> DEFINE t == TraceOrder(call)
           r == [op |-> call.op, flows |-> t, chain |-> call.chain]
<1>1. t \in Seq(Flow) /\ Len(t) = Len(call.got) /\ DistinctIds(t)
  BY TraceOrderFact DEF TypeInv
<1>2. ChainOK(t, call.chain)
  BY <1>1, EmptyChainOK DEF TypeInv, CallOK, Made
<1>3. call.op \in Traces /\ Len(call.chain.flowIds) = Len(t) /\ Return(r)
  BY <1>1 DEF ReturnChain
<1> HIDE DEF t
<1>4. r.op = call.op /\ r.flows = t /\ r.chain = call.chain
  OBVIOUS
<1> HIDE DEF r
<1>5. ResultOK(r)
  BY <1>1, <1>2, <1>3, <1>4 DEF ResultOK, Traced, Suggested, Traces, Ops
<1>6. QED
  BY <1>3, <1>5, ReturnOK

LEMMA NothingMatchedType ==
  ASSUME TypeInv, NothingMatched
  PROVE  TypeInv'
<1> DEFINE r == [op |-> "failed", what |-> "no flows matched auth trace"]
<1>1. Return(r) /\ r.op = "failed"
  BY DEF NothingMatched
<1> HIDE DEF r
<1>2. QED
  BY <1>1, PlainResultOK, ReturnOK

LEMMA BindNextType ==
  ASSUME TypeInv, BindNext
  PROVE  TypeInv'
<1> DEFINE n == Len(call.draft.steps) + 1
<1>1. PICK d \in BindFlow(call.draft, call.got[n]) : call' = [call EXCEPT !.draft = d]
  BY DEF BindNext
<1>2. call.pc = "get" /\ Len(call.got) = Len(call.ids) /\ call.op = "suggest" /\ n <= Len(call.got)
  BY DEF BindNext, HaveAll
<1>3. CallOK(call')
  BY <1>1, <1>2, StepBoundOK DEF TypeInv
<1>4. QED
  BY <1>3, CallType DEF BindNext

LEMMA ReturnWorkflowType ==
  ASSUME TypeInv, ReturnWorkflow
  PROVE  TypeInv'
<1> DEFINE r == [op |-> "suggest", flows |-> call.got, steps |-> call.draft.steps]
<1>1. call.got \in Seq(Flow) /\ Len(call.got) \in Nat
  BY DEF TypeInv, CallOK
<1>2. DraftOK(call.got, call.draft)
  BY <1>1, EmptyDraftOK DEF TypeInv, CallOK, Drafted
<1>3. Return(r) /\ Len(call.draft.steps) = Len(call.got)
  BY DEF ReturnWorkflow
<1>4. r.op = "suggest" /\ r.flows = call.got /\ r.steps = call.draft.steps
  OBVIOUS
<1> HIDE DEF r
<1>5. ResultOK(r)
  BY <1>1, <1>2, <1>3, <1>4 DEF DraftOK, ResultOK, Traced, Suggested, Traces, Ops
<1>6. QED
  BY <1>3, <1>5, ReturnOK

LEMMA TypeStep ==
  ASSUME TypeInv, [Next]_vars
  PROVE  TypeInv'
<1>1. CASE UNCHANGED vars
  BY <1>1, CallType DEF vars, TypeInv
<1>2. CASE Next
  BY <1>2, ChangeType, BeginType, CountFlowsType, PageFlowsType, AttachTagsType, FlowsListedType,
     GetFlowType, NothingMatchedType, TraceNextType, ReturnChainType, BindNextType,
     ReturnWorkflowType DEF Next
<1>3. QED
  BY <1>1, <1>2

LEMMA TypeInit == Init => TypeInv
<1> SUFFICES ASSUME Init PROVE TypeInv
  OBVIOUS
<1>1. TableOK
  BY DEF Init, TableInit, TableOK
<1>2. CallOK(call)
  BY NoCallOK DEF Init
<1>3. ResultOK(result)
  BY DEF Init, ResultOK, Traced, Suggested, Traces
<1>4. QED
  BY <1>1, <1>2, <1>3 DEF Init, TypeInv

LEMMA TypeInvariant == Spec => []TypeInv
BY TypeInit, TypeStep, PTL DEF Spec

LEMMA TypeInvTypeOK ==
  ASSUME TypeInv
  PROVE  TypeOK
<1>1. Len(call.chain.flowIds) <= Len(call.got)
  <2>1. Len(call.got) \in Nat /\ Len(TraceOrder(call)) = Len(call.got)
    BY TraceOrderFact DEF TypeInv, CallOK
  <2>2. CASE call.chain = EmptyChain
    BY <2>1, <2>2 DEF EmptyChain
  <2>3. CASE ChainOK(TraceOrder(call), call.chain)
    BY <2>1, <2>3 DEF ChainOK
  <2>4. QED
    BY <2>2, <2>3 DEF TypeInv, CallOK, Made
<1>2. \A i \in DOMAIN call.got : call.got[i].id \in FlowIds /\ call.got[i].row \in Rows
  <2>1. \A i \in DOMAIN call.got : call.got[i] \in Flow
    BY DEF TypeInv, CallOK
  <2>2. QED
    BY <2>1 DEF Flow
<1>3. Len(call.draft.steps) <= Len(call.got)
  <2>1. DraftOK(call.got, call.draft)
    BY EmptyDraftOK DEF TypeInv, CallOK, Drafted
  <2>2. QED
    BY <2>1 DEF DraftOK, WorkflowOK
<1>4. QED
  BY <1>1, <1>2, <1>3 DEF TypeInv, TableOK, CallOK, Got, Ids, ResultOK, TypeOK

(* The variables have their types: what a call has read are rows, of the   *)
(* ids it was asked for, and the chain has no more flows than were read.   *)
THEOREM TypeCorrect == Spec => []TypeOK
BY TypeInvariant, TypeInvTypeOK, PTL

LEMMA UsesOfTheResult ==
  ASSUME TypeInv
  PROVE  CsrfUsesAreLinked
<1>1. SUFFICES ASSUME result.op \in Traces
                 PROVE  UsesAreLinked(result.flows, result.chain)
  BY DEF CsrfUsesAreLinked
<1> DEFINE s == result.flows
           c == result.chain
<1>2. s \in Seq(Flow) /\ UsesOK(s, c, Len(s))
  BY <1>1 DEF TypeInv, ResultOK, Traced, ChainOK
<1> HIDE DEF s, c
<1>3. ASSUME NEW j \in DOMAIN s, NEW a \in RequestArtifacts(s[j].row), IsCsrf(a.name),
             NEW i0 \in 1..(j - 1), Issues(s, i0, a.value)
      PROVE  LET issuers == {i \in 1..(j - 1) : Issues(s, i, a.value)} IN
             \/ \E l \in c.links : \E i \in issuers : LinksUse(s, l, i, j, a)
             \/ MayHideItsSource(s, j, a)
  <2>1. j \in 1..Len(s)
    BY <1>2
  <2>2. UseOK(s, c, j, a)
    BY <1>2, <2>1 DEF UsesOK
  <2>3. \/ \E l \in c.links : /\ l.name = a.name /\ l.user = s[j].id
                              /\ \E i \in 1..(j - 1) : Issues(s, i, a.value) /\ l.source = s[i].id
        \/ MayHideItsSource(s, j, a)
    BY <1>3, <2>2 DEF UseOK
  <2>4. QED
    BY <2>3 DEF LinksUse
<1>4. UsesAreLinked(s, c)
  BY <1>3 DEF UsesAreLinked
<1>5. QED
  BY <1>4 DEF s, c

(* docs/backend.md:156: whatever the flows and the order of the map, a     *)
(* csrf value that a flow uses after another has issued it has its link;   *)
(* but for a use whose artifact no earlier response has shown, while the   *)
(* response to the same request is the first to show one with that value,  *)
(* which findCSRFSource may pick: then there may be no link.               *)
THEOREM UsesGetLinks == Spec => []CsrfUsesAreLinked
BY TypeInvariant, UsesOfTheResult, PTL

LEMMA SuggestedSends ==
  ASSUME TypeInv
  PROVE  SuggestionSendsFresh /\ SuggestionSendsDefaults /\ ExportFollowsTheRun
<1>1. result.op = "suggest" => result.flows \in Seq(Flow) /\ WorkflowOK(result.flows, result.steps)
  BY DEF TypeInv, ResultOK, Suggested
<1>2. QED
  BY <1>1, WorkflowSendsFresh, WorkflowSendsDefaults, WorkflowSendsAlike
     DEF SuggestionSendsFresh, SuggestionSendsDefaults, ExportFollowsTheRun

(* Builder.Suggest and Builder.Run: whatever the flows and whichever order *)
(* Go's maps take, a run of a suggestion sends what the server has issued  *)
(* to that run in place of what it had issued to the captured one, unless  *)
(* the value is one that may be missed.                                    *)
THEOREM RunsSendFresh == Spec => []SuggestionSendsFresh
BY TypeInvariant, SuggestedSends, PTL

(* modeler.go:110-113: in a field that became an input, a run sends what   *)
(* was captured unless a later flow has another text in it.                *)
THEOREM RunsSendDefaults == Spec => []SuggestionSendsDefaults
BY TypeInvariant, SuggestedSends, PTL

(* exporter/project.go: the exported program makes the requests of a run   *)
(* and sends the same in them, up to what is redacted and to arrays.       *)
THEOREM ExportSendsAlike == Spec => []ExportFollowsTheRun
BY TypeInvariant, SuggestedSends, PTL

-----------------------------------------------------------------------------
(* The order of what is traced.                                            *)
(*                                                                         *)

(* Of the page's flows, those that are read or still stored: a flow that   *)
(* has been pruned ends the call when its turn comes.                      *)
Have(c, rows, i) == i <= Len(c.got) \/ rows[c.ids[i]] # NoFlow

At(c, rows, i) == IF i <= Len(c.got) THEN c.got[i].row.at ELSE rows[c.ids[i]].at

Listed(c) == c.op = "traceQuery" /\ c.pc \in {"tags", "get"}

(* The page keeps its order while rows come and go: until the rows change, *)
(* all of it is stored, and so no flow is inserted under one of its ids.   *)
PageInOrder(c, rows, changed) ==
  Listed(c) =>
    /\ ~changed => \A i \in DOMAIN c.ids : rows[c.ids[i]] # NoFlow
    /\ \A i, j \in DOMAIN c.ids :
         i < j /\ Have(c, rows, i) /\ Have(c, rows, j) =>
           ~TextBefore(At(c, rows, j), At(c, rows, i))

(* What was traced came in the order that the caller's flows have in time, *)
(* or a query's in their texts.                                            *)
InOrder(r) ==
  r.op \in Traces =>
    \A i, j \in DOMAIN r.flows : i < j =>
      IF r.op = "trace" THEN r.flows[i].row.at <= r.flows[j].row.at
      ELSE ~TextBefore(r.flows[j].row.at, r.flows[i].row.at)

OrderInv == TypeInv /\ PageInOrder(call, flows, moved) /\ InOrder(result)

LEMMA ChangeOrder ==
  ASSUME OrderInv,
         \/ \E f \in FlowIds : \/ \E row \in Rows : Insert(f, row)
                               \/ \E t \in Tags : AddTag(f, t) \/ RemoveTag(f, t)
         \/ \E t \in 0..MaxTime : PruneFlowsBefore(t)
  PROVE  PageInOrder(call', flows', moved') /\ InOrder(result')
<1>1. call' = call /\ result' = result /\ (call # NoCall => ~moved) /\ moved' = (call # NoCall)
  BY DEF Insert, AddTag, RemoveTag, PruneFlowsBefore, Change
<1>2. \A f \in FlowIds : flows[f] # NoFlow /\ flows'[f] # NoFlow => flows'[f] = flows[f]
  <2>1. ASSUME NEW f \in FlowIds, NEW row \in Rows, Insert(f, row),
               NEW g \in FlowIds, flows[g] # NoFlow
        PROVE  flows'[g] = flows[g]
    BY <2>1 DEF OrderInv, TypeInv, TableOK, Insert, InsertRow
  <2>2. ASSUME NEW f \in FlowIds, NEW t \in Tags, AddTag(f, t) \/ RemoveTag(f, t)
        PROVE  flows' = flows
    BY <2>2 DEF AddTag, TagRow, RemoveTag, UntagRow
  <2>3. ASSUME NEW t \in 0..MaxTime, PruneFlowsBefore(t),
               NEW g \in FlowIds, flows'[g] # NoFlow
        PROVE  flows'[g] = flows[g]
    BY <2>3 DEF PruneFlowsBefore, DeleteRows
  <2>4. QED
    BY <2>1, <2>2, <2>3
<1>3. SUFFICES ASSUME Listed(call) PROVE PageInOrder(call, flows', moved')
  BY <1>1 DEF OrderInv, PageInOrder
<1>4. ~moved /\ moved'
  <2>1. call # NoCall
    BY <1>3 DEF Listed, NoCall
  <2>2. QED
    BY <1>1, <2>1, Zenon
<1>5. /\ \A i \in DOMAIN call.ids : flows[call.ids[i]] # NoFlow /\ call.ids[i] \in FlowIds
      /\ \A i, j \in DOMAIN call.ids :
           i < j /\ Have(call, flows, i) /\ Have(call, flows, j) =>
             ~TextBefore(At(call, flows, j), At(call, flows, i))
  BY <1>3, <1>4 DEF OrderInv, PageInOrder, TypeInv, CallOK, Ids
<1>6. \A i \in DOMAIN call.ids :
        Have(call, flows', i) => Have(call, flows, i) /\ At(call, flows', i) = At(call, flows, i)
  BY <1>2, <1>5 DEF Have, At
<1>7. QED
  BY <1>4, <1>5, <1>6 DEF PageInOrder

LEMMA PageOrder ==
  ASSUME OrderInv, PageFlows
  PROVE  PageInOrder(call', flows, moved)
<1>1. PICK page \in Pages(call.query, call.op = "traceQuery") :
        call' = [call EXCEPT !.ids = page, !.pc = "tags"]
  BY DEF PageFlows
<1>2. call'.ids = page /\ call'.got = << >> /\ call'.op = call.op
  BY <1>1 DEF OrderInv, TypeInv, CallOK, IsCall, Got, PageFlows
<1>3. SUFFICES ASSUME call.op = "traceQuery" PROVE PageInOrder(call', flows, moved)
  BY <1>2 DEF PageInOrder, Listed
<1>4. /\ \A i \in DOMAIN page : page[i] \in Stored
      /\ \A i, j \in DOMAIN page : i < j => ~TextBefore(flows[page[j]].at, flows[page[i]].at)
      /\ DOMAIN page \subseteq Nat \ {0}
  <2>1. page \in Pages(call.query, TRUE)
    BY <1>1, <1>3
  <2>2. /\ page \in Ids /\ \A i \in DOMAIN page : page[i] \in Stored
        /\ \A i, j \in DOMAIN page : i < j => ~TextBefore(flows[page[j]].at, flows[page[i]].at)
    BY <2>1, PageFact
  <2>3. DOMAIN page \subseteq Nat \ {0}
    BY <2>2 DEF Ids
  <2>4. QED
    BY <2>2, <2>3
<1>5. \A i \in DOMAIN page : At(call', flows, i) = flows[page[i]].at /\ flows[page[i]] # NoFlow
  BY <1>2, <1>4 DEF At, Stored
<1>6. QED
  BY <1>2, <1>4, <1>5 DEF PageInOrder

(* A row that is read is the row that was stored. *)
LEMMA ReadOrder ==
  ASSUME OrderInv, call.pc = "get", Len(call.got) < Len(call.ids),
         flows[call.ids[Len(call.got) + 1]] \in Rows,
         call' = [call EXCEPT !.got = Append(@, [id |-> call.ids[Len(call.got) + 1],
                                                 row |-> flows[call.ids[Len(call.got) + 1]]])]
  PROVE  PageInOrder(call', flows, moved)
<1> DEFINE n == Len(call.got)
           x == [id |-> call.ids[n + 1], row |-> flows[call.ids[n + 1]]]
<1>1. call.got \in Seq(Flow) /\ n \in Nat /\ call.ids \in Seq(FlowIds)
  BY DEF OrderInv, TypeInv, CallOK, Ids
<1>2. /\ call'.got = Append(call.got, x) /\ call'.ids = call.ids
      /\ call'.op = call.op /\ call'.pc = call.pc
  BY DEF OrderInv, TypeInv, CallOK, IsCall
<1>3. x.row = flows[call.ids[n + 1]]
  OBVIOUS
<1>4. x \in Flow
  <2>1. n + 1 \in 1..Len(call.ids)
    BY <1>1
  <2>2. call.ids[n + 1] \in FlowIds
    BY <1>1, <2>1
  <2>3. QED
    BY <2>2 DEF Flow
<1> HIDE DEF x
<1>5. /\ Len(call'.got) = n + 1 /\ call'.got[n + 1] = x
      /\ \A i \in 1..n : call'.got[i] = call.got[i]
  BY <1>1, <1>2, <1>4
<1>6. flows[call.ids[n + 1]] # NoFlow
  BY RowsAssumption
<1>7. ASSUME NEW i \in DOMAIN call.ids, Have(call', flows, i)
      PROVE  Have(call, flows, i) /\ At(call', flows, i) = At(call, flows, i)
  <2>1. i \in Nat \ {0}
    BY <1>1
  <2>2. CASE i <= n
    BY <1>1, <1>5, <2>1, <2>2 DEF Have, At
  <2>3. CASE i = n + 1
    BY <1>1, <1>3, <1>5, <1>6, <2>3 DEF Have, At
  <2>4. CASE i > n + 1
    BY <1>1, <1>2, <1>5, <1>7, <2>1, <2>4 DEF Have, At
  <2>5. QED
    BY <1>1, <2>1, <2>2, <2>3, <2>4
<1>8. QED
  BY <1>2, <1>7 DEF OrderInv, PageInOrder, Listed

(* A call that lists no page, and a result that is no chain.               *)
LEMMA NoPage ==
  ASSUME NEW c, ~Listed(c), NEW rows, NEW m
  PROVE  PageInOrder(c, rows, m)
BY DEF PageInOrder

LEMMA NoCallLists == ~Listed(NoCall)
BY DEF Listed, NoCall

LEMMA ReturnOrder ==
  ASSUME OrderInv, NEW r, InOrder(r), Return(r)
  PROVE  PageInOrder(call', flows', moved') /\ InOrder(result')
BY NoPage, NoCallLists DEF Return

(* The steps that end with a result that is no chain.                      *)
LEMMA PlainReturns ==
  ASSUME \/ AttachTags \/ NothingMatched \/ ReturnWorkflow
         \/ Return([op |-> "failed", what |-> "flow not found"])
  PROVE  \E r : r.op \notin Traces /\ Return(r)
<1>1. CASE AttachTags
  <2> DEFINE r == [op |-> "query", total |-> call.total, page |-> call.ids,
                   tags |-> TagsOfPage(call.ids)]
  <2>1. Return(r) /\ r.op \notin Traces
    BY <1>1 DEF AttachTags, Traces
  <2> HIDE DEF r
  <2>2. QED
    BY <2>1
<1>2. CASE NothingMatched
  <2> DEFINE r == [op |-> "failed", what |-> "no flows matched auth trace"]
  <2>1. Return(r) /\ r.op \notin Traces
    BY <1>2 DEF NothingMatched, Traces
  <2> HIDE DEF r
  <2>2. QED
    BY <2>1
<1>3. CASE ReturnWorkflow
  <2> DEFINE r == [op |-> "suggest", flows |-> call.got, steps |-> call.draft.steps]
  <2>1. Return(r) /\ r.op \notin Traces
    BY <1>3 DEF ReturnWorkflow, Traces
  <2> HIDE DEF r
  <2>2. QED
    BY <2>1
<1>4. CASE Return([op |-> "failed", what |-> "flow not found"])
  <2> DEFINE r == [op |-> "failed", what |-> "flow not found"]
  <2>1. Return(r) /\ r.op \notin Traces
    BY <1>4 DEF Traces
  <2> HIDE DEF r
  <2>2. QED
    BY <2>1
<1>5. QED
  BY <1>1, <1>2, <1>3, <1>4

LEMMA ChainReturned ==
  ASSUME OrderInv, ReturnChain
  PROVE  PageInOrder(call', flows', moved') /\ InOrder(result')
<1> DEFINE t == TraceOrder(call)
           r == [op |-> call.op, flows |-> t, chain |-> call.chain]
<1>1. /\ t \in Seq(Flow) /\ DOMAIN t = DOMAIN call.got
      /\ call.op = "trace" => \A k \in DOMAIN t, m \in DOMAIN t :
                                k < m => t[k].row.at <= t[m].row.at
      /\ call.op # "trace" => t = call.got
  <2>1. call.got \in Seq(Flow)
    BY DEF OrderInv, TypeInv, CallOK
  <2>2. QED
    BY <2>1, TraceOrderFact DEF OrderInv, TypeInv
<1>2. call.op \in Traces /\ call.pc = "get" /\ Len(call.got) = Len(call.ids) /\ Return(r)
  BY DEF ReturnChain, HaveAll
<1>3. ASSUME call.op = "traceQuery", NEW i \in DOMAIN t, NEW j \in DOMAIN t, i < j
      PROVE  ~TextBefore(t[j].row.at, t[i].row.at)
  <2>1. t = call.got /\ call.got \in Seq(Flow) /\ call.ids \in Seq(FlowIds)
    BY <1>1, <1>3 DEF OrderInv, TypeInv, CallOK, Ids
  <2>2. /\ i \in DOMAIN call.ids /\ j \in DOMAIN call.ids
        /\ i <= Len(call.got) /\ j <= Len(call.got)
    BY <1>2, <1>3, <2>1
  <2>3. Listed(call)
    BY <1>2, <1>3 DEF Listed
  <2>4. ~TextBefore(At(call, flows, j), At(call, flows, i))
    BY <1>3, <2>2, <2>3 DEF OrderInv, PageInOrder, Have
  <2>5. QED
    BY <2>1, <2>2, <2>4 DEF At
<1> HIDE DEF t
<1>4. r.op = call.op /\ r.flows = t
  OBVIOUS
<1> HIDE DEF r
<1>5. InOrder(r)
  BY <1>1, <1>2, <1>3, <1>4 DEF InOrder, Traces
<1>6. QED
  BY <1>2, <1>5, ReturnOrder

(* The steps of a call that go on with it.                                 *)
LEMMA CallOrder ==
  ASSUME OrderInv, UNCHANGED <<tableVars, result, moved>>, PageInOrder(call', flows, moved)
  PROVE  PageInOrder(call', flows', moved') /\ InOrder(result')
BY DEF OrderInv, tableVars

LEMMA BeginsUnlisted ==
  ASSUME OrderInv,
         \/ \E q \in Query : QueryFlows(q)
         \/ \E s \in Named : NameFlows("trace", s) \/ NameFlows("suggest", s)
         \/ \E h \in Hosts : TraceHost(h)
         \/ CountFlows
  PROVE  UNCHANGED <<tableVars, result, moved>> /\ ~Listed(call')
<1>1. IsCall(call) /\ IsCall(NoCall)
  BY NoCallOK DEF OrderInv, TypeInv, CallOK
<1>2. ASSUME NEW q \in Query, QueryFlows(q)
      PROVE  UNCHANGED <<tableVars, result, moved>> /\ ~Listed(call')
  BY <1>1, <1>2 DEF QueryFlows, Begin, IsCall, Listed
<1>3. ASSUME NEW s \in Named, NameFlows("trace", s) \/ NameFlows("suggest", s)
      PROVE  UNCHANGED <<tableVars, result, moved>> /\ ~Listed(call')
  BY <1>1, <1>3 DEF NameFlows, Begin, IsCall, Listed
<1>4. ASSUME NEW h \in Hosts, TraceHost(h)
      PROVE  UNCHANGED <<tableVars, result, moved>> /\ ~Listed(call')
  BY <1>1, <1>4 DEF TraceHost, Begin, IsCall, Listed
<1>5. ASSUME CountFlows
      PROVE  UNCHANGED <<tableVars, result, moved>> /\ ~Listed(call')
  BY <1>1, <1>5 DEF CountFlows, IsCall, Listed
<1>6. QED
  BY <1>2, <1>3, <1>4, <1>5

LEMMA OrderStep ==
  ASSUME OrderInv, [Next]_vars
  PROVE  OrderInv'
<1> SUFFICES PageInOrder(call', flows', moved') /\ InOrder(result')
  BY TypeStep DEF OrderInv
<1>1. CASE UNCHANGED vars
  BY <1>1, CallOrder DEF OrderInv, vars
<1>2. CASE \/ \E f \in FlowIds : \/ \E row \in Rows : Insert(f, row)
                                 \/ \E t \in Tags : AddTag(f, t) \/ RemoveTag(f, t)
           \/ \E t \in 0..MaxTime : PruneFlowsBefore(t)
  BY <1>2, ChangeOrder
<1>3. CASE \/ \E q \in Query : QueryFlows(q)
           \/ \E s \in Named : NameFlows("trace", s) \/ NameFlows("suggest", s)
           \/ \E h \in Hosts : TraceHost(h)
           \/ CountFlows
  BY <1>3, BeginsUnlisted, NoPage, CallOrder
<1>4. CASE PageFlows
  BY <1>4, PageOrder, CallOrder DEF PageFlows
<1>5. CASE FlowsListed
  <2>1. /\ call'.ids = call.ids /\ call'.got = call.got /\ call'.op = call.op /\ Listed(call)
    BY <1>5 DEF OrderInv, TypeInv, CallOK, IsCall, FlowsListed, Listed
  <2>2. PageInOrder(call', flows, moved)
    BY <2>1 DEF OrderInv, PageInOrder, Have, At
  <2>3. QED
    BY <1>5, <2>2, CallOrder DEF FlowsListed
<1>6. CASE TraceNext
  <2>1. PICK h : call' = [call EXCEPT !.chain = h]
    BY <1>6 DEF TraceNext
  <2>2. /\ call'.ids = call.ids /\ call'.got = call.got /\ call'.op = call.op
        /\ call'.pc = call.pc
    BY <2>1 DEF OrderInv, TypeInv, CallOK, IsCall
  <2>3. PageInOrder(call', flows, moved)
    BY <2>2 DEF OrderInv, PageInOrder, Have, At, Listed
  <2>4. QED
    BY <1>6, <2>3, CallOrder DEF TraceNext
<1>7. CASE AttachTags \/ NothingMatched \/ ReturnWorkflow
  <2>1. PICK r : r.op \notin Traces /\ Return(r)
    BY <1>7, PlainReturns
  <2>2. QED
    BY <2>1, ReturnOrder DEF InOrder
<1>8. CASE GetFlow
  <2>1. CASE Return([op |-> "failed", what |-> "flow not found"])
    <3>1. PICK r : r.op \notin Traces /\ Return(r)
      BY <2>1, PlainReturns
    <3>2. QED
      BY <3>1, ReturnOrder DEF InOrder
  <2>2. CASE ~Return([op |-> "failed", what |-> "flow not found"])
    BY <1>8, <2>2, GetFlowCases, ReadOrder, CallOrder DEF OrderInv
  <2>3. QED
    BY <2>1, <2>2
<1>9. CASE ReturnChain
  BY <1>9, ChainReturned
<1>10. CASE BindNext
  <2>1. PICK d : call' = [call EXCEPT !.draft = d]
    BY <1>10 DEF BindNext
  <2>2. /\ call'.ids = call.ids /\ call'.got = call.got /\ call'.op = call.op
        /\ call'.pc = call.pc
    BY <2>1 DEF OrderInv, TypeInv, CallOK, IsCall
  <2>3. PageInOrder(call', flows, moved)
    BY <2>2 DEF OrderInv, PageInOrder, Have, At, Listed
  <2>4. QED
    BY <1>10, <2>3, CallOrder DEF BindNext
<1>11. QED
  BY <1>1, <1>2, <1>3, <1>4, <1>5, <1>6, <1>7, <1>8, <1>9, <1>10 DEF Next

LEMMA OrderInvariant == Spec => []OrderInv
<1>1. Init => OrderInv
  BY TypeInit, NoPage, NoCallLists DEF Init, OrderInv, InOrder, Traces
<1>2. QED
  BY <1>1, OrderStep, PTL DEF Spec

LEMMA LinksOfTheResult ==
  ASSUME OrderInv
  PROVE  LinksLeadForward
<1>1. SUFFICES ASSUME result.op \in Traces, NEW l \in result.chain.links,
                      NEW i \in DOMAIN result.flows, NEW j \in DOMAIN result.flows,
                      l.source = result.flows[i].id, l.user = result.flows[j].id
               PROVE  LET a == result.flows[j].row.at
                          b == result.flows[i].row.at
                      IN  ~(IF result.op = "trace" THEN a < b ELSE Second(a) < Second(b))
  BY DEF LinksLeadForward, LinksAreForward
<1> DEFINE s == result.flows
<1>2. /\ s \in Seq(Flow) /\ DistinctIds(s) /\ LinksOK(s, result.chain, Len(s))
  BY <1>1 DEF OrderInv, TypeInv, ResultOK, Traced, ChainOK
<1> HIDE DEF s
<1>3. i < j
  <2>1. PICK p \in 1..Len(s), q \in 1..Len(s) : p < q /\ l.source = s[p].id /\ l.user = s[q].id
    BY <1>1, <1>2 DEF LinksOK
  <2>2. /\ p \in DOMAIN s /\ q \in DOMAIN s /\ i \in DOMAIN s /\ j \in DOMAIN s
        /\ s[p].id = s[i].id /\ s[q].id = s[j].id
    BY <1>1, <1>2, <2>1 DEF s
  <2>3. p = i /\ q = j
    BY <1>2, <2>2 DEF DistinctIds
  <2>4. QED
    BY <2>1, <2>3
<1>4. s[i].row.at \in Nat /\ s[j].row.at \in Nat
  BY <1>1, <1>2, TimesFact DEF s
<1>5. IF result.op = "trace" THEN s[i].row.at <= s[j].row.at
      ELSE ~TextBefore(s[j].row.at, s[i].row.at)
  BY <1>1, <1>3 DEF OrderInv, InOrder, s
<1>6. CASE result.op = "trace"
  <2>1. s[i].row.at <= s[j].row.at
    BY <1>5, <1>6
  <2>2. ~(s[j].row.at < s[i].row.at)
    BY <1>4, <2>1
  <2>3. QED
    BY <1>6, <2>2 DEF s
<1>7. CASE result.op # "trace"
  BY <1>4, <1>5, <1>7, TextsTellSeconds DEF s
<1>8. QED
  BY <1>6, <1>7

(* docs/backend.md:156: a link of a chain leads from its source to a later *)
(* use, by the time of the flows or, where a query listed them, by the     *)
(* seconds of their texts.                                                 *)
THEOREM LinksGoForward == Spec => []LinksLeadForward
BY OrderInvariant, LinksOfTheResult, PTL

====
