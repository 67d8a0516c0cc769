--------------------------- MODULE FlowInspector ---------------------------
(***************************************************************************)
(* internal/store/inspector.go and PruneFlowsBefore: what one connection   *)
(* asks of the flow tables while others capture, tag, import and prune.    *)
(*                                                                         *)
(* A creation time is stored as text (time.RFC3339Nano), and compared and  *)
(* sorted as text.  The format cuts the zeros at the end of the fraction,  *)
(* so that the text order is not the order of time within a second.  An    *)
(* instant is a number of quarters of a second: two fractional digits of   *)
(* base two stand for the nine of base ten.                                *)
(***************************************************************************)
EXTENDS FlowTable, Naturals, Sequences, SequencesExt

CONSTANTS MaxTime,   \* bound: the last instant
          Hosts,
          AnyHost,   \* the query does not ask for a host
          AnyTag,    \* the query does not ask for a tag
          MaxRows    \* the LIMIT of QueryFlows

ASSUME InspectorAssumption == /\ MaxTime \in Nat /\ MaxRows \in Nat \ {0}
                              /\ AnyHost \notin Hosts /\ AnyTag \notin Tags
                              /\ IsFiniteSet(FlowIds)

Second(t) == t \div 4

(* Format(time.RFC3339Nano), store.go:505: 9 is the closing Z, which comes *)
(* after the digits.                                                       *)
Text(t) ==
  LET q == t % 4
  IN  <<Second(t)>>
      \o (IF q = 0 THEN << >> ELSE IF q = 2 THEN <<1>> ELSE <<q \div 2, 1>>)
      \o <<9>>

(* SQLite's order of two texts. *)
TextBefore(a, b) ==
  \E k \in DOMAIN Text(a) \cap DOMAIN Text(b) :
     /\ Text(a)[k] < Text(b)[k]
     /\ \A j \in 1..(k - 1) : Text(a)[j] = Text(b)[j]

-----------------------------------------------------------------------------
(* QueryFlows: lines 54-96. *)

Query == [host : Hosts \cup {AnyHost}, tag : Tags \cup {AnyTag}]

(* buildFlowWhere, lines 285-322. *)
Matching(q) ==
  {f \in Stored : /\ q.host \in {AnyHost, flows[f].host}
                  /\ q.tag \in {AnyTag} \cup TagsOf(f)}

(* Lines 65-69: how many rows there are. *)
Counted(q) == Cardinality(Matching(q))

(* ORDER BY created_at ASC, lines 71-82 and 324-343: texts that are equal  *)
(* come in any order.                                                      *)
Orders(F) ==
  {s \in SetToSeqs(F) :
     \A i, j \in DOMAIN s : i < j => ~TextBefore(flows[s[j]].at, flows[s[i]].at)}

FirstPage(s) == SubSeq(s, 1, IF Len(s) < MaxRows THEN Len(s) ELSE MaxRows)

(* The second statement: the page.  Descending, it is turned round. *)
Pages(q, ascending) ==
  {FirstPage(IF ascending THEN s ELSE Reverse(s)) : s \in Orders(Matching(q))}

(* attachTags, lines 363-382: one more statement for each flow. *)
TagsOfPage(page) == [i \in DOMAIN page |-> TagsOf(page[i])]

-----------------------------------------------------------------------------
(* PruneFlowsBefore, store.go:1225-1238: the count, which only tells how   *)
(* many, and the DELETE.                                                   *)

Prunable(t) == {f \in Stored : TextBefore(flows[f].at, t)}

=============================================================================
