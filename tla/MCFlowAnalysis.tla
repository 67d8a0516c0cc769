--------------------------- MODULE MCFlowAnalysis ---------------------------
(***************************************************************************)
(* FlowAnalysis with three flows.  The paths are $.xcsrf and $.token,      *)
(* secret names of one length and so of one key, $[0].csrf, which no path  *)
(* expression reaches, and $.title[0][1].  The value joint is the text of  *)
(* v1, v2 and v3 in a row, where v3 begins with the end of v2.  An instant *)
(* is 0, 1 or 4: the text of 0 comes after that of 1.                      *)
(***************************************************************************)
EXTENDS FlowAnalysis, TLC

CONSTANTS f1, f2, f3, h1, h2, t1, v1, v2, v3, joint, tiny, xcsrf, csrf, token, title,
          pCsrf, pToken, pIndexed, pNested

MCFlowIds == {f1, f2, f3}
MCHosts == {h1, h2}
MCTags == {t1}
MCValues == {v1, v2, v3, joint, tiny}
MCUseful == {v1, v2, v3, joint}
MCInside == [v \in MCValues \cup {NoValue} |-> IF v = joint THEN {v1, v2, v3} ELSE {}]
MCOverlapping == {<<v2, v3>>, <<v3, v2>>}
MCFields == {xcsrf, csrf, token, title}
MCTokenNames == {xcsrf, csrf, token}
MCCsrfNames == {xcsrf, csrf}
MCSecret == {xcsrf, csrf, token}
MCPaths == {pCsrf, pToken, pIndexed, pNested}
MCFieldOf == pCsrf :> xcsrf @@ pToken :> token @@ pIndexed :> csrf @@ pNested :> title
MCKeyOf == pCsrf :> "value_5" @@ pToken :> "value_5" @@ pIndexed :> "value_8"
           @@ pNested :> "title_0_1"
MCResolvable == {pCsrf, pToken, pNested}
MCNested == {pNested}

None(S) == [x \in S |-> NoValue]

Blank == [at |-> 0, host |-> h1, class |-> "auth_session", denied |-> FALSE,
          header |-> NoValue, fields |-> None(MCFields), largeRequest |-> FALSE,
          echo |-> NoValue, answer |-> None(MCPaths), largeResponse |-> FALSE]

Posted == [Blank EXCEPT !.class = "primary_action"]

(* For traces: flows that issue values ... *)
TracedIssuers ==
  {[Blank EXCEPT !.answer[pCsrf] = v1],
   [Blank EXCEPT !.answer[pCsrf] = v3, !.at = 1],
   [Blank EXCEPT !.answer[pCsrf] = v1, !.answer[pToken] = v2],
   [Blank EXCEPT !.answer[pIndexed] = v1, !.denied = TRUE],
   [Blank EXCEPT !.answer[pIndexed] = v2, !.answer[pCsrf] = tiny, !.answer[pNested] = v1,
                 !.at = 1]}

(* ... and flows that use them, some of which issue them as well. *)
TracedUsers ==
  {[Posted EXCEPT !.header = v3, !.fields[title] = v2],
   [Posted EXCEPT !.header = v1, !.echo = v1, !.at = 4],
   [Posted EXCEPT !.header = v1, !.answer[pIndexed] = v1, !.at = 1],
   [Posted EXCEPT !.fields[xcsrf] = v1, !.fields[token] = v2, !.fields[title] = v1, !.at = 4],
   [Posted EXCEPT !.header = tiny, !.fields[xcsrf] = v2, !.host = h2, !.at = 4]}

MCTraceRows == TracedIssuers \cup TracedUsers

(* For suggestions, in the same way. *)
SuggestedIssuers ==
  {[Blank EXCEPT !.answer[pCsrf] = v1],
   [Blank EXCEPT !.answer[pCsrf] = v3, !.answer[pNested] = joint],
   [Blank EXCEPT !.answer[pCsrf] = v1, !.answer[pToken] = v2],
   [Blank EXCEPT !.answer[pToken] = v2, !.largeResponse = TRUE],
   [Blank EXCEPT !.answer[pToken] = joint, !.answer[pIndexed] = tiny],
   [Blank EXCEPT !.answer[pIndexed] = v2, !.answer[pCsrf] = tiny, !.answer[pNested] = v1],
   [Blank EXCEPT !.answer[pIndexed] = v1, !.denied = TRUE],
   [Blank EXCEPT !.answer[pCsrf] = v1, !.class = "unknown", !.fields[title] = v1]}

SuggestedUsers ==
  {[Posted EXCEPT !.header = v3, !.fields[title] = v2],
   [Posted EXCEPT !.header = v1, !.fields[xcsrf] = v1, !.largeRequest = TRUE],
   [Posted EXCEPT !.fields[xcsrf] = v1, !.fields[token] = v2, !.fields[title] = v1],
   [Posted EXCEPT !.header = joint, !.fields[token] = joint],
   [Posted EXCEPT !.header = tiny, !.fields[xcsrf] = v2, !.answer[pToken] = v2]}

MCSuggestRows == SuggestedIssuers \cup SuggestedUsers

MCRows == MCTraceRows \cup MCSuggestRows

Holds(rows) == \A f \in FlowIds : flows[f] \in rows \cup {NoFlow}

(* Suggestions are made of the rows for them, and have no use for tags; *)
(* all other calls meet the rows for traces.                            *)
InBounds == \/ Holds(MCTraceRows) /\ call.op # "suggest"
            \/ Holds(MCSuggestRows) /\ flowTags = {} /\ call.op \in {"none", "suggest"}

MCSpec == Init /\ [][Next /\ InBounds']_vars

Symmetric == Permutations(MCFlowIds)

=============================================================================
