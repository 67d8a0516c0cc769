-------------------------- MODULE WorkflowCompiler --------------------------
(***************************************************************************)
(* internal/workflow: what Suggest makes of a sequence of captured flows,  *)
(* and what a run of it then sends.  The rows are those of AuthTrace, and  *)
(* tell also whether a body is longer than maxBindingBodyBytes.            *)
(*                                                                         *)
(* A part of a request is an ${input.name}, or a captured text in which a  *)
(* ${steps.step.key} stands in place of each value that "with" gives a     *)
(* source: of the whole text or of values that occur within it.  The code  *)
(* replaces in the text of the body: that a value occurs also in the name  *)
(* of a field, in a number or in a placeholder, and is replaced there, is  *)
(* left out.                                                               *)
(***************************************************************************)
EXTENDS AuthTrace, SequencesExt

CONSTANTS KeyOf,       \* extractionKey, lines 296-309: the key of a path
          Resolvable,  \* the paths that jsonPathValue, lines 723-755, follows
          Nested,      \* those of them with an array in an array: it stops at
                       \* the outer one, whose text is taken for the leaf's
          Secret,      \* fields that sensitiveField knows, lines 807-811
          Useful,      \* values of a length that bindingValueUseful accepts, and
                       \* that fmt.Sprint and JSON write as they are sent: not a
                       \* number of seven digits, which becomes 1.234567e+06, nor
                       \* a text with a quotation mark, which becomes \"
          Inside,      \* the other values that occur within a value
          Overlapping, \* the pairs of values that may share letters of a text
          MaxSources,  \* maxSourcesPerResponse
          MaxBindings  \* maxBindingSources

ASSUME CompilerAssumption == /\ Resolvable \subseteq Paths /\ Nested \subseteq Resolvable
                             /\ Secret \subseteq Fields
                             /\ Useful \subseteq Values /\ IsFiniteSet(Useful)
                             /\ Inside \in [Values \cup {NoValue} -> SUBSET Values]
                             /\ \A v \in Values : v \notin Inside[v]
                             /\ Inside[NoValue] = {}
                             /\ MaxSources \in Nat /\ MaxBindings \in Nat

Template(v, sources) == [is |-> "text", of |-> v, with |-> sources]
Nothing == [v \in {} |-> v]
Captured(v) == Template(v, Nothing)
Input(n) == [is |-> "input", field |-> n]

(* classify, lines 549-567: what is worth a step. *)
Included(row) == row.class \in {"primary_action", "auth_session"}

(* inferInputDefaults and inferBodyTemplate, lines 586-634: which fields   *)
(* become inputs.                                                          *)
InputFields(row) == {n \in Fields \ Secret : row.fields[n] # NoValue}

(* Mutant of Default: the first flow that has the field gives it. *)
FirstDefault(flowSeq, n) ==
  flowSeq[SelectInSeq(flowSeq, LAMBDA f : n \in InputFields(f.row))].row.fields[n]

(* Lines 110-113: the last flow that has the field, an excluded one also,  *)
(* gives the default; and all steps share the input.                       *)
Default(flowSeq, n) ==
  flowSeq[SelectLastInSeq(flowSeq, LAMBDA f : n \in InputFields(f.row))].row.fields[n]

(* A step as it is drafted, lines 97-124. *)
DraftStep(flow) ==
  [id |-> flow.id, included |-> Included(flow.row), denied |-> flow.row.denied,
   header |-> Captured(flow.row.header),
   body |-> [n \in Fields |-> IF n \in InputFields(flow.row) /\ Included(flow.row)
                              THEN Input(n) ELSE Captured(flow.row.fields[n])],
   extract |-> << >>]

(* The leaves of a response with a text or a number in them. *)
Leaves(row) == {p \in Paths : row.answer[p] # NoValue}

Truncated(row) == Cardinality(Leaves(row)) > MaxSources

(* jsonPrimitiveSources, lines 250-284: Go ranges over a map in any order, *)
(* and stops at the limit.                                                 *)
Walks(row) == IF Truncated(row) THEN kSubset(MaxSources, Leaves(row)) ELSE {Leaves(row)}

(* Which of the values that a response issues are taken: as many, in the  *)
(* order of the walk, as there is room for.                                *)
Taken(known, issued) ==
  IF Cardinality(known \cup issued) <= MaxBindings THEN {issued}
  ELSE {taken \in SUBSET issued : Cardinality(known \cup taken) = MaxBindings}

(* Lines 203-219: a value belongs to the step that first issued it, and    *)
(* there to the first of the leaves that were walked.                      *)
AddSources(previous, i, row, walk) ==
  LET known == DOMAIN previous
      issued == ({row.answer[p] : p \in walk} \cap Useful) \ known
      firsts(taken) == {f \in [taken -> walk] : \A v \in taken : row.answer[f[v]] = v}
      added(taken, first) ==
        [v \in taken \cup known |->
           IF v \in taken THEN [step |-> i, path |-> first[v]] ELSE previous[v]]
  IN  UNION {{added(taken, first) : first \in firsts(taken)} : taken \in Taken(known, issued)}

(* Which values of a text are replaced, line 186, one after the other in   *)
(* the order in which they were issued (values of one response in any): a  *)
(* value is left where one that was replaced before it has taken letters.  *)
Clash(v, u, w) == v \in {u, w} \/ <<u, w>> \in Overlapping

Replaceable(v, previous) == ({v} \cup Inside[v]) \cap DOMAIN previous

ReplacedIn(v, previous) ==
  {S \in SUBSET Replaceable(v, previous) :
     /\ v \in S => S = {v}
     /\ \A u \in Replaceable(v, previous) \ S :
          \E w \in S : Clash(v, u, w) /\ previous[w].step <= previous[u].step}

(* Line 177: a long body is left as it is. *)
BoundTexts(row, n, previous) ==
  IF row.largeRequest THEN {Captured(row.fields[n])}
  ELSE {Template(row.fields[n], Restrict(previous, S)) : S \in ReplacedIn(row.fields[n], previous)}

(* Lines 156-200: a header is replaced as a whole (163). *)
BoundSteps(step, row, previous) ==
  LET texts == {t \in [Secret -> UNION {BoundTexts(row, n, previous) : n \in Secret}] :
                  \A n \in Secret : t[n] \in BoundTexts(row, n, previous)}
  IN  {[step EXCEPT !.header = Template(row.header,
                                        Restrict(previous, {row.header} \cap DOMAIN previous)),
                    !.body = [n \in Fields |-> IF n \in Secret THEN t[n] ELSE step.body[n]]] :
         t \in texts}

Parts(step) == {step.header} \cup {step.body[n] : n \in Fields}

Texts(step) == {part \in Parts(step) : part.is = "text"}

(* The sources that a step takes values from. *)
SourcesUsed(step) == UNION {{part.with[u] : u \in DOMAIN part.with} : part \in Texts(step)}

(* The entry of a source among the extractions. *)
Entry(source) == <<source.step, KeyOf[source.path]>>

(* ensureExtraction, lines 237-248, for each source that is used, in the   *)
(* order in which they are met: an entry that two of them share goes to    *)
(* the last, which may be either.                                          *)
Extractions(used) ==
  LET entries == {Entry(s) : s \in used} IN
  {last \in [entries -> used] : \A e \in entries : Entry(last[e]) = e}

Extracting(step, j, last) ==
  LET keys == {k \in {entry[2] : entry \in DOMAIN last} : <<j, k>> \in DOMAIN last} IN
  [step EXCEPT !.extract = [k \in keys \cup DOMAIN @ |->
                              IF k \in keys THEN last[<<j, k>>].path ELSE step.extract[k]]]

ExtractAll(steps, last) == [j \in DOMAIN steps |-> Extracting(steps[j], j, last)]

(* Mutant of TakesSources: excluded steps are sources as well. *)
AllAreSources(row) == ~row.largeResponse

(* Lines 203-205: only a step that will run can be extracted from, and a   *)
(* long response is not looked at.                                         *)
TakesSources(row) == Included(row) /\ ~row.largeResponse

(* Suggest drafts every step before inferCrossStepBindings binds the first *)
(* (lines 91-126); a draft depends on its flow alone, and here it is made  *)
(* when its turn to be bound has come.                                     *)
EmptyDraft == [steps |-> << >>, previous |-> << >>]

(* inferCrossStepBindings, lines 148-221, for the next flow.               *)
BindFlow(draft, flow) ==
  LET i == Len(draft.steps) + 1
      step == DraftStep(flow)
      bound == IF step.included THEN BoundSteps(step, flow.row, draft.previous) ELSE {step}
      sources == IF TakesSources(flow.row)
                 THEN UNION {AddSources(draft.previous, i, flow.row, w) : w \in Walks(flow.row)}
                 ELSE {draft.previous}
  IN  UNION {{[steps |-> Append(ExtractAll(draft.steps, last), b), previous |-> previous] :
                last \in Extractions(SourcesUsed(b)), previous \in sources} : b \in bound}

-----------------------------------------------------------------------------
(* A run, lines 348-404 and 468-489, against a server that answers as it   *)
(* was captured, but issues a new value for each that it issued before.    *)

New(v) == <<"new", v>>

(* A run stops at a step whose status is refused (expectedStatuses, lines  *)
(* 569-574, expects a success of every flow) or whose extraction fails.    *)
StopsAt(step) ==
  \/ step.denied
  \/ \E k \in DOMAIN step.extract : step.extract[k] \notin Resolvable

Reached(steps, i) ==
  steps[i].included /\ \A j \in 1..(i - 1) : steps[j].included => ~StopsAt(steps[j])

(* What the expression of an extraction finds in the new response. *)
Found(row, path) == IF path \in Nested THEN <<"array", path>> ELSE New(row.answer[path])

IsExtracted(steps, source) ==
  steps[source.step].included /\ KeyOf[source.path] \in DOMAIN steps[source.step].extract

ExtractedPath(steps, source) == steps[source.step].extract[KeyOf[source.path]]

(* A text as it is sent: what stands in it in place of captured values. *)
Sent(v, texts) == [of |-> v, with |-> texts]
AsCaptured(v) == Sent(v, Nothing)

(* replaceBindings, lines 711-721, of a placeholder, which stays where     *)
(* there is no output; ...                                                 *)
Output(flowSeq, steps, source) ==
  IF IsExtracted(steps, source)
  THEN Found(flowSeq[source.step].row, ExtractedPath(steps, source))
  ELSE <<"placeholder", source.step, source.path>>

(* ... and of a part, with the inputs at their defaults. *)
SentPart(flowSeq, steps, part) ==
  IF part.is = "input" THEN AsCaptured(Default(flowSeq, part.field))
  ELSE Sent(part.of, [u \in DOMAIN part.with |-> Output(flowSeq, steps, part.with[u])])

(* The steps before i that run and whose response issued a value. *)
IssuersOf(flowSeq, i, v) ==
  {j \in 1..(i - 1) : /\ Included(flowSeq[j].row)
                      /\ \E p \in Leaves(flowSeq[j].row) : flowSeq[j].row.answer[p] = v}

IssuedBefore(flowSeq, i) == {v \in Values : IssuersOf(flowSeq, i, v) # {}}

(* More values were issued up to step j than can be known. *)
TooMany(flowSeq, j) ==
  Cardinality({v \in Useful : IssuersOf(flowSeq, j + 1, v) # {}}) > MaxBindings

(* Why a value issued before may be missed: it is too short or too long;   *)
(* its path has the key of another leaf, or leads through an array in an   *)
(* array; or each time that it was issued, the response was too long or    *)
(* had more leaves than are looked at, or there were too many values.      *)
MayBeMissed(flowSeq, i, v) ==
  \/ v \notin Useful
  \/ \E j \in IssuersOf(flowSeq, i, v) :
       \E p \in Leaves(flowSeq[j].row) :
         /\ flowSeq[j].row.answer[p] = v
         /\ p \in Nested \/ \E q \in Leaves(flowSeq[j].row) \ {p} : KeyOf[p] = KeyOf[q]
  \/ \A j \in IssuersOf(flowSeq, i, v) :
       flowSeq[j].row.largeResponse \/ Truncated(flowSeq[j].row) \/ TooMany(flowSeq, j)

NoLater(flowSeq, i, w, u) ==
  \E j \in IssuersOf(flowSeq, i, w), k \in IssuersOf(flowSeq, i, u) : j <= k

(* Of the values S that occur in a captured text v, what was issued before *)
(* is sent as the server has issued it now, unless it may be missed or has *)
(* given way to another that was issued no later; nothing else changes.    *)
Renews(flowSeq, i, sent, v, S) ==
  LET issued == S \cap IssuedBefore(flowSeq, i) IN
  /\ sent.of = v /\ DOMAIN sent.with \subseteq issued
  /\ \A u \in issued :
       \/ u \in DOMAIN sent.with /\ sent.with[u] = New(u)
       \/ MayBeMissed(flowSeq, i, u)
       \/ \E w \in DOMAIN sent.with \ {u} : Clash(v, u, w) /\ NoLater(flowSeq, i, w, u)

(* A run of a suggestion with the default inputs sends in each header and  *)
(* secret field what the server has just issued in place of what it had    *)
(* issued when the flows were captured, and what was captured otherwise;   *)
(* but a body that was too long is sent as it was captured.                *)
RunSendsFresh(flowSeq, steps) ==
  \A i \in DOMAIN steps : Reached(steps, i) =>
    LET row == flowSeq[i].row
        within(v) == IF row.largeRequest THEN {} ELSE {v} \cup Inside[v]
    IN  /\ Renews(flowSeq, i, SentPart(flowSeq, steps, steps[i].header), row.header, {row.header})
        /\ \A n \in Secret : Renews(flowSeq, i, SentPart(flowSeq, steps, steps[i].body[n]),
                                    row.fields[n], within(row.fields[n]))

(* The other fields are inputs, also where an earlier step issued their    *)
(* value: a run sends the captured text in them unless a later flow has    *)
(* another text in a field of that name.                                   *)
RunSendsDefaults(flowSeq, steps) ==
  \A i \in DOMAIN steps : Reached(steps, i) =>
    \A n \in Fields \ Secret :
      \/ SentPart(flowSeq, steps, steps[i].body[n]) = AsCaptured(flowSeq[i].row.fields[n])
      \/ \E j \in (i + 1)..Len(flowSeq) :
           flowSeq[j].row.fields[n] \notin {NoValue, flowSeq[i].row.fields[n]}

=============================================================================
