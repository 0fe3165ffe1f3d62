------------------------------ MODULE Resolution ------------------------------
(***************************************************************************)
(* What becomes of a compiled program when the values of a fixture arrive  *)
(* (resolve_scene in v3/resolver.py): every visual is evaluated and        *)
(* measured, the lesson is laid out, and every callout and every target of *)
(* an action is looked up among the parts that were measured.              *)
(***************************************************************************)
EXTENDS QualityGates, Measuring

Given(plan, values) == [ref \in Refs(plan) |-> EvaluateVisual(VisualOf(plan, ref), values)]

\* Every visual is evaluated and gets past the measurer.
Measurable(plan, values) ==
    /\ \A v \in Range(Visuals(plan)) : Evaluates(v, values)
    /\ LET given == Given(plan, values)
       IN  \A v \in Range(Visuals(plan)) : Measures(v.kind, given[v.ref])

\* The answer is evaluated, and its box keeps the widest of its stages.
AnswerMeasurable(plan, answer, values) ==
    Declared(plan) => ValueOf(answer, values) # None

MeasuredLesson(plan, values) ==
    LET given == Given(plan, values)
        sized(ref, box) == [ref |-> ref, left |-> box.left, right |-> box.right,
                            bottom |-> box.bottom, top |-> box.top]
        pictures == [k \in DOMAIN Visuals(plan) |->
                        LET v == Visuals(plan)[k]
                        IN  sized(v.ref, MeasuredBox(v.kind, given[v.ref]))]
    IN  IF Declared(plan) THEN Append(pictures, sized(Answer, Centred(SentenceWidth, TextHeight)))
        ELSE pictures

Exposed(plan, values, t) ==
    \/ t = Whole(Answer) /\ Declared(plan)
    \/ /\ t.visual \in Refs(plan)
       /\ \/ t.part = None
          \/ LET v == VisualOf(plan, t.visual)
             IN  <<t.part, t.index>> \in MeasuredParts(v.kind, EvaluateVisual(v, values))

\* The callouts as the layout sees them.
CalloutsOf(plan, program, values) ==
    [k \in DOMAIN program.relations |->
        LET r == program.relations[k]
            v == VisualOf(plan, r.target.visual)
            given == EvaluateVisual(v, values)
        IN  [visual |-> r.target.visual, anchor |-> r.anchor,
             y |-> IF ~Exposed(plan, values, r.target) THEN None
                   ELSE PartBottom(v.kind, given, MeasuredBox(v.kind, given), r.target.part, r.target.index)]]

\* What the resolver looks up for an action: a turn names its visual alone.
LookedUp(a) ==
    CASE a.kind = "rotate" -> {}
      [] a.kind \in {"signed_hop_arrow", "distance_annotation", "transform"} ->
            Range(a.targets) \cup {a.source}
      [] OTHER -> Range(a.targets)

\* Every callout has its anchor, every action its targets and its path.
Bound(plan, program, values) ==
    /\ \A r \in Range(program.relations) : Exposed(plan, values, r.target)
    /\ \A e \in Range(program.timeline) :
          /\ \A t \in LookedUp(e.action) : Exposed(plan, values, t)
          /\ e.action.kind \in {"trace", "move"} =>
                e.action.path.name \in MeasuredPaths(Kind(plan, e.action.path))
          /\ e.action.kind = "show_relation" =>
                \E r \in Range(program.relations) : r.ref = e.action.relation

Resolves(plan, answer, program, values) ==
    /\ Measurable(plan, values)
    /\ AnswerMeasurable(plan, answer, values)
    /\ Readable(MeasuredLesson(plan, values), CalloutsOf(plan, program, values))
    /\ Bound(plan, program, values)

=============================================================================
