---------------------------- MODULE QualityGates ----------------------------
(***************************************************************************)
(* The static quality gates (v3/quality.py) on a compiled program: a       *)
(* record of its relations, its timeline and its total length.  Gates on   *)
(* wording are left out.                                                   *)
(***************************************************************************)
EXTENDS LessonTimeline

Shows(entry, t) == entry.action.kind = "reveal" /\ t \in Range(entry.action.targets)

Duration(program) == program.total \in MinScene..MaxScene

\* The entries that reveal the answer, and those that show a stage of it.
Poses(program) ==
    {k \in DOMAIN program.timeline :
        /\ program.timeline[k].action.kind = "reveal"
        /\ \E t \in Range(program.timeline[k].action.targets) : t.visual = Answer}

Stages(program, stage) ==
    {k \in DOMAIN program.timeline : program.timeline[k].action = ShowStage(stage)}

\* The answer is posed once, in the first beat that acts, and resolved once, in the
\* conclusion; what it is worked out from is shown before, or not at all.
AnswerTiming(plan, program) ==
    (Declared(plan) \/ Answer \in Refs(plan)) =>
        /\ Answer \notin Refs(plan)
        /\ \E k \in DOMAIN program.timeline :
              Poses(program) = {k} /\ program.timeline[k].beat = program.timeline[1].beat
        /\ \E v \in DOMAIN program.timeline :
              /\ Stages(program, "value") = {v}
              /\ program.timeline[v].beat = plan.beats[Len(plan.beats)].id
              /\ Stages(program, "work") = {} \/ \E w \in 1..(v - 1) : Stages(program, "work") = {w}

WorkShown(plan, answer, program) ==
    (Declared(plan) /\ HasOperation(answer)) =>
        \E e \in Range(program.timeline) : e.action = ShowStage("work")

\* Every action of the beat that acts last holds for three seconds.
ConclusionHold(program) ==
    LET last == program.timeline[Len(program.timeline)].beat
    IN  \A e \in Range(program.timeline) :
            e.beat = last => e.lasts >= MinHold /\ Ends(e) <= program.total

EveryBeatActs(plan, program) ==
    \A beat \in Range(plan.beats) : \E e \in Range(program.timeline) : e.beat = beat.id

\* Nothing stands still for more than a quarter of a second between two actions.
NoIdleTime(program) ==
    \A k \in DOMAIN program.timeline :
        \/ program.timeline[k].at <= 250000
        \/ \E j \in 1..(k - 1) : program.timeline[k].at - Ends(program.timeline[j]) <= 250000

\* The last index of a beat of that id.
BeatIndex(plan, id) ==
    CHOOSE b \in DOMAIN plan.beats :
        plan.beats[b].id = id /\ \A c \in DOMAIN plan.beats : plan.beats[c].id = id => c <= b

NamesLabels(entry) ==
    /\ entry.action.kind = "reveal"
    /\ \E t \in Range(entry.action.targets) : t.part = "target_label"

\* The role of each box, and of the tape, when the beat that names the target unit ends.
TapeRoles(plan, program) ==
    LET shown == SelectSeq(program.timeline, NamesLabels)[1].beat
        until == SelectSeq(program.timeline, LAMBDA e :
                     /\ BeatIndex(plan, e.beat) <= BeatIndex(plan, shown)
                     /\ e.action.kind = "set_role"
                     /\ e.action.targets[1].visual = plan.primary.ref)
        painted(roles, e) ==
            LET t == e.action.targets[1]
            IN  IF t.part = None THEN t :> e.action.role
                ELSE IF t.part = "box" THEN (t :> e.action.role) @@ roles ELSE roles
    IN  FoldLeft(painted, <<>>, until)

\* A rate is one box, alone in focus while the labels of the other unit are named.
OneBoxInFocus(plan, program) ==
    LET roles == TapeRoles(plan, program)
        first == Part(plan.primary.ref, "box", 0)
    IN  /\ first \in DOMAIN roles /\ roles[first] = "focus"
        /\ \A t \in DOMAIN roles \ {first} : roles[t] # "focus"

StrategyAffordance(plan, program) ==
    CASE plan.strategy = "unit_substitution" -> \E e \in Range(program.timeline) : NamesLabels(e)
      [] plan.strategy = "unit_rate" ->
            /\ \E e \in Range(program.timeline) : NamesLabels(e)
            /\ OneBoxInFocus(plan, program)
      [] plan.strategy \in {"equivalence_align", "common_denominator_bridge"} ->
            \A v \in Range(Supporting(plan, "partition")) :
                \E e \in Range(program.timeline) : Shows(e, Whole(v.ref))
      [] plan.strategy = "boundary_trace" ->
            \E e \in Range(program.timeline) :
                e.action.kind = "trace" /\ e.action.path.name = "perimeter"
      [] OTHER -> TRUE

\* A callout on a visual that the plan addresses by item is attached to an item.
SpecificAnchors(plan, program) ==
    LET itemized == {t.visual : t \in {u \in UNION {Range(b.targets) : b \in Range(plan.beats)} :
                                          u.part # None}}
    IN  \A r \in Range(program.relations) : r.target.visual \in itemized => r.target.part # None

\* A callout on a rectangle is attached to an edge, and to none whose length is drawn already.
DimensionAnchors(plan, program) ==
    \A r \in Range(program.relations) :
        (r.target.visual \in Refs(plan) /\ Kind(plan, r.target) = Outlined) =>
            r.target.part \notin {None, "length_edge", "width_edge"}

Related(t, u) == t.visual = u.visual /\ (t = u \/ None \in {t.part, u.part})

\* Two beats never pull attention apart in one instant, and no two callouts share an anchor.
Salience(program) ==
    LET focus == {e \in Range(program.timeline) :
                     e.action.kind = "set_role" /\ e.action.role = "focus"}
        anchor(k) == <<program.relations[k].target, program.relations[k].anchor>>
    IN  /\ \A d, e \in focus :
              (d.at = e.at /\ d.beat # e.beat) => Related(d.action.targets[1], e.action.targets[1])
        /\ \A j, k \in DOMAIN program.relations : j # k => anchor(j) # anchor(k)

\* A target comes on screen with itself, and with the whole it is drawn in unless it is deferred.
ShownWith(plan, s, t) == s = t \/ (s = Whole(t.visual) /\ ~Deferred(plan, t))

\* Nothing is revealed twice, nor a part of what has been revealed whole.
NoRepeatedReveal(plan, program) ==
    LET reveals == {k \in DOMAIN program.timeline : program.timeline[k].action.kind = "reveal"}
        named(k) == program.timeline[k].action.targets
    IN  \A j, k \in reveals : \A h \in DOMAIN named(j) : \A i \in DOMAIN named(k) :
            (j < k \/ (j = k /\ h < i)) => ~ShownWith(plan, named(j)[h], named(k)[i])

\* Every visual is named by an action, a path or a callout.
NoUnusedVisual(plan, program) ==
    LET named == (UNION {{t.visual : t \in Range(e.action.targets)} : e \in Range(program.timeline)})
                   \cup {e.action.path.visual : e \in
                            {d \in Range(program.timeline) : d.action.kind \in {"trace", "move"}}}
                   \cup {r.target.visual : r \in Range(program.relations)}
    IN  Refs(plan) \cup (IF Declared(plan) THEN {Answer} ELSE {}) \subseteq named

QualityPassed(plan, answer, program) ==
    /\ Duration(program)
    /\ AnswerTiming(plan, program)
    /\ WorkShown(plan, answer, program)
    /\ ConclusionHold(program)
    /\ EveryBeatActs(plan, program)
    /\ NoIdleTime(program)
    /\ StrategyAffordance(plan, program)
    /\ SpecificAnchors(plan, program)
    /\ DimensionAnchors(plan, program)
    /\ Salience(program)
    /\ NoRepeatedReveal(plan, program)
    /\ NoUnusedVisual(plan, program)

=============================================================================
