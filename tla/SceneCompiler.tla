---------------------------- MODULE SceneCompiler ----------------------------
(***************************************************************************)
(* The life of a teaching plan: it is checked, expanded beat by beat,      *)
(* scheduled, held to the quality gates and resolved for the values of one *)
(* fixture, and the scene it becomes is played by the renderer, group of   *)
(* actions by group of actions, while a probe keeps the time (v3/compiler  *)
(* .py, v3/resolver.py, v3/renderer.py, v3/render_probe.py).  A refusal at *)
(* any step ends the life of this plan: what asks for another one is the   *)
(* drafting of a template.                                                 *)
(***************************************************************************)
EXTENDS Resolution

CONSTANTS
    Requests,  \* the plans a draft may hand in, each with its answer: [plan, answer]
    Fixtures   \* the values a program may be resolved for

ASSUME RequestsAssumption == \A r \in Requests : ValidDocument(r.plan)

\* Whoever resolves a program has held the values to the contract.
ASSUME FixturesAssumption ==
    \A values \in Fixtures : \A field \in Contract.scalars :
        /\ field \in DOMAIN values /\ values[field] # None
        /\ Contract.minimums[field] # None => AtMost(Contract.minimums[field], values[field])

VARIABLES
    plan, answer,  \* what was handed in
    phase,         \* "received", "expanding", "compiled", "judged", "playing",
                   \* "approved" or "refused"
    books,         \* the expander's books
    beats,         \* the beats expanded so far
    program,       \* the timeline, its callouts and its length
    next,          \* the first entry of the timeline that has not been played
    cursor,        \* how far the renderer believes the timeline has come
    elapsed,       \* how long the scene has played
    concluding     \* when the group that was played last began

vars == <<plan, answer, phase, books, beats, program, next, cursor, elapsed, concluding>>

NoProgram == [timeline |-> <<>>, relations |-> <<>>, total |-> 0]

Init ==
    /\ \E r \in Requests : plan = r.plan /\ answer = r.answer
    /\ phase = "received"
    /\ books = Books(plan)
    /\ beats = <<>>
    /\ program = NoProgram
    /\ next = 1 /\ cursor = 0 /\ elapsed = 0 /\ concluding = 0

playback == <<next, cursor, elapsed, concluding>>

Admissible ==
    /\ ExpressionsCompile(plan, answer)
    /\ UniqueRefs(plan)
    /\ ValidTargets(plan)
    /\ Compatible(plan, answer)
    /\ FullUnit(plan)
    /\ AnswerIsMiddle(plan, answer)

Validate ==
    /\ phase = "received"
    /\ phase' = IF Admissible THEN "expanding" ELSE "refused"
    /\ UNCHANGED <<plan, answer, books, beats, program, playback>>

Expand ==
    /\ phase = "expanding" /\ Len(beats) < Len(plan.beats)
    /\ LET b == Len(beats) + 1
       IN  /\ books' = ExpandBeat(plan, answer, books, b)
           /\ beats' = Append(beats, Expanded(plan, plan.beats[b], books'.actions))
    /\ UNCHANGED <<plan, answer, phase, program, playback>>

\* As many callouts as the document may have.
MaxRelations == 16

\* Mutant: the document has no cap on its actions.
SchedulableUncapped ==
    /\ FloorOf(beats) <= MaxScene
    /\ FitsScene(Schedule(beats), SceneLength(beats))

\* The scheduler has room for every beat, and the document for every action.
Schedulable ==
    /\ FloorOf(beats) <= MaxScene
    /\ Len(Schedule(beats)) \in 1..MaxEntries
    /\ Len(books.relations) <= MaxRelations
    /\ FitsScene(Schedule(beats), SceneLength(beats))

Compile ==
    /\ phase = "expanding" /\ Len(beats) = Len(plan.beats)
    /\ IF Schedulable
       THEN /\ phase' = "compiled"
            /\ program' = [timeline |-> Schedule(beats), relations |-> books.relations,
                           total |-> SceneLength(beats)]
       ELSE phase' = "refused" /\ UNCHANGED program
    /\ UNCHANGED <<plan, answer, books, beats, playback>>

Judge ==
    /\ phase = "compiled"
    /\ phase' = IF QualityPassed(plan, answer, program) THEN "judged" ELSE "refused"
    /\ UNCHANGED <<plan, answer, books, beats, program, playback>>

\* The values of a fixture arrive.
Resolve ==
    /\ phase = "judged"
    /\ \E values \in Fixtures :
          phase' = IF Resolves(plan, answer, program, values) THEN "playing" ELSE "refused"
    /\ UNCHANGED <<plan, answer, books, beats, program, playback>>

\* The entries that start with the next one.
Group ==
    {k \in next..Len(program.timeline) : program.timeline[k].at = program.timeline[next].at}

\* The renderer waits for the group when it is early, plays it for as long as
\* its longest action, and never catches up when it is late.
PlayGroup ==
    /\ phase = "playing" /\ next <= Len(program.timeline)
    /\ LET at == program.timeline[next].at
           wait == Most(0, at - cursor)
           lasting == Max({program.timeline[k].lasts : k \in Group})
       IN  /\ concluding' = elapsed + wait
           /\ elapsed' = elapsed + wait + lasting
           /\ cursor' = Most(cursor, at + lasting)
           /\ next' = next + Cardinality(Group)
    /\ UNCHANGED <<plan, answer, phase, books, beats, program>>

\* The scene holds its last frame until its declared end, and the probe measures it.
FinalHold == Most(0, program.total - cursor)

Finish ==
    /\ phase = "playing" /\ next > Len(program.timeline)
    /\ elapsed' = elapsed + FinalHold
    /\ cursor' = cursor + FinalHold
    /\ phase' = IF /\ elapsed' \in MinScene..MaxScene
                   /\ elapsed' - concluding >= MinHold
                THEN "approved" ELSE "refused"
    /\ UNCHANGED <<plan, answer, books, beats, program, next, concluding>>

Next == Validate \/ Expand \/ Compile \/ Judge \/ Resolve \/ PlayGroup \/ Finish

Spec == Init /\ [][Next]_vars

-----------------------------------------------------------------------------
(* Correctness.                                                             *)

Emitted == FlattenSeq([b \in DOMAIN beats |-> beats[b].actions])

Recoloured == {a.targets[1] : a \in {b \in Range(Emitted) : b.kind = "set_role"}}

\* A change of role repaints its target, and with a whole the parts in its group.
Reaches(p, a, t) ==
    /\ a.kind = "set_role"
    /\ a.targets[1] = t \/ (a.targets[1] = Whole(t.visual) /\ ~Deferred(p, t))

\* Segments at or over the value of a bar are painted neutral, and regions span segments.
Filled(v, t) ==
    LET value == LiteralInteger(v.value)
        maximum == LiteralInteger(v.maximum)
    IN  /\ value # None
        /\ IF t.part = "segment" THEN t.index < value ELSE maximum # None /\ maximum <= value

\* Whether a target is built in the role of its whole.
BuiltAsWhole(p, t) ==
    /\ ~Deferred(p, t)
    /\ \A v \in Range(Visuals(p)) :
          (v.ref = t.visual /\ v.kind = "bar" /\ t.part # None) => Filled(v, t)

\* The role a target is built in: None where it has the colour of none, or where only
\* a fixture tells.
BuiltRole(p, t) ==
    IF BuiltAsWhole(p, t) THEN InitialRoles(p)[Whole(t.visual)]
    ELSE IF t.part \in {"boundary", "ray"} THEN "focus"
    ELSE IF t.part = "segment" /\ LiteralInteger(VisualOf(p, t.visual).value) # None THEN "neutral"
    ELSE None

\* What the learner sees on a target after some actions: the last change that reached
\* it, or what it was built in.  How the animations of one slot blend is left out.
ShownRole(p, actions, t) ==
    LET reaching == {k \in DOMAIN actions : Reaches(p, actions[k], t)}
    IN  IF reaching = {} THEN BuiltRole(p, t) ELSE actions[Max(reaching)].role

\* The classes of parts that share lines or segments.
SharedParts ==
    {{"edge", "length_edge"}, {"edge", "width_edge"}, {"segment", "x_region"},
     {"segment", "constant_region"}, {"segment", "x_part"}, {"x_region", "x_part"}}

\* Two targets that may name the same thing.
Overlaps(t, u) == t.visual = u.visual /\ {t.part, u.part} \in SharedParts

\* The highest index a plan may name.
MaxIndex == 63

PartsDrawn(v) ==
    UNION {LET count == Cardinality_(v, part)
           IN  {Part(v.ref, part, i) : i \in 0..(IF count = None THEN MaxIndex ELSE count - 1)} :
        part \in PartsOf(v.kind) \ {"vertex"}}

\* What a plan and its expander may address, but for vertices, which draw nothing.
Targets ==
    {Whole(ref) : ref \in Refs(plan) \cup (IF Declared(plan) THEN {Answer} ELSE {})}
      \cup (UNION {PartsDrawn(v) : v \in Range(Visuals(plan))})
      \cup {t \in Recoloured : t.part # "vertex"}

\* The books can tell the role of a target after some actions: one of them has reached it
\* unless it was built in its whole's role, none recoloured it under another name, and
\* the author has not turned its visual into another.
Followed(p, actions, t) ==
    /\ BuiltAsWhole(p, t) \/ \E k \in DOMAIN actions : Reaches(p, actions[k], t)
    /\ \A k \in DOMAIN actions :
          /\ actions[k].kind = "set_role" => ~Overlaps(t, actions[k].targets[1])
          /\ actions[k].kind = "transform" => actions[k].source.visual # t.visual

\* The expander's books say what the renderer shows after the actions so far of every target
\* that a plan may name, of its parts as well as of its wholes, as long as they can tell,
\* whatever the author's own actions did in between: a change is left out only when it
\* would change nothing (_role_change, _clear_descendant_roles).
RolesAsPlayed ==
    LET actions == Emitted
    IN  \A t \in Targets :
            Followed(plan, actions, t) => CurrentRole(books, t) = ShownRole(plan, actions, t)

UniqueIds == \A b, c \in DOMAIN plan.beats : b # c => plan.beats[b].id # plan.beats[c].id

Accepted == phase \in {"judged", "playing", "approved"}

\* The actions of a kind are these moves, one right after another, and no others.
StagedOnce(Is(_), moves) ==
    \E i \in 0..Len(Emitted) :
        /\ i + Len(moves) <= Len(Emitted)
        /\ \A j \in DOMAIN moves : Emitted[i + j] = moves[j]
        /\ \A k \in DOMAIN Emitted : Is(Emitted[k]) => k \in (i + 1)..(i + Len(moves))

\* The strategy's own move is in a program exactly once, whole and in order, when the
\* beats have names of their own: the hops, the spans, the turns, the names of the
\* target unit and the trace of the boundary are never staged twice or cut in two,
\* however many beats could own them (the *_beat_id selectors).
OwnMoveOnce ==
    (UniqueIds /\ Accepted) =>
        LET staged(beat, moves) == IF beat = None THEN <<>> ELSE moves
            names(a) == a.kind = "reveal" /\ \E t \in Range(a.targets) : t.part = "target_label"
            outlines(a) == a.kind = "trace" /\ a.path = OwnPath(plan)
        IN  /\ StagedOnce(LAMBDA a : a.kind = "signed_hop_arrow", staged(HopBeat(plan), Hops(plan)))
            /\ StagedOnce(LAMBDA a : a.kind = "distance_annotation",
                          staged(DistanceBeat(plan), Distances(plan)))
            /\ StagedOnce(LAMBDA a : a.kind = "rotate", staged(RotationBeat(plan), Turns(plan)))
            /\ plan.strategy \in {"unit_substitution", "unit_rate"} =>
                  StagedOnce(names, staged(LabelBeat(plan), <<Reveal(<<Labels(plan)>>, "stagger")>>))
            /\ TraceBeat(plan) # None => StagedOnce(outlines, <<Trace(OwnPath(plan))>>)

\* A walk over rows of cells, and the focus on a rate's first box, begin when
\* the whole they belong to has been revealed by an earlier entry: the learner
\* never sees parts change of a thing that is not there.
WalksOnScreen ==
    (Accepted /\ plan.strategy \in {"regroup", "unit_rate"}) =>
        LET beat == IF plan.strategy = "regroup" THEN RegroupBeat(plan) ELSE LabelBeat(plan)
        IN  \A k \in DOMAIN program.timeline :
                LET e == program.timeline[k]
                IN  (/\ e.beat = beat /\ e.action.kind = "set_role"
                     /\ e.action.targets[1].visual = plan.primary.ref) =>
                        \E j \in 1..(k - 1) : Shows(program.timeline[j], Whole(plan.primary.ref))

\* However its author mixes targets and actions, a plan whose beats have names
\* of their own, and whose visuals leave the answer's name alone, compiles into
\* a program that poses its question once, works it out before it answers, and
\* answers it in its conclusion: an author cannot break these gates, so that no
\* attempt at a draft is lost to them (quality.py calls them a defence in depth).
CompilerStagesAnswer ==
    (phase = "compiled" /\ UniqueIds /\ Answer \notin Refs(plan)) =>
        AnswerTiming(plan, program) /\ WorkShown(plan, answer, program)

\* No target of a list comes on screen with an earlier one of the list.
NamesOnce(p, targets) ==
    \A i \in DOMAIN targets : \A h \in 1..(i - 1) : ~ShownWith(p, targets[h], targets[i])

\* Nothing is revealed again once it is on screen, as long as no single list of targets
\* asks for it: the expander leaves out what its books have revealed, but reads them
\* once for a whole list (_reveal_unrevealed).
NothingShownTwice ==
    (/\ phase = "compiled" /\ UniqueIds
     /\ \A beat \in Range(plan.beats) :
           /\ NamesOnce(plan, beat.targets)
           /\ \A a \in Range(beat.custom) : a.kind = "reveal" => NamesOnce(plan, a.targets)) =>
        NoRepeatedReveal(plan, program)

\* A turn leaves its beat so short that the beat which organizes, the only other one
\* before the conclusion, gets more time than an action may last and the gate allows
\* after it.
OneTurnInFocus(p) ==
    /\ p.strategy = "rotation" /\ p.primary.iterations = 1
    /\ {beat.kind : beat \in Range(p.beats)} = {"organize", "focus", "conclude"}
    /\ Len(p.beats) = 3

\* The gates on time that an author cannot break either: the length of the scene, the
\* hold of its conclusion and, but for that one shape of a lesson, no idle time when
\* every beat acts.
CompilerKeepsTime ==
    (phase = "compiled" /\ UniqueIds) =>
        /\ Duration(program)
        /\ ConclusionHold(program)
        /\ (EveryBeatActs(plan, program) /\ ~OneTurnInFocus(plan)) => NoIdleTime(program)

\* None of these gates ever refuses what the compiler has made: no attempt at a draft
\* is lost to a gate that its author could not have kept (quality.py).
CompilerKeepsGates == CompilerStagesAnswer /\ NothingShownTwice /\ CompilerKeepsTime

Played == phase = "playing" /\ next > Len(program.timeline)

\* A program that passes the static gates never fails the probe's measure of
\* time, when the beats have names of their own: however many slots a walk is
\* cut into, what the renderer loses to them stays inside the budget of the
\* scene, and the last group still holds its three seconds
\* (_MAX_PERCENT_SWEEP_SEGMENTS and the cap on entries against
\* check_rendered_duration).
RenderedInBudget ==
    (Played /\ UniqueIds) =>
        /\ elapsed + FinalHold \in MinScene..MaxScene
        /\ (elapsed + FinalHold) - concluding >= MinHold

\* The kinds whose fields all reach the measurer.  The boundary of a line and the
\* parts of an equation bar do not: see BoundaryExposed.
HandedOver(v) ==
    /\ v.kind = "number_line" => v.boundary = None
    /\ v.kind = "bar" => v.constant = None

\* A target that the compiler could count is a part that the measurer draws,
\* whatever the values of the fixture: no accepted program fails to resolve, for
\* one problem and not another, over an index that was known when it was
\* compiled.  Two tables of two modules agree on what each kind is made of
\* (_PART_CARDINALITY in compiler.py, the measurers of visual_registry.py).
CountedTargetsAreDrawn ==
    phase = "judged" =>
        \A values \in Fixtures : \A e \in Range(program.timeline) : \A t \in LookedUp(e.action) :
            (t.part # None /\ t.visual \in Refs(plan)) =>
                LET v == VisualOf(plan, t.visual)
                    given == EvaluateVisual(v, values)
                IN  (/\ HandedOver(v) /\ Cardinality_(v, t.part) # None
                     /\ Evaluates(v, values) /\ Measures(v.kind, given)) =>
                        Exposed(plan, values, t)

\* What NumberLineVisual.boundary says of itself: the measurer exposes the boundary
\* of an inequality as a part that beats can address.
BoundaryExposed ==
    (phase = "judged" /\ plan.strategy = "ray_shade") =>
        \A values \in Fixtures : Exposed(plan, values, Part(plan.primary.ref, "boundary", 0))
=============================================================================
