---------------------------- MODULE BeatExpansion ----------------------------
(***************************************************************************)
(* The expansion of one beat of a teaching plan into the actions that play *)
(* it (v3/beat_expander.py).  The expander walks the beats in order and    *)
(* keeps books: the role it believes each target shows, what it has        *)
(* revealed, the roles that dimming has set aside, the callouts declared.  *)
(* Those books, with the actions of the beat at hand, are one record that  *)
(* every step below takes and returns.                                     *)
(***************************************************************************)
EXTENDS Strategies

HasOperation(answer) == answer.node \notin {"literal", "field_ref"}

\* A one-line answer is a visual of its own, except where a value on screen is the answer.
Declared(plan) == plan.strategy # "pair_elimination"

-----------------------------------------------------------------------------
(* Actions.  "targets" is what the quality gates and the renderer read as   *)
(* the targets of the action.                                               *)

Reveal(targets, mode) == [kind |-> "reveal", targets |-> targets, mode |-> mode]

SetRole(t, role) == [kind |-> "set_role", targets |-> <<t>>, role |-> role]

Trace(path) == [kind |-> "trace", targets |-> <<>>, path |-> path]

\* A shape is drawn, turned into another or moved along a path, as its author says.
Drawing(a) ==
    IF a.kind = "draw" THEN [kind |-> "draw", targets |-> <<a.target>>]
    ELSE IF a.kind = "transform"
         THEN [kind |-> "transform", targets |-> <<a.target>>, source |-> a.source]
    ELSE [kind |-> "move", targets |-> <<a.target>>, path |-> a.path]

ShowRelation(ref) == [kind |-> "show_relation", targets |-> <<>>, relation |-> ref]

\* Callouts are named after the beat and the action that ask for them.
CalloutRef(name, b, k) == <<name, b, k>>

ShowStage(stage) ==
    [kind |-> "show_answer_stage", targets |-> <<Whole(Answer)>>, stage |-> stage]

Hop(from, to) == [kind |-> "signed_hop_arrow", targets |-> <<to>>, source |-> from]

Distance(origin, t) == [kind |-> "distance_annotation", targets |-> <<t>>, source |-> origin]

Rotate(ref, k) == [kind |-> "rotate", targets |-> <<Whole(ref)>>, iteration |-> k]

-----------------------------------------------------------------------------
(* The books.                                                               *)

InitialRole(plan, v) ==
    IF v = plan.primary /\ v.kind = "ordered_values" /\ plan.strategy = "pair_elimination"
    THEN "structure" ELSE DrawnRole(v.kind)

\* The role every visual is born in, the answer's included.
InitialRoles(plan) ==
    LET drawn == [t \in {Whole(ref) : ref \in Refs(plan)} |->
                     InitialRole(plan, VisualOf(plan, t.visual))]
    IN  IF Declared(plan) THEN Entered(drawn, Whole(Answer), "neutral") ELSE drawn

Books(plan) ==
    [roles |-> InitialRoles(plan), saved |-> <<>>, revealed |-> {}, relations |-> <<>>,
     actions |-> <<>>]

\* Parts that a visual keeps out of its root group, to arrive later.
DeferredParts(kind) ==
    IF kind = "unit_tape" THEN {"target_label"}
    ELSE IF kind = "number_line" THEN {"boundary", "ray"} ELSE {}

Deferred(plan, t) ==
    \E v \in Range(Visuals(plan)) : v.ref = t.visual /\ t.part \in DeferredParts(v.kind)

\* Mutant: a part is not known to be on screen with its whole.
IsRevealedItself(plan, books, t) == t \in books.revealed

IsRevealed(plan, books, t) ==
    t \in books.revealed \/ (~Deferred(plan, t) /\ Whole(t.visual) \in books.revealed)

Emit(books, actions) == [books EXCEPT !.actions = @ \o actions]

Callout(books, ref, t, anchor) ==
    [Emit(books, <<ShowRelation(ref)>>) EXCEPT
        !.relations = Append(@, [ref |-> ref, target |-> t, anchor |-> anchor])]

RevealUnrevealed(plan, books, targets, mode) ==
    LET pending == Kept(targets, {k \in DOMAIN targets : ~IsRevealed(plan, books, targets[k])})
    IN  IF pending = <<>> THEN books
        ELSE [Emit(books, <<Reveal(pending, mode)>>) EXCEPT !.revealed = @ \cup Range(pending)]

CurrentRole(books, t) ==
    IF t \in DOMAIN books.roles THEN books.roles[t] ELSE books.roles[Whole(t.visual)]

\* Mutant: a change to a whole leaves the roles of its parts on the books.
NothingForgotten(plan, books, t) == {}

\* A change to a whole restyles its parts: the roles on their books are dropped,
\* but for the deferred parts it does not reach.
Forgotten(plan, books, t) ==
    IF t.part # None THEN {}
    ELSE {u \in DOMAIN books.roles : u.visual = t.visual /\ u # t /\ ~Deferred(plan, u)}

Restyle(plan, books, t, role) ==
    LET kept == Restrict(books.roles, DOMAIN books.roles \ Forgotten(plan, books, t))
    IN  [Emit(books, <<SetRole(t, role)>>) EXCEPT !.roles = Entered(kept, t, role)]

\* No action when the books say that the target already holds the role.
RoleChange(plan, books, t, role) ==
    IF CurrentRole(books, t) = role THEN books ELSE Restyle(plan, books, t, role)

RoleChanges(plan, books, targets, role) ==
    LET after[k \in 0..Len(targets)] ==
            IF k = 0 THEN books ELSE RoleChange(plan, after[k - 1], targets[k], role)
    IN  after[Len(targets)]

-----------------------------------------------------------------------------
(* What the kind of a beat does.                                            *)

\* The parts 0..n-1 of a class, in order.
Parts(ref, part, n) == [k \in 1..n |-> Part(ref, part, k - 1)]

\* Visuals that the author's own actions address by part.
Parted(beat) ==
    {t.visual : t \in {u \in UNION {TargetsOf(a) : a \in Range(beat.custom)} : u.part # None}}

\* The beat's targets, without the wholes that its author details and those the walk has acted on.
Undetailed(beat, acted) ==
    Kept(beat.targets, {k \in DOMAIN beat.targets :
        \/ beat.targets[k].part # None
        \/ beat.targets[k].visual \notin Parted(beat) \cup acted})

GenericRoles(plan, books, beat, role) ==
    RoleChanges(plan, books, Undetailed(beat, {}), role)

\* What there is to group: nothing in a grid unless both of its dimensions are positive.
RegroupCells(v) ==
    IF v.kind # "grid" THEN LiteralInteger(v.count)
    ELSE IF LiteralInteger(v.rows) > 0 /\ LiteralInteger(v.columns) > 0
         THEN Product(v.rows, v.columns) ELSE 0

\* An accent for each row of the collection, in row-major order.
RegroupWalk(plan, books) ==
    LET v == plan.primary
    IN  RoleChanges(plan, books,
                    Parts(v.ref, IF v.kind = "grid" THEN "cell" ELSE "item", RegroupCells(v)),
                    "constraint")

\* The parts that carry a magnitude: the filled segments, or the markers by value.
MagnitudeWalk(plan, books) ==
    LET v == plan.primary
        earlier(i, j) == LET p == v.markers[i].value
                             q == v.markers[j].value
                         IN  Less(p, q) \/ (~Less(q, p) /\ i < j)
        rank(i) == Cardinality({j \in DOMAIN v.markers : earlier(j, i)}) + 1
        sorted == [k \in DOMAIN v.markers |-> CHOOSE i \in DOMAIN v.markers : rank(i) = k]
        walk == IF v.kind = "bar" THEN Parts(v.ref, "segment", LiteralInteger(v.value))
                ELSE [k \in DOMAIN v.markers |-> Part(v.ref, "marker", sorted[k] - 1)]
    IN  RoleChanges(plan, books, walk, "focus")

\* The known addend is set apart; the unknown takes focus at once only when
\* no later beat divides it.
PartitionWalk(plan, books) ==
    LET ref == plan.primary.ref
        apart == RoleChange(plan, books, Part(ref, "constant_region", 0), "constraint")
    IN  IF StagedPair(plan, "inverse_operation")[2] # None THEN apart
        ELSE RoleChange(plan, apart, Part(ref, "x_region", 0), "focus")

DivideWalk(plan, books) ==
    RoleChanges(plan, books,
                Parts(plan.primary.ref, "x_part", LiteralInteger(plan.primary.coefficient)), "focus")

\* An arrow from each marker to the next.
Hops(plan) ==
    LET v == plan.primary
    IN  [k \in 1..(Len(v.markers) - 1) |->
            Hop(Part(v.ref, "marker", k - 1), Part(v.ref, "marker", k))]

\* A span from the first zero marker to each marker that is not zero.
Distances(plan) ==
    LET v == plan.primary
        at(k) == Part(v.ref, "marker", k - 1)
        origin == CHOOSE k \in DOMAIN v.markers :
                      v.markers[k] = Lit(0) /\ \A j \in 1..(k - 1) : v.markers[j] # Lit(0)
        others == Kept([k \in DOMAIN v.markers |-> k], {k \in DOMAIN v.markers : v.markers[k] # Lit(0)})
    IN  [k \in DOMAIN others |-> Distance(at(origin), at(others[k]))]

\* The shaded wedges of some partitions, one after another.
Shaded(vs) ==
    FlattenSeq([k \in DOMAIN vs |-> Parts(vs[k].ref, "partition", LiteralInteger(vs[k].shaded))])

AlignWalk(plan, books) ==
    RoleChanges(plan, books, Shaded(<<plan.primary>> \o Supporting(plan, "partition")), "focus")

\* Each operand and its refinement take focus, then the bridge; the operands
\* and the refinements fall back.
BridgeWalk(plan, books) ==
    LET all == <<plan.primary>> \o Supporting(plan, "partition")
        focused == Shaded(<<all[1], all[3], all[2], all[4], all[5]>>)
    IN  RoleChanges(plan, RoleChanges(plan, books, focused, "focus"),
                    Shaded(<<all[1], all[2], all[3], all[4]>>), "structure")

\* The first and the last segment that a percent strategy sweeps, counted from 0.
SweptSegments(plan) ==
    LET value == LiteralInteger(plan.primary.value)
        after == LiteralInteger(plan.supporting[1].value)
    IN  IF plan.strategy = "percent_of_whole" THEN <<0, value - 1>>
        ELSE IF value < after THEN <<value, after - 1>> ELSE <<after, value - 1>>

\* The ribbon that names a change, once, over the middle of what is swept.
Ribbon(plan, books) ==
    LET sweep == SweptSegments(plan)
        middle == sweep[1] + (sweep[2] - sweep[1] + 1) \div 2
    IN  IF \/ plan.strategy # "percent_change"
           \/ \E r \in Range(books.relations) : r.ref = CalloutRef("delta_ribbon", 0, 0)
        THEN books
        ELSE Callout(books, CalloutRef("delta_ribbon", 0, 0),
                     Part(SweptRef(plan), "segment", middle), "top")

PercentWalk(plan, books) ==
    LET sweep == SweptSegments(plan)
        segments == [k \in 1..(sweep[2] - sweep[1] + 1) |->
                        Part(SweptRef(plan), "segment", sweep[1] + k - 1)]
        still == \A t \in Range(segments) : CurrentRole(books, t) = "focus"
    IN  IF still THEN books ELSE RoleChanges(plan, Ribbon(plan, books), segments, "focus")

Turns(plan) == [k \in 1..plan.primary.iterations |-> Rotate(plan.primary.ref, k)]

\* The polygon takes focus, whatever else the beat names takes focus, and then it turns.
RotationWalk(plan, books, beat) ==
    LET ref == plan.primary.ref
        others == Kept(beat.targets, {k \in DOMAIN beat.targets : beat.targets[k] # Whole(ref)})
    IN  Emit(RoleChanges(plan, books, <<Part(ref, "polygon", 0)>> \o others, "focus"), Turns(plan))

\* The first box stands for one unit; the beat's other targets change as usual.
UnitRateWalk(plan, books, beat) ==
    LET ref == plan.primary.ref
    IN  RoleChanges(plan, RoleChange(plan, books, Part(ref, "box", 0), "focus"),
                    Undetailed(beat, {ref}), IF Works(beat) THEN "focus" ELSE "structure")

\* Partners fade one pair after another, from the ends inwards.
EliminationWalk(plan, books) ==
    LET n == Len(plan.primary.values)
        item(k) == IF k % 2 = 1 THEN (k - 1) \div 2 ELSE n - k \div 2
    IN  RoleChanges(plan, books,
                    [k \in 1..(2 * (n \div 2)) |-> Part(plan.primary.ref, "item", item(k))],
                    "neutral")

\* The middle value is named, unless the author has named it in the same beat.
MedianCallout(plan, books, beat) ==
    IF \E a \in Range(beat.custom) : a.kind = "callout" /\ a.target = Middle(plan) THEN books
    ELSE Callout(books, CalloutRef("median_callout", 0, 0), Middle(plan), "bottom")

Conclusion(plan, books, beat) ==
    IF plan.strategy = "pair_elimination" THEN MedianCallout(plan, books, beat)
    ELSE RoleChange(plan, Emit(books, <<ShowStage("value")>>), Whole(Answer), "conclusion")

\* What a beat does that no strategy has claimed.
Ordinary(plan, books, beat) ==
    IF plan.strategy = "pair_elimination" /\ beat.kind = "organize" THEN EliminationWalk(plan, books)
    ELSE IF Works(beat) THEN GenericRoles(plan, books, beat, "focus")
    ELSE IF beat.kind = "conclude" THEN Conclusion(plan, books, beat)
    ELSE GenericRoles(plan, books, beat, "structure")

-----------------------------------------------------------------------------
(* A whole beat.                                                            *)

\* A walk owns its beat when it emits something; otherwise the beat is ordinary.
Owned(plan, books, beat, walked) ==
    IF walked.actions # books.actions THEN walked ELSE Ordinary(plan, books, beat)

OwnPath(plan) == [visual |-> plan.primary.ref, name |-> "perimeter"]

\* Mutant: the author's own trace is not looked for.
TraceBeatAnyway(plan) ==
    IF plan.strategy # "boundary_trace" THEN None
    ELSE FirstBeat(plan, LAMBDA b : b.kind \in {"organize", "derive", "focus"})

\* The beat that needs a trace of the boundary from the compiler.
TraceBeat(plan) ==
    LET traced == \E beat \in Range(plan.beats) : \E a \in Range(beat.custom) :
                      a.kind = "trace" /\ a.path = OwnPath(plan)
    IN  IF plan.strategy # "boundary_trace" \/ traced THEN None
        ELSE FirstBeat(plan, LAMBDA b : b.kind \in {"organize", "derive", "focus"})

\* Mutant: a beat may name the labels of a tape that is not on screen.
TapeBeatsUnseen(plan) ==
    {beat.id : beat \in {b \in Range(plan.beats) : b.kind \in {"derive", "organize", "focus"}}}

\* The beats that find the tape whole on screen before their own walk begins.
TapeBeats(plan) ==
    {plan.beats[b].id : b \in {k \in DOMAIN plan.beats :
        /\ plan.beats[k].kind \in {"derive", "organize", "focus"}
        /\ \/ NamesWhole(plan.beats[k], plan.primary.ref)
           \/ \E j \in 1..(k - 1) : RevealsWhole(plan.beats[j], plan.primary.ref)}}

\* The beat where the labels of the target unit arrive: the first that derives,
\* or else organizes, or else focuses, once the tape is on screen.
LabelBeat(plan) ==
    LET first(kind) == FirstBeat(plan, LAMBDA b : b.kind = kind /\ b.id \in TapeBeats(plan))
    IN  IF plan.strategy \notin {"unit_substitution", "unit_rate"} THEN None
        ELSE IF first("derive") # None THEN first("derive")
        ELSE IF first("organize") # None THEN first("organize") ELSE first("focus")

\* Mutant: the last beat of all shows the work.
WorkBeatOfAll(plan, answer) ==
    IF Declared(plan) /\ HasOperation(answer) THEN plan.beats[Len(plan.beats)].id ELSE None

\* The last beat before the conclusion that works, if there is arithmetic to show.
WorkBeat(plan, answer) ==
    IF Declared(plan) /\ HasOperation(answer) THEN plan.beats[Max(BeatsThat(plan, Works))].id ELSE None

KindActions(plan, books, beat) ==
    LET pair == StagedPair(plan, "inverse_operation")
        owned(walked) == Owned(plan, books, beat, walked)
        \* What else the beat names takes focus beside the wedges of the partitions.
        beside(walked, vs) ==
            IF walked.actions = books.actions THEN walked
            ELSE RoleChanges(plan, walked,
                             Undetailed(beat, {v.ref : v \in Range(vs)}), "focus")
        partitions == <<plan.primary>> \o Supporting(plan, "partition")
        drawn(marks) ==
            IF marks = <<>> THEN books ELSE Emit(GenericRoles(plan, books, beat, "focus"), marks)
    IN  IF beat.kind \in {"orient", "reveal"} THEN books
        ELSE IF beat.id = pair[1] THEN PartitionWalk(plan, books)
        ELSE IF beat.id = pair[2] THEN DivideWalk(plan, books)
        ELSE IF beat.id = RegroupBeat(plan) THEN owned(RegroupWalk(plan, books))
        ELSE IF beat.id = MagnitudeBeat(plan) THEN owned(MagnitudeWalk(plan, books))
        ELSE IF beat.id = HopBeat(plan) THEN owned(drawn(Hops(plan)))
        ELSE IF beat.id = DistanceBeat(plan) THEN owned(drawn(Distances(plan)))
        ELSE IF beat.id = AlignBeat(plan) THEN owned(beside(AlignWalk(plan, books), partitions))
        ELSE IF beat.id = BridgeBeat(plan) THEN owned(beside(BridgeWalk(plan, books), partitions))
        ELSE IF beat.id = PercentBeat(plan) THEN owned(PercentWalk(plan, books))
        ELSE IF beat.id = RotationBeat(plan) THEN RotationWalk(plan, books, beat)
        ELSE IF plan.strategy = "unit_rate" /\ beat.id = LabelBeat(plan)
             THEN UnitRateWalk(plan, books, beat)
        ELSE Ordinary(plan, books, beat)

\* The boundary and the ray of an inequality arrive on a beat each.
RayParts(plan, books, beat) ==
    LET pair == StagedPair(plan, "ray_shade")
        arrives(part) ==
            RevealUnrevealed(plan, books, <<Part(plan.primary.ref, part, 0)>>, "together")
    IN  IF beat.id = pair[1] THEN arrives("boundary")
        ELSE IF beat.id = pair[2] THEN arrives("ray") ELSE books

\* The outline of a rectangle, on the beat that is to trace it.
Traced(plan, books, beat) ==
    IF beat.id # TraceBeat(plan) THEN books ELSE Emit(books, <<Trace(OwnPath(plan))>>)

Labels(plan) == [visual |-> plan.primary.ref, part |-> "target_label", index |-> None]

\* The labels of the target unit arrive together, after what the beat does itself.
UnitNamed(plan, books, beat) ==
    IF beat.id # LabelBeat(plan) THEN books ELSE Emit(books, <<Reveal(<<Labels(plan)>>, "stagger")>>)

\* A beat that would stand still without an action of its author's puts its targets in focus.
NeverIdle(plan, books, beat) ==
    IF books.actions = <<>> /\ beat.custom = <<>>
    THEN RoleChanges(plan, books, beat.targets, "focus") ELSE books

StandardActions(plan, books, beat) ==
    LET mode == IF plan.strategy = "short_stagger" THEN "stagger" ELSE "together"
        shown == RevealUnrevealed(plan, books, beat.targets, mode)
    IN  NeverIdle(plan,
            UnitNamed(plan,
                Traced(plan, RayParts(plan, KindActions(plan, shown, beat), beat), beat), beat), beat)

EntryOf(f, t, otherwise) == IF t \in DOMAIN f THEN f[t] ELSE otherwise

\* A target fades to neutral, and what it showed is set aside until it is restored.
Dimmed(plan, books, t) ==
    LET shown == EntryOf(books.roles, t, InitialRoles(plan)[Whole(t.visual)])
        saved == Entered(books.saved, t, EntryOf(books.saved, t, shown))
    IN  Restyle(plan, [books EXCEPT !.saved = saved], t, "neutral")

Restored(plan, books, t) ==
    Restyle(plan, [books EXCEPT !.saved = Restrict(@, DOMAIN @ \ {t})], t,
            EntryOf(books.saved, t, InitialRoles(plan)[Whole(t.visual)]))

\* The author's own actions.  They change roles whether or not the books agree.
CustomAction(plan, books, a, ref) ==
    IF a.kind = "reveal" THEN RevealUnrevealed(plan, books, a.targets, a.mode)
    ELSE IF a.kind = "emphasize" THEN Restyle(plan, books, a.target, a.role)
    ELSE IF a.kind = "dim" THEN Dimmed(plan, books, a.target)
    ELSE IF a.kind = "restore" THEN Restored(plan, books, a.target)
    ELSE IF a.kind = "callout" THEN Callout(books, ref, a.target, a.anchor)
    ELSE IF a.kind = "trace" THEN Emit(books, <<Trace(a.path)>>)
    ELSE Emit(books, <<Drawing(a)>>)

CustomActions(plan, books, b) ==
    LET custom == plan.beats[b].custom
        after[k \in 0..Len(custom)] ==
            IF k = 0 THEN books
            ELSE CustomAction(plan, after[k - 1], custom[k], CalloutRef("callout", b, k))
    IN  after[Len(custom)]

\* The first beat poses the question.
Posed(plan, books, b) ==
    IF b = 1 /\ Declared(plan)
    THEN RevealUnrevealed(plan, books, <<Whole(Answer)>>,
             IF plan.strategy = "short_stagger" THEN "stagger" ELSE "together")
    ELSE books

WorkedOut(plan, answer, books, beat) ==
    IF beat.id = WorkBeat(plan, answer) THEN Emit(books, <<ShowStage("work")>>) ELSE books

\* The books after the b-th beat, with that beat's actions.
ExpandBeat(plan, answer, books, b) ==
    LET beat == plan.beats[b]
        fresh == [books EXCEPT !.actions = <<>>]
    IN  WorkedOut(plan, answer,
                  Posed(plan, CustomActions(plan, StandardActions(plan, fresh, beat), b), b), beat)

=============================================================================
