--------------------------- MODULE TeachingPlans ---------------------------
(***************************************************************************)
(* Teaching plans (dsl/teaching_plan.py) and what the compiler demands of  *)
(* one before it expands it (v3/compiler.py): unique names, targets that   *)
(* exist, and the shape each strategy needs.  A plan is a record with the  *)
(* fields of TeachingPlanDocument that the compiler reads; a visual is a   *)
(* record with a kind, a ref and the fields of its kind.                   *)
(***************************************************************************)
EXTENDS Rationals, Lists, FiniteSets, SequencesExt

CONSTANTS
    Contract,           \* the fields of the template's parameters: its scalars, its arrays,
                        \* and the least value of each field, None where it has none
    IsExpression(_),    \* an expression has the shape of its schema
    CompilesHere(_),    \* an expression compiles against the contract
    ValueOf(_, _)       \* the value of an expression in a fixture, None where it raises

ASSUME ContractAssumption ==
    Contract.scalars \cup DOMAIN Contract.arrays \subseteq DOMAIN Contract.minimums

\* Every class of parts, those that only the compiler names included.
PartClasses ==
    {"item", "edge", "length_edge", "width_edge", "vertex", "marker", "boundary", "ray", "cell",
     "partition", "segment", "x_region", "constant_region", "x_part", "box", "source_label",
     "target_label", "point", "mark", "polygon"}

ASSUME PartsAssumption == None \notin PartClasses

-----------------------------------------------------------------------------
(* What the compiler reads off a literal; any other node is known only when *)
(* fixtures arrive.                                                         *)

IsLiteral(e) == e # None /\ e.node = "literal"

LiteralInteger(e) ==
    IF IsLiteral(e) /\ e.value[2] = 1 THEN e.value[1] ELSE None

Negative(e) == Less(e.value, <<0, 1>>)

Ceiling(e) == IF IsLiteral(e) THEN -((-e.value[1]) \div e.value[2]) ELSE None

-----------------------------------------------------------------------------
(* Visuals, their addressable parts and the strategies they carry.          *)

Visuals(plan) == <<plan.primary>> \o plan.supporting

Refs(plan) == {v.ref : v \in Range(Visuals(plan))}

VisualOf(plan, ref) == CHOOSE v \in Range(Visuals(plan)) : v.ref = ref

Supporting(plan, kind) ==
    Kept(plan.supporting, {k \in DOMAIN plan.supporting : plan.supporting[k].kind = kind})

SupportedStrategies ==
    [ordered_values |-> {"group_reveal", "short_stagger", "pair_elimination"},
     rectangle_measurement |-> {"group_reveal", "boundary_trace"},
     number_line |->
        {"group_reveal", "short_stagger", "magnitude_comparison", "ray_shade", "signed_hop",
         "distance_from_zero"},
     grid |-> {"group_reveal", "short_stagger", "regroup"},
     object_set |-> {"group_reveal", "short_stagger", "regroup"},
     partition |->
        {"group_reveal", "partition", "equivalence_align", "common_denominator_bridge"},
     bar |->
        {"group_reveal", "short_stagger", "magnitude_comparison", "inverse_operation",
         "percent_of_whole", "percent_change"},
     label |-> {"group_reveal"},
     unit_tape |-> {"group_reveal", "unit_substitution", "unit_rate"},
     coordinate_plane |-> {"group_reveal", "rotation"},
     data_display |-> {"group_reveal", "short_stagger"}]

\* The part classes a plan may name on a visual.
PartsOf(kind) ==
    CASE kind = "ordered_values" -> {"item"}
      [] kind = "rectangle_measurement" -> {"edge", "length_edge", "width_edge", "vertex"}
      [] kind = "number_line" -> {"marker", "boundary", "ray"}
      [] kind = "grid" -> {"cell"}
      [] kind = "partition" -> {"partition"}
      [] kind = "bar" -> {"segment", "x_region", "constant_region", "x_part"}
      [] kind = "object_set" -> {"item"}
      [] kind = "label" -> {}
      [] kind = "unit_tape" -> {"box", "source_label", "target_label"}
      [] kind = "coordinate_plane" -> {"point"}
      [] kind = "data_display" -> {"mark"}

MarkCount(v) ==
    CASE v.style \in {"bar_graph", "histogram"} -> Len(v.categories)
      [] v.style \in {"line_plot", "dot_plot"} -> Len(v.values)
      [] v.style = "box_plot" -> 1

Product(a, b) ==
    IF None \in {LiteralInteger(a), LiteralInteger(b)} THEN None
    ELSE LiteralInteger(a) * LiteralInteger(b)

\* How many parts of a class the plan lets the compiler count; None leaves the
\* index to the resolver, which sees the fixture.
Cardinality_(v, part) ==
    CASE v.kind = "ordered_values" -> Len(v.values)
      [] v.kind = "rectangle_measurement" ->
            IF part \in {"length_edge", "width_edge"} THEN 2 ELSE 4
      [] v.kind = "number_line" ->
            IF part = "marker" THEN Len(v.markers) ELSE IF v.boundary = None THEN 0 ELSE 1
      [] v.kind = "grid" -> Product(v.rows, v.columns)
      [] v.kind = "partition" -> LiteralInteger(v.parts)
      [] v.kind = "bar" ->
            (CASE part = "segment" -> LiteralInteger(v.maximum)
               [] part = "x_part" ->
                     IF None \in {v.constant, v.coefficient} THEN 0
                     ELSE LiteralInteger(v.coefficient)
               [] OTHER -> IF v.constant = None THEN 0 ELSE 1)
      [] v.kind = "object_set" -> LiteralInteger(v.count)
      [] v.kind = "unit_tape" -> Ceiling(v.value)
      [] v.kind = "coordinate_plane" -> Len(v.points)
      [] v.kind = "data_display" -> MarkCount(v)

\* The role each kind is drawn in at first; those in "structure" hold the lesson's shape.
DrawnRole(kind) == IF kind \in {"ordered_values", "label"} THEN "neutral" ELSE "structure"

-----------------------------------------------------------------------------
(* The document: what its validators demand.  A target is a record of a     *)
(* visual, a part and an index; a beat has an id (nothing makes it unique), *)
(* a kind, targets and the custom actions its author asks for.              *)

Whole(ref) == [visual |-> ref, part |-> None, index |-> None]

Part(ref, part, index) == [visual |-> ref, part |-> part, index |-> index]

Names(beat, ref) == \E k \in DOMAIN beat.targets : beat.targets[k].visual = ref

NamesWhole(beat, ref) == \E k \in DOMAIN beat.targets : beat.targets[k] = Whole(ref)

Works(beat) == beat.kind \in {"focus", "derive"}

\* Everything a custom action points at, but for the path of a trace or a move.
TargetsOf(action) ==
    IF action.kind = "reveal" THEN Range(action.targets)
    ELSE IF action.kind = "transform" THEN {action.source, action.target}
    ELSE IF action.kind = "trace" THEN {} ELSE {action.target}

AllTargets(beat) ==
    Range(beat.targets) \cup UNION {TargetsOf(a) : a \in Range(beat.custom)}

BeatsThat(plan, Is(_)) == {b \in DOMAIN plan.beats : Is(plan.beats[b])}

\* The first beat that satisfies Is, or the beat of no id.
FirstBeat(plan, Is(_)) ==
    IF BeatsThat(plan, Is) = {} THEN None ELSE plan.beats[Min(BeatsThat(plan, Is))].id

BeatOrder(plan) ==
    LET last == Len(plan.beats)
    IN  /\ plan.beats[last].kind = "conclude"
        /\ \A b \in 1..(last - 1) : plan.beats[b].kind # "conclude"
        /\ \E b \in 1..(last - 1) : plan.beats[b].kind \in {"orient", "reveal", "organize"}
        /\ \E b \in 1..(last - 1) : Works(plan.beats[b])

Middle(plan) == Part(plan.primary.ref, "item", Len(plan.primary.values) \div 2)

PairEliminationShape(plan) ==
    (plan.strategy = "pair_elimination" /\ plan.primary.kind = "ordered_values") =>
        /\ \E o \in DOMAIN plan.beats :
              /\ \A b \in DOMAIN plan.beats : plan.beats[b].kind = "organize" <=> b = o
              /\ plan.beats[o].custom = <<>>
              /\ \E b \in DOMAIN plan.beats :
                    b > o /\ plan.beats[b].kind = "focus" /\ plan.beats[b].targets = <<Middle(plan)>>
        /\ \A beat \in Range(plan.beats) : \A a \in Range(beat.custom) :
              a.kind \in {"dim", "emphasize", "restore"} => a.target.visual # plan.primary.ref

\* The bar a percent strategy sweeps: the whole one, or the one after the change.
SweptRef(plan) ==
    IF plan.strategy = "percent_change" /\ plan.supporting # <<>>
    THEN plan.supporting[1].ref ELSE plan.primary.ref

OwnedBeatsUntouched(plan) ==
    LET untouched(Is(_)) ==
            BeatsThat(plan, Is) # {} => plan.beats[Min(BeatsThat(plan, Is))].custom = <<>>
    IN  CASE plan.strategy = "regroup" ->
                untouched(LAMBDA b : b.kind = "organize" /\ Names(b, plan.primary.ref))
          [] plan.strategy \in {"magnitude_comparison", "percent_of_whole", "percent_change"} ->
                untouched(LAMBDA b : Works(b) /\ Names(b, SweptRef(plan)))
          [] OTHER -> TRUE

UnitSubstitutionShape(plan) ==
    plan.strategy \in {"unit_substitution", "unit_rate"} =>
        \A beat \in Range(plan.beats) : \A t \in AllTargets(beat) :
            t.part # "target_label" /\ ~(t.part = "source_label" /\ t.index = None)

-----------------------------------------------------------------------------
(* The visual documents: each kind has its fields and no others, but for    *)
(* those that hold wording.                                                 *)

HasFields(v, fields) == DOMAIN v = {"kind", "ref"} \cup fields

OrderedValuesVisual(v) == HasFields(v, {"values"}) /\ Listed(v.values) /\ Len(v.values) \in 3..15

RectangleMeasurementVisual(v) == HasFields(v, {"length", "width"})

NumberLineVisual(v) ==
    /\ HasFields(v, {"minimum", "maximum", "markers", "boundary", "boundary_kind", "ray_direction"})
    /\ Listed(v.markers) /\ Len(v.markers) <= 16
    /\ v.boundary_kind \in {None, "open", "closed"}
    /\ v.ray_direction \in {None, "left", "right"}

GridVisual(v) == HasFields(v, {"rows", "columns"})

PartitionVisual(v) == HasFields(v, {"whole", "parts", "shaded"})

BarVisual(v) == HasFields(v, {"value", "maximum", "constant", "coefficient"})

ObjectSetVisual(v) == HasFields(v, {"count"})

UnitTapeVisual(v) == HasFields(v, {"value", "per_unit"})

CoordinatePlaneVisual(v) ==
    /\ HasFields(v, {"x_min", "x_max", "y_min", "y_max", "points", "grid", "polygon", "pivot",
                     "angle", "iterations"})
    /\ Len(v.points) <= 8
    /\ v.polygon # None => Len(v.polygon) \in 3..6
    /\ v.angle \in {None, 45, 90, 180, 270}
    /\ v.iterations \in {None, 1, 2, 3, 4}

\* What a data display must hold, and leave empty, in each of its styles.
DataDisplayVisual(v) ==
    /\ HasFields(v, {"style", "categories", "values", "summary", "axis_min", "axis_max"})
    /\ Len(v.categories) <= 10 /\ Len(v.values) <= 32
    /\ v.categories # <<>> <=> v.style \in {"bar_graph", "histogram"}
    /\ v.values # <<>> <=> v.style \in {"line_plot", "dot_plot"}
    /\ v.summary # None <=> v.style = "box_plot"
    /\ \A e \in {v.axis_min, v.axis_max} : e = None <=> v.style \in {"bar_graph", "histogram"}

ValidVisual(v) ==
    /\ v.kind \in DOMAIN SupportedStrategies
    /\ v.kind = "ordered_values" => OrderedValuesVisual(v)
    /\ v.kind = "rectangle_measurement" => RectangleMeasurementVisual(v)
    /\ v.kind = "number_line" => NumberLineVisual(v)
    /\ v.kind = "grid" => GridVisual(v)
    /\ v.kind = "partition" => PartitionVisual(v)
    /\ v.kind = "bar" => BarVisual(v)
    /\ v.kind = "object_set" => ObjectSetVisual(v)
    /\ v.kind = "unit_tape" => UnitTapeVisual(v)
    /\ v.kind = "label" => HasFields(v, {})
    /\ v.kind = "coordinate_plane" => CoordinatePlaneVisual(v)
    /\ v.kind = "data_display" => DataDisplayVisual(v)

\* The expressions of a visual; a plane's coordinates are literals here.
VisualExpressions(v) ==
    {v[field] : field \in DOMAIN v \cap
        {"length", "width", "minimum", "maximum", "boundary", "rows", "columns", "whole", "parts",
         "shaded", "value", "constant", "coefficient", "count", "per_unit", "axis_min", "axis_max"}}
      \cup (UNION {Range(v[field]) : field \in DOMAIN v \cap {"values", "markers", "categories"}})
      \cup (IF "summary" \notin DOMAIN v \/ v.summary = None THEN {} ELSE Range(v.summary))

\* A literal holds a ratio.
ValidExpression(x) == IsExpression(x) /\ (IsLiteral(x) => x.value \in Int \X (Nat \ {0}))

\* An index needs a part (TargetRef.index_requires_part).
IsTarget(t) == t = Part(t.visual, t.part, t.index) /\ (t.part = None => t.index = None)

CustomKinds ==
    {"reveal", "emphasize", "dim", "restore", "trace", "callout", "draw", "transform", "move"}

ValidBeat(beat) ==
    /\ beat.id # None
    /\ beat.kind \in {"orient", "reveal", "organize", "focus", "derive", "conclude"}
    /\ Listed(beat.targets) /\ Len(beat.targets) \in 1..8
    /\ Listed(beat.custom) /\ Len(beat.custom) <= 8
    /\ \A t \in AllTargets(beat) : IsTarget(t)
    /\ \A a \in Range(beat.custom) :
          /\ a.kind \in CustomKinds
          /\ a.kind = "reveal" => Listed(a.targets) /\ Len(a.targets) \in 1..8

ValidDocument(plan) ==
    /\ Listed(plan.supporting) /\ Len(plan.supporting) <= 4
    /\ \A v \in Range(Visuals(plan)) :
          ValidVisual(v) /\ \A x \in VisualExpressions(v) \ {None} : ValidExpression(x)
    /\ Listed(plan.beats) /\ Len(plan.beats) \in 3..5
    /\ \A beat \in Range(plan.beats) : ValidBeat(beat)
    /\ BeatOrder(plan)
    /\ PairEliminationShape(plan)
    /\ OwnedBeatsUntouched(plan)
    /\ UnitSubstitutionShape(plan)

-----------------------------------------------------------------------------
(* What the compiler checks before it expands the plan.                     *)

ExpressionsCompile(plan, answer) ==
    \A e \in ({answer} \cup UNION {VisualExpressions(v) : v \in Range(Visuals(plan))}) \ {None} :
        CompilesHere(e)

UniqueRefs(plan) == Cardinality(Refs(plan)) = Len(Visuals(plan))

\* Mutant: the index after the last part is let through.
ValidTargetOneOver(plan, t) ==
    /\ t.visual \in Refs(plan)
    /\ t.part # None =>
          LET v == VisualOf(plan, t.visual)
          IN  /\ t.part \in PartsOf(v.kind)
              /\ t.index # None
              /\ LET count == Cardinality_(v, t.part) IN count # None => t.index <= count

ValidTarget(plan, t) ==
    /\ t.visual \in Refs(plan)
    /\ t.part # None =>
          LET v == VisualOf(plan, t.visual)
          IN  /\ t.part \in PartsOf(v.kind)
              /\ t.index # None
              /\ LET count == Cardinality_(v, t.part) IN count # None => t.index < count

Kind(plan, t) == VisualOf(plan, t.visual).kind

\* The only declared path, and the only shape that is drawn, moved and transformed.
Outlined == "rectangle_measurement"

ValidPath(plan, path) ==
    path.visual \in Refs(plan) /\ VisualOf(plan, path.visual).kind = Outlined /\ path.name = "perimeter"

ValidAction(plan, a) ==
    /\ \A t \in TargetsOf(a) : ValidTarget(plan, t)
    /\ a.kind \in {"draw", "move", "transform"} =>
          \A t \in TargetsOf(a) : t.part = None /\ Kind(plan, t) = Outlined
    /\ (a.kind = "callout" /\ a.target.part = "item" /\ Kind(plan, a.target) = "ordered_values") =>
          a.anchor = "bottom"
    /\ a.kind \in {"trace", "move"} => ValidPath(plan, a.path)
    /\ a.kind = "move" => a.path.visual = a.target.visual

ValidTargets(plan) ==
    \A beat \in Range(plan.beats) :
        /\ \A t \in Range(beat.targets) : ValidTarget(plan, t)
        /\ \A a \in Range(beat.custom) : ValidAction(plan, a)

=============================================================================
