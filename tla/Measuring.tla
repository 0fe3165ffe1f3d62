------------------------------ MODULE Measuring ------------------------------
(***************************************************************************)
(* What a visual measures for the values of one fixture: the part of it    *)
(* that the resolver evaluates (v3/resolver.py), what its measurer refuses,*)
(* the parts it exposes and the box it takes (v3/visual_registry.py,       *)
(* v3/ordered_values.py, v3/rectangle_measurement.py).  Lengths are        *)
(* hundredths of a unit.  Every text has the same size but for a sentence, *)
(* and where the labels of a plane go is left out.                         *)
(***************************************************************************)
EXTENDS Strategies, LessonLayout

CONSTANTS
    TextWidth, TextHeight,  \* a number, with or without its unit
    SentenceWidth           \* a label visual or an answer

ASSUME TextAssumption == {TextWidth, TextHeight, SentenceWidth} \subseteq Nat \ {0}

MaxPartCardinality == 128

MaxTapeBoxes == 8

-----------------------------------------------------------------------------
(* What the resolver evaluates and hands to the measurer: a record of the   *)
(* visual's fields with numbers in them.  The boundary of a line and the    *)
(* parts of an equation bar are not among what it hands over.               *)

EvaluateVisual(v, values) ==
    LET x(e) == ValueOf(e, values)
        all(s) == [k \in DOMAIN s |-> x(s[k])]
        maybe(e) == IF e = None THEN None ELSE x(e)
    IN  CASE v.kind = "ordered_values" -> [values |-> all(v.values)]
          [] v.kind = "rectangle_measurement" -> [length |-> x(v.length), width |-> x(v.width)]
          [] v.kind = "number_line" ->
                [minimum |-> x(v.minimum), maximum |-> x(v.maximum), markers |-> all(v.markers),
                 boundary |-> None]
          [] v.kind = "grid" -> [rows |-> x(v.rows), columns |-> x(v.columns)]
          [] v.kind = "partition" -> [whole |-> x(v.whole), parts |-> x(v.parts), shaded |-> x(v.shaded)]
          [] v.kind = "bar" ->
                [value |-> x(v.value), maximum |-> x(v.maximum), constant |-> None, coefficient |-> None]
          [] v.kind = "object_set" -> [count |-> x(v.count)]
          [] v.kind = "unit_tape" -> [value |-> x(v.value), per_unit |-> x(v.per_unit)]
          [] v.kind = "label" -> <<>>
          [] v.kind = "coordinate_plane" -> v
          [] v.kind = "data_display" ->
                [style |-> v.style, categories |-> all(v.categories), values |-> all(v.values),
                 summary |-> IF v.summary = None THEN <<>> ELSE all(v.summary),
                 axis_min |-> maybe(v.axis_min), axis_max |-> maybe(v.axis_max)]

\* The expressions whose evaluation may raise.
EvaluatedExpressions(v) ==
    CASE v.kind = "number_line" -> {v.minimum, v.maximum} \cup Range(v.markers)
      [] v.kind = "bar" -> {v.value, v.maximum}
      [] OTHER -> VisualExpressions(v) \ {None}

Evaluates(v, values) ==
    \A e \in EvaluatedExpressions(v) : ValueOf(e, values) # None

-----------------------------------------------------------------------------
(* What is refused, before a visual is measured and by its measurer.        *)

Positive(p) == Less(<<0, 1>>, p)

Within(p, least, most) == AtMost(least, p) /\ AtMost(p, most)

CountWithin(p, most) == Whole_(p) /\ p[1] <= most

\* A kind that draws a part per unit is refused while its count is a number.
FewParts(kind, g) ==
    CASE kind = "bar" -> CountWithin(g.maximum, MaxPartCardinality)
      [] kind = "grid" ->
            CountWithin(g.rows, MaxPartCardinality) /\ CountWithin(g.columns, MaxPartCardinality)
      [] kind = "object_set" -> CountWithin(g.count, MaxPartCardinality)
      [] kind = "partition" -> CountWithin(g.parts, MaxPartCardinality)
      [] kind = "unit_tape" -> AtMost(g.value, <<MaxTapeBoxes, 1>>)
      [] OTHER -> TRUE

\* Labels on one strip keep 0.1 apart, at the places their values project to.
LabelsApart(values, least, most, length) ==
    \A j, k \in DOMAIN values :
        j # k => LET along == Over(Minus(values[j], values[k]), Minus(most, least))
                 IN  Magnitude(along[1]) * length >= (TextWidth + 10) * along[2]

LineSound(g) ==
    /\ Less(g.minimum, g.maximum)
    /\ \A p \in Range(g.markers) \cup ({g.boundary} \ {None}) : Within(p, g.minimum, g.maximum)
    /\ LabelsApart(g.markers, g.minimum, g.maximum, 550)

EquationSound(g) ==
    g.constant # None =>
        /\ Whole_(g.constant) /\ Whole_(g.coefficient)
        /\ g.constant[1] \in 1..(g.maximum[1] - 1)
        /\ g.coefficient[1] >= 1
        /\ (g.maximum[1] - g.constant[1]) % g.coefficient[1] = 0

\* The labels under the bars have the pitch of a bar to themselves.
BarsSound(g) ==
    LET n == Len(g.categories)
        pitch == IF g.style = "histogram" THEN 900 \div n ELSE (900 + 24) \div n
    IN  /\ \A p \in Range(g.categories) : AtMost(<<0, 1>>, p)
        /\ \E p \in Range(g.categories) : Positive(p)
        /\ n > 1 => pitch >= TextWidth + 10

Stack(g, p) == Cardinality({k \in DOMAIN g.values : g.values[k] = p})

\* The tallest stack of equal values fits the plot.
PointsSound(g) ==
    LET first == IF g.style = "dot_plot" THEN 18 ELSE 31
        pitch == IF g.style = "dot_plot" THEN 22 ELSE 30
    IN  /\ Less(g.axis_min, g.axis_max)
        /\ \A p \in Range(g.values) :
              Within(p, g.axis_min, g.axis_max) /\ first + (Stack(g, p) - 1) * pitch <= 280

SummarySound(g) ==
    /\ Less(g.axis_min, g.axis_max)
    /\ \A k \in 1..4 : AtMost(g.summary[k], g.summary[k + 1])
    /\ \A p \in Range(g.summary) : Within(p, g.axis_min, g.axis_max)

DisplaySound(g) ==
    CASE g.style \in {"bar_graph", "histogram"} -> BarsSound(g)
      [] g.style \in {"line_plot", "dot_plot"} -> PointsSound(g)
      [] g.style = "box_plot" -> SummarySound(g)

OnPlane(v, p) == p[1] \in v.x_min..v.x_max /\ p[2] \in v.y_min..v.y_max

\* One unit has the same length on both axes.
PlaneUnit(v) == Smaller(Ratio(520, v.x_max - v.x_min), Ratio(440, v.y_max - v.y_min))

\* Neither axis collapses, and what is drawn is on the plane.
AxesSound(v) ==
    LET spans == {v.x_max - v.x_min, v.y_max - v.y_min}
        unit == PlaneUnit(v)
    IN  /\ \A span \in spans : span > 0
        /\ \A span \in spans : span * unit[1] >= 100 * unit[2]
        /\ v.grid => \A span \in spans : span + 1 <= 20

PolygonSound(v, polygon) ==
    /\ \A p \in Range(polygon) : OnPlane(v, p)
    /\ Cardinality(Range(polygon)) = Len(polygon)
    /\ ~SelfIntersects(polygon)
    /\ TwiceArea(polygon) # 0

PlaneSound(v) ==
    /\ AxesSound(v)
    /\ Cardinality(Range(v.points)) = Len(v.points)
    /\ \A p \in Range(v.points) \cup ({v.pivot} \ {None}) : OnPlane(v, p)
    /\ v.polygon # None => PolygonSound(v, v.polygon)

Sound(kind, g) ==
    CASE kind = "rectangle_measurement" -> Positive(g.length) /\ Positive(g.width)
      [] kind = "number_line" -> LineSound(g)
      [] kind = "grid" -> Positive(g.rows) /\ Positive(g.columns)
      [] kind = "partition" ->
            Positive(g.whole) /\ Positive(g.parts) /\ Whole_(g.shaded) /\ Within(g.shaded, <<0, 1>>, g.parts)
      [] kind = "bar" ->
            Positive(g.maximum) /\ Within(g.value, <<0, 1>>, g.maximum) /\ EquationSound(g)
      [] kind = "object_set" -> Positive(g.count)
      [] kind = "unit_tape" -> Positive(g.value) /\ Positive(g.per_unit)
      [] kind = "coordinate_plane" -> PlaneSound(g)
      [] kind = "data_display" -> DisplaySound(g)
      [] kind \in {"ordered_values", "label"} -> TRUE

-----------------------------------------------------------------------------
(* The parts a measured visual exposes: <<class, index>>.                   *)

Indexed(part, n) == {<<part, k>> : k \in 0..(n - 1)}

Boxes(g) == -((-g.value[1]) \div g.value[2])

TapeParts(g) ==
    (UNION {Indexed(part, Boxes(g)) : part \in {"box", "source_label", "target_label"}})
      \cup {<<"source_label", None>>, <<"target_label", None>>}

BarParts(g) ==
    Indexed("segment", g.maximum[1])
      \cup (IF g.constant = None THEN {}
            ELSE {<<"x_region", 0>>, <<"constant_region", 0>>} \cup Indexed("x_part", g.coefficient[1]))

PlaneParts(v) ==
    Indexed("point", Len(v.points))
      \cup (IF v.pivot = None THEN {} ELSE {<<"pivot", None>>})
      \cup (IF v.polygon = None THEN {}
            ELSE {<<"polygon", 0>>} \cup Indexed("polygon_vertex", Len(v.polygon)))

DisplayParts(g) ==
    Indexed("mark", CASE g.style \in {"bar_graph", "histogram"} -> Len(g.categories)
                      [] g.style \in {"line_plot", "dot_plot"} -> Len(g.values)
                      [] g.style = "box_plot" -> 1)

MeasuredParts(kind, g) ==
    CASE kind = "ordered_values" -> Indexed("item", Len(g.values))
      [] kind = "rectangle_measurement" ->
            Indexed("edge", 4) \cup Indexed("vertex", 4) \cup Indexed("length_edge", 2)
              \cup Indexed("width_edge", 2) \cup {<<"length_label", 0>>, <<"width_label", 0>>}
      [] kind = "number_line" ->
            Indexed("marker", Len(g.markers))
              \cup (IF g.boundary = None THEN {} ELSE {<<"boundary", 0>>, <<"ray", 0>>})
      [] kind = "grid" -> Indexed("cell", g.rows[1] * g.columns[1])
      [] kind = "partition" -> Indexed("partition", g.parts[1])
      [] kind = "bar" -> BarParts(g)
      [] kind = "object_set" -> Indexed("item", g.count[1])
      [] kind = "unit_tape" -> TapeParts(g)
      [] kind = "coordinate_plane" -> PlaneParts(g)
      [] kind = "data_display" -> DisplayParts(g)
      [] kind = "label" -> {}

\* Only a rectangle has a path.
MeasuredPaths(kind) == IF kind = Outlined THEN {"perimeter"} ELSE {}

-----------------------------------------------------------------------------
(* The box a visual takes, around its own origin, and the height in it of   *)
(* the bottom of a part, where a callout may hang.                          *)

Span(left, right, bottom, top) == [left |-> left, right |-> right, bottom |-> bottom, top |-> top]

Centred(width, height) ==
    Span(-(width \div 2), width \div 2, -(height \div 2), height \div 2)

\* n cells of a size, with a gap between each two.
Cells(n, size, gap) == n * size + (n - 1) * gap

\* The sides of a rectangle as it is drawn: no longer than four times its height.
Sides(g) ==
    LET drawn == Over(g.length, g.width)
        ratio == IF Less(drawn, <<1, 4>>) THEN <<1, 4>> ELSE IF Less(<<4, 1>>, drawn) THEN <<4, 1>> ELSE drawn
        height == Least(300, (550 * ratio[2]) \div ratio[1])
    IN  <<(height * ratio[1]) \div ratio[2], height>>

RectangleBox(width, height) ==
    Span(-(width \div 2) - 28 - TextWidth, width \div 2,
         -(height \div 2) - 28 - TextHeight, height \div 2)

\* The labels at the ends of a line overhang it.
LineBox(g) ==
    LET at(p) == LET along == Over(Minus(p, g.minimum), Minus(g.maximum, g.minimum))
                 IN  -275 + (550 * along[1]) \div along[2]
        half == TextWidth \div 2
    IN  Span(FoldLeft(LAMBDA n, p : Least(n, at(p) - half), -275, g.markers),
             FoldLeft(LAMBDA n, p : Most(n, at(p) + half), 275, g.markers),
             -20 - 28 - (IF g.markers = <<>> THEN 0 ELSE TextHeight), 20)

\* The columns a bar is drawn in: a bar of a hundred wraps.
BarColumns(g) == IF g.maximum[1] = 100 THEN 20 ELSE g.maximum[1]

Rows(n, columns) == (n + columns - 1) \div columns

DisplayBox(g) ==
    LET below == -18 - TextHeight
        stack(p) == IF g.style = "dot_plot" THEN 18 + (Stack(g, p) - 1) * 22
                    ELSE 31 + (Stack(g, p) - 1) * 30
    IN  CASE g.style \in {"bar_graph", "histogram"} -> Span(-450, 450, below, 280 + 12 + TextHeight)
          [] g.style \in {"line_plot", "dot_plot"} ->
                Span(-460, 460, below, FoldLeft(LAMBDA n, p : Most(n, stack(p)), 0, g.values) + 10)
          [] g.style = "box_plot" -> Span(-460, 460, below, 95)

MeasuredBox(kind, g) ==
    CASE kind = "ordered_values" -> Centred(Cells(Len(g.values), TextWidth, 45), TextHeight)
      [] kind = "rectangle_measurement" -> RectangleBox(Sides(g)[1], Sides(g)[2])
      [] kind = "number_line" -> LineBox(g)
      [] kind = "grid" -> Centred(Cells(g.columns[1], 60, 10), Cells(g.rows[1], 60, 10))
      [] kind = "partition" -> Centred(240, 240)
      [] kind = "bar" ->
            Centred(Cells(BarColumns(g), 60, 5), Cells(Rows(g.maximum[1], BarColumns(g)), 60, 5))
      [] kind = "object_set" ->
            LET columns == Least(5, g.count[1])
            IN  Centred((columns - 1) * 70 + 20, (Rows(g.count[1], columns) - 1) * 70 + 20)
      [] kind = "unit_tape" -> Centred(Cells(Boxes(g), 30 + TextWidth, 8), 110)
      [] kind = "coordinate_plane" ->
            LET across == g.x_max - g.x_min
                up == g.y_max - g.y_min
                unit == PlaneUnit(g)
            IN  Centred((across * unit[1]) \div unit[2], (up * unit[1]) \div unit[2])
      [] kind = "data_display" -> DisplayBox(g)
      [] kind = "label" -> Centred(SentenceWidth, TextHeight)

\* A visual that fits the frame at no scale it may be drawn at is refused.
Renderable(box) ==
    Width(box) * 7 <= FrameWidth * 10 /\ Height(box) * 7 <= FrameHeight * 10

\* The bottom of the row that holds a part, in rows of one pitch, counted from the top.
RowBottom(box, index, columns, pitch, size) == box.top - (index \div columns) * pitch - size

\* Equal values are stacked in the order they are listed.
MarkBottom(g, index) ==
    LET under == Cardinality({k \in 1..index : g.values[k] = g.values[index + 1]})
    IN  CASE g.style \in {"bar_graph", "histogram"} -> 0
          [] g.style = "dot_plot" -> under * 22
          [] g.style = "line_plot" -> 5 + under * 30
          [] g.style = "box_plot" -> -5

\* A wedge hangs its callout on its middle, which is at its lowest 80 below the centre.
PartBottom(kind, g, box, part, index) ==
    CASE part = None -> box.bottom
      [] kind = "rectangle_measurement" ->
            LET upper == <<part, index>> \in {<<"edge", 2>>, <<"length_edge", 1>>, <<"vertex", 2>>, <<"vertex", 3>>}
            IN  IF upper THEN box.top ELSE -box.top
      [] kind = "number_line" -> 0
      [] kind = "grid" -> RowBottom(box, index, g.columns[1], 70, 60)
      [] kind = "partition" -> -80
      [] kind = "bar" /\ part = "segment" -> RowBottom(box, index, BarColumns(g), 65, 60)
      [] kind = "object_set" -> RowBottom(box, index, Least(5, g.count[1]), 70, 10)
      [] kind = "unit_tape" -> IF part = "source_label" THEN 4 ELSE IF part = "box" THEN -55 ELSE -51
      [] kind = "coordinate_plane" /\ part = "point" ->
            LET unit == PlaneUnit(g)
            IN  ((2 * g.points[index + 1][2] - g.y_min - g.y_max) * unit[1]) \div (2 * unit[2])
      [] kind = "data_display" -> MarkBottom(g, index)
      [] OTHER -> box.bottom

\* A visual and its values get past the measurer.
Measures(kind, g) == FewParts(kind, g) /\ Sound(kind, g) /\ Renderable(MeasuredBox(kind, g))
=============================================================================
