--------------------------- MODULE MCSceneCompiler ---------------------------
(* Plans of four beats over one small picture for every strategy.            *)
EXTENDS SceneCompiler, Expressions

\* What the compiler asks of the expression language.
CompiledHere(e) == Compiles(Contract, e)

EvaluatedHere(e, values) == Evaluate(Contract, e, values)

Field(name) == Ref(name)

FieldsOfTemplate ==
    [scalars |-> {"amount", "count"}, arrays |-> [f \in {} |-> {}],
     minimums |-> [amount |-> <<2, 1>>, count |-> <<1, 2>>]]

\* The problems a program may meet: the contract lets the count be a half.
FixturesOfTemplate ==
    {[amount |-> amount, count |-> count] : amount \in {<<2, 1>>, <<5, 2>>}, count \in {<<1, 2>>, <<3, 1>>}}

Sum == [node |-> "add", operands |-> <<Lit(2), Field("count")>>]

Quotient(a, b) == [node |-> "fraction", operands |-> <<Lit(a), Lit(b)>>]

-----------------------------------------------------------------------------
(* Pictures.                                                                 *)

Rectangle(ref) ==
    [kind |-> "rectangle_measurement", ref |-> ref, length |-> Lit(5), width |-> Lit(3)]

Label(ref) == [kind |-> "label", ref |-> ref]

Values(ref, n) ==
    [kind |-> "ordered_values", ref |-> ref, values |-> [k \in 1..n |-> Lit(k)]]

Line(ref, markers, minimum, boundary) ==
    [kind |-> "number_line", ref |-> ref, markers |-> [k \in DOMAIN markers |-> Lit(markers[k])],
     minimum |-> Lit(minimum), maximum |-> Lit(9),
     boundary |-> IF boundary = None THEN None ELSE Lit(boundary),
     boundary_kind |-> IF boundary = None THEN None ELSE "open",
     ray_direction |-> IF boundary = None THEN None ELSE "right"]

Grid(ref, rows, columns) == [kind |-> "grid", ref |-> ref, rows |-> Lit(rows), columns |-> Lit(columns)]

Objects(ref, n) == [kind |-> "object_set", ref |-> ref, count |-> Lit(n)]

Circle(ref, parts, shaded) ==
    [kind |-> "partition", ref |-> ref, parts |-> Lit(parts), shaded |-> Lit(shaded), whole |-> Lit(1)]

Bar(ref, value, maximum) ==
    [kind |-> "bar", ref |-> ref, value |-> Lit(value), maximum |-> Lit(maximum),
     constant |-> None, coefficient |-> None]

Equation(ref, maximum, constant, coefficient) ==
    [Bar(ref, maximum, maximum) EXCEPT !.constant = Lit(constant), !.coefficient = Lit(coefficient)]

Tape(ref, value) ==
    [kind |-> "unit_tape", ref |-> ref, value |-> value, per_unit |-> Lit(12)]

Plane(ref, polygon, angle, iterations) ==
    [kind |-> "coordinate_plane", ref |-> ref, points |-> <<>>, polygon |-> polygon,
     pivot |-> <<0, 0>>, angle |-> angle, iterations |-> iterations, grid |-> TRUE,
     x_min |-> -4, x_max |-> 4, y_min |-> -4, y_max |-> 4]

Dots(ref, n) ==
    [kind |-> "data_display", ref |-> ref, style |-> "dot_plot", categories |-> <<>>,
     values |-> [k \in 1..n |-> Lit(k)], summary |-> None, axis_min |-> Lit(0), axis_max |-> Lit(9)]

-----------------------------------------------------------------------------
(* Lessons.                                                                  *)

Beat(id, kind, targets, custom) == [id |-> id, kind |-> kind, targets |-> targets, custom |-> custom]

\* What an author may add to the third beat of a lesson about a part.
Touches(t) ==
    {<<>>,
     <<[kind |-> "dim", target |-> t], [kind |-> "restore", target |-> t]>>,
     <<[kind |-> "emphasize", target |-> Whole(t.visual), role |-> "structure"]>>,
     <<[kind |-> "reveal", targets |-> <<t>>, mode |-> "together"],
       [kind |-> "callout", target |-> t, anchor |-> "bottom"]>>}

Plan(strategy, primary, supporting, sequence) ==
    [strategy |-> strategy, primary |-> primary, supporting |-> supporting, beats |-> sequence]

\* A lesson reveals, organizes or derives, works and concludes.  The third beat
\* may carry the second one's name.
Lesson(strategy, primary, supporting, answers, openings, subjects, customs) ==
    {[plan |-> Plan(strategy, primary, supporting,
                    <<Beat("first", "reveal", opening, <<>>),
                      Beat("second", earlier, targets, <<>>),
                      Beat(name, later, subject, custom),
                      Beat("last", "conclude", <<Whole(primary.ref)>>, <<>>)>>),
      answer |-> statement] :
        opening \in openings, earlier \in {"organize", "derive"}, targets \in subjects,
        name \in {"second", "third"}, later \in {"focus", "derive"}, subject \in subjects,
        custom \in customs, statement \in answers}

\* The usual lesson about one picture: its whole, and the first and second part
\* of a class.  Beats share a name only where no arithmetic is shown.
About(strategy, v, part, customs) ==
    {r \in Lesson(strategy, v, <<>>, {Sum, Lit(3)}, {<<Whole(v.ref)>>, <<Part(v.ref, part, 0)>>},
                  {<<Whole(v.ref)>>, <<Part(v.ref, part, 0)>>,
                   <<Part(v.ref, part, 0), Part(v.ref, part, 1)>>},
                  Touches(Part(v.ref, part, 0)) \cup customs) :
        r.answer = Sum <=> r.plan.beats[2].id # r.plan.beats[3].id}

\* The last part of a class, and the one after it: counted, or left to the resolver.
AtTheEdge(v, part, n) ==
    Lesson("group_reveal", v, <<>>, {Sum}, {<<Whole(v.ref)>>},
           {<<Part(v.ref, part, n - 1)>>, <<Part(v.ref, part, n)>>}, {<<>>})

\* A grid of no rows and no columns, and less, has a product but no cells to walk.
LessonsAtTheEdge ==
    UNION {AtTheEdge(Tape("a", [node |-> "literal", value |-> <<5, 2>>]), "box", 3),
           AtTheEdge(Rectangle("a"), "width_edge", 2), AtTheEdge(Rectangle("a"), "vertex", 4),
           AtTheEdge(Grid("a", 2, 3), "cell", 6), AtTheEdge(Objects("a", 7), "item", 7),
           AtTheEdge(Values("a", 5), "item", 5), AtTheEdge(Dots("a", 2), "mark", 2),
           AtTheEdge(Bar("a", 3, 5), "segment", 5), AtTheEdge(Circle("a", 3, 2), "partition", 3),
           AtTheEdge([Objects("a", 1) EXCEPT !.count = Field("count")], "item", 3),
           Lesson("regroup", Grid("a", -2, -3), <<>>, {Sum}, {<<Whole("a")>>}, {<<Whole("a")>>}, {<<>>})}

\* One list of targets that asks for a thing twice: the compiler lets it through.
LessonsNamedTwice ==
    LET first == Part("a", "item", 0)
    IN  Lesson("group_reveal", Objects("a", 3), <<>>, {Sum}, {<<Whole("a"), first>>, <<first, first>>},
               {<<Whole("a")>>}, {<<>>})

\* As many beats as a plan may have: a fifth and a fourth meet as twentieths, and the
\* author adds n changes to the bridge.
LongLesson(n) ==
    LET whole(ref) == <<Whole(ref)>>
        changes == [k \in 1..n |-> [kind |-> "emphasize", target |-> Part("e", "partition", k - 1),
                                    role |-> "structure"]]
    IN  [plan |-> Plan("common_denominator_bridge", Circle("a", 5, 1),
                       <<Circle("b", 4, 1), Circle("c", 20, 4), Circle("d", 20, 5), Circle("e", 20, 9)>>,
                       <<Beat("first", "organize", <<Whole("a"), Whole("b"), Whole("c"), Whole("d")>>, <<>>),
                         Beat("second", "organize", whole("a"), <<>>),
                         Beat("third", "derive", whole("b"), <<>>),
                         Beat("fourth", "derive", whole("e"), changes),
                         Beat("last", "conclude", whole("e"), <<>>)>>),
         answer |-> [node |-> "add", operands |-> <<Quotient(1, 5), Quotient(1, 4)>>]]

\* As few beats as a plan may have: a polygon that turns, and a rectangle that stands still.
ShortLessons ==
    LET triangle == <<<<1, 0>>, <<3, 0>>, <<1, 2>>>>
        kinds == {"orient", "reveal", "organize", "focus", "derive"}
        two(first, second) ==
            <<Beat("first", first, <<Whole("a")>>, <<>>), Beat("second", second, <<Whole("a")>>, <<>>),
              Beat("last", "conclude", <<Whole("a")>>, <<>>)>>
        plans == {Plan("rotation", Plane("a", triangle, 90, n), <<>>, two(first, second)) :
                      n \in 1..3, first \in kinds, second \in kinds}
                  \cup {Plan("group_reveal", Rectangle("a"), <<>>, two(first, second)) :
                            first \in kinds, second \in kinds}
    IN  {[plan |-> p, answer |-> Sum] : p \in {q \in plans : ValidDocument(q)}}

LessonsInShape ==
    About("group_reveal", Tape("a", Lit(2)), "box", {})
      \cup About("short_stagger", Dots("a", 2), "mark", {})
      \cup About("boundary_trace", Rectangle("a"), "edge",
                   {<<[kind |-> "trace", path |-> [visual |-> "a", name |-> "perimeter"]]>>})
      \cup About("partition", Circle("a", 3, 2), "partition", {})

LessonsInCount ==
    About("regroup", Grid("a", 2, 3), "cell", {})
      \cup About("regroup", Objects("a", 7), "item", {})
      \cup About("magnitude_comparison", Bar("a", 3, 5), "segment", {})
      \cup About("magnitude_comparison", Line("a", <<5, 2>>, 0, None), "marker", {})
      \cup About("percent_of_whole", Bar("a", 30, 100), "segment", {})
      \cup About("inverse_operation", Equation("a", 7, 1, 3), "x_part", {})

LessonsOnLines ==
    About("signed_hop", Line("a", <<-2, 3, 1>>, -4, None), "marker", {})
      \cup About("distance_from_zero", Line("a", <<0, 3, -2>>, -4, None), "marker", {})
      \cup About("ray_shade", Line("a", <<1, 4>>, 0, 4), "marker", {})

LessonsInUnits ==
    About("unit_substitution", Tape("a", Lit(2)), "box", {})
      \cup About("unit_rate", Tape("a", Field("amount")), "box",
                   {<<[kind |-> "reveal", targets |-> <<Whole("a")>>, mode |-> "together"]>>})
      \cup About("unit_rate", Tape("a", Field("count")), "box", {})

LessonsOfTwo ==
    LET p == Circle("a", 2, 1)
        q == Circle("b", 4, 2)
        before == Bar("a", 4, 9)
        after == Bar("b", 7, 9)
        both == {<<Whole("a"), Whole("b")>>, <<Whole("a")>>}
    IN  Lesson("equivalence_align", p, <<q>>, {Sum, Lit(1)}, both, both,
               {<<>>, <<[kind |-> "emphasize", target |-> Whole("b"), role |-> "neutral"]>>})
          \cup Lesson("percent_change", before, <<after>>, {Sum, Lit(3)}, both, both, {<<>>})

LessonsOfFive(first, second, refined, others, bridge, lcd) ==
    Lesson("common_denominator_bridge", first,
           <<second, Circle("c", lcd, refined), Circle("d", lcd, others), Circle("e", lcd, bridge)>>,
           {[node |-> "add", operands |-> <<Quotient(1, 2), Quotient(1, 3)>>]},
           {<<Whole("a"), Whole("b"), Whole("c"), Whole("d")>>},
           {<<Whole("e")>>, <<Whole("b")>>}, {<<>>})

LessonsElsewhere ==
    LET values == Values("a", 5)
        plane == Plane("a", <<<<1, 0>>, <<3, 0>>, <<1, 2>>>>, 90, 2)
    IN  Lesson("pair_elimination", values, <<>>, {Lit(3), Sum}, {<<Whole("a")>>},
               {<<Middle([primary |-> values])>>, <<Whole("a")>>},
               {<<>>, <<[kind |-> "callout", target |-> Part("a", "item", 2), anchor |-> "bottom"]>>})
          \cup Lesson("rotation", plane, <<>>, {Sum}, {<<Whole("a")>>}, {<<Whole("a")>>}, {<<>>})
          \cup Lesson("group_reveal", Label("a"), <<Label(Answer)>>, {Sum}, {<<Whole("a"), Whole(Answer)>>},
                      {<<Whole("a")>>, <<Whole(Answer)>>}, {<<>>})

AllRequests ==
    {r \in LessonsInShape \cup LessonsInCount \cup LessonsOnLines \cup LessonsInUnits
             \cup LessonsAtTheEdge \cup LessonsNamedTwice \cup {LongLesson(n) : n \in 0..8} \cup ShortLessons
             \cup LessonsOfTwo \cup LessonsElsewhere
             \cup LessonsOfFive(Circle("a", 2, 1), Circle("b", 3, 1), 3, 2, 5, 6) :
        ValidDocument(r.plan)}
=============================================================================
