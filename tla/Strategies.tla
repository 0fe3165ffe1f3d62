----------------------------- MODULE Strategies -----------------------------
(***************************************************************************)
(* What each teaching strategy asks of a plan before it is expanded        *)
(* (validate_strategy_compatibility and the checks around it in            *)
(* v3/compiler.py), and the beat it stages its own move on (the selectors  *)
(* at the end of v3/beat_expander.py).                                     *)
(***************************************************************************)
EXTENDS TeachingPlans

-----------------------------------------------------------------------------
(* The beat each strategy stages its own move on.                           *)

RegroupBeat(plan) ==
    IF plan.strategy # "regroup" THEN None
    ELSE FirstBeat(plan, LAMBDA b : b.kind = "organize" /\ Names(b, plan.primary.ref))

MagnitudeBeat(plan) ==
    IF plan.strategy # "magnitude_comparison" THEN None
    ELSE FirstBeat(plan, LAMBDA b : Works(b) /\ Names(b, plan.primary.ref))

PercentBeat(plan) ==
    IF \/ plan.strategy \notin {"percent_of_whole", "percent_change"}
       \/ plan.strategy = "percent_change" /\ plan.supporting = <<>>
    THEN None
    ELSE FirstBeat(plan, LAMBDA b : Works(b) /\ Names(b, SweptRef(plan)))

\* The first and the second working beat that names the primary: where an
\* equation is split and then divided, or a boundary and then its ray appear.
StagedPair(plan, strategy) ==
    LET found == BeatsThat(plan, LAMBDA b : Works(b) /\ Names(b, plan.primary.ref))
        later == {b \in found : \E c \in found : c < b}
        at(places) ==
            IF plan.strategy # strategy \/ places = {} THEN None ELSE plan.beats[Min(places)].id
    IN  <<at(found), at(later)>>

HopBeat(plan) ==
    IF plan.strategy # "signed_hop" THEN None
    ELSE FirstBeat(plan, LAMBDA b : Works(b) /\ NamesWhole(b, plan.primary.ref))

DistanceBeat(plan) ==
    LET staged(kind) ==
            FirstBeat(plan, LAMBDA b : b.kind = kind /\ NamesWhole(b, plan.primary.ref))
    IN  IF plan.strategy # "distance_from_zero" THEN None
        ELSE IF staged("derive") # None THEN staged("derive") ELSE staged("focus")

AlignBeat(plan) ==
    LET supports == Supporting(plan, "partition")
    IN  IF plan.strategy # "equivalence_align" \/ supports = <<>> THEN None
        ELSE FirstBeat(plan, LAMBDA b : /\ Works(b)
                                        /\ Names(b, plan.primary.ref)
                                        /\ Names(b, supports[1].ref))

BridgeBeat(plan) ==
    LET partitions == Supporting(plan, "partition")
    IN  IF plan.strategy # "common_denominator_bridge" \/ Len(partitions) < 4 THEN None
        ELSE FirstBeat(plan, LAMBDA b : Works(b) /\ Names(b, partitions[4].ref))

\* The only beat that works.
RotationBeat(plan) ==
    IF plan.strategy # "rotation" \/ Cardinality(BeatsThat(plan, Works)) # 1 THEN None
    ELSE FirstBeat(plan, Works)

-----------------------------------------------------------------------------
(* Compatibility, strategy by strategy.                                     *)

CONSTANTS
    MaxRegroupCells,         \* 30: the cells a regroup walk may visit
    MaxPercentSweepSegments  \* 30: the segments a percent sweep may visit

\* An earlier beat reveals the primary as a whole, by its targets or by a custom action.
RevealsWhole(beat, ref) ==
    \/ NamesWhole(beat, ref)
    \/ \E a \in Range(beat.custom) : a.kind = "reveal" /\ Whole(ref) \in Range(a.targets)

RegroupCompatible(plan) ==
    LET v == plan.primary
        cells == IF v.kind = "grid" THEN Product(v.rows, v.columns) ELSE LiteralInteger(v.count)
    IN  /\ cells # None
        /\ cells <= MaxRegroupCells
        /\ RegroupBeat(plan) # None
        /\ \E b \in DOMAIN plan.beats :
              /\ RevealsWhole(plan.beats[b], v.ref)
              /\ \A c \in 1..b : plan.beats[c].id # RegroupBeat(plan)

MagnitudeCompatible(plan) ==
    LET v == plan.primary
    IN  /\ IF v.kind = "bar"
           THEN /\ LiteralInteger(v.maximum) # 100
                /\ LiteralInteger(v.value) # None
                /\ LiteralInteger(v.value) >= 1
           ELSE /\ v.markers # <<>>
                /\ \A m \in Range(v.markers) : IsLiteral(m) /\ ~Negative(m)
                /\ IsLiteral(v.minimum) => ~Negative(v.minimum)
        /\ MagnitudeBeat(plan) # None

InverseCompatible(plan) ==
    LET v == plan.primary
        maximum == LiteralInteger(v.maximum)
        constant == LiteralInteger(v.constant)
        coefficient == LiteralInteger(v.coefficient)
    IN  /\ None \notin {maximum, constant, coefficient}
        /\ 0 < constant /\ constant < maximum
        /\ coefficient >= 1
        /\ (maximum - constant) % coefficient = 0

RayShadeCompatible(plan) ==
    LET v == plan.primary
    IN  /\ None \notin {v.boundary, v.boundary_kind, v.ray_direction}
        /\ \A e \in {v.boundary, v.minimum, v.maximum} : IsLiteral(e)
        /\ AtMost(v.minimum.value, v.boundary.value)
        /\ AtMost(v.boundary.value, v.maximum.value)

BoundaryTraceCompatible(plan) ==
    \A v \in Range(plan.supporting) :
        DrawnRole(v.kind) = "structure" => v.kind = plan.primary.kind

SignedHopCompatible(plan) ==
    LET v == plan.primary
    IN  /\ Len(v.markers) >= 2
        /\ \A m \in Range(v.markers) : IsLiteral(m)
        /\ \/ IsLiteral(v.minimum) /\ Negative(v.minimum)
           \/ \E m \in Range(v.markers) : Negative(m)

DistanceCompatible(plan) ==
    LET markers == Range(plan.primary.markers)
    IN  /\ \A m \in markers : IsLiteral(m)
        /\ Lit(0) \in markers
        /\ markers # {Lit(0)}

\* A partition of literal parts, some of them shaded, and the fraction it depicts.
Countable(v) ==
    /\ None \notin {LiteralInteger(v.parts), LiteralInteger(v.shaded)}
    /\ LiteralInteger(v.parts) > 0
    /\ LiteralInteger(v.shaded) \in 0..LiteralInteger(v.parts)

Fraction(v) == <<LiteralInteger(v.shaded), LiteralInteger(v.parts)>>

SameFraction(p, q) == p[1] * q[2] = q[1] * p[2]

SameWhole(vs) ==
    \A v \in Range(vs) :
        LiteralInteger(v.whole) # None /\ LiteralInteger(v.whole) = LiteralInteger(vs[1].whole)

EquivalenceCompatible(plan) ==
    LET supports == Supporting(plan, "partition")
    IN  /\ Len(supports) = 1
        /\ Countable(plan.primary) /\ Countable(supports[1])
        /\ SameWhole(<<plan.primary>> \o supports)
        /\ SameFraction(Fraction(plan.primary), Fraction(supports[1]))
        /\ AlignBeat(plan) # None

LeastCommonMultiple(a, b) ==
    CHOOSE m \in 1..(a * b) :
        m % a = 0 /\ m % b = 0 /\ \A n \in 1..(m - 1) : ~(n % a = 0 /\ n % b = 0)

\* A fraction of two whole literals, as an operand of the answer.
LiteralFraction(e) ==
    IF /\ e.node = "fraction"
       /\ None \notin {LiteralInteger(e.operands[1]), LiteralInteger(e.operands[2])}
       /\ e.operands[2] # Lit(0)
    THEN <<LiteralInteger(e.operands[1]), LiteralInteger(e.operands[2])>> ELSE None

\* The bridge is the result of the operation that the answer names, in its order.
BridgeMatchesAnswer(answer, first, second, bridge) ==
    /\ answer.node \in {"add", "subtract"}
    /\ Len(answer.operands) = 2
    /\ LET a == LiteralFraction(answer.operands[1])
           b == LiteralFraction(answer.operands[2])
           result == IF answer.node = "add" THEN a[1] * b[2] + b[1] * a[2]
                     ELSE a[1] * b[2] - b[1] * a[2]
       IN  /\ None \notin {a, b}
           /\ SameFraction(a, first) /\ SameFraction(b, second)
           /\ answer.node = "subtract" => result >= 0
           /\ SameFraction(bridge, <<result, a[2] * b[2]>>)

BridgeCompatible(plan, answer) ==
    LET partitions == Supporting(plan, "partition")
        all == <<plan.primary>> \o partitions
        lcd == LeastCommonMultiple(LiteralInteger(all[1].parts), LiteralInteger(all[2].parts))
    IN  /\ Len(partitions) = 4
        /\ \A v \in Range(all) : Countable(v)
        /\ \A k \in 3..5 : LiteralInteger(all[k].parts) = lcd
        /\ SameWhole(all)
        /\ SameFraction(Fraction(all[3]), Fraction(all[1]))
        /\ SameFraction(Fraction(all[4]), Fraction(all[2]))
        /\ BridgeMatchesAnswer(answer, Fraction(all[1]), Fraction(all[2]), Fraction(all[5]))
        /\ BridgeBeat(plan) # None

PercentOfWholeCompatible(plan) ==
    LET value == LiteralInteger(plan.primary.value)
    IN  /\ LiteralInteger(plan.primary.maximum) = 100
        /\ value # None
        /\ value \in 1..99 /\ value <= MaxPercentSweepSegments
        /\ PercentBeat(plan) # None

PercentChangeCompatible(plan) ==
    /\ Len(plan.supporting) = 1 /\ plan.supporting[1].kind = "bar"
    /\ LET before == LiteralInteger(plan.primary.value)
           after == LiteralInteger(plan.supporting[1].value)
           maximum == LiteralInteger(plan.primary.maximum)
       IN  /\ None \notin {maximum, before, after}
           /\ maximum = LiteralInteger(plan.supporting[1].maximum)
           /\ before # after
           /\ before \in 1..(maximum - 1) /\ after \in 1..(maximum - 1)
           /\ before - after \in -MaxPercentSweepSegments..MaxPercentSweepSegments
    /\ PercentBeat(plan) # None

-----------------------------------------------------------------------------
(* Rotation: the image of the polygon after every turn is frozen into the   *)
(* program, so each has to stay on the plane and keep its edges apart.      *)
(* Points are pairs of whole numbers and turns are right angles or more,    *)
(* where the code's cosines are exact after rounding; 45 degrees is left    *)
(* out.                                                                     *)

\* The side of the line through p and q on which r lies: positive, negative or none.
Side(p, q, r) == (q[1] - p[1]) * (r[2] - p[2]) - (q[2] - p[2]) * (r[1] - p[1])

Between(x, a, b) == (a <= x /\ x <= b) \/ (b <= x /\ x <= a)

InBox(p, q, r) == Between(r[1], p[1], q[1]) /\ Between(r[2], p[2], q[2])

Opposite(a, b) == (a > 0 /\ b < 0) \/ (a < 0 /\ b > 0)

\* Segments cross, or one ends on the other; a shared end is no crossing when it
\* is where the first segment begins or ends.
Cross(a1, a2, b1, b2) ==
    /\ {a1, a2} \cap {b1, b2} = {}
    /\ \/ /\ Opposite(Side(a1, a2, b1), Side(a1, a2, b2))
          /\ Opposite(Side(b1, b2, a1), Side(b1, b2, a2))
       \/ \E b \in {b1, b2} : Side(a1, a2, b) = 0 /\ InBox(a1, a2, b)
       \/ \E a \in {a1, a2} : Side(b1, b2, a) = 0 /\ InBox(b1, b2, a)

SelfIntersects(vertices) ==
    LET n == Len(vertices)
        from(i) == vertices[i]
        to(i) == vertices[(i % n) + 1]
    IN  \E i, j \in 1..n :
            i + 1 < j /\ ~(i = 1 /\ j = n) /\ Cross(from(i), to(i), from(j), to(j))

TwiceArea(vertices) ==
    LET next(i) == vertices[(i % Len(vertices)) + 1]
    IN  FoldFunction(+, 0,
            [i \in DOMAIN vertices |-> vertices[i][1] * next(i)[2] - next(i)[1] * vertices[i][2]])

Turned(angle, pivot, p) ==
    LET dx == p[1] - pivot[1]
        dy == p[2] - pivot[2]
    IN  CASE angle = 90  -> <<pivot[1] - dy, pivot[2] + dx>>
          [] angle = 180 -> <<pivot[1] - dx, pivot[2] - dy>>
          [] angle = 270 -> <<pivot[1] + dy, pivot[2] - dx>>

\* The polygon before the first turn and after each one.
Images(v) ==
    LET image[k \in 0..v.iterations] ==
            IF k = 0 THEN v.polygon
            ELSE [i \in DOMAIN v.polygon |-> Turned(v.angle, v.pivot, image[k - 1][i])]
    IN  image

RotationCompatible(plan) ==
    LET v == plan.primary
    IN  /\ None \notin {v.polygon, v.pivot, v.angle, v.iterations}
        /\ RotationBeat(plan) # None
        /\ \A b \in BeatsThat(plan, Works) : plan.beats[b].custom = <<>>
        /\ plan.supporting = <<>>
        /\ v.iterations > 1 => \A k \in 1..v.iterations : (k * v.angle) % 360 # 0
        /\ \A k \in 1..v.iterations :
              /\ \A p \in Range(Images(v)[k]) : p[1] \in v.x_min..v.x_max /\ p[2] \in v.y_min..v.y_max
              /\ ~SelfIntersects(Images(v)[k])

-----------------------------------------------------------------------------
(* All of it, and the checks that follow.                                   *)

Compatible(plan, answer) ==
    /\ plan.strategy \in SupportedStrategies[plan.primary.kind]
    /\ plan.strategy = "pair_elimination" => Len(plan.primary.values) % 2 = 1
    /\ plan.strategy = "regroup" => RegroupCompatible(plan)
    /\ plan.strategy = "magnitude_comparison" => MagnitudeCompatible(plan)
    /\ plan.strategy = "inverse_operation" => InverseCompatible(plan)
    /\ plan.strategy = "ray_shade" => RayShadeCompatible(plan)
    /\ plan.strategy = "boundary_trace" => BoundaryTraceCompatible(plan)
    /\ plan.strategy = "signed_hop" => SignedHopCompatible(plan)
    /\ plan.strategy = "distance_from_zero" => DistanceCompatible(plan)
    /\ plan.strategy = "equivalence_align" => EquivalenceCompatible(plan)
    /\ plan.strategy = "common_denominator_bridge" => BridgeCompatible(plan, answer)
    /\ plan.strategy = "percent_of_whole" => PercentOfWholeCompatible(plan)
    /\ plan.strategy = "percent_change" => PercentChangeCompatible(plan)
    /\ plan.strategy = "rotation" => RotationCompatible(plan)

\* The first box of a rate reads as one full unit whatever the fixture.
FullUnit(plan) ==
    LET value == plan.primary.value
    IN  plan.strategy = "unit_rate" =>
            CASE value.node = "literal" -> AtMost(<<1, 1>>, value.value)
              [] value.node = "field_ref" ->
                    Contract.minimums[value.field] # None /\ AtMost(<<1, 1>>, Contract.minimums[value.field])
              [] OTHER -> FALSE

\* The answer of an elimination is the value that is left standing.
AnswerIsMiddle(plan, answer) ==
    plan.strategy = "pair_elimination" =>
        answer = plan.primary.values[(Len(plan.primary.values) \div 2) + 1]

\* The part of the picture that is the answer, where no answer card states it.
AnswerAnchor(plan) ==
    CASE plan.strategy = "pair_elimination" -> Middle(plan)
      [] plan.strategy = "rotation" -> Part(plan.primary.ref, "polygon", 0)
      [] OTHER -> None
=============================================================================
