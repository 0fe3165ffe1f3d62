------------------------- MODULE LessonTimelineProofs -------------------------
(***************************************************************************)
(* What is proved of the time of a compiled lesson, for every plan,        *)
(* contract and fixture.  The argument follows the scheduler: how long a   *)
(* beat and a slot of it last, the beats of each strategy that need their  *)
(* seconds, a second invariant that keeps the timeline as the scheduler    *)
(* made it, and the gates that judge the timeline.  Then it follows the    *)
(* renderer, group by group, with a third invariant: how far the clock it  *)
(* keeps can run behind the schedule the gates accepted.                   *)
(***************************************************************************)
EXTENDS SceneCompilerProofs

-----------------------------------------------------------------------------
(* Sums over the beats.                                                     *)

\* The sums of the first values of v, up to n of them.
Summing(v, f, n) == f = [k \in 0..n |-> IF k = 0 THEN 0 ELSE f[k - 1] + v[k]]

\* Every number of values has its sums: induction on it.
LEMMA SummingExists ==
    ASSUME NEW v
    PROVE  \A n \in Nat : \E f : Summing(v, f, n)
<1> DEFINE S == {n \in Nat : \E f : Summing(v, f, n)}
<1>1. 0 \in S
  <2> DEFINE g == [k \in 0..0 |-> 0]
  <2>1. ASSUME NEW k \in 0..0 PROVE g[k] = IF k = 0 THEN 0 ELSE g[k - 1] + v[k]
    OBVIOUS
  <2>2. Summing(v, g, 0)
    BY <2>1 DEF Summing
  <2>3. QED BY <2>2
<1>2. ASSUME NEW n \in Nat, n \in S PROVE n + 1 \in S
  <2>1. PICK f : Summing(v, f, n)
    BY <1>2
  <2> DEFINE x == f[n] + v[n + 1]
             g == [k \in 0..(n + 1) |-> IF k = n + 1 THEN x ELSE f[k]]
  <2> HIDE DEF x
  <2>2. ASSUME NEW k \in 0..(n + 1)
        PROVE g[k] = IF k = 0 THEN 0 ELSE g[k - 1] + v[k]
    <3>1. CASE k = n + 1
      <4>1. k # 0 /\ k - 1 = n /\ n \in 0..(n + 1) /\ n # n + 1
        BY <3>1
      <4>2. g[k] = x /\ g[k - 1] = f[n]
        BY <4>1, <3>1
      <4>3. QED BY <3>1, <4>1, <4>2 DEF x
    <3>2. CASE k # n + 1
      <4>1. k \in 0..n /\ (k # 0 => k - 1 \in 0..n)
        BY <3>2
      <4>2. f[k] = IF k = 0 THEN 0 ELSE f[k - 1] + v[k]
        BY <4>1, <2>1 DEF Summing
      <4>3. g[k] = f[k] /\ (k # 0 => g[k - 1] = f[k - 1])
        BY <4>1
      <4>4. QED BY <4>2, <4>3
    <3>3. QED BY <3>1, <3>2
  <2>3. Summing(v, g, n + 1)
    <3>1. g = [k \in 0..(n + 1) |-> g[k]]
      OBVIOUS
    <3> HIDE DEF g
    <3>2. QED BY <2>2, <3>1 DEF Summing
  <2>4. QED BY <2>3
<1>3. QED
  <2> HIDE DEF S
  <2>1. Nat \subseteq S BY <1>1, <1>2, NatInd
  <2>2. QED BY <2>1 DEF S

\* The sums of a few naturals are at least the sum of any three of them.
LEMMA SumOfFew ==
    ASSUME NEW n \in 3..5, NEW v, \A k \in 1..n : v[k] \in Nat, NEW f, Summing(v, f, n)
    PROVE  /\ f[n] \in Nat
           /\ \A k \in 0..n : f[k] \in Nat
           /\ f[0] = 0 /\ \A k \in 1..n : f[k] = f[k - 1] + v[k]
           /\ \A a, b, c \in 1..n :
                 (a # b /\ b # c /\ a # c) => v[a] + (v[b] + v[c]) <= f[n]
<1>1. f[0] = 0 /\ \A k \in 1..n : f[k] = f[k - 1] + v[k]
  <2>1. \A k \in 0..n : f[k] = IF k = 0 THEN 0 ELSE f[k - 1] + v[k]
    BY DEF Summing
  <2>2. QED BY <2>1
<1>2. f[1] = v[1] /\ f[2] = v[1] + v[2] /\ f[3] = v[1] + v[2] + v[3]
  <2>1. 1 \in 1..n /\ 2 \in 1..n /\ 3 \in 1..n
    OBVIOUS
  <2>2. f[1] = f[1 - 1] + v[1] /\ f[2] = f[2 - 1] + v[2] /\ f[3] = f[3 - 1] + v[3]
    BY <1>1, <2>1
  <2>3. 1 - 1 = 0 /\ 2 - 1 = 1 /\ 3 - 1 = 2 /\ v[1] \in Nat /\ v[2] \in Nat /\ v[3] \in Nat
    BY <2>1
  <2>4. QED BY <1>1, <2>2, <2>3
<1>3. n >= 4 => f[4] = (v[1] + v[2] + v[3]) + v[4] /\ v[4] \in Nat
  <2>1. n >= 4 => 4 \in 1..n /\ 4 - 1 = 3
    OBVIOUS
  <2>2. n >= 4 => f[4] = f[4 - 1] + v[4]
    BY <1>1, <2>1
  <2>3. QED BY <1>2, <2>1, <2>2
<1>4. n = 5 => f[5] = ((v[1] + v[2] + v[3]) + v[4]) + v[5] /\ v[5] \in Nat
  <2>1. n = 5 => 5 \in 1..n /\ 5 - 1 = 4
    OBVIOUS
  <2>2. n = 5 => f[5] = f[5 - 1] + v[5]
    BY <1>1, <2>1
  <2>3. QED BY <1>3, <2>1, <2>2
<1>5. v[1] \in Nat /\ v[2] \in Nat /\ v[3] \in Nat
  OBVIOUS
<1>6. \A k \in 0..n : f[k] \in Nat
  <2>1. ASSUME NEW k \in 0..n PROVE f[k] \in Nat
    <3>1. k \in {0, 1, 2, 3} \/ (k = 4 /\ n >= 4) \/ (k = 5 /\ n = 5)
      OBVIOUS
    <3>2. k \in {0, 1, 2, 3} => f[k] \in Nat
      BY <1>1, <1>2, <1>5
    <3>3. (k = 4 /\ n >= 4) => f[k] \in Nat
      BY <1>3, <1>5
    <3>4. (k = 5 /\ n = 5) => f[k] \in Nat
      BY <1>3, <1>4, <1>5
    <3>5. QED BY <3>1, <3>2, <3>3, <3>4
  <2>2. QED BY <2>1
<1>7. ASSUME NEW a \in 1..n, NEW b \in 1..n, NEW c \in 1..n, a # b, b # c, a # c
      PROVE  v[a] + (v[b] + v[c]) <= f[n]
  <2>1. CASE n = 3
    <3>1. a \in {1, 2, 3} /\ b \in {1, 2, 3} /\ c \in {1, 2, 3}
      BY <2>1
    <3>2. QED BY <1>2, <1>5, <1>7, <2>1, <3>1
  <2>2. CASE n = 4
    <3>1. a \in {1, 2, 3, 4} /\ b \in {1, 2, 3, 4} /\ c \in {1, 2, 3, 4}
      BY <2>2
    <3>2. QED BY <1>3, <1>5, <1>7, <2>2, <3>1
  <2>3. CASE n = 5
    <3>1. a \in {1, 2, 3, 4, 5} /\ b \in {1, 2, 3, 4, 5} /\ c \in {1, 2, 3, 4, 5}
      BY <2>3
    <3>2. v[4] \in Nat /\ v[5] \in Nat
      BY <1>3, <1>4, <2>3
    <3>3. f[n] = ((v[1] + v[2] + v[3]) + v[4]) + v[5]
      BY <1>4, <2>3
    <3>4. ASSUME a = 1 PROVE v[a] + (v[b] + v[c]) <= f[n]
      BY <1>5, <1>7, <3>1, <3>2, <3>3, <3>4
    <3>5. ASSUME a = 2 PROVE v[a] + (v[b] + v[c]) <= f[n]
      BY <1>5, <1>7, <3>1, <3>2, <3>3, <3>5
    <3>6. ASSUME a = 3 PROVE v[a] + (v[b] + v[c]) <= f[n]
      BY <1>5, <1>7, <3>1, <3>2, <3>3, <3>6
    <3>7. ASSUME a = 4 PROVE v[a] + (v[b] + v[c]) <= f[n]
      BY <1>5, <1>7, <3>1, <3>2, <3>3, <3>7
    <3>8. ASSUME a = 5 PROVE v[a] + (v[b] + v[c]) <= f[n]
      BY <1>5, <1>7, <3>1, <3>2, <3>3, <3>8
    <3>9. QED BY <3>1, <3>4, <3>5, <3>6, <3>7, <3>8
  <2>4. QED BY <2>1, <2>2, <2>3
<1>8. f[n] \in Nat
  BY <1>6
<1>9. QED BY <1>1, <1>6, <1>7, <1>8

Floors(bs) == [b \in 1..Len(bs) |-> bs[b].floor]

Weights(bs) == [b \in 1..Len(bs) |-> bs[b].weight]

WeightOf(bs) == Total(bs, LAMBDA beat : beat.weight)

LEMMA FloorOfIs ==
    ASSUME NEW bs, Len(bs) \in Nat
    PROVE  \E f : Summing(Floors(bs), f, Len(bs)) /\ FloorOf(bs) = f[Len(bs)]
<1> DEFINE n == Len(bs)
           Sum_(f) == f = [b \in 0..n |-> IF b = 0 THEN 0 ELSE f[b - 1] + bs[b].floor]
           g == CHOOSE f : Sum_(f)
<1>1. \A b \in 1..n : Floors(bs)[b] = bs[b].floor
  BY DEF Floors
<1>2. \A f : Sum_(f) <=> Summing(Floors(bs), f, n)
  BY <1>1 DEF Summing
<1>3. Sum_(g)
  <2>1. \E f : Summing(Floors(bs), f, n)
    BY SummingExists
  <2>2. \E f : Sum_(f)
    BY <1>2, <2>1
  <2> HIDE DEF Sum_
  <2>3. QED BY <2>2
<1>4. FloorOf(bs) = g[n]
  BY DEF FloorOf, Total
<1> HIDE DEF g, Sum_
<1>5. QED BY <1>2, <1>3, <1>4

LEMMA WeightOfIs ==
    ASSUME NEW bs, Len(bs) \in Nat
    PROVE  \E f : Summing(Weights(bs), f, Len(bs)) /\ WeightOf(bs) = f[Len(bs)]
<1> DEFINE n == Len(bs)
           Sum_(f) == f = [b \in 0..n |-> IF b = 0 THEN 0 ELSE f[b - 1] + bs[b].weight]
           g == CHOOSE f : Sum_(f)
<1>1. \A b \in 1..n : Weights(bs)[b] = bs[b].weight
  BY DEF Weights
<1>2. \A f : Sum_(f) <=> Summing(Weights(bs), f, n)
  BY <1>1 DEF Summing
<1>3. Sum_(g)
  <2>1. \E f : Summing(Weights(bs), f, n)
    BY SummingExists
  <2>2. \E f : Sum_(f)
    BY <1>2, <2>1
  <2> HIDE DEF Sum_
  <2>3. QED BY <2>2
<1>4. WeightOf(bs) = g[n]
  BY DEF WeightOf, Total
<1> HIDE DEF g, Sum_
<1>5. QED BY <1>2, <1>3, <1>4

-----------------------------------------------------------------------------
(* When each beat begins, and how long it may last.                         *)

Lengths(bs) == [b \in 1..Len(bs) |-> BeatLength(bs, b)]

LEMMA BeatStartIs ==
    ASSUME NEW bs, Len(bs) \in Nat, NEW f, Summing(Lengths(bs), f, Len(bs)), NEW b \in 1..Len(bs)
    PROVE  BeatStart(bs, b) = f[b - 1]
<1> DEFINE n == Len(bs)
           v == Lengths(bs)
           Start_(g) == g = [c \in 1..b |-> IF c = 1 THEN 0 ELSE g[c - 1] + BeatLength(bs, c - 1)]
           s == CHOOSE g : Start_(g)
           h == [c \in 1..b |-> f[c - 1]]
<1>1. \A k \in 0..n : f[k] = IF k = 0 THEN 0 ELSE f[k - 1] + v[k]
  BY DEF Summing
<1>2. \A k \in 1..n : v[k] = BeatLength(bs, k)
  BY DEF Lengths
<1> HIDE DEF v
<1>3. ASSUME NEW c \in 1..b
      PROVE  h[c] = IF c = 1 THEN 0 ELSE h[c - 1] + BeatLength(bs, c - 1)
  <2>1. c - 1 \in 0..n /\ h[c] = f[c - 1]
    OBVIOUS
  <2>2. CASE c = 1
    <3>1. c - 1 = 0
      BY <2>2
    <3>2. QED BY <1>1, <2>1, <2>2, <3>1
  <2>3. CASE c # 1
    <3>1. c - 1 \in 1..b /\ c - 1 \in 1..n /\ (c - 1) - 1 \in 0..n /\ c - 1 # 0
      BY <2>3
    <3>2. h[c - 1] = f[(c - 1) - 1]
      BY <3>1
    <3>3. f[c - 1] = f[(c - 1) - 1] + BeatLength(bs, c - 1)
      BY <1>1, <1>2, <2>1, <3>1
    <3>4. QED BY <2>1, <2>3, <3>2, <3>3
  <2>4. QED BY <2>2, <2>3
<1>4. Start_(h)
  <2>1. h = [c \in 1..b |-> h[c]]
    OBVIOUS
  <2> HIDE DEF h
  <2>2. QED BY <1>3, <2>1
<1>5. Start_(s)
  <2>1. \E g : Start_(g)
    BY <1>4
  <2> HIDE DEF Start_
  <2>2. QED BY <2>1
<1>6. BeatStart(bs, b) = s[b]
  BY DEF BeatStart
<1>7. \A c \in 1..b : s[c] = IF c = 1 THEN 0 ELSE s[c - 1] + BeatLength(bs, c - 1)
  BY <1>5
<1> HIDE DEF s, h, Start_
<1> DEFINE S == {k \in Nat : k + 1 <= b => s[k + 1] = f[k]}
<1>8. 0 \in S
  <2>1. 0 + 1 = 1 /\ 1 \in 1..b /\ 0 \in 0..n
    OBVIOUS
  <2>2. s[1] = 0 /\ f[0] = 0
    BY <1>1, <1>7, <2>1
  <2>3. QED BY <2>1, <2>2
<1>9. ASSUME NEW k \in Nat, k \in S PROVE k + 1 \in S
  <2>1. SUFFICES ASSUME (k + 1) + 1 <= b PROVE s[(k + 1) + 1] = f[k + 1]
    OBVIOUS
  <2>2. s[k + 1] = f[k]
    BY <1>9, <2>1
  <2> DEFINE c == (k + 1) + 1
  <2>3. c \in 1..b /\ c # 1 /\ c - 1 = k + 1 /\ k + 1 \in 1..n /\ k + 1 \in 0..n /\ k + 1 # 0
        /\ (k + 1) - 1 = k
    BY <2>1
  <2> HIDE DEF c, S
  <2>4. s[c] = s[c - 1] + BeatLength(bs, c - 1)
    BY <1>7, <2>3
  <2>5. s[c] = f[k] + BeatLength(bs, k + 1)
    BY <2>2, <2>3, <2>4
  <2>6. f[k + 1] = f[k] + BeatLength(bs, k + 1)
    BY <1>1, <1>2, <2>3
  <2>7. s[c] = f[k + 1]
    BY <2>5, <2>6
  <2>8. QED BY <2>7 DEF c
<1>10. b - 1 \in S
  <2> HIDE DEF S
  <2>1. b - 1 \in Nat
    OBVIOUS
  <2>2. QED BY <1>8, <1>9, <2>1, NatInd
<1>11. s[b] = f[b - 1]
  <2>1. (b - 1) + 1 = b
    OBVIOUS
  <2>2. QED BY <1>10, <2>1
<1>12. QED BY <1>6, <1>11

\* A quotient is at most what the divisor has to be multiplied by.
LEMMA DivAtMost ==
    ASSUME NEW a \in Nat, NEW w \in Nat, w > 0, NEW x \in Nat, a <= x * w
    PROVE  a \div w \in Nat /\ a \div w <= x
<1> DEFINE q == a \div w
<1>1. q \in Nat /\ q * w <= a
  OBVIOUS
<1> HIDE DEF q
<1>2. ASSUME q >= x + 1 PROVE FALSE
  <2>1. q * w >= (x + 1) * w
    BY <1>1, <1>2
  <2>2. (x + 1) * w = x * w + w
    OBVIOUS
  <2>3. QED BY <1>1, <2>1, <2>2
<1>3. q <= x
  BY <1>1, <1>2
<1>4. QED BY <1>1, <1>3 DEF q

\* What a beat gets of the time that is left over the floors: s is left, of which it has w
\* parts out of all.
LEMMA ShareAtMost ==
    ASSUME NEW s \in Nat, NEW w \in 4..6, NEW all \in Nat, NEW few \in Nat, few > 0, all >= few,
           NEW x \in Nat, s * w <= x * few
    PROVE  (s * w) \div all \in Nat /\ (s * w) \div all <= x
<1>1. s * w \in Nat
  OBVIOUS
<1>2. x * few <= x * all
  OBVIOUS
<1>3. x * few \in Nat /\ x * all \in Nat
  OBVIOUS
<1> DEFINE a == s * w
<1>4. a \in Nat /\ a <= x * all
  BY <1>1, <1>2, <1>3
<1> HIDE DEF a
<1>5. a \div all \in Nat /\ a \div all <= x
  BY <1>4, DivAtMost
<1>6. QED BY <1>5 DEF a

\* A tenth of a second.
Tenth == 100000

LEMMA TimesAre ==
    /\ Tenth \in Nat /\ Tenth > 0 /\ \A n \in Int : Seconds(n) = n * Tenth
    /\ MaxScene = 240 * Tenth /\ MinScene = 120 * Tenth /\ MinHold = 30 * Tenth
    /\ MinAction = 3 * Tenth /\ MaxAction = 40 * Tenth
BY SMT DEF MaxScene, MinScene, MinHold, MinAction, MaxAction, Seconds, Tenth

\* What is left over the floors, when they take t in all.
LeftOver(t) == Least(MaxScene, Most(MinScene, t + MinHold)) - t

LEMMA LeftOverAtMost ==
    ASSUME NEW t \in Nat, t <= MaxScene, NEW known \in Nat, known <= t
    PROVE  /\ LeftOver(t) \in Nat
           /\ LeftOver(t) <= 30 * Tenth \/ LeftOver(t) <= 120 * Tenth - known
           /\ t + LeftOver(t) \in MinScene..MaxScene
           /\ t + LeftOver(t) = Least(MaxScene, Most(MinScene, t + MinHold))
<1> DEFINE m == Most(120 * Tenth, t + 30 * Tenth)
           l == Least(240 * Tenth, m)
<1>1. t <= 240 * Tenth /\ LeftOver(t) = l - t /\ l = Least(MaxScene, Most(MinScene, t + MinHold))
      /\ MinScene = 120 * Tenth /\ MaxScene = 240 * Tenth
  BY TimesAre DEF LeftOver
<1>2. Tenth \in Nat
  BY TimesAre
<1>3. m \in Nat /\ m >= 120 * Tenth /\ m >= t + 30 * Tenth /\ (m = 120 * Tenth \/ m = t + 30 * Tenth)
  BY <1>2 DEF Most
<1> HIDE DEF m
<1>4. l \in Nat /\ l >= 120 * Tenth /\ l <= 240 * Tenth /\ l <= m /\ l >= t
  BY <1>1, <1>2, <1>3 DEF Least
<1> HIDE DEF l
<1>5. l - t \in Nat /\ t + (l - t) = l
  BY <1>1, <1>4
<1>6. l - t <= 30 * Tenth \/ l - t <= 120 * Tenth - known
  BY <1>2, <1>3, <1>4
<1>7. LeftOver(t) \in Nat /\ (LeftOver(t) <= 30 * Tenth \/ LeftOver(t) <= 120 * Tenth - known)
  BY <1>1, <1>5, <1>6
<1>8. t + LeftOver(t) = l /\ l \in MinScene..MaxScene
  BY <1>1, <1>2, <1>4, <1>5
<1>9. QED BY <1>1, <1>7, <1>8

-----------------------------------------------------------------------------
(* What the expander asks for each beat.                                    *)

Eliminates(p, beat) == p.strategy = "pair_elimination" /\ beat.kind = "organize"

Turning(p, beat) == beat.id = RotationBeat(p)

Couples(p) == (Len(p.primary.values) - 1) \div 2

\* The least time of a beat, in tenths of a second.
LeastTenths(p, beat) ==
    IF Turning(p, beat) THEN 11 * p.primary.iterations
    ELSE IF Eliminates(p, beat) THEN Least(26 * Couples(p), 120)
    ELSE IF beat.kind = "orient" THEN 15
    ELSE IF beat.kind \in {"reveal", "focus"} THEN 20
    ELSE IF beat.kind = "conclude" THEN 30 ELSE 25

\* A polygon turns, once to four times, in the only beat that works.
LEMMA TurningBeat ==
    ASSUME NEW p, NEW goal, Admitted(p, goal), NEW n \in DOMAIN p.beats, Distinct(p),
           Turning(p, p.beats[n])
    PROVE  /\ p.strategy = "rotation" /\ p.primary.iterations \in 1..4
           /\ p.beats[n].kind \in {"focus", "derive"}
           /\ \A m \in DOMAIN p.beats : m # n => ~Works(p.beats[m])
<1> DEFINE T == BeatsThat(p, Works)
           i == p.primary.iterations
<1>1. Listed(p.beats) /\ DOMAIN p.beats = 1..Len(p.beats) /\ Len(p.beats) \in 3..5
      /\ p.beats[n].id # None
  BY BeatsOfPlan DEF Admitted, ValidBeat
<1>2. p.strategy = "rotation" /\ Cardinality(T) = 1 /\ T # {} /\ RotationBeat(p) = p.beats[Min(T)].id
  BY <1>1 DEF Turning, RotationBeat, FirstBeat
<1>3. T \subseteq DOMAIN p.beats /\ \A m \in DOMAIN p.beats : m \in T <=> Works(p.beats[m])
  BY DEF BeatsThat
<1> HIDE DEF T
<1>4. IsFiniteSet(T)
  <2>1. IsFiniteSet(1..Len(p.beats))
    <3>1. 1 \in Int /\ Len(p.beats) \in Int
      BY <1>1
    <3>2. QED BY <3>1, FS_Interval
  <2>2. QED BY <1>1, <1>3, <2>1, FS_Subset
<1>5. PICK x : T = {x}
  BY <1>2, <1>4, FS_Singleton
<1>6. Min(T) \in T
  BY <1>1, <1>2, <1>3, EarliestOf
<1>7. Min(T) = x /\ p.beats[x].id = p.beats[n].id /\ x \in DOMAIN p.beats
  BY <1>2, <1>3, <1>5, <1>6 DEF Turning
<1>8. x = n
  BY <1>7 DEF Distinct
<1>9. Works(p.beats[n]) /\ \A m \in DOMAIN p.beats : m # n => ~Works(p.beats[m])
  BY <1>3, <1>5, <1>8
<1>10. i \in 1..4
  <2>1. ValidVisual(p.primary) /\ p.primary.kind = "coordinate_plane"
    BY <1>2, VisualsAreValid, StrategyKinds
  <2>2. i \in {None, 1, 2, 3, 4}
    BY <2>1 DEF ValidVisual, CoordinatePlaneVisual
  <2>3. i # None
    BY <1>2 DEF Admitted, Compatible, RotationCompatible
  <2> HIDE DEF i
  <2>4. QED BY <2>2, <2>3
<1>11. QED BY <1>2, <1>9, <1>10 DEF Works

LEMMA ValuesOfElimination ==
    ASSUME NEW p, NEW goal, Admitted(p, goal), p.strategy = "pair_elimination"
    PROVE  Couples(p) \in 1..7 /\ Len(p.primary.values) = 2 * Couples(p) + 1
<1> DEFINE m == Len(p.primary.values)
<1>1. ValidVisual(p.primary) /\ p.primary.kind = "ordered_values"
  BY VisualsAreValid, StrategyKinds
<1>2. m \in 3..15
  BY <1>1 DEF ValidVisual, OrderedValuesVisual
<1>3. m % 2 = 1
  BY DEF Admitted, Compatible
<1>4. Couples(p) = (m - 1) \div 2
  BY DEF Couples
<1> HIDE DEF m
<1>5. (m - 1) \div 2 \in 1..7 /\ m = 2 * ((m - 1) \div 2) + 1
  BY <1>2, <1>3
<1>6. QED BY <1>4, <1>5 DEF m

LEMMA FloorIs ==
    ASSUME NEW p, NEW goal, Admitted(p, goal), NEW n \in DOMAIN p.beats, Distinct(p)
    PROVE  /\ Floor(p, p.beats[n]) = LeastTenths(p, p.beats[n]) * Tenth
           /\ LeastTenths(p, p.beats[n]) \in Nat
<1> DEFINE beat == p.beats[n]
           F == Floor(p, beat)
           i == p.primary.iterations
           c == Couples(p)
<1>1. \A k \in Int : Seconds(k) = k * Tenth
  BY TimesAre
<1>2. Tenth \in Nat /\ Tenth > 0
  BY TimesAre
<1>3. CASE Turning(p, beat)
  <2>1. i \in 1..4
    BY <1>3, TurningBeat
  <2>2. F = Seconds(11) * i /\ LeastTenths(p, beat) = 11 * i
    BY <1>3 DEF Floor, LeastTenths, Turning
  <2> HIDE DEF F, beat, i
  <2>3. Seconds(11) = 11 * Tenth
    BY <1>1
  <2>4. (11 * Tenth) * i = (11 * i) * Tenth
    <3>1. i \in {1, 2, 3, 4}
      BY <2>1
    <3>2. QED BY <1>2, <3>1
  <2>5. QED BY <2>1, <2>2, <2>3, <2>4 DEF F, beat
<1>4. CASE ~Turning(p, beat) /\ Eliminates(p, beat)
  <2>1. c \in 1..7
    BY <1>4, ValuesOfElimination DEF Eliminates
  <2>2. F = Least(Seconds(26) * c, Seconds(120)) /\ LeastTenths(p, beat) = Least(26 * c, 120)
    BY <1>4 DEF Floor, LeastTenths, Turning, Eliminates, Couples
  <2> HIDE DEF F, beat, c
  <2>3. Seconds(26) = 26 * Tenth /\ Seconds(120) = 120 * Tenth
    BY <1>1
  <2>4. c \in {1, 2, 3, 4, 5, 6, 7}
    BY <2>1
  <2>5. Least((26 * Tenth) * c, 120 * Tenth) = Least(26 * c, 120) * Tenth /\ Least(26 * c, 120) \in Nat
    BY <1>2, <2>4 DEF Least
  <2>6. QED BY <2>2, <2>3, <2>5 DEF F, beat
<1>5. CASE ~Turning(p, beat) /\ ~Eliminates(p, beat)
  <2>1. F = IF beat.kind = "orient" THEN Seconds(15)
            ELSE IF beat.kind \in {"reveal", "focus"} THEN Seconds(20)
            ELSE IF beat.kind = "conclude" THEN Seconds(30) ELSE Seconds(25)
    BY <1>5 DEF Floor, Turning, Eliminates
  <2>2. LeastTenths(p, beat) = IF beat.kind = "orient" THEN 15
                               ELSE IF beat.kind \in {"reveal", "focus"} THEN 20
                               ELSE IF beat.kind = "conclude" THEN 30 ELSE 25
    BY <1>5 DEF LeastTenths
  <2>3. /\ Seconds(15) = 15 * Tenth /\ Seconds(20) = 20 * Tenth /\ Seconds(30) = 30 * Tenth
        /\ Seconds(25) = 25 * Tenth
    BY <1>1
  <2> HIDE DEF F, beat
  <2>4. QED BY <2>1, <2>2, <2>3 DEF F, beat
<1>6. QED BY <1>3, <1>4, <1>5

\* A beat's share of the time is bounded by what two beats and the conclusion are known to take.
LEMMA PaceAtMost ==
    ASSUME NEW f \in Nat, NEW g \in Nat, NEW w \in 4..5, NEW few \in 14..16, NEW x \in Nat,
           30 * w <= x * few, (90 - f - g) * w <= x * few,
           NEW t \in Nat, t <= MaxScene, (f + g + 30) * Tenth <= t,
           NEW all \in Nat, all >= few
    PROVE  (LeftOver(t) * w) \div all \in Nat /\ (LeftOver(t) * w) \div all <= x * Tenth
<1> DEFINE s == LeftOver(t)
           y == x * Tenth
<1>1. Tenth \in Nat /\ Tenth > 0
  BY TimesAre
<1>2. (f + g + 30) * Tenth \in Nat
  BY <1>1
<1>3. s \in Nat /\ (s <= 30 * Tenth \/ s <= 120 * Tenth - (f + g + 30) * Tenth)
  BY <1>2, LeftOverAtMost
<1>4. 120 * Tenth - (f + g + 30) * Tenth = (90 - f - g) * Tenth
  BY <1>1
<1> DEFINE z == x * few
<1>5. z \in Int /\ 30 * w <= z /\ (90 - f - g) * w <= z
  OBVIOUS
<1>6. y * few = z * Tenth
  BY <1>1
<1> HIDE DEF s
<1>7. s * w <= z * Tenth
  <2>1. CASE s <= 30 * Tenth
    <3>1. s * w <= (30 * Tenth) * w
      BY <1>1, <1>3, <2>1
    <3>2. (30 * Tenth) * w = (30 * w) * Tenth
      BY <1>1
    <3>3. (30 * w) * Tenth <= z * Tenth
      <4> HIDE DEF z
      <4>1. QED BY <1>1, <1>5
    <3> HIDE DEF z
    <3>4. s * w \in Int /\ (30 * w) * Tenth \in Int /\ z * Tenth \in Int
      BY <1>1, <1>3, <1>5
    <3>5. QED BY <3>1, <3>2, <3>3, <3>4
  <2>2. CASE s <= (90 - f - g) * Tenth
    <3> DEFINE r == 90 - f - g
    <3>1. r \in Int /\ s <= r * Tenth /\ r * w <= z
      BY <1>5, <2>2
    <3> HIDE DEF r, z
    <3>2. s * w <= (r * Tenth) * w
      BY <1>1, <1>3, <3>1
    <3>3. (r * Tenth) * w = (r * w) * Tenth
      BY <1>1, <3>1
    <3>4. (r * w) * Tenth <= z * Tenth
      BY <1>1, <1>5, <3>1
    <3>5. s * w \in Int /\ (r * w) * Tenth \in Int /\ z * Tenth \in Int
      BY <1>1, <1>3, <1>5, <3>1
    <3>6. QED BY <3>2, <3>3, <3>4, <3>5
  <2>3. QED BY <1>3, <1>4, <2>1, <2>2
<1>8. y \in Nat /\ few \in Nat /\ few > 0 /\ w \in 4..6 /\ s * w <= y * few
  BY <1>1, <1>6, <1>7
<1> HIDE DEF y, z
<1>9. (s * w) \div all \in Nat /\ (s * w) \div all <= y
  BY <1>3, <1>8, ShareAtMost
<1>10. QED BY <1>9 DEF s, y

-----------------------------------------------------------------------------
(* How long each beat lasts.                                                *)

\* All the beats of a plan, expanded, as the scheduler takes them.
Paced(p, goal, bs) ==
    /\ Admitted(p, goal) /\ Distinct(p)
    /\ Listed(bs) /\ Len(bs) = Len(p.beats)
    /\ \A b \in DOMAIN bs : /\ bs[b] = Expanded(p, p.beats[b], bs[b].actions)
                            /\ Listed(bs[b].actions)
    /\ FloorOf(bs) <= MaxScene

LEMMA PacedBeats ==
    ASSUME NEW p, NEW goal, NEW bs, Paced(p, goal, bs)
    PROVE  /\ Len(bs) \in 3..5 /\ DOMAIN bs = 1..Len(bs) /\ DOMAIN p.beats = DOMAIN bs
           /\ \A b \in DOMAIN bs :
                 /\ Listed(bs[b].actions) /\ bs[b].id = p.beats[b].id
                 /\ bs[b].floor = LeastTenths(p, p.beats[b]) * Tenth
                 /\ LeastTenths(p, p.beats[b]) \in Nat
                 /\ bs[b].weight = Weight(p.beats[b])
                 /\ bs[b].slots = SlotCount(p, p.beats[b], bs[b].actions)
<1>1. Admitted(p, goal) /\ Distinct(p) /\ Listed(bs) /\ Len(bs) = Len(p.beats)
  BY DEF Paced
<1>2. Len(p.beats) \in 3..5 /\ DOMAIN p.beats = 1..Len(p.beats)
  BY <1>1, BeatsOfPlan DEF Admitted
<1>3. DOMAIN bs = 1..Len(bs)
  BY <1>1, ListPlaces
<1>4. ASSUME NEW b \in DOMAIN bs
      PROVE  /\ Listed(bs[b].actions) /\ bs[b].id = p.beats[b].id
             /\ bs[b].floor = LeastTenths(p, p.beats[b]) * Tenth
             /\ LeastTenths(p, p.beats[b]) \in Nat
             /\ bs[b].weight = Weight(p.beats[b])
             /\ bs[b].slots = SlotCount(p, p.beats[b], bs[b].actions)
  <2> DEFINE x == bs[b].actions
             e == Expanded(p, p.beats[b], x)
  <2>1. bs[b] = e /\ Listed(x)
    BY DEF Paced
  <2>2. /\ e.id = p.beats[b].id /\ e.floor = Floor(p, p.beats[b]) /\ e.weight = Weight(p.beats[b])
        /\ e.slots = SlotCount(p, p.beats[b], x)
    BY DEF Expanded
  <2>3. b \in DOMAIN p.beats
    BY <1>1, <1>2, <1>3
  <2>4. /\ Floor(p, p.beats[b]) = LeastTenths(p, p.beats[b]) * Tenth
        /\ LeastTenths(p, p.beats[b]) \in Nat
    BY <1>1, <2>3, FloorIs
  <2> HIDE DEF e
  <2>5. QED BY <2>1, <2>2, <2>4
<1>5. QED BY <1>1, <1>2, <1>3, <1>4

\* The conclusion weighs most, and asks for three seconds.
LEMMA WeightsOf ==
    ASSUME NEW p, NEW goal, NEW bs, Paced(p, goal, bs)
    PROVE  /\ Weight(p.beats[Len(bs)]) = 6 /\ LeastTenths(p, p.beats[Len(bs)]) = 30
           /\ \A b \in DOMAIN bs : b # Len(bs) => /\ Weight(p.beats[b]) \in 4..5
                                                  /\ p.beats[b].kind # "conclude"
           /\ \A b \in DOMAIN bs : Weight(p.beats[b]) \in Nat
<1> DEFINE n == Len(bs)
<1>1. /\ n \in 3..5 /\ DOMAIN bs = 1..n /\ DOMAIN p.beats = DOMAIN bs /\ n = Len(p.beats)
      /\ Admitted(p, goal) /\ Distinct(p) /\ n \in DOMAIN p.beats
  BY PacedBeats DEF Paced
<1>2. /\ p.beats[n].kind = "conclude" /\ \A b \in DOMAIN p.beats : b # n => p.beats[b].kind # "conclude"
  BY <1>1, LastConcludes
<1>3. \A beat : beat.kind # "conclude" => Weight(beat) \in 4..5
  BY DEF Weight
<1>4. Weight(p.beats[n]) = 6
  BY <1>2 DEF Weight
<1>5. ~Turning(p, p.beats[n])
  BY <1>1, <1>2, TurningBeat
<1>6. ~Eliminates(p, p.beats[n])
  BY <1>2 DEF Eliminates
<1>7. LeastTenths(p, p.beats[n]) = 30
  BY <1>2, <1>5, <1>6 DEF LeastTenths
<1> HIDE DEF n
<1>8. \A b \in DOMAIN bs : Weight(p.beats[b]) \in Nat
  <2>1. ASSUME NEW b \in DOMAIN bs PROVE Weight(p.beats[b]) \in Nat
    <3>1. CASE b = n BY <1>4, <3>1
    <3>2. CASE b # n
      <4>1. Weight(p.beats[b]) \in 4..5
        BY <1>1, <1>2, <1>3, <3>2
      <4>2. QED BY <4>1
    <3>3. QED BY <3>1, <3>2
  <2>2. QED BY <2>1
<1>9. QED BY <1>1, <1>2, <1>3, <1>4, <1>7, <1>8 DEF n

\* Each beat lasts its least time and its share of what is left over the floors, of which the
\* conclusion and any two other beats take their part.
LEMMA LengthIs ==
    ASSUME NEW p, NEW goal, NEW bs, Paced(p, goal, bs)
    PROVE  /\ FloorOf(bs) \in Nat /\ FloorOf(bs) <= MaxScene /\ WeightOf(bs) \in Nat
           /\ SceneLength(bs) = FloorOf(bs) + LeftOver(FloorOf(bs))
           /\ \A b \in DOMAIN bs :
                 BeatLength(bs, b) = LeastTenths(p, p.beats[b]) * Tenth
                                       + (LeftOver(FloorOf(bs)) * Weight(p.beats[b])) \div WeightOf(bs)
           /\ \A b, c \in DOMAIN bs : (b # c /\ b # Len(bs) /\ c # Len(bs)) =>
                 /\ (LeastTenths(p, p.beats[b]) + LeastTenths(p, p.beats[c]) + 30) * Tenth <= FloorOf(bs)
                 /\ Weight(p.beats[b]) + Weight(p.beats[c]) + 6 <= WeightOf(bs)
<1> DEFINE n == Len(bs)
           t == FloorOf(bs)
           all == WeightOf(bs)
           L(b) == LeastTenths(p, p.beats[b])
           W(b) == Weight(p.beats[b])
<1>1. /\ n \in 3..5 /\ DOMAIN bs = 1..n /\ n \in DOMAIN bs
      /\ \A b \in DOMAIN bs : bs[b].floor = L(b) * Tenth /\ L(b) \in Nat /\ bs[b].weight = W(b)
  BY PacedBeats
<1>2. W(n) = 6 /\ L(n) = 30 /\ \A b \in DOMAIN bs : W(b) \in Nat
  BY WeightsOf
<1>3. Tenth \in Nat
  BY TimesAre
<1> HIDE DEF L, W
<1>4. PICK f : Summing(Floors(bs), f, n) /\ t = f[n]
  <2>1. Len(bs) \in Nat BY <1>1
  <2>2. QED BY <2>1, FloorOfIs
<1>5. PICK g : Summing(Weights(bs), g, n) /\ all = g[n]
  <2>1. Len(bs) \in Nat BY <1>1
  <2>2. QED BY <2>1, WeightOfIs
<1>6. \A b \in 1..n : Floors(bs)[b] = L(b) * Tenth /\ L(b) * Tenth \in Nat
  BY <1>1, <1>3 DEF Floors
<1>7. \A b \in 1..n : Weights(bs)[b] = W(b) /\ W(b) \in Nat
  BY <1>1, <1>2 DEF Weights
<1> DEFINE vf == Floors(bs)
           vw == Weights(bs)
<1> HIDE DEF n, t, all, vf, vw
<1>8. /\ t \in Nat
      /\ \A a, b, c \in 1..n : (a # b /\ b # c /\ a # c) => vf[a] + (vf[b] + vf[c]) <= t
  <2>1. \A b \in 1..n : vf[b] \in Nat BY <1>6 DEF vf
  <2>2. Summing(vf, f, n) BY <1>4 DEF vf
  <2>3. QED BY <1>1, <1>4, <2>1, <2>2, SumOfFew
<1>9. /\ all \in Nat
      /\ \A a, b, c \in 1..n : (a # b /\ b # c /\ a # c) => vw[a] + (vw[b] + vw[c]) <= all
  <2>1. \A b \in 1..n : vw[b] \in Nat BY <1>7 DEF vw
  <2>2. Summing(vw, g, n) BY <1>5 DEF vw
  <2>3. QED BY <1>1, <1>5, <2>1, <2>2, SumOfFew
<1>10. ASSUME NEW b \in DOMAIN bs, NEW c \in DOMAIN bs, b # c, b # n, c # n
       PROVE  (L(b) + L(c) + 30) * Tenth <= t /\ W(b) + W(c) + 6 <= all
  <2>1. b \in 1..n /\ c \in 1..n /\ n \in 1..n
    BY <1>1
  <2>2. vf[b] + (vf[c] + vf[n]) <= t /\ vw[b] + (vw[c] + vw[n]) <= all
    BY <1>8, <1>9, <1>10, <2>1
  <2>3. vf[b] = L(b) * Tenth /\ vf[c] = L(c) * Tenth /\ vf[n] = 30 * Tenth
        /\ vw[b] = W(b) /\ vw[c] = W(c) /\ vw[n] = 6
    BY <1>2, <1>6, <1>7, <2>1 DEF vf, vw
  <2> DEFINE x == L(b)
             y == L(c)
  <2>4. x \in Nat /\ y \in Nat
    BY <1>1
  <2>5. W(b) \in Nat /\ W(c) \in Nat
    BY <1>2
  <2>6. (x + y + 30) * Tenth = x * Tenth + (y * Tenth + 30 * Tenth)
    <3> HIDE DEF x, y
    <3>1. QED BY <1>3, <2>4
  <2>7. QED BY <1>9, <2>2, <2>3, <2>5, <2>6
<1>11. /\ t <= MaxScene
  BY DEF Paced, t
<1>12. SceneLength(bs) - t = LeftOver(t) /\ SceneLength(bs) = t + LeftOver(t)
  <2>1. SceneLength(bs) = Least(MaxScene, Most(MinScene, t + MinHold))
    BY DEF SceneLength, t
  <2>2. LeftOver(t) = SceneLength(bs) - t
    BY <2>1 DEF LeftOver
  <2>3. 0 \in Nat /\ 0 <= t
    BY <1>8
  <2>4. t + LeftOver(t) = Least(MaxScene, Most(MinScene, t + MinHold))
    BY <1>8, <1>11, <2>3, LeftOverAtMost
  <2>5. QED BY <2>1, <2>2, <2>4
<1>13. ASSUME NEW b \in DOMAIN bs
       PROVE  BeatLength(bs, b) = L(b) * Tenth + (LeftOver(t) * W(b)) \div all
  <2>1. BeatLength(bs, b) = bs[b].floor + ((SceneLength(bs) - t) * bs[b].weight) \div all
    BY DEF BeatLength, t, all, WeightOf
  <2>2. bs[b].floor = L(b) * Tenth /\ bs[b].weight = W(b)
    BY <1>1
  <2>3. QED BY <1>12, <2>1, <2>2
<1>14. QED BY <1>8, <1>9, <1>10, <1>11, <1>12, <1>13 DEF L, W, n, t, all

\* A beat before the conclusion lasts f + x tenths at most, when another one asks for g.
LEMMA LengthAtMost ==
    ASSUME NEW p, NEW goal, NEW bs, Paced(p, goal, bs), NEW b \in DOMAIN bs, NEW c \in DOMAIN bs,
           b # c, b # Len(bs), c # Len(bs), NEW x \in Nat, NEW few \in 14..16,
           few = Weight(p.beats[b]) + Weight(p.beats[c]) + 6,
           30 * Weight(p.beats[b]) <= x * few,
           (90 - LeastTenths(p, p.beats[b]) - LeastTenths(p, p.beats[c])) * Weight(p.beats[b]) <= x * few
    PROVE  /\ BeatLength(bs, b) \in Nat
           /\ BeatLength(bs, b) <= (LeastTenths(p, p.beats[b]) + x) * Tenth
<1> DEFINE f == LeastTenths(p, p.beats[b])
           g == LeastTenths(p, p.beats[c])
           w == Weight(p.beats[b])
           t == FloorOf(bs)
           all == WeightOf(bs)
           q == (LeftOver(t) * w) \div all
<1>1. f \in Nat /\ g \in Nat
  BY PacedBeats
<1>2. w \in 4..5
  BY WeightsOf
<1>3. /\ t \in Nat /\ t <= MaxScene /\ all \in Nat /\ (f + g + 30) * Tenth <= t /\ all >= few
      /\ BeatLength(bs, b) = f * Tenth + q
  <2>1. Weight(p.beats[b]) + Weight(p.beats[c]) + 6 <= all
    BY LengthIs
  <2>2. few \in Nat /\ few <= all
    BY <2>1
  <2>3. all \in Nat
    BY LengthIs
  <2>4. all >= few
    BY <2>2, <2>3
  <2>5. QED BY <2>3, <2>4, LengthIs
<1>4. 30 * w <= x * few /\ (90 - f - g) * w <= x * few
  OBVIOUS
<1> HIDE DEF f, g, w, t, all
<1>5. q \in Nat /\ q <= x * Tenth
  BY <1>1, <1>2, <1>3, <1>4, PaceAtMost
<1> HIDE DEF q
<1>6. Tenth \in Nat
  BY TimesAre
<1>7. f * Tenth \in Nat /\ x * Tenth \in Nat /\ (f + x) * Tenth = f * Tenth + x * Tenth
  BY <1>1, <1>6
<1>8. BeatLength(bs, b) \in Nat /\ BeatLength(bs, b) <= (f + x) * Tenth
  BY <1>3, <1>5, <1>7
<1>9. QED BY <1>8 DEF f

\* The conclusion lasts three seconds and its share; the scene is as long as the probe allows.
LEMMA LastsLong ==
    ASSUME NEW p, NEW goal, NEW bs, Paced(p, goal, bs)
    PROVE  /\ BeatLength(bs, Len(bs)) \in Nat /\ BeatLength(bs, Len(bs)) >= MinHold
           /\ SceneLength(bs) \in MinScene..MaxScene
<1> DEFINE n == Len(bs)
           t == FloorOf(bs)
           all == WeightOf(bs)
           s == LeftOver(t)
           q == (s * 6) \div all
<1>1. n \in DOMAIN bs /\ 1 \in DOMAIN bs /\ 2 \in DOMAIN bs /\ 1 # n /\ 2 # n
  <2>1. n \in 3..5 /\ DOMAIN bs = 1..n
    BY PacedBeats
  <2> HIDE DEF n
  <2>2. QED BY <2>1
<1>2. /\ t \in Nat /\ t <= MaxScene /\ all \in Nat /\ SceneLength(bs) = t + s
      /\ BeatLength(bs, n) = 30 * Tenth + q
      /\ Weight(p.beats[1]) + Weight(p.beats[2]) + 6 <= all
  <2>1. Weight(p.beats[n]) = 6 /\ LeastTenths(p, p.beats[n]) = 30
    BY WeightsOf
  <2>2. t \in Nat /\ t <= MaxScene /\ all \in Nat /\ SceneLength(bs) = t + s
    BY LengthIs
  <2>3. BeatLength(bs, n) = LeastTenths(p, p.beats[n]) * Tenth + (s * Weight(p.beats[n])) \div all
    BY <1>1, LengthIs
  <2>4. Weight(p.beats[1]) + Weight(p.beats[2]) + 6 <= all
    <3> DEFINE b == 1
               c == 2
    <3>1. b # c /\ b \in DOMAIN bs /\ c \in DOMAIN bs /\ b # Len(bs) /\ c # Len(bs)
      BY <1>1
    <3> HIDE DEF b, c
    <3>2. Weight(p.beats[b]) + Weight(p.beats[c]) + 6 <= WeightOf(bs)
      BY <3>1, LengthIs
    <3>3. QED BY <3>2 DEF b, c
  <2> HIDE DEF s, t, all, n
  <2>5. QED BY <2>1, <2>2, <2>3, <2>4
<1>3. Weight(p.beats[1]) \in 4..5 /\ Weight(p.beats[2]) \in 4..5
  BY <1>1, WeightsOf
<1> HIDE DEF t, all, n
<1>4. all > 0
  BY <1>2, <1>3
<1>5. 0 \in Nat /\ 0 <= t
  BY <1>2
<1>6. s \in Nat /\ t + s \in MinScene..MaxScene
  BY <1>2, <1>5, LeftOverAtMost
<1> HIDE DEF s
<1>7. q \in Nat
  <2>1. s * 6 \in Nat
    BY <1>6
  <2> DEFINE r == s * 6
  <2> HIDE DEF r
  <2>2. r \div all \in Nat
    BY <1>2, <1>4, <2>1 DEF r
  <2>3. QED BY <2>2 DEF r
<1> HIDE DEF q
<1>8. Tenth \in Nat /\ MinHold = 30 * Tenth
  BY TimesAre
<1>9. BeatLength(bs, n) \in Nat /\ BeatLength(bs, n) >= MinHold
  BY <1>2, <1>7, <1>8
<1>10. QED BY <1>2, <1>6, <1>9 DEF n

\* The longest a beat before the conclusion may be, in tenths of a second: an action's longest time
\* for each of the slots it is known to have, and the idle time that the gate allows.
Cap(p, beat) ==
    IF Turning(p, beat) THEN 40 * p.primary.iterations + 2
    ELSE IF Eliminates(p, beat) THEN 40 * Couples(p) + 2 ELSE 42

\* The kinds of the beats, by how long they ask for.
LEMMA TenthsOfKind ==
    ASSUME NEW p, NEW beat, beat.kind # "conclude", ValidBeat(beat),
           ~Turning(p, beat), ~Eliminates(p, beat)
    PROVE  \/ LeastTenths(p, beat) = 15 /\ Weight(beat) = 4
           \/ LeastTenths(p, beat) = 20 /\ Weight(beat) = 4
           \/ LeastTenths(p, beat) = 25 /\ Weight(beat) = 5 /\ beat.kind \in {"organize", "derive"}
BY DEF LeastTenths, Weight, ValidBeat

\* Every beat asks for eleven tenths, and for fifteen when it is not a turn.
LEMMA TenthsAtLeast ==
    ASSUME NEW p, NEW goal, Admitted(p, goal), Distinct(p), NEW n \in DOMAIN p.beats,
           p.beats[n].kind # "conclude"
    PROVE  /\ ~Turning(p, p.beats[n]) => LeastTenths(p, p.beats[n]) >= 15
           /\ LeastTenths(p, p.beats[n]) >= 11 /\ LeastTenths(p, p.beats[n]) \in Nat
<1> DEFINE beat == p.beats[n]
           i == p.primary.iterations
           m == Couples(p)
<1>1. ValidBeat(beat)
  BY BeatsOfPlan DEF Admitted
<1>2. CASE Turning(p, beat)
  <2>1. i \in 1..4
    BY <1>2, TurningBeat
  <2>2. LeastTenths(p, beat) = 11 * i
    BY <1>2 DEF LeastTenths
  <2> HIDE DEF i, beat
  <2>3. QED BY <1>2, <2>1, <2>2 DEF beat
<1>3. CASE ~Turning(p, beat) /\ Eliminates(p, beat)
  <2>1. m \in 1..7
    BY <1>3, ValuesOfElimination DEF Eliminates
  <2>2. LeastTenths(p, beat) = Least(26 * m, 120)
    BY <1>3 DEF LeastTenths
  <2> HIDE DEF m, beat
  <2>3. Least(26 * m, 120) \in Nat /\ Least(26 * m, 120) >= 26
    BY <2>1 DEF Least
  <2>4. QED BY <1>3, <2>2, <2>3 DEF beat
<1>4. CASE ~Turning(p, beat) /\ ~Eliminates(p, beat)
  <2> HIDE DEF beat
  <2>1. LeastTenths(p, beat) \in {15, 20, 25}
    BY <1>1, <1>4, TenthsOfKind DEF beat
  <2>2. QED BY <1>4, <2>1 DEF beat
<1>5. QED BY <1>2, <1>3, <1>4

\* An ordinary beat beside another one that asks for fifteen tenths, or for eleven when the two
\* are light enough, is within its cap.
LEMMA OrdinaryCapped ==
    ASSUME NEW p, NEW goal, NEW bs, Paced(p, goal, bs), NEW b \in DOMAIN bs, NEW c \in DOMAIN bs,
           b # c, b # Len(bs), c # Len(bs), ~Turning(p, p.beats[b]), ~Eliminates(p, p.beats[b]),
           Weight(p.beats[b]) = 5 => \/ LeastTenths(p, p.beats[c]) >= 15
                                     \/ Weight(p.beats[c]) = 5
    PROVE  BeatLength(bs, b) \in Nat /\ BeatLength(bs, b) <= 42 * Tenth
<1> DEFINE f == LeastTenths(p, p.beats[b])
           g == LeastTenths(p, p.beats[c])
           w == Weight(p.beats[b])
           v == Weight(p.beats[c])
           few == w + v + 6
           x == 42 - f
<1>1. /\ Admitted(p, goal) /\ Distinct(p) /\ b \in DOMAIN p.beats /\ c \in DOMAIN p.beats
  BY PacedBeats DEF Paced
<1>2. ValidBeat(p.beats[b]) /\ p.beats[b].kind # "conclude" /\ p.beats[c].kind # "conclude"
  BY <1>1, BeatsOfPlan, WeightsOf DEF Admitted
<1>3. (f = 15 /\ w = 4) \/ (f = 20 /\ w = 4) \/ (f = 25 /\ w = 5)
  BY <1>2, TenthsOfKind
<1>4. g \in Nat /\ g >= 11
  BY <1>1, <1>2, TenthsAtLeast
<1>5. v \in 4..5
  BY WeightsOf
<1>6. w = 5 => g >= 15 \/ v = 5
  OBVIOUS
<1> HIDE DEF f, g, w, v
<1>7. x \in Nat /\ few \in 14..16 /\ f + x = 42
  BY <1>3, <1>5
<1>8. 30 * w <= x * few /\ (90 - f - g) * w <= x * few
  <2>1. CASE f = 15 /\ w = 4
    <3>1. x = 27 /\ few \in {14, 15}
      BY <1>5, <2>1
    <3>2. QED BY <1>4, <2>1, <3>1
  <2>2. CASE f = 20 /\ w = 4
    <3>1. x = 22 /\ few \in {14, 15}
      BY <1>5, <2>2
    <3>2. QED BY <1>4, <2>2, <3>1
  <2>3. CASE f = 25 /\ w = 5
    <3>1. x = 17 /\ few = 11 + v
      BY <1>5, <2>3
    <3>2. CASE g >= 15
      <4>1. few \in {15, 16}
        BY <1>5, <3>1
      <4>2. QED BY <1>4, <2>3, <3>1, <3>2, <4>1
    <3>3. CASE v = 5
      <4>1. few = 16
        BY <3>1, <3>3
      <4>2. QED BY <1>4, <2>3, <3>1, <4>1
    <3>4. QED BY <1>6, <2>3, <3>2, <3>3
  <2>4. QED BY <1>3, <2>1, <2>2, <2>3
<1> HIDE DEF x
<1>9. few = Weight(p.beats[b]) + Weight(p.beats[c]) + 6
  BY DEF w, v
<1> HIDE DEF few
<1>10. BeatLength(bs, b) \in Nat /\ BeatLength(bs, b) <= (f + x) * Tenth
  BY <1>7, <1>8, <1>9, LengthAtMost DEF f, g, w
<1>11. QED BY <1>7, <1>10

\* A beat that turns is within its cap.
LEMMA TurningCapped ==
    ASSUME NEW p, NEW goal, NEW bs, Paced(p, goal, bs), NEW b \in DOMAIN bs, NEW c \in DOMAIN bs,
           b # c, b # Len(bs), c # Len(bs), Turning(p, p.beats[b])
    PROVE  BeatLength(bs, b) \in Nat /\ BeatLength(bs, b) <= (40 * p.primary.iterations + 2) * Tenth
<1> DEFINE f == LeastTenths(p, p.beats[b])
           g == LeastTenths(p, p.beats[c])
           w == Weight(p.beats[b])
           v == Weight(p.beats[c])
           i == p.primary.iterations
           few == w + v + 6
           x == 29 * i + 2
<1>1. /\ Admitted(p, goal) /\ Distinct(p) /\ b \in DOMAIN p.beats /\ c \in DOMAIN p.beats
  BY PacedBeats DEF Paced
<1>2. p.beats[c].kind # "conclude"
  BY WeightsOf
<1>3. i \in 1..4 /\ f = 11 * i
  BY <1>1, TurningBeat DEF LeastTenths
<1>4. g \in Nat /\ g >= 11
  BY <1>1, <1>2, TenthsAtLeast
<1>5. v \in 4..5 /\ w \in 4..5
  BY WeightsOf
<1> HIDE DEF f, g, w, v, i
<1>6. x \in Nat /\ few \in 14..16 /\ f + x = 40 * i + 2 /\ x >= 31
  BY <1>3, <1>5
<1>7. x * few >= 434
  <2>1. few \in {14, 15, 16}
    BY <1>6
  <2> HIDE DEF few, x
  <2>2. QED BY <1>6, <2>1
<1>8. 30 * w <= 150 /\ (90 - f - g) * w <= 340
  <2>1. w \in {4, 5} /\ f >= 11 /\ f \in Nat
    BY <1>3, <1>5
  <2>2. QED BY <1>4, <2>1
<1>9. 30 * w <= x * few /\ (90 - f - g) * w <= x * few
  <2>1. x * few \in Int /\ 30 * w \in Int /\ (90 - f - g) * w \in Int
    BY <1>3, <1>4, <1>5, <1>6
  <2>2. QED BY <1>7, <1>8, <2>1
<1> HIDE DEF x
<1>10. few = Weight(p.beats[b]) + Weight(p.beats[c]) + 6
  BY DEF w, v
<1> HIDE DEF few
<1>11. BeatLength(bs, b) \in Nat /\ BeatLength(bs, b) <= (f + x) * Tenth
  BY <1>6, <1>9, <1>10, LengthAtMost DEF f, g, w
<1>12. QED BY <1>6, <1>11 DEF i

\* After the pairs have gone, the value that is left takes focus in a beat of its own.
LEMMA FocusAfter ==
    ASSUME NEW p, NEW goal, Admitted(p, goal), NEW o \in DOMAIN p.beats, Eliminates(p, p.beats[o])
    PROVE  /\ \A b \in DOMAIN p.beats : p.beats[b].kind = "organize" <=> b = o
           /\ p.beats[o].custom = <<>>
           /\ \E b \in DOMAIN p.beats : b # o /\ p.beats[b].kind = "focus"
           /\ \A beat \in Range(p.beats) : \A a \in Range(beat.custom) :
                 a.kind \in {"dim", "emphasize", "restore"} => a.target.visual # p.primary.ref
<1>1. p.strategy = "pair_elimination" /\ p.primary.kind = "ordered_values" /\ p.beats[o].kind = "organize"
  BY StrategyKinds DEF Eliminates
<1>2. PairEliminationShape(p)
  BY DEF Admitted, ValidDocument
<1>3. DOMAIN p.beats = 1..Len(p.beats)
  BY BeatsOfPlan DEF Admitted
<1>4. /\ \E x \in DOMAIN p.beats :
            /\ \A b \in DOMAIN p.beats : p.beats[b].kind = "organize" <=> b = x
            /\ p.beats[x].custom = <<>>
            /\ \E b \in DOMAIN p.beats :
                  b > x /\ p.beats[b].kind = "focus" /\ p.beats[b].targets = <<Middle(p)>>
      /\ \A beat \in Range(p.beats) : \A a \in Range(beat.custom) :
            a.kind \in {"dim", "emphasize", "restore"} => a.target.visual # p.primary.ref
  BY <1>1, <1>2 DEF PairEliminationShape
<1>5. PICK x \in DOMAIN p.beats :
            /\ \A b \in DOMAIN p.beats : p.beats[b].kind = "organize" <=> b = x
            /\ p.beats[x].custom = <<>>
            /\ \E b \in DOMAIN p.beats :
                  b > x /\ p.beats[b].kind = "focus" /\ p.beats[b].targets = <<Middle(p)>>
  BY <1>4
<1>6. x = o
  BY <1>1, <1>5
<1>7. PICK b \in DOMAIN p.beats : b > o /\ p.beats[b].kind = "focus"
  BY <1>5, <1>6
<1>8. b # o
  BY <1>3, <1>7
<1>9. QED BY <1>4, <1>5, <1>6, <1>7, <1>8

\* A beat that eliminates is within its cap.
LEMMA EliminatingCapped ==
    ASSUME NEW p, NEW goal, NEW bs, Paced(p, goal, bs), NEW b \in DOMAIN bs, b # Len(bs),
           Eliminates(p, p.beats[b])
    PROVE  BeatLength(bs, b) \in Nat /\ BeatLength(bs, b) <= (40 * Couples(p) + 2) * Tenth
<1>1. /\ Admitted(p, goal) /\ Distinct(p) /\ DOMAIN p.beats = DOMAIN bs
      /\ \A n \in DOMAIN p.beats : p.beats[n].id # None
  BY PacedBeats, IdsOfBeats DEF Paced
<1>2. p.strategy # "rotation" /\ p.beats[b].kind = "organize" /\ RotationBeat(p) = None
  BY DEF Eliminates, RotationBeat
<1>3. \A n \in DOMAIN p.beats : ~Turning(p, p.beats[n])
  BY <1>1, <1>2 DEF Turning
<1>4. PICK c \in DOMAIN bs : c # b /\ p.beats[c].kind = "focus"
  BY <1>1, FocusAfter
<1>5. c # Len(bs)
  BY <1>4, WeightsOf DEF Weight
<1> DEFINE f == LeastTenths(p, p.beats[b])
           g == LeastTenths(p, p.beats[c])
           w == Weight(p.beats[b])
           v == Weight(p.beats[c])
           m == Couples(p)
           few == w + v + 6
           x == 40 * m + 2 - f
<1>6. g = 20 /\ v = 4
  BY <1>1, <1>3, <1>4 DEF LeastTenths, Weight, Eliminates
<1>7. w = 5
  BY <1>2 DEF Weight
<1>8. m \in 1..7
  BY <1>1, ValuesOfElimination DEF Eliminates
<1>9. f = Least(26 * m, 120)
  BY <1>1, <1>3 DEF LeastTenths
<1> HIDE DEF f, g, w, v, m
<1>10. few = 15
  BY <1>6, <1>7
<1>11. m \in {1, 2, 3, 4, 5, 6, 7}
  BY <1>8
<1>12. x \in Nat /\ f + x = 40 * m + 2 /\ 30 * 5 <= x * 15 /\ (90 - f - 20) * 5 <= x * 15
  BY <1>9, <1>11 DEF Least
<1> HIDE DEF x
<1>13. few \in 14..16 /\ 30 * w <= x * few /\ (90 - f - g) * w <= x * few
  BY <1>6, <1>7, <1>10, <1>12
<1>14. few = Weight(p.beats[b]) + Weight(p.beats[c]) + 6
  BY DEF w, v
<1> HIDE DEF few
<1>15. BeatLength(bs, b) \in Nat /\ BeatLength(bs, b) <= (f + x) * Tenth
  BY <1>4, <1>5, <1>12, <1>13, <1>14, LengthAtMost DEF f, g, w
<1>16. QED BY <1>12, <1>15 DEF m

\* When a single turn leaves another beat short of a third one, the lesson has the one shape.
LEMMA TurnBesides ==
    ASSUME NEW p, NEW goal, NEW bs, Paced(p, goal, bs), ~OneTurnInFocus(p),
           NEW b \in DOMAIN bs, b # Len(bs), Weight(p.beats[b]) = 5,
           ~Turning(p, p.beats[b]), ~Eliminates(p, p.beats[b])
    PROVE  \E c \in DOMAIN bs : /\ b # c /\ c # Len(bs)
                                /\ LeastTenths(p, p.beats[c]) >= 15 \/ Weight(p.beats[c]) = 5
<1> DEFINE n == Len(bs)
<1>1. /\ Admitted(p, goal) /\ Distinct(p) /\ DOMAIN p.beats = DOMAIN bs /\ n \in 3..5 /\ DOMAIN bs = 1..n
      /\ Len(p.beats) = n
  BY PacedBeats DEF Paced
<1>2. \A c \in DOMAIN bs : c # n => p.beats[c].kind # "conclude"
  BY WeightsOf
<1>3. PICK c \in DOMAIN bs : b # c /\ c # n
  <2> HIDE DEF n
  <2>1. b = 1 \/ b # 1
    OBVIOUS
  <2>2. 1 \in DOMAIN bs /\ 2 \in DOMAIN bs /\ 1 # n /\ 2 # n
    BY <1>1
  <2>3. QED BY <2>1, <2>2
<1>4. CASE ~Turning(p, p.beats[c])
  <2>1. LeastTenths(p, p.beats[c]) >= 15
    BY <1>1, <1>2, <1>3, <1>4, TenthsAtLeast
  <2>2. QED BY <1>3, <2>1
<1>5. CASE Turning(p, p.beats[c])
  <2> DEFINE i == p.primary.iterations
  <2>1. /\ p.strategy = "rotation" /\ i \in 1..4 /\ p.beats[c].kind \in {"focus", "derive"}
        /\ \A m \in DOMAIN p.beats : m # c => ~Works(p.beats[m])
    BY <1>1, <1>5, TurningBeat
  <2>2. CASE p.beats[c].kind = "derive"
    <3>1. Weight(p.beats[c]) = 5
      BY <2>2 DEF Weight
    <3>2. QED BY <1>3, <3>1
  <2>3. CASE i # 1
    <3>1. LeastTenths(p, p.beats[c]) = 11 * i
      BY <1>5 DEF LeastTenths
    <3> HIDE DEF i
    <3>2. 11 * i >= 15
      BY <2>1, <2>3
    <3>3. QED BY <1>3, <3>1, <3>2
  <2>4. CASE \E d \in DOMAIN bs : d # b /\ d # c /\ d # n
    <3>1. PICK d \in DOMAIN bs : d # b /\ d # c /\ d # n
      BY <2>4
    <3>2. ~Turning(p, p.beats[d])
      <4>1. \A m \in DOMAIN p.beats : m # c => p.beats[m].id # p.beats[c].id
        BY <1>1, <1>3 DEF Distinct
      <4>2. QED BY <1>1, <1>5, <3>1, <4>1 DEF Turning
    <3>3. LeastTenths(p, p.beats[d]) >= 15
      BY <1>1, <1>2, <3>1, <3>2, TenthsAtLeast
    <3>4. QED BY <3>1, <3>3
  <2>5. CASE p.beats[c].kind = "focus" /\ i = 1 /\ \A d \in DOMAIN bs : d \in {b, c, n}
    <3>1. p.beats[b].kind = "organize"
      <4>1. ~Works(p.beats[b]) /\ p.beats[b].kind # "conclude"
        BY <1>1, <1>2, <1>3, <2>1
      <4>2. p.beats[b].kind \in {"organize", "derive"}
        BY <4>1 DEF Weight
      <4>3. QED BY <4>1, <4>2 DEF Works
    <3>2. p.beats[n].kind = "conclude"
      BY <1>1, LastConcludes
    <3>3. Range(p.beats) = {p.beats[b], p.beats[c], p.beats[n]}
      <4>1. n \in DOMAIN bs
        BY <1>1
      <4>2. QED BY <1>1, <2>5, <4>1 DEF Range
    <3>4. {beat.kind : beat \in Range(p.beats)} = {"organize", "focus", "conclude"}
      BY <2>5, <3>1, <3>2, <3>3
    <3>5. Len(p.beats) = 3
      <4> HIDE DEF n
      <4>1. CASE n = 4
        <5>1. {1, 2, 3, 4} \subseteq DOMAIN bs
          BY <1>1, <4>1
        <5>2. QED BY <1>3, <2>5, <4>1, <5>1
      <4>2. CASE n = 5
        <5>1. {1, 2, 3, 4, 5} \subseteq DOMAIN bs
          BY <1>1, <4>2
        <5>2. QED BY <1>3, <2>5, <4>2, <5>1
      <4>3. QED BY <1>1, <4>1, <4>2
    <3>6. FALSE
      BY <2>1, <2>5, <3>4, <3>5 DEF OneTurnInFocus
    <3>7. QED BY <3>6
  <2>6. QED BY <2>1, <2>2, <2>3, <2>4, <2>5
<1>6. QED BY <1>4, <1>5

\* Every beat before the conclusion is within its cap, but for the one shape of a lesson.
LEMMA LengthCapped ==
    ASSUME NEW p, NEW goal, NEW bs, Paced(p, goal, bs), ~OneTurnInFocus(p),
           NEW b \in DOMAIN bs, b # Len(bs)
    PROVE  BeatLength(bs, b) \in Nat /\ BeatLength(bs, b) <= Cap(p, p.beats[b]) * Tenth
<1>1. PICK c \in DOMAIN bs : b # c /\ c # Len(bs)
  <2> DEFINE n == Len(bs)
  <2>1. n \in 3..5 /\ DOMAIN bs = 1..n
    BY PacedBeats
  <2> HIDE DEF n
  <2>2. 1 \in DOMAIN bs /\ 2 \in DOMAIN bs /\ 1 # n /\ 2 # n /\ (b # 1 \/ b # 2)
    BY <2>1
  <2>3. QED BY <2>2 DEF n
<1>2. CASE Turning(p, p.beats[b])
  BY <1>1, <1>2, TurningCapped DEF Cap
<1>3. CASE ~Turning(p, p.beats[b]) /\ Eliminates(p, p.beats[b])
  BY <1>3, EliminatingCapped DEF Cap
<1>4. CASE ~Turning(p, p.beats[b]) /\ ~Eliminates(p, p.beats[b])
  <2>1. Cap(p, p.beats[b]) = 42
    BY <1>4 DEF Cap
  <2>2. CASE Weight(p.beats[b]) = 5
    <3>1. PICK d \in DOMAIN bs : /\ b # d /\ d # Len(bs)
                                 /\ LeastTenths(p, p.beats[d]) >= 15 \/ Weight(p.beats[d]) = 5
      BY <1>4, <2>2, TurnBesides
    <3>2. BeatLength(bs, b) \in Nat /\ BeatLength(bs, b) <= 42 * Tenth
      BY <1>4, <3>1, OrdinaryCapped
    <3>3. QED BY <2>1, <3>2
  <2>3. CASE Weight(p.beats[b]) # 5
    <3>1. BeatLength(bs, b) \in Nat /\ BeatLength(bs, b) <= 42 * Tenth
      BY <1>1, <1>4, <2>3, OrdinaryCapped
    <3>2. QED BY <2>1, <3>1
  <2>4. QED BY <2>2, <2>3
<1>5. QED BY <1>2, <1>3, <1>4

-----------------------------------------------------------------------------
(* The slots of a beat.                                                     *)

LEMMA Quotient_ ==
    ASSUME NEW a \in Nat, NEW s \in Nat, s > 0
    PROVE  a \div s \in Nat /\ (a \div s) * s <= a /\ a < (a \div s) * s + s
OBVIOUS

LEMMA QuotientIs ==
    ASSUME NEW q \in Nat, NEW r \in Nat, NEW s \in Nat, s > 0, q * s < r * s + s
    PROVE  q <= r
<1>1. SUFFICES ASSUME q >= r + 1 PROVE FALSE
  OBVIOUS
<1>2. q * s >= (r + 1) * s
  BY <1>1
<1>3. (r + 1) * s = r * s + s
  OBVIOUS
<1>4. q * s \in Nat /\ r * s \in Nat
  OBVIOUS
<1>5. QED BY <1>2, <1>3, <1>4

LEMMA QuotientsOrder ==
    ASSUME NEW a \in Nat, NEW b \in Nat, NEW s \in Nat, s > 0, a <= b
    PROVE  a \div s <= b \div s
<1> DEFINE q == a \div s
           r == b \div s
<1>1. q \in Nat /\ r \in Nat /\ q * s <= a /\ b < r * s + s
  BY Quotient_
<1> HIDE DEF q, r
<1>2. q * s \in Nat /\ r * s \in Nat
  BY <1>1
<1>3. q * s < r * s + s
  BY <1>1, <1>2
<1>4. q <= r
  BY <1>1, <1>3, QuotientIs
<1>5. QED BY <1>4 DEF q, r

LEMMA QuotientAfter ==
    ASSUME NEW a \in Nat, NEW s \in Nat, s > 0
    PROVE  (a + s) \div s = a \div s + 1
OBVIOUS

\* Where the k-th of s slots ends among n actions.
Cut(n, s, k) == (k * n) \div s

LEMMA Cuts ==
    ASSUME NEW n \in Nat, NEW s \in 1..n, NEW k \in Nat
    PROVE  /\ Cut(n, s, k) \in Nat /\ Cut(n, s, 0) = 0 /\ Cut(n, s, s) = n
           /\ Cut(n, s, k) + 1 <= Cut(n, s, k + 1)
           /\ \A j \in Nat : j <= k => Cut(n, s, j) <= Cut(n, s, k)
<1>1. s \in Nat /\ s > 0 /\ s <= n
  OBVIOUS
<1>2. \A j \in Nat : j * n \in Nat
  OBVIOUS
<1> DEFINE x == k * n
<1>3. x \in Nat /\ (k + 1) * n = x + n
  OBVIOUS
<1>4. Cut(n, s, k) \in Nat
  <2> HIDE DEF x
  <2>1. x \div s \in Nat
    BY <1>1, <1>3
  <2>2. QED BY <2>1 DEF Cut, x
<1>5. Cut(n, s, 0) = 0
  <2>1. 0 * n = 0 /\ 0 \div s = 0
    BY <1>1
  <2>2. QED BY <2>1 DEF Cut
<1>6. Cut(n, s, s) = n
  <2>1. (s * n) \div s = n
    <3> DEFINE y == s * n
               q == y \div s
    <3>1. y \in Nat /\ y = n * s
      BY <1>1
    <3>2. q \in Nat /\ q * s <= y /\ y < q * s + s
      <4> HIDE DEF y
      <4>1. QED BY <1>1, <3>1, Quotient_
    <3> HIDE DEF y, q
    <3>3. q * s < n * s + s
      <4>1. q * s \in Nat /\ n * s \in Nat
        BY <1>1, <3>2
      <4>2. QED BY <1>1, <3>1, <3>2, <4>1
    <3>4. n * s < q * s + s
      BY <3>1, <3>2
    <3>5. q <= n /\ n <= q
      BY <1>1, <3>2, <3>3, <3>4, QuotientIs
    <3>6. q = n
      BY <3>2, <3>5
    <3>7. QED BY <3>6 DEF q, y
  <2>2. QED BY <2>1 DEF Cut
<1>7. Cut(n, s, k) + 1 <= Cut(n, s, k + 1)
  <2> DEFINE y == x + n
  <2>1. x + s \in Nat /\ y \in Nat /\ x + s <= y
    BY <1>1, <1>3
  <2>2. Cut(n, s, k) = x \div s /\ Cut(n, s, k + 1) = y \div s
    BY <1>3 DEF Cut
  <2> HIDE DEF x, y
  <2>3. (x + s) \div s <= y \div s
    BY <1>1, <2>1, QuotientsOrder
  <2>4. (x + s) \div s = x \div s + 1
    BY <1>1, <1>3, QuotientAfter
  <2>5. QED BY <2>2, <2>3, <2>4
<1>8. ASSUME NEW j \in Nat, j <= k PROVE Cut(n, s, j) <= Cut(n, s, k)
  <2> DEFINE y == j * n
  <2>1. y \in Nat /\ y <= x
    BY <1>8
  <2>2. Cut(n, s, j) = y \div s /\ Cut(n, s, k) = x \div s
    BY DEF Cut
  <2> HIDE DEF x, y
  <2>3. QED BY <1>1, <1>3, <2>1, <2>2, QuotientsOrder
<1>9. QED BY <1>4, <1>5, <1>6, <1>7, <1>8

\* Every action falls in a slot.
LEMMA SlotIs ==
    ASSUME NEW n \in Nat, NEW s \in 1..n, NEW a \in 1..n
    PROVE  LET k == SlotOf(a, n, s)
           IN  k \in 0..(s - 1) /\ Cut(n, s, k) < a /\ a <= Cut(n, s, k + 1)
<1> DEFINE In(k) == (k * n) \div s < a /\ a <= ((k + 1) * n) \div s
           S == {k \in Nat : a <= Cut(n, s, k + 1)}
           m == s - 1
<1>1. m \in Nat /\ m + 1 = s
  OBVIOUS
<1>2. Cut(n, s, s) = n /\ Cut(n, s, 0) = 0
  <2>1. 0 \in Nat OBVIOUS
  <2>2. QED BY <2>1, Cuts
<1>3. m \in S
  BY <1>1, <1>2
<1>4. PICK k \in S : \A j \in S : k <= j
  <2>1. S \subseteq Nat /\ S # {}
    BY <1>3
  <2> HIDE DEF S
  <2>2. QED BY <2>1, LeastNat
<1>5. k \in 0..(s - 1)
  BY <1>1, <1>3, <1>4
<1>6. a <= Cut(n, s, k + 1)
  BY <1>4
<1>7. Cut(n, s, k) < a
  <2>1. CASE k = 0
    BY <1>2, <2>1
  <2>2. CASE k # 0
    <3> DEFINE j == k - 1
    <3>1. j \in Nat /\ j + 1 = k /\ j < k
      BY <1>5, <2>2
    <3>2. j \notin S
      BY <1>4, <3>1
    <3>3. ~(a <= Cut(n, s, k))
      BY <3>1, <3>2
    <3>4. k \in Nat
      BY <1>5
    <3>5. Cut(n, s, k) \in Nat
      BY <3>4, Cuts
    <3>6. QED BY <3>3, <3>5
  <2>3. QED BY <2>1, <2>2
<1>8. \E x \in 0..(s - 1) : In(x)
  BY <1>5, <1>6, <1>7 DEF Cut
<1>9. SlotOf(a, n, s) = CHOOSE x \in 0..(s - 1) : In(x)
  BY DEF SlotOf
<1> HIDE DEF S
<1>10. SlotOf(a, n, s) \in 0..(s - 1) /\ In(SlotOf(a, n, s))
  <2> HIDE DEF In
  <2>1. QED BY <1>8, <1>9
<1>11. QED BY <1>10 DEF Cut

\* An action falls in no other slot.
LEMMA SlotIsOnly ==
    ASSUME NEW n \in Nat, NEW s \in 1..n, NEW a \in 1..n, NEW k \in 0..(s - 1),
           Cut(n, s, k) < a, a <= Cut(n, s, k + 1)
    PROVE  SlotOf(a, n, s) = k
<1> DEFINE j == SlotOf(a, n, s)
<1>1. j \in 0..(s - 1) /\ Cut(n, s, j) < a /\ a <= Cut(n, s, j + 1)
  BY SlotIs
<1> HIDE DEF j
<1>2. j \in Nat /\ k \in Nat /\ j + 1 \in Nat /\ k + 1 \in Nat
  BY <1>1
<1>3. /\ Cut(n, s, j) \in Nat /\ Cut(n, s, k) \in Nat /\ Cut(n, s, j + 1) \in Nat /\ Cut(n, s, k + 1) \in Nat
  BY <1>2, Cuts
<1>4. ~(j < k)
  <2>1. j < k => Cut(n, s, j + 1) <= Cut(n, s, k)
    <3>1. j < k => j + 1 <= k
      BY <1>2
    <3>2. QED BY <1>2, <3>1, Cuts
  <2>2. QED BY <1>1, <1>3, <2>1
<1>5. ~(k < j)
  <2>1. k < j => Cut(n, s, k + 1) <= Cut(n, s, j)
    <3>1. k < j => k + 1 <= j
      BY <1>2
    <3>2. QED BY <1>2, <3>1, Cuts
  <2>2. QED BY <1>1, <1>3, <2>1
<1>6. j = k
  BY <1>2, <1>4, <1>5
<1>7. QED BY <1>6 DEF j

\* The last action falls in the last slot, and one before an action of another slot but the
\* first in the slot before.
LEMMA SlotBefore ==
    ASSUME NEW n \in Nat, NEW s \in 1..n
    PROVE  /\ n \in 1..n /\ SlotOf(n, n, s) = s - 1
           /\ \A a \in 1..n : SlotOf(a, n, s) # 0 =>
                 \E c \in 1..(a - 1) : c \in 1..n /\ SlotOf(c, n, s) = SlotOf(a, n, s) - 1
<1>1. n \in 1..n /\ SlotOf(n, n, s) = s - 1
  <2> DEFINE k == s - 1
  <2>1. k \in 0..(s - 1) /\ k + 1 = s /\ k \in Nat /\ n \in 1..n
    OBVIOUS
  <2>2. Cut(n, s, s) = n /\ Cut(n, s, k) + 1 <= Cut(n, s, k + 1) /\ Cut(n, s, k) \in Nat
    BY <2>1, Cuts
  <2>3. Cut(n, s, k) < n /\ n <= Cut(n, s, k + 1)
    BY <2>1, <2>2
  <2> HIDE DEF k
  <2>4. SlotOf(n, n, s) = k
    BY <2>1, <2>3, SlotIsOnly
  <2>5. QED BY <2>1, <2>4 DEF k
<1>2. ASSUME NEW a \in 1..n, SlotOf(a, n, s) # 0
      PROVE  \E c \in 1..(a - 1) : c \in 1..n /\ SlotOf(c, n, s) = SlotOf(a, n, s) - 1
  <2> DEFINE k == SlotOf(a, n, s)
             j == k - 1
             c == Cut(n, s, k)
  <2>1. k \in 0..(s - 1) /\ c < a /\ a <= Cut(n, s, k + 1)
    BY SlotIs
  <2> HIDE DEF k
  <2>2. k # 0
    BY <1>2 DEF k
  <2>3. j \in Nat /\ j + 1 = k /\ j \in 0..(s - 1) /\ k \in Nat
    BY <2>1, <2>2
  <2>4. Cut(n, s, j) \in Nat /\ Cut(n, s, j) + 1 <= Cut(n, s, j + 1) /\ c \in Nat
    BY <2>3, Cuts
  <2>5. Cut(n, s, j) < c /\ c <= Cut(n, s, j + 1)
    BY <2>3, <2>4
  <2> HIDE DEF c, j
  <2>6. c \in 1..n /\ c \in 1..(a - 1)
    BY <2>1, <2>4, <2>5
  <2>7. SlotOf(c, n, s) = j
    BY <2>3, <2>5, <2>6, SlotIsOnly
  <2>8. QED BY <2>6, <2>7 DEF j, k
<1>3. QED BY <1>1, <1>2

\* Slots of at most an action's longest time and the idle time that the gate allows leave no
\* more than that between one and the next, nor at the end of their beat.
LEMMA GapAtMost ==
    ASSUME NEW l \in Nat, NEW s \in Nat, s > 0, s <= 2 * Tenth, l <= (40 * s + 2) * Tenth,
           NEW q, q = l \div s, NEW d, d = Least(MaxAction, Most(MinAction, q))
    PROVE  /\ q \in Nat /\ d \in Nat
           /\ q - d <= 2 * Tenth /\ l - (s - 1) * q - d <= 2 * Tenth
<1>1. /\ MinAction = 3 * Tenth /\ MaxAction = 40 * Tenth /\ Tenth \in Nat /\ Tenth > 0
  BY TimesAre
<1> HIDE DEF MinAction, MaxAction, Tenth
<1>2. q \in Nat /\ q * s <= l /\ l < q * s + s
  <2> DEFINE r == l \div s
  <2>1. r \in Nat /\ r * s <= l /\ l < r * s + s
    BY Quotient_
  <2> HIDE DEF r
  <2>2. QED BY <2>1 DEF r
<1>3. d \in Nat /\ (d = 40 * Tenth \/ d >= q) /\ (q >= 40 * Tenth => d = 40 * Tenth)
  BY <1>1, <1>2 DEF Least, Most
<1>4. (s - 1) * q = q * s - q /\ q * s \in Nat
  BY <1>2
<1>5. (40 * s + 2) * Tenth = (40 * Tenth) * s + 2 * Tenth
  BY <1>1
<1>6. CASE q >= 40 * Tenth
  <2> DEFINE e == 40 * Tenth
             g == q - e
  <2>1. e \in Nat /\ g \in Nat /\ q = e + g /\ d = e
    BY <1>1, <1>2, <1>3, <1>6
  <2>2. l <= e * s + 2 * Tenth
    BY <1>5
  <2> HIDE DEF e, g
  <2>3. q * s = e * s + g * s /\ e * s \in Nat /\ g * s \in Nat
    BY <2>1
  <2>4. g * s <= 2 * Tenth
    BY <1>1, <1>2, <2>2, <2>3
  <2>5. g <= g * s
    BY <2>1
  <2>6. q - d <= 2 * Tenth
    BY <1>1, <2>1, <2>3, <2>4, <2>5
  <2>7. l - (s - 1) * q - d <= 2 * Tenth
    <3> DEFINE a == e * s
               b == g * s
               z == (s - 1) * q
               y == q * s
    <3>1. z = y - q /\ y \in Nat
      BY <1>4
    <3>2. y = a + b /\ a \in Nat /\ b \in Nat
      BY <2>3
    <3>3. l <= a + 2 * Tenth
      BY <2>2
    <3>4. g <= b
      BY <2>5
    <3> HIDE DEF a, b, z, y
    <3>5. l - z - d <= 2 * Tenth
      BY <1>1, <1>2, <2>1, <3>1, <3>2, <3>3, <3>4
    <3>6. QED BY <3>5 DEF z
  <2>8. QED BY <1>2, <1>3, <2>6, <2>7
<1>7. CASE q < 40 * Tenth
  <2>1. d >= q
    BY <1>1, <1>2, <1>3, <1>7
  <2>2. q - d <= 2 * Tenth
    BY <1>1, <1>2, <1>3, <2>1
  <2>3. l - (s - 1) * q - d <= 2 * Tenth
    <3> DEFINE a == q * s
               z == (s - 1) * q
    <3>1. a \in Nat /\ z = a - q /\ l < a + s
      BY <1>2, <1>4
    <3> HIDE DEF a, z
    <3>2. l - z - d <= 2 * Tenth
      BY <1>1, <1>2, <1>3, <2>1, <3>1
    <3>3. QED BY <3>2 DEF z
  <2>4. QED BY <1>2, <1>3, <2>2, <2>3
<1>8. QED BY <1>1, <1>2, <1>6, <1>7

\* What regrouping asks for is a row at least, when there is something to group.
LEMMA RowsOfGroups ==
    ASSUME NEW p, NEW goal, Admitted(p, goal), p.strategy = "regroup",
           NEW n \in Nat, n > 0, RegroupCells(p.primary) = n
    PROVE  RegroupRows(p.primary) \in Nat /\ RegroupRows(p.primary) > 0
<1> DEFINE v == p.primary
<1>1. CASE v.kind = "grid"
  <2> DEFINE x == LiteralInteger(v.rows)
             y == LiteralInteger(v.columns)
  <2>1. RegroupCells(v) = IF x > 0 /\ y > 0 THEN Product(v.rows, v.columns) ELSE 0
    BY <1>1 DEF RegroupCells
  <2>2. x > 0
    BY <2>1
  <2>3. Product(v.rows, v.columns) # None
    BY <1>1 DEF Admitted, Compatible, RegroupCompatible
  <2>4. x # None
    BY <2>3 DEF Product
  <2>5. v.rows # None => ValidExpression(v.rows)
    BY <1>1, PrimaryFields
  <2>6. x \in Int
    BY <2>4, <2>5, WholeLiteral
  <2>7. RegroupRows(v) = x
    BY <1>1 DEF RegroupRows
  <2> HIDE DEF x, y, v
  <2>8. QED BY <2>2, <2>6, <2>7 DEF v
<1>2. CASE v.kind # "grid"
  <2> DEFINE c == LiteralInteger(v.count)
             m == Least(5, c)
             r == (c + m - 1) \div m
  <2>1. c = n
    BY <1>2 DEF RegroupCells
  <2>2. RegroupRows(v) = r
    BY <1>2 DEF RegroupRows
  <2> HIDE DEF c, v
  <2>3. m \in 1..5 /\ m <= c /\ c \in Nat
    BY <2>1 DEF Least
  <2> DEFINE a == c + m - 1
  <2>4. a \in Nat /\ a >= m
    BY <2>3
  <2>5. a \div m \in Nat /\ a < (a \div m) * m + m
    <3> HIDE DEF a, m
    <3>1. m \in Nat /\ m > 0
      BY <2>3
    <3>2. QED BY <2>4, <3>1, Quotient_
  <2>6. a \div m > 0
    <3> DEFINE q == a \div m
    <3>1. q \in Nat /\ a < q * m + m
      BY <2>5
    <3>2. q = 0 => a < m
      <4> HIDE DEF q, a, m
      <4>1. q = 0 => q * m = 0
        BY <2>3
      <4>2. QED BY <2>3, <2>4, <3>1, <4>1
    <3> HIDE DEF q, a, m
    <3>3. q > 0
      BY <2>3, <2>4, <3>1, <3>2
    <3>4. QED BY <3>3 DEF q
  <2>7. r = a \div m
    OBVIOUS
  <2>8. QED BY <2>2, <2>5, <2>6, <2>7 DEF v
<1>3. QED BY <1>1, <1>2

\* What the expander asks for in slots: nothing, or some; for turns one each, for partners one a pair.
LEMMA SlotsAsked ==
    ASSUME NEW p, NEW goal, Admitted(p, goal), NEW b \in DOMAIN p.beats, NEW x, Listed(x), x # <<>>
    PROVE  /\ Len(x) \in Nat /\ Len(x) > 0
           /\ LET s == SlotCount(p, p.beats[b], x)
              IN  /\ s = None \/ (s \in Nat /\ s > 0)
                  /\ Turning(p, p.beats[b]) => s = Len(x)
                  /\ Eliminates(p, p.beats[b]) => s = (Len(x) + 1) \div 2
<1> DEFINE n == Len(x)
           beat == p.beats[b]
           s == SlotCount(p, beat, x)
<1>1. n \in Nat /\ n > 0
  <2>1. n \in Nat
    BY ListPlaces
  <2>2. n = 0 => x = <<>>
    BY SameList, EmptyList
  <2>3. QED BY <2>1, <2>2
<1>2. beat.id # None
  BY IdsOfBeats
<1> DEFINE others == IF beat.id \in {MagnitudeBeat(p), BridgeBeat(p), PercentBeat(p), RotationBeat(p)}
                     THEN n ELSE None
           grouped == IF RegroupCells(p.primary) = n THEN RegroupRows(p.primary) ELSE None
<1>3. s = IF Eliminates(p, beat) THEN (n + 1) \div 2
          ELSE IF beat.id = RegroupBeat(p) THEN grouped ELSE others
  BY <1>1 DEF SlotCount, Eliminates
<1>4. CASE Eliminates(p, beat)
  <2>1. ~Turning(p, beat)
    <3>1. RotationBeat(p) = None
      BY <1>4 DEF Eliminates, RotationBeat
    <3>2. QED BY <1>2, <3>1 DEF Turning
  <2>2. s = (n + 1) \div 2
    BY <1>3, <1>4
  <2> HIDE DEF s, n, beat
  <2>3. (n + 1) \div 2 \in Nat /\ (n + 1) \div 2 > 0
    BY <1>1
  <2>4. QED BY <1>1, <1>4, <2>1, <2>2, <2>3 DEF s, n, beat
<1>5. CASE ~Eliminates(p, beat) /\ beat.id = RegroupBeat(p)
  <2>1. p.strategy = "regroup"
    BY <1>2, <1>5 DEF RegroupBeat
  <2>2. ~Turning(p, beat)
    <3>1. RotationBeat(p) = None
      BY <2>1 DEF RotationBeat
    <3>2. QED BY <1>2, <3>1 DEF Turning
  <2>3. s = grouped
    BY <1>3, <1>5
  <2>4. s = None \/ (s \in Nat /\ s > 0)
    <3>1. CASE RegroupCells(p.primary) = n
      <4>1. RegroupRows(p.primary) \in Nat /\ RegroupRows(p.primary) > 0
        BY <1>1, <2>1, <3>1, RowsOfGroups
      <4>2. s = RegroupRows(p.primary)
        BY <2>3, <3>1
      <4> HIDE DEF s
      <4>3. QED BY <4>1, <4>2
    <3>2. CASE RegroupCells(p.primary) # n
      BY <2>3, <3>2
    <3>3. QED BY <3>1, <3>2
  <2>5. QED BY <1>1, <1>5, <2>2, <2>4
<1>6. CASE ~Eliminates(p, beat) /\ beat.id # RegroupBeat(p)
  <2>1. s = others
    BY <1>3, <1>6
  <2>2. Turning(p, beat) => s = n
    BY <2>1 DEF Turning
  <2>3. s = None \/ s = n
    BY <2>1
  <2> HIDE DEF s
  <2>4. QED BY <1>1, <1>6, <2>2, <2>3 DEF s
<1>7. QED BY <1>4, <1>5, <1>6

LEMMA FinalIs ==
    ASSUME NEW bs, Listed(bs), Len(bs) \in DOMAIN bs, bs[Len(bs)].actions # <<>>
    PROVE  FinalBeat(bs) = Len(bs)
<1> DEFINE n == Len(bs)
           Final(b) == bs[b].actions # <<>> /\ \A c \in DOMAIN bs : c > b => bs[c].actions = <<>>
<1>1. DOMAIN bs = 1..n /\ n \in Nat
  BY ListPlaces
<1>2. Final(n)
  <2>1. \A c \in DOMAIN bs : ~(c > n)
    BY <1>1
  <2>2. QED BY <2>1
<1>3. \A b \in DOMAIN bs : Final(b) => b = n
  <2>1. ASSUME NEW b \in DOMAIN bs, Final(b) PROVE b = n
    <3>1. ~(n > b)
      BY <2>1
    <3>2. QED BY <1>1, <3>1
  <2>2. QED BY <2>1
<1>4. FinalBeat(bs) = CHOOSE b \in DOMAIN bs : Final(b)
  BY DEF FinalBeat
<1> HIDE DEF Final
<1>5. QED BY <1>2, <1>3, <1>4

\* A beat that plays has at least as many actions as its turns, or as the partners it takes away.
Enough(p, beat, n) ==
    /\ Turning(p, beat) => n >= p.primary.iterations
    /\ Eliminates(p, beat) => n >= 2 * Couples(p)

LEMMA FewestOf ==
    ASSUME NEW n \in Nat, n > 0, NEW s \in Nat, s > 0
    PROVE  Least(n, s) \in 1..n /\ (Least(n, s) = n \/ Least(n, s) = s)
BY DEF Least

\* A beat that acts has slots, no more than its actions: one in the conclusion, and before it
\* as many as its cap reckons with.
LEMMA SlotsAre ==
    ASSUME NEW p, NEW goal, NEW bs, Paced(p, goal, bs), bs[Len(bs)].actions # <<>>,
           NEW b \in DOMAIN bs, bs[b].actions # <<>>, BeatLength(bs, b) \in Nat
    PROVE  /\ Len(bs[b].actions) \in Nat
           /\ SlotsOf(bs, b) \in 1..Len(bs[b].actions)
           /\ b = Len(bs) => SlotsOf(bs, b) = 1
           /\ (b # Len(bs) /\ Enough(p, p.beats[b], Len(bs[b].actions))) =>
                 Cap(p, p.beats[b]) <= 40 * SlotsOf(bs, b) + 2
<1> DEFINE x == bs[b].actions
           n == Len(x)
           beat == p.beats[b]
           c == SlotCount(p, beat, x)
           l == BeatLength(bs, b)
           fitting == Most(1, l \div MinAction)
           asked == IF c = None THEN fitting ELSE c
           s == SlotsOf(bs, b)
<1>1. /\ Listed(bs) /\ Len(bs) \in DOMAIN bs /\ b \in DOMAIN p.beats /\ Listed(x)
      /\ bs[b].slots = c /\ Admitted(p, goal) /\ Distinct(p)
  <2>1. Len(bs) \in 3..5 /\ DOMAIN bs = 1..Len(bs)
    BY PacedBeats
  <2>2. Len(bs) \in DOMAIN bs
    BY <2>1
  <2>3. QED BY <2>2, PacedBeats DEF Paced
<1>2. /\ n \in Nat /\ n > 0 /\ (c = None \/ (c \in Nat /\ c > 0))
      /\ Turning(p, beat) => c = n
      /\ Eliminates(p, beat) => c = (n + 1) \div 2
  BY <1>1, SlotsAsked
<1>3. fitting \in Nat /\ fitting > 0
  <2> DEFINE q == l \div MinAction
  <2>1. MinAction \in Nat /\ MinAction > 0
    BY TimesAre
  <2>2. l \in Nat
    OBVIOUS
  <2> HIDE DEF l
  <2>3. q \in Nat
    BY <2>1, <2>2, Quotient_
  <2> HIDE DEF q
  <2>4. Most(1, q) \in Nat /\ Most(1, q) > 0
    BY <2>3 DEF Most
  <2>5. QED BY <2>4 DEF q
<1>4. asked \in Nat /\ asked > 0
  BY <1>2, <1>3
<1>5. FinalBeat(bs) = Len(bs)
  BY <1>1, FinalIs
<1>6. s = IF b = Len(bs) THEN 1 ELSE Least(n, asked)
  BY <1>1, <1>5 DEF SlotsOf
<1>7. Least(n, asked) \in 1..n
  <2> HIDE DEF n, asked
  <2>1. QED BY <1>2, <1>4, FewestOf
<1>8. s \in 1..n /\ (b = Len(bs) => s = 1) /\ (b # Len(bs) => s = Least(n, asked))
  BY <1>2, <1>6, <1>7
<1>9. ASSUME b # Len(bs), Enough(p, beat, n) PROVE Cap(p, beat) <= 40 * s + 2
  <2>1. CASE Turning(p, beat)
    <3> DEFINE i == p.primary.iterations
    <3>1. i \in 1..4 /\ Cap(p, beat) = 40 * i + 2 /\ n >= i
      BY <1>1, <1>9, <2>1, TurningBeat DEF Cap, Enough
    <3>2. c = n /\ n # None
      BY <1>2, <2>1, NoneAssumption
    <3>3. asked = n
      BY <3>2
    <3> HIDE DEF n, s, i, asked, beat
    <3>4. s = n
      BY <1>2, <1>8, <1>9, <3>3 DEF Least
    <3>5. QED BY <1>2, <3>1, <3>4
  <2>2. CASE ~Turning(p, beat) /\ Eliminates(p, beat)
    <3> DEFINE m == Couples(p)
    <3>1. m \in 1..7 /\ Cap(p, beat) = 40 * m + 2 /\ n >= 2 * m
      BY <1>1, <1>9, <2>2, ValuesOfElimination DEF Cap, Enough, Eliminates
    <3>2. c = (n + 1) \div 2
      BY <1>2, <2>2
    <3> HIDE DEF n, s, m, beat, c
    <3>3. (n + 1) \div 2 \in Nat /\ (n + 1) \div 2 >= m /\ (n + 1) \div 2 <= n
      BY <1>2, <3>1
    <3>4. c # None
      BY <3>2, <3>3, NoneAssumption
    <3>5. asked = c
      BY <3>4
    <3> HIDE DEF asked
    <3>6. s = c
      BY <1>2, <1>8, <1>9, <3>2, <3>3, <3>5 DEF Least
    <3>7. s \in Nat /\ s >= m
      BY <3>2, <3>3, <3>6
    <3>8. QED BY <3>1, <3>7
  <2>3. CASE ~Turning(p, beat) /\ ~Eliminates(p, beat)
    <3>1. Cap(p, beat) = 42
      BY <2>3 DEF Cap
    <3> HIDE DEF n, s, beat
    <3>2. QED BY <1>2, <1>8, <3>1
  <2>4. QED BY <2>1, <2>2, <2>3
<1>10. QED BY <1>2, <1>8, <1>9

-----------------------------------------------------------------------------
(* When the entries of the timeline play.                                   *)

\* How long one slot of a beat takes.
SlotTime(bs, b) == BeatLength(bs, b) \div SlotsOf(bs, b)

\* The slot of the a-th action of a beat.
SlotAt(bs, b, a) == SlotOf(a, Len(bs[b].actions), SlotsOf(bs, b))

\* Each entry begins with its slot, and lasts as long as an action may of it.
OnTime(bs, line, off) ==
    \A b \in DOMAIN bs : \A a \in DOMAIN bs[b].actions :
        /\ line[off[b - 1] + a].at = BeatStart(bs, b) + SlotAt(bs, b, a) * SlotTime(bs, b)
        /\ line[off[b - 1] + a].lasts = Least(MaxAction, Most(MinAction, SlotTime(bs, b)))

LEMMA ScheduleTimes ==
    ASSUME NEW bs, Listed(bs), \A b \in DOMAIN bs : Listed(bs[b].actions), NEW off,
           Played_(bs, Schedule(bs), off)
    PROVE  OnTime(bs, Schedule(bs), off)
<1> DEFINE ss == Acts(bs)
           tt == Timed(bs)
           t == FlattenSeq(tt)
           n == Len(bs)
<1>1. /\ ListOfLists(ss) /\ Len(ss) = n /\ DOMAIN bs = 1..n /\ n \in Nat
      /\ \A b \in DOMAIN bs : ss[b] = bs[b].actions
  BY ActsListed
<1>2. \A b \in 1..n : Listed(tt[b]) /\ Len(tt[b]) = Len(bs[b].actions)
  <2>1. ASSUME NEW b \in 1..n PROVE Listed(tt[b]) /\ Len(tt[b]) = Len(bs[b].actions)
    <3>1. b \in DOMAIN bs /\ Listed(bs[b].actions)
      BY <1>1
    <3>2. QED BY <3>1, EntriesOf
  <2>2. QED BY <2>1
<1>3. Listed(tt) /\ Len(tt) = n
  <2>1. tt = [k \in 1..n |-> tt[k]]
    BY <1>1 DEF Timed
  <2> HIDE DEF tt
  <2>2. QED BY <1>1, <2>1, FunctionIsListed
<1>4. Schedule(bs) = t
  BY ScheduleIs
<1>5. Offsets(ss, off)
  BY DEF Played_
<1> HIDE DEF tt, ss
<1>6. ListOfLists(tt)
  BY <1>2, <1>3 DEF ListOfLists
<1>7. \A b \in 1..n : Len(tt[b]) = Len(ss[b])
  BY <1>1, <1>2
<1>8. Offsets(tt, off)
  BY <1>1, <1>3, <1>5, <1>7 DEF Offsets
<1>9. \A b \in 1..n : \A a \in 1..Len(tt[b]) : t[off[b - 1] + a] = tt[b][a]
  BY <1>3, <1>6, <1>8, FlattenRuns
<1> HIDE DEF t
<1>10. ASSUME NEW b \in DOMAIN bs, NEW a \in DOMAIN bs[b].actions
       PROVE  /\ t[off[b - 1] + a].at = BeatStart(bs, b) + SlotAt(bs, b, a) * SlotTime(bs, b)
              /\ t[off[b - 1] + a].lasts = Least(MaxAction, Most(MinAction, SlotTime(bs, b)))
  <2> DEFINE x == bs[b].actions
             e == Entries(bs, b)
  <2>1. Listed(x) /\ DOMAIN x = 1..Len(x) /\ b \in 1..n
    BY <1>1, ListPlaces
  <2>2. a \in 1..Len(x) /\ x # <<>>
    BY <2>1, EmptyList
  <2>3. tt[b] = e
    BY <2>2 DEF tt, Timed
  <2>4. t[off[b - 1] + a] = e[a]
    BY <1>1, <1>2, <1>9, <2>1, <2>2, <2>3
  <2>5. /\ e[a].at = BeatStart(bs, b) + SlotAt(bs, b, a) * SlotTime(bs, b)
        /\ e[a].lasts = Least(MaxAction, Most(MinAction, SlotTime(bs, b)))
    BY <2>2 DEF Entries, SlotAt, SlotTime
  <2> HIDE DEF e
  <2>6. QED BY <2>4, <2>5
<1>11. QED BY <1>4, <1>10 DEF OnTime

\* Each beat begins when the one before it ends.
LEMMA StartsAre ==
    ASSUME NEW bs, Len(bs) \in 3..5, DOMAIN bs = 1..Len(bs), \A b \in DOMAIN bs : BeatLength(bs, b) \in Nat
    PROVE  /\ BeatStart(bs, 1) = 0 /\ \A b \in DOMAIN bs : BeatStart(bs, b) \in Nat
           /\ \A b \in DOMAIN bs : b # 1 =>
                 b - 1 \in DOMAIN bs /\ BeatStart(bs, b) = BeatStart(bs, b - 1) + BeatLength(bs, b - 1)
<1> DEFINE n == Len(bs)
           v == Lengths(bs)
<1>1. n \in 3..5 /\ n \in Nat /\ DOMAIN bs = 1..n
  OBVIOUS
<1>2. PICK f : Summing(v, f, n)
  BY <1>1, SummingExists
<1>3. \A b \in 1..n : v[b] = BeatLength(bs, b) /\ v[b] \in Nat
  BY DEF Lengths
<1>4. \A b \in 1..n : BeatStart(bs, b) = f[b - 1]
  <2>1. ASSUME NEW b \in 1..n PROVE BeatStart(bs, b) = f[b - 1]
    <3>1. Len(bs) \in Nat /\ b \in 1..Len(bs) /\ Summing(Lengths(bs), f, Len(bs))
      BY <1>1, <1>2
    <3>2. QED BY <3>1, BeatStartIs
  <2>2. QED BY <2>1
<1> HIDE DEF v, n
<1>5. f[0] = 0 /\ (\A k \in 0..n : f[k] \in Nat) /\ \A k \in 1..n : f[k] = f[k - 1] + v[k]
  BY <1>1, <1>2, <1>3, SumOfFew
<1>6. BeatStart(bs, 1) = 0
  <2>1. 1 \in 1..n /\ 1 - 1 = 0
    BY <1>1
  <2>2. QED BY <1>4, <1>5, <2>1
<1>7. ASSUME NEW b \in DOMAIN bs PROVE BeatStart(bs, b) \in Nat
  <2>1. b \in 1..n /\ b - 1 \in 0..n
    BY <1>1
  <2>2. QED BY <1>4, <1>5, <2>1
<1>8. ASSUME NEW b \in DOMAIN bs, b # 1
      PROVE  b - 1 \in DOMAIN bs /\ BeatStart(bs, b) = BeatStart(bs, b - 1) + BeatLength(bs, b - 1)
  <2> DEFINE c == b - 1
  <2>1. b \in 1..n /\ c \in 1..n
    BY <1>1, <1>8
  <2>2. BeatStart(bs, b) = f[c] /\ BeatStart(bs, c) = f[c - 1] /\ f[c] = f[c - 1] + v[c]
        /\ v[c] = BeatLength(bs, c)
    <3>1. BeatStart(bs, b) = f[c]
      BY <1>4, <2>1
    <3> HIDE DEF c
    <3>2. QED BY <1>3, <1>4, <1>5, <2>1, <3>1
  <2>3. QED BY <1>1, <2>1, <2>2
<1>9. QED BY <1>6, <1>7, <1>8

\* The beats of a lesson that every beat plays, with the actions that their slots reckon with.
AllAct(p, bs) ==
    \A b \in DOMAIN bs : bs[b].actions # <<>> /\ Enough(p, p.beats[b], Len(bs[b].actions))

\* A timeline that a scene may have, of beats that all act.
OnSchedule(p, goal, bs, line, off) ==
    /\ Paced(p, goal, bs) /\ AllAct(p, bs)
    /\ Played_(bs, line, off) /\ OnTime(bs, line, off)
    /\ Len(line) <= MaxEntries

LEMMA LengthsOf ==
    ASSUME NEW p, NEW goal, NEW bs, Paced(p, goal, bs), ~OneTurnInFocus(p)
    PROVE  \A b \in DOMAIN bs : BeatLength(bs, b) \in Nat
<1>1. ASSUME NEW b \in DOMAIN bs PROVE BeatLength(bs, b) \in Nat
  <2>1. CASE b = Len(bs)
    <3>1. BeatLength(bs, Len(bs)) \in Nat
      BY LastsLong
    <3>2. QED BY <2>1, <3>1
  <2>2. CASE b # Len(bs)
    BY <2>2, LengthCapped
  <2>3. QED BY <2>1, <2>2
<1>2. QED BY <1>1

\* The entries a scene may have.
LEMMA FewEntries == MaxEntries \in Nat /\ MaxEntries <= 40 /\ MaxEntries <= 2 * Tenth
<1>1. MaxEntries \in Nat /\ MaxEntries <= 40
  BY EntriesAssumption
<1>2. Tenth \in Nat /\ Tenth >= 40
  BY DEF Tenth
<1>3. QED BY <1>1, <1>2

LEMMA FewSlots ==
    ASSUME NEW bs, NEW line, NEW off, Played_(bs, line, off), Listed(bs),
           NEW b \in DOMAIN bs, Listed(bs[b].actions), bs[b].actions # <<>>, Len(line) <= MaxEntries
    PROVE  /\ Len(bs[b].actions) \in Nat /\ Len(bs[b].actions) \in DOMAIN bs[b].actions
           /\ Len(bs[b].actions) <= 2 * Tenth
           /\ DOMAIN bs[b].actions = 1..Len(bs[b].actions)
<1> DEFINE x == bs[b].actions
           n == Len(x)
           o == off[b - 1]
           m == Len(line)
<1>1. n \in Nat /\ DOMAIN x = 1..n
  BY ListPlaces
<1>2. n # 0
  BY SameList, EmptyList
<1>3. n \in DOMAIN x
  BY <1>1, <1>2
<1>4. o \in Nat /\ o + n \in DOMAIN line
  BY <1>3, PlayedBefore
<1>5. m \in Nat /\ DOMAIN line = 1..m
  BY ListPlaces DEF Played_
<1>6. MaxEntries \in Nat /\ MaxEntries <= 2 * Tenth
  BY FewEntries
<1> HIDE DEF x, n, o, m
<1>7. n <= m
  BY <1>1, <1>4, <1>5
<1>8. m <= MaxEntries
  BY DEF m
<1>9. Tenth \in Nat
  BY TimesAre
<1>10. n <= 2 * Tenth
  BY <1>1, <1>5, <1>6, <1>7, <1>8, <1>9
<1>11. QED BY <1>1, <1>3, <1>10 DEF n, x

\* The slots of a beat, and what they leave idle.
LEMMA SlotsFollow ==
    ASSUME NEW p, NEW goal, NEW bs, NEW line, NEW off, OnSchedule(p, goal, bs, line, off),
           ~OneTurnInFocus(p), NEW b \in DOMAIN bs, NEW q, q = SlotTime(bs, b), NEW s, s = SlotsOf(bs, b),
           NEW d, d = Least(MaxAction, Most(MinAction, q)), NEW n, n = Len(bs[b].actions)
    PROVE  /\ n \in Nat /\ s \in 1..n /\ (b = Len(bs) => s = 1)
           /\ DOMAIN bs[b].actions = 1..n
           /\ b # Len(bs) =>
                 /\ q \in Nat /\ d \in Nat
                 /\ q - d <= 2 * Tenth /\ BeatLength(bs, b) - (s - 1) * q - d <= 2 * Tenth
<1> DEFINE l == BeatLength(bs, b)
           beat == p.beats[b]
           e == Cap(p, beat)
<1>1. /\ Paced(p, goal, bs) /\ Played_(bs, line, off) /\ Len(line) <= MaxEntries /\ Listed(bs)
      /\ bs[b].actions # <<>> /\ Listed(bs[b].actions) /\ Enough(p, beat, n)
      /\ Len(bs) \in DOMAIN bs /\ bs[Len(bs)].actions # <<>>
  <2>1. Len(bs) \in 3..5 /\ DOMAIN bs = 1..Len(bs) /\ Listed(bs[b].actions)
    BY PacedBeats DEF OnSchedule
  <2>2. Len(bs) \in DOMAIN bs
    BY <2>1
  <2>3. QED BY <2>1, <2>2 DEF OnSchedule, AllAct, Paced
<1>2. n \in Nat /\ n <= 2 * Tenth /\ DOMAIN bs[b].actions = 1..n
  BY <1>1, FewSlots
<1>3. l \in Nat
  BY <1>1, LengthsOf
<1>4. /\ s \in 1..n /\ (b = Len(bs) => s = 1)
      /\ b # Len(bs) => e <= 40 * s + 2
  BY <1>1, <1>3, SlotsAre
<1>5. ASSUME b # Len(bs)
      PROVE  q \in Nat /\ d \in Nat /\ q - d <= 2 * Tenth /\ l - (s - 1) * q - d <= 2 * Tenth
  <2>1. l <= e * Tenth /\ e <= 40 * s + 2
    BY <1>1, <1>4, <1>5, LengthCapped
  <2>2. e \in Int
    <3>1. /\ Turning(p, beat) => p.primary.iterations \in Int
          /\ Eliminates(p, beat) => Couples(p) \in Int
      <4>1. Admitted(p, goal) /\ Distinct(p) /\ b \in DOMAIN p.beats
        BY <1>1, PacedBeats DEF Paced
      <4>2. Turning(p, beat) => p.primary.iterations \in 1..4
        BY <4>1, TurningBeat
      <4>3. Eliminates(p, beat) => Couples(p) \in 1..7
        BY <4>1, ValuesOfElimination DEF Eliminates
      <4>4. QED BY <4>2, <4>3
    <3> HIDE DEF beat
    <3>2. QED BY <3>1 DEF Cap
  <2>3. Tenth \in Nat
    BY TimesAre
  <2>4. q = l \div s
    BY DEF SlotTime
  <2> HIDE DEF e, l
  <2>5. s \in Nat /\ s > 0 /\ s <= 2 * Tenth
    BY <1>2, <1>4, <2>3
  <2>6. l <= (40 * s + 2) * Tenth
    <3> DEFINE g == 40 * s + 2
    <3>1. g \in Nat /\ e <= g
      BY <2>1, <2>5
    <3> HIDE DEF g
    <3>2. e * Tenth <= g * Tenth
      BY <2>2, <2>3, <3>1
    <3>3. e * Tenth \in Int /\ g * Tenth \in Int
      BY <2>2, <2>3, <3>1
    <3>4. l <= g * Tenth
      BY <1>3, <2>1, <3>2, <3>3
    <3>5. QED BY <3>4 DEF g
  <2>7. QED BY <1>3, <2>4, <2>5, <2>6, GapAtMost
<1>6. QED BY <1>2, <1>4, <1>5

\* An entry comes a fifth of a second at most after the end of one that plays before it.
FollowsAt(line, k) ==
    \E j \in 1..(k - 1) :
        line[k].at - Ends(line[j]) \in Int /\ line[k].at - Ends(line[j]) <= 2 * Tenth

\* The first slot of a beat follows the last slot of the one before.
LEMMA FirstSlotFollows ==
    ASSUME NEW p, NEW goal, NEW bs, NEW line, NEW off, OnSchedule(p, goal, bs, line, off),
           ~OneTurnInFocus(p), NEW b \in DOMAIN bs, NEW a \in DOMAIN bs[b].actions,
           SlotAt(bs, b, a) = 0, b # 1
    PROVE  FollowsAt(line, off[b - 1] + a)
<1> DEFINE c == b - 1
           m == Len(bs[c].actions)
           s == SlotsOf(bs, c)
           q == SlotTime(bs, c)
           d == Least(MaxAction, Most(MinAction, q))
           j == off[c - 1] + m
           k == off[b - 1] + a
           l == BeatLength(bs, c)
<1>1. /\ Paced(p, goal, bs) /\ Played_(bs, line, off) /\ OnTime(bs, line, off) /\ Listed(bs)
      /\ Len(bs) \in 3..5 /\ DOMAIN bs = 1..Len(bs)
  BY PacedBeats DEF OnSchedule, Paced
<1>2. \A x \in DOMAIN bs : BeatLength(bs, x) \in Nat
  BY <1>1, LengthsOf
<1>3. /\ c \in DOMAIN bs /\ BeatStart(bs, b) = BeatStart(bs, c) + l
      /\ BeatStart(bs, b) \in Nat /\ BeatStart(bs, c) \in Nat
  BY <1>1, <1>2, StartsAre
<1>4. c # Len(bs) /\ c < b
  BY <1>1
<1> HIDE DEF c
<1>0. q = SlotTime(bs, c) /\ s = SlotsOf(bs, c) /\ d = Least(MaxAction, Most(MinAction, q))
      /\ m = Len(bs[c].actions) /\ l = BeatLength(bs, c)
  OBVIOUS
<1>5. /\ m \in Nat /\ s \in 1..m /\ DOMAIN bs[c].actions = 1..m
      /\ q \in Nat /\ d \in Nat /\ l - (s - 1) * q - d <= 2 * Tenth
  <2> HIDE DEF q, s, d, m, l
  <2>1. QED BY <1>0, <1>3, <1>4, SlotsFollow
<1>6. m \in DOMAIN bs[c].actions
  BY <1>5
<1>7. SlotAt(bs, c, m) = s - 1
  BY <1>5, SlotBefore DEF SlotAt
<1>8. line[j].at = BeatStart(bs, c) + (s - 1) * q /\ line[j].lasts = d
  BY <1>1, <1>3, <1>6, <1>7 DEF OnTime
<1>9. line[k].at = BeatStart(bs, b)
  <2>1. line[k].at = BeatStart(bs, b) + 0 * SlotTime(bs, b)
    BY <1>1 DEF OnTime
  <2>2. SlotTime(bs, b) \in Int
    <3> DEFINE u == BeatLength(bs, b)
               w == SlotsOf(bs, b)
               n == Len(bs[b].actions)
    <3>1. u \in Nat
      BY <1>2
    <3>2. n \in Nat /\ w \in 1..n
      BY SlotsFollow
    <3> HIDE DEF u, w, n
    <3>3. w \in Nat /\ w > 0
      BY <3>2
    <3>4. u \div w \in Nat
      BY <3>1, <3>3, Quotient_
    <3>5. QED BY <3>4 DEF SlotTime, u, w
  <2>3. QED BY <1>3, <2>1, <2>2
<1>10. j < k /\ j \in DOMAIN line /\ k \in DOMAIN line
  <2>1. a \in DOMAIN bs[b].actions /\ b \in DOMAIN bs
    OBVIOUS
  <2> HIDE DEF m
  <2>2. j \in DOMAIN line /\ k \in DOMAIN line
    BY <1>1, <1>3, <1>6, <2>1, PlayedBefore
  <2>3. j < k
    BY <1>1, <1>3, <1>4, <1>6, <2>1, PlayedBefore
  <2>4. QED BY <2>2, <2>3
<1>11. DOMAIN line = 1..off[Len(bs)] /\ off[Len(bs)] \in Nat
  BY <1>1, <1>3, <1>6, PlayedBefore DEF Played_
<1> HIDE DEF j, k, s, q, d, l
<1>12. j \in 1..(k - 1)
  BY <1>10, <1>11
<1>13. line[k].at - Ends(line[j]) \in Int /\ line[k].at - Ends(line[j]) <= 2 * Tenth
  <2> DEFINE z == (s - 1) * q
             x == BeatStart(bs, c)
             y == BeatStart(bs, b)
  <2>1. z \in Int
    BY <1>5
  <2>2. l - z - d <= 2 * Tenth /\ y = x + l /\ x \in Nat /\ y \in Nat /\ d \in Nat
    BY <1>3, <1>5
  <2>3. line[k].at = y /\ Ends(line[j]) = (x + z) + d
    BY <1>8, <1>9 DEF Ends
  <2>4. l \in Int /\ Tenth \in Int
    BY <1>2, <1>3, TimesAre DEF l
  <2> HIDE DEF x, y, z
  <2>5. y - ((x + z) + d) \in Int /\ y - ((x + z) + d) <= 2 * Tenth
    BY <2>1, <2>2, <2>4
  <2>6. QED BY <2>3, <2>5
<1>14. FollowsAt(line, k)
  BY <1>12, <1>13 DEF FollowsAt
<1>15. QED BY <1>14 DEF k

\* Any other slot follows the one before it.
LEMMA OtherSlotFollows ==
    ASSUME NEW p, NEW goal, NEW bs, NEW line, NEW off, OnSchedule(p, goal, bs, line, off),
           ~OneTurnInFocus(p), NEW b \in DOMAIN bs, NEW a \in DOMAIN bs[b].actions,
           SlotAt(bs, b, a) # 0
    PROVE  FollowsAt(line, off[b - 1] + a)
<1> DEFINE n == Len(bs[b].actions)
           s == SlotsOf(bs, b)
           q == SlotTime(bs, b)
           d == Least(MaxAction, Most(MinAction, q))
           g == SlotAt(bs, b, a)
           k == off[b - 1] + a
<1>1. /\ Paced(p, goal, bs) /\ Played_(bs, line, off) /\ OnTime(bs, line, off) /\ Listed(bs)
      /\ Len(bs) \in 3..5 /\ DOMAIN bs = 1..Len(bs)
  BY PacedBeats DEF OnSchedule, Paced
<1>2. /\ n \in Nat /\ s \in 1..n /\ (b = Len(bs) => s = 1) /\ DOMAIN bs[b].actions = 1..n
      /\ b # Len(bs) => q \in Nat /\ d \in Nat /\ q - d <= 2 * Tenth
  BY SlotsFollow
<1>3. g = SlotOf(a, n, s) /\ a \in 1..n /\ g # 0
  BY <1>2 DEF SlotAt
<1>4. g \in 0..(s - 1)
  BY <1>2, <1>3, SlotIs
<1>5. b # Len(bs)
  <2> HIDE DEF g, s
  <2>1. QED BY <1>2, <1>3, <1>4
<1>6. PICK c \in 1..(a - 1) : c \in 1..n /\ SlotOf(c, n, s) = g - 1
  <2> HIDE DEF g, s, n
  <2>1. \A x \in 1..n : SlotOf(x, n, s) # 0 =>
                 \E c \in 1..(x - 1) : c \in 1..n /\ SlotOf(c, n, s) = SlotOf(x, n, s) - 1
    BY <1>2, SlotBefore
  <2>2. QED BY <1>3, <2>1
<1> DEFINE j == off[b - 1] + c
<1>7. SlotAt(bs, b, c) = g - 1 /\ c \in DOMAIN bs[b].actions
  BY <1>2, <1>6 DEF SlotAt
<1>8. /\ line[j].at = BeatStart(bs, b) + (g - 1) * q /\ line[j].lasts = d
      /\ line[k].at = BeatStart(bs, b) + g * q
  BY <1>1, <1>7 DEF OnTime
<1>9. j \in DOMAIN line /\ k \in DOMAIN line /\ off[b - 1] \in Nat
  BY <1>1, <1>7, PlayedBefore
<1>10. DOMAIN line = 1..off[Len(bs)] /\ off[Len(bs)] \in Nat
  BY <1>1, <1>7, PlayedBefore DEF Played_
<1>11. BeatStart(bs, b) \in Nat
  <2>1. \A x \in DOMAIN bs : BeatLength(bs, x) \in Nat
    BY <1>1, LengthsOf
  <2>2. QED BY <1>1, <2>1, StartsAre
<1>12. j \in 1..(k - 1)
  <2> DEFINE o == off[b - 1]
  <2>1. o \in Nat /\ a \in Nat /\ c \in Nat /\ c < a /\ o + c >= 1
    BY <1>2, <1>3, <1>6, <1>9
  <2> HIDE DEF o
  <2>2. o + c \in 1..((o + a) - 1)
    BY <2>1
  <2>3. QED BY <2>2 DEF o
<1> HIDE DEF j, k, s, q, d, g
<1>13. line[k].at - Ends(line[j]) \in Int /\ line[k].at - Ends(line[j]) <= 2 * Tenth
  <2> DEFINE z == (g - 1) * q
             y == g * q
             x == BeatStart(bs, b)
  <2>1. g \in Nat /\ q \in Nat /\ d \in Nat /\ q - d <= 2 * Tenth
    BY <1>2, <1>4, <1>5
  <2>2. z \in Int /\ y \in Int /\ y = z + q
    BY <2>1
  <2>3. line[k].at = x + y /\ Ends(line[j]) = (x + z) + d
    BY <1>8 DEF Ends
  <2>4. x \in Nat /\ Tenth \in Int
    BY <1>11, TimesAre
  <2> HIDE DEF x, y, z
  <2>5. (x + y) - ((x + z) + d) \in Int /\ (x + y) - ((x + z) + d) <= 2 * Tenth
    BY <2>1, <2>2, <2>4
  <2>6. QED BY <2>3, <2>5
<1>14. FollowsAt(line, k)
  BY <1>12, <1>13 DEF FollowsAt
<1>15. QED BY <1>14 DEF k

LEMMA StartsAtOnce ==
    ASSUME NEW p, NEW goal, NEW bs, NEW line, NEW off, OnSchedule(p, goal, bs, line, off),
           ~OneTurnInFocus(p), NEW b \in DOMAIN bs, NEW a \in DOMAIN bs[b].actions,
           SlotAt(bs, b, a) = 0, b = 1
    PROVE  line[off[b - 1] + a].at = 0
<1>1. /\ Paced(p, goal, bs) /\ OnTime(bs, line, off) /\ Len(bs) \in 3..5 /\ DOMAIN bs = 1..Len(bs)
  BY PacedBeats DEF OnSchedule
<1>2. \A x \in DOMAIN bs : BeatLength(bs, x) \in Nat
  BY <1>1, LengthsOf
<1>3. BeatStart(bs, 1) = 0
  BY <1>1, <1>2, StartsAre
<1> DEFINE l == BeatLength(bs, b)
           s == SlotsOf(bs, b)
           q == SlotTime(bs, b)
           d == Least(MaxAction, Most(MinAction, q))
           n == Len(bs[b].actions)
<1>4. q = SlotTime(bs, b) /\ s = SlotsOf(bs, b) /\ d = Least(MaxAction, Most(MinAction, q))
      /\ n = Len(bs[b].actions) /\ l \in Nat /\ q = l \div s
  BY <1>2 DEF SlotTime
<1> HIDE DEF q, s, d, n, l
<1>5. n \in Nat /\ s \in 1..n
  BY <1>4, SlotsFollow
<1>6. s \in Nat /\ s > 0
  BY <1>5
<1>7. q \in Int
  BY <1>4, <1>6
<1>8. line[off[b - 1] + a].at = BeatStart(bs, b) + 0 * q
  BY <1>1, <1>4 DEF OnTime
<1>9. 0 * q = 0
  BY <1>7
<1>10. BeatStart(bs, b) = 0
  BY <1>3
<1>11. QED BY <1>8, <1>9, <1>10

\* When every beat acts, nothing stands still for longer than the gate allows.
LEMMA NothingIdle ==
    ASSUME NEW p, NEW goal, NEW bs, NEW program_, NEW off,
           OnSchedule(p, goal, bs, program_.timeline, off), ~OneTurnInFocus(p)
    PROVE  NoIdleTime(program_)
<1> DEFINE line == program_.timeline
<1>1. ASSUME NEW k \in DOMAIN line PROVE line[k].at = 0 \/ FollowsAt(line, k)
  <2>1. Played_(bs, line, off)
    BY DEF OnSchedule
  <2> HIDE DEF line
  <2>2. PICK b \in DOMAIN bs : \E a \in DOMAIN bs[b].actions : k = off[b - 1] + a
    BY <1>1, <2>1 DEF Played_
  <2>3. PICK a \in DOMAIN bs[b].actions : k = off[b - 1] + a
    BY <2>2
  <2>4. OnSchedule(p, goal, bs, line, off)
    BY DEF line
  <2>5. CASE SlotAt(bs, b, a) # 0
    BY <2>3, <2>4, <2>5, OtherSlotFollows
  <2>6. CASE SlotAt(bs, b, a) = 0 /\ b # 1
    BY <2>3, <2>4, <2>6, FirstSlotFollows
  <2>7. CASE SlotAt(bs, b, a) = 0 /\ b = 1
    BY <2>3, <2>4, <2>7, StartsAtOnce
  <2>8. QED BY <2>5, <2>6, <2>7
<1>2. \A x \in Int : x <= 2 * Tenth => x <= 250000
  BY SMT DEF Tenth
<1>3. 0 <= 250000
  BY SMT
<1>4. QED BY <1>1, <1>2, <1>3, SMT DEF NoIdleTime, FollowsAt

\* The beat that acts last is the conclusion, and all of it holds to the end.
LEMMA ConclusionHolds ==
    ASSUME NEW p, NEW goal, NEW bs, NEW program_, NEW off, Paced(p, goal, bs),
           Played_(bs, program_.timeline, off), OnTime(bs, program_.timeline, off),
           bs[Len(bs)].actions # <<>>, FitsScene(program_.timeline, program_.total)
    PROVE  ConclusionHold(program_)
<1> DEFINE line == program_.timeline
           n == Len(bs)
           x == bs[n].actions
           l == BeatLength(bs, n)
           s == SlotsOf(bs, n)
           q == SlotTime(bs, n)
           d == Least(MaxAction, Most(MinAction, q))
<1>1. /\ n \in 3..5 /\ DOMAIN bs = 1..n /\ n \in DOMAIN bs /\ Listed(bs) /\ Listed(x)
      /\ DOMAIN p.beats = DOMAIN bs /\ \A b \in DOMAIN bs : bs[b].id = p.beats[b].id
  <2>1. /\ n \in 3..5 /\ DOMAIN bs = 1..n
        /\ \A b \in DOMAIN bs : Listed(bs[b].actions)
    BY PacedBeats
  <2> HIDE DEF n
  <2>2. n \in DOMAIN bs
    BY <2>1
  <2>3. Listed(x)
    BY <2>1, <2>2
  <2>4. Listed(bs)
    BY DEF Paced
  <2>5. DOMAIN p.beats = DOMAIN bs /\ \A b \in DOMAIN bs : bs[b].id = p.beats[b].id
    BY PacedBeats
  <2>6. QED BY <2>1, <2>2, <2>3, <2>4, <2>5
<1>2. Len(x) \in Nat /\ DOMAIN x = 1..Len(x) /\ Len(x) # 0
  BY <1>1, ListPlaces, SameList, EmptyList
<1>3. Len(x) \in DOMAIN x
  BY <1>2
<1>4. line[Len(line)].beat = bs[n].id
  <2>1. Len(line) = off[n] /\ off[n] = off[n - 1] + Len(Acts(bs)[n]) /\ Acts(bs)[n] = x
    <3>1. \A b \in DOMAIN bs : Listed(bs[b].actions)
      BY PacedBeats
    <3>2. Len(Acts(bs)) = n /\ Acts(bs)[n] = x
      BY <1>1, <3>1, ActsListed
    <3>3. Len(line) = off[n] /\ Offsets(Acts(bs), off)
      BY DEF Played_
    <3>4. n \in 1..Len(Acts(bs))
      BY <1>1, <3>2
    <3>5. QED BY <3>2, <3>3, <3>4 DEF Offsets
  <2>2. line[off[n - 1] + Len(x)].beat = bs[n].id
    BY <1>1, <1>3 DEF Played_
  <2>3. QED BY <2>1, <2>2
<1>5. l \in Nat /\ l >= MinHold
  BY LastsLong
<1>6. s = 1
  BY <1>1, <1>5, SlotsAre
<1>7. q = l
  <2> HIDE DEF l, s
  <2>1. l \div 1 = l
    BY <1>5
  <2>2. QED BY <1>6, <2>1 DEF SlotTime, l, s
<1>8. d >= MinHold
  <2>1. /\ MinAction = 3 * Tenth /\ MaxAction = 40 * Tenth /\ MinHold = 30 * Tenth
        /\ Tenth \in Nat /\ Tenth > 0
    BY TimesAre
  <2> HIDE DEF MinAction, MaxAction, MinHold, Tenth, q, l
  <2>2. QED BY <1>5, <1>7, <2>1 DEF Least, Most
<1>9. ASSUME NEW e \in Range(line), e.beat = bs[n].id
      PROVE  e.lasts >= MinHold /\ Ends(e) <= program_.total
  <2>1. PICK k \in DOMAIN line : e = line[k]
    BY DEF Range
  <2>2. PICK b \in DOMAIN bs : \E a \in DOMAIN bs[b].actions : k = off[b - 1] + a
    BY <2>1 DEF Played_
  <2>3. PICK a \in DOMAIN bs[b].actions : k = off[b - 1] + a
    BY <2>2
  <2>4. e.beat = bs[b].id
    BY <2>1, <2>3 DEF Played_
  <2>5. b = n
    <3>1. b \in DOMAIN p.beats /\ n \in DOMAIN p.beats /\ p.beats[b].id = p.beats[n].id
      BY <1>1, <1>9, <2>4
    <3>2. Distinct(p)
      BY DEF Paced
    <3> HIDE DEF n
    <3>3. QED BY <3>1, <3>2 DEF Distinct
  <2>6. e.lasts = d
    BY <2>1, <2>3, <2>5 DEF OnTime
  <2>7. Ends(e) <= program_.total
    BY DEF FitsScene
  <2>8. QED BY <1>8, <2>6, <2>7
<1>10. QED BY <1>4, <1>9 DEF ConclusionHold

-----------------------------------------------------------------------------
(* Before the pairs go, no value has faded on the books.                    *)

Bright(p, b) ==
    /\ Booked(b)
    /\ \A t \in DOMAIN b.roles : t.visual = p.primary.ref => b.roles[t] # "neutral"

\* A change that does not fade a value.
Brightens(p, t, role) == t.visual # p.primary.ref \/ role # "neutral"

\* The same books, but for the change of one role.
Restyles(p, b, d, t, role) ==
    /\ Booked(d) /\ d.roles = Changed(p, b, t, role)
    /\ d.actions = b.actions \o <<SetRole(t, role)>>

LEMMA RestyledBooks ==
    ASSUME NEW p, NEW b, Booked(b), NEW t, NEW role
    PROVE  Restyles(p, b, Restyle(p, b, t, role), t, role)
<1> DEFINE x == <<SetRole(t, role)>>
           e == Emit(b, x)
           d == Restyle(p, b, t, role)
           R == Changed(p, b, t, role)
           y == b.actions \o x
<1>1. Booked(e) /\ e.actions = y
  <2>1. e = [b EXCEPT !.actions = y]
    BY DEF Emit
  <2> HIDE DEF e, y
  <2>2. QED BY <2>1, ActionsWritten
<1>2. d.actions = y /\ d.roles = R /\ Booked(d)
  <2>1. d = [e EXCEPT !.roles = R]
    BY DEF Restyle, Changed
  <2> HIDE DEF d, e, R, y
  <2>2. QED BY <1>1, <2>1, RolesWritten
<1>3. QED BY <1>2 DEF Restyles

LEMMA BrightByRoles ==
    ASSUME NEW p, NEW b, NEW d, Bright(p, b), Booked(d), d.roles = b.roles
    PROVE  Bright(p, d)
BY DEF Bright

LEMMA ChangedAre ==
    ASSUME NEW p, NEW b, NEW t, NEW role, NEW u \in DOMAIN Changed(p, b, t, role)
    PROVE  IF u = t THEN Changed(p, b, t, role)[u] = role
           ELSE u \in DOMAIN b.roles /\ Changed(p, b, t, role)[u] = b.roles[u]
BY DEF Changed, Entered, Restrict

LEMMA BrightRestyle ==
    ASSUME NEW p, NEW b, Bright(p, b), NEW t, NEW role, Brightens(p, t, role)
    PROVE  Bright(p, Restyle(p, b, t, role))
<1> DEFINE d == Restyle(p, b, t, role)
           R == Changed(p, b, t, role)
<1>1. Restyles(p, b, d, t, role)
  BY RestyledBooks DEF Bright
<1> HIDE DEF d
<1>2. Booked(d) /\ d.roles = R
  BY <1>1 DEF Restyles
<1>3. \A u \in DOMAIN R : IF u = t THEN R[u] = role ELSE u \in DOMAIN b.roles /\ R[u] = b.roles[u]
  BY ChangedAre
<1> HIDE DEF R
<1>4. ASSUME NEW u \in DOMAIN d.roles, u.visual = p.primary.ref PROVE d.roles[u] # "neutral"
  BY <1>2, <1>3, <1>4 DEF Bright, Brightens
<1>5. Bright(p, d)
  BY <1>2, <1>4 DEF Bright
<1>6. QED BY <1>5 DEF d

LEMMA BrightChange ==
    ASSUME NEW p, NEW b, Bright(p, b), NEW t, NEW role, Brightens(p, t, role)
    PROVE  Bright(p, RoleChange(p, b, t, role))
<1>1. Bright(p, Restyle(p, b, t, role))
  BY BrightRestyle
<1>2. QED BY <1>1 DEF RoleChange

LEMMA BrightChanges ==
    ASSUME NEW p, NEW b, Bright(p, b), NEW targets, Listed(targets), NEW role, role # "neutral"
    PROVE  Bright(p, RoleChanges(p, b, targets, role))
<1> DEFINE f == CHOOSE f : Changing(p, b, targets, role, f, Len(targets))
<1>0. Len(targets) \in Nat
  BY ListPlaces
<1>1. Changing(p, b, targets, role, f, Len(targets))
  BY <1>0, ChangingExists
<1>2. RoleChanges(p, b, targets, role) = f[Len(targets)]
  BY DEF RoleChanges, Changing
<1> HIDE DEF f
<1>3. \A k \in 0..Len(targets) :
         f[k] = IF k = 0 THEN b ELSE RoleChange(p, f[k - 1], targets[k], role)
  BY <1>1 DEF Changing
<1> DEFINE S == {n \in Nat : n <= Len(targets) => Bright(p, f[n])}
<1>4. 0 \in S
  <2>1. 0 \in 0..Len(targets)
    BY <1>0
  <2>2. f[0] = b
    BY <1>3, <2>1
  <2>3. QED BY <2>2
<1>5. ASSUME NEW n \in Nat, n \in S PROVE n + 1 \in S
  <2>1. SUFFICES ASSUME n + 1 <= Len(targets) PROVE Bright(p, f[n + 1])
    OBVIOUS
  <2>2. Bright(p, f[n])
    BY <1>0, <1>5, <2>1
  <2> HIDE DEF S
  <2>3. n + 1 \in 0..Len(targets) /\ n + 1 # 0 /\ (n + 1) - 1 = n
    BY <1>0, <2>1
  <2>4. f[n + 1] = RoleChange(p, f[n], targets[n + 1], role)
    BY <1>3, <2>3
  <2>5. Bright(p, RoleChange(p, f[n], targets[n + 1], role))
    BY <2>2, BrightChange DEF Brightens
  <2>6. QED BY <2>4, <2>5
<1>6. Len(targets) \in S
  <2> HIDE DEF S
  <2>1. QED BY <1>0, <1>4, <1>5, NatInd
<1>7. QED BY <1>0, <1>2, <1>6

LEMMA BrightEmit ==
    ASSUME NEW p, NEW b, Bright(p, b), NEW x
    PROVE  Bright(p, Emit(b, x))
<1> DEFINE d == Emit(b, x)
           y == b.actions \o x
<1>1. d = [b EXCEPT !.actions = y]
  BY DEF Emit
<1> HIDE DEF d, y
<1>2. Booked(d) /\ d.roles = b.roles
  BY <1>1, ActionsWritten DEF Bright
<1>3. Bright(p, d)
  BY <1>2, BrightByRoles
<1>4. QED BY <1>3 DEF d

LEMMA BrightCallout ==
    ASSUME NEW p, NEW b, Bright(p, b), NEW ref, NEW t, NEW anchor
    PROVE  Bright(p, Callout(b, ref, t, anchor))
<1> DEFINE e == Emit(b, <<ShowRelation(ref)>>)
           d == Callout(b, ref, t, anchor)
           y == Append(e.relations, [ref |-> ref, target |-> t, anchor |-> anchor])
<1>1. Bright(p, e)
  BY BrightEmit
<1>2. d = [e EXCEPT !.relations = y]
  BY DEF Callout
<1> HIDE DEF d, e, y
<1>3. Booked(d) /\ d.roles = e.roles
  BY <1>1, <1>2, RelationsWritten DEF Bright
<1>4. Bright(p, d)
  BY <1>1, <1>3, BrightByRoles
<1>5. QED BY <1>4 DEF d

LEMMA BrightReveal ==
    ASSUME NEW p, NEW b, Bright(p, b), NEW targets, NEW mode
    PROVE  Bright(p, RevealUnrevealed(p, b, targets, mode))
<1> DEFINE x == Pending(p, b, targets)
           e == Emit(b, <<Reveal(x, mode)>>)
           d == [e EXCEPT !.revealed = @ \cup Range(x)]
           y == e.revealed \cup Range(x)
<1>1. RevealUnrevealed(p, b, targets, mode) = IF x = <<>> THEN b ELSE d
  BY DEF RevealUnrevealed, Pending
<1>2. Bright(p, e)
  BY BrightEmit
<1>3. d = [e EXCEPT !.revealed = y]
  OBVIOUS
<1> HIDE DEF d, e, x, y
<1>4. Booked(d) /\ d.roles = e.roles
  BY <1>2, <1>3, RevealedWritten DEF Bright
<1>5. Bright(p, d)
  BY <1>2, <1>4, BrightByRoles
<1>6. QED BY <1>1, <1>5

\* An action of the author's that does not fade a value.
SparesValues(p, a) ==
    a.kind \in CustomKinds /\ (a.kind \in {"dim", "emphasize", "restore"} => a.target.visual # p.primary.ref)

LEMMA BrightAside ==
    ASSUME NEW p, NEW b, Bright(p, b), NEW saved, NEW t, NEW role, t.visual # p.primary.ref
    PROVE  Bright(p, Restyle(p, [b EXCEPT !.saved = saved], t, role))
<1> DEFINE e == [b EXCEPT !.saved = saved]
<1>1. Booked(e) /\ e.roles = b.roles
  BY SavedWritten DEF Bright
<1> HIDE DEF e
<1>2. Bright(p, e)
  BY <1>1, BrightByRoles
<1>3. Bright(p, Restyle(p, e, t, role))
  BY <1>2, BrightRestyle DEF Brightens
<1>4. QED BY <1>3 DEF e

LEMMA BrightCustom ==
    ASSUME NEW p, NEW b, Bright(p, b), NEW a, SparesValues(p, a), NEW ref
    PROVE  Bright(p, CustomAction(p, b, a, ref))
<1>1. CASE a.kind = "reveal"
  <2>1. Bright(p, RevealUnrevealed(p, b, a.targets, a.mode))
    BY BrightReveal
  <2>2. QED BY <1>1, <2>1 DEF CustomAction
<1>2. CASE a.kind = "emphasize"
  <2>1. Bright(p, Restyle(p, b, a.target, a.role))
    BY <1>2, BrightRestyle DEF SparesValues, Brightens
  <2>2. QED BY <1>2, <2>1 DEF CustomAction
<1>3. CASE a.kind = "dim"
  <2>1. a.target.visual # p.primary.ref
    BY <1>3 DEF SparesValues
  <2>2. Bright(p, Dimmed(p, b, a.target))
    BY <2>1, BrightAside DEF Dimmed
  <2>3. QED BY <1>3, <2>2 DEF CustomAction
<1>4. CASE a.kind = "restore"
  <2> DEFINE sv == Restrict(b.saved, DOMAIN b.saved \ {a.target})
             r == EntryOf(b.saved, a.target, InitialRoles(p)[Whole(a.target.visual)])
  <2>1. a.target.visual # p.primary.ref
    BY <1>4 DEF SparesValues
  <2>2. Restored(p, b, a.target) = Restyle(p, [b EXCEPT !.saved = sv], a.target, r)
    BY DEF Restored
  <2> HIDE DEF sv, r
  <2>3. Bright(p, Restored(p, b, a.target))
    BY <2>1, <2>2, BrightAside
  <2>4. QED BY <1>4, <2>3 DEF CustomAction
<1>5. CASE a.kind = "callout"
  <2>1. Bright(p, Callout(b, ref, a.target, a.anchor))
    BY BrightCallout
  <2>2. QED BY <1>5, <2>1 DEF CustomAction
<1>6. CASE a.kind = "trace"
  <2>1. Bright(p, Emit(b, <<Trace(a.path)>>))
    BY BrightEmit
  <2>2. QED BY <1>6, <2>1 DEF CustomAction
<1>7. CASE a.kind \in {"draw", "transform", "move"}
  <2>1. Bright(p, Emit(b, <<Drawing(a)>>))
    BY BrightEmit
  <2>2. QED BY <1>7, <2>1 DEF CustomAction
<1>8. QED BY <1>1, <1>2, <1>3, <1>4, <1>5, <1>6, <1>7 DEF SparesValues, CustomKinds

\* What each of the author's actions keeps, their sequence keeps.
LEMMA BrightCustoms ==
    ASSUME NEW p, NEW b, Bright(p, b), NEW n, Listed(p.beats[n].custom),
           \A a \in Range(p.beats[n].custom) : SparesValues(p, a)
    PROVE  Bright(p, CustomActions(p, b, n))
<1> DEFINE c == p.beats[n].custom
           f == CHOOSE f : Customizing(p, b, c, n, f, Len(c))
<1>0. Len(c) \in Nat /\ \A k \in 1..Len(c) : SparesValues(p, c[k])
  BY ListPlaces
<1>1. Customizing(p, b, c, n, f, Len(c))
  BY <1>0, CustomizingExists
<1>2. CustomActions(p, b, n) = f[Len(c)]
  BY DEF CustomActions, Customizing
<1> HIDE DEF f, c
<1>3. \A k \in 0..Len(c) :
         f[k] = IF k = 0 THEN b ELSE CustomAction(p, f[k - 1], c[k], CalloutRef("callout", n, k))
  BY <1>1 DEF Customizing
<1> DEFINE S == {m \in Nat : m <= Len(c) => Bright(p, f[m])}
<1>4. 0 \in S
  <2>1. 0 \in 0..Len(c)
    BY <1>0
  <2>2. f[0] = b
    BY <1>3, <2>1
  <2>3. QED BY <2>2
<1>5. ASSUME NEW m \in Nat, m \in S PROVE m + 1 \in S
  <2>1. SUFFICES ASSUME m + 1 <= Len(c) PROVE Bright(p, f[m + 1])
    OBVIOUS
  <2>2. Bright(p, f[m])
    BY <1>0, <1>5, <2>1
  <2> HIDE DEF S
  <2> DEFINE ref == CalloutRef("callout", n, m + 1)
  <2>3. m + 1 \in 0..Len(c) /\ m + 1 # 0 /\ (m + 1) - 1 = m /\ m + 1 \in 1..Len(c)
    BY <1>0, <2>1
  <2>4. f[m + 1] = CustomAction(p, f[m], c[m + 1], ref)
    BY <1>3, <2>3
  <2>5. SparesValues(p, c[m + 1])
    BY <1>0, <2>3
  <2>6. Bright(p, CustomAction(p, f[m], c[m + 1], ref))
    BY <2>2, <2>5, BrightCustom
  <2>7. QED BY <2>4, <2>6
<1>6. Len(c) \in S
  <2> HIDE DEF S
  <2>1. QED BY <1>0, <1>4, <1>5, NatInd
<1>7. QED BY <1>0, <1>2, <1>6

-----------------------------------------------------------------------------
(* A beat of a lesson that takes away pairs.                                *)

\* What the kind of such a beat does.
Plain(p, b, beat) == IF beat.kind \in {"orient", "reveal"} THEN b ELSE Ordinary(p, b, beat)

PairKind(p, n, b) == NeverIdle(p, Plain(p, Named(p, Fresh(b), p.beats[n]), p.beats[n]), p.beats[n])

LEMMA PlainBeat ==
    ASSUME NEW p, NEW goal, Admitted(p, goal), p.strategy = "pair_elimination",
           NEW n \in DOMAIN p.beats, NEW b
    PROVE  ExpandBeat(p, goal, b, n) = CustomActions(p, PairKind(p, n, b), n)
<1> DEFINE beat == p.beats[n]
           id == beat.id
           g == Named(p, Fresh(b), beat)
           k == KindActions(p, g, beat)
<1>1. id # None /\ Listed(p.beats)
  BY IdsOfBeats, PrimaryRef
<1>2. /\ StagedPair(p, "inverse_operation")[1] # id /\ StagedPair(p, "inverse_operation")[2] # id
      /\ StagedPair(p, "ray_shade")[1] # id /\ StagedPair(p, "ray_shade")[2] # id
      /\ RegroupBeat(p) # id /\ MagnitudeBeat(p) # id /\ HopBeat(p) # id /\ DistanceBeat(p) # id
      /\ AlignBeat(p) # id /\ BridgeBeat(p) # id /\ PercentBeat(p) # id /\ RotationBeat(p) # id
      /\ LabelBeat(p) # id /\ TraceBeat(p) # id /\ WorkBeat(p, goal) # id
  <2>1. StagedPair(p, "ray_shade")[1] # id /\ StagedPair(p, "ray_shade")[2] # id
    BY <1>1, PairSelected
  <2> HIDE DEF id
  <2>2. id = p.beats[n].id
    BY DEF id
  <2>3. QED BY <2>1, <2>2, SelectedBeat DEF UnitStrategy, Declared
<1> HIDE DEF id, g
<1>3. k = Plain(p, g, beat)
  BY <1>2 DEF KindActions, Plain, id
<1> HIDE DEF k
<1>4. RayParts(p, k, beat) = k
  BY <1>2 DEF RayParts, id
<1>5. Traced(p, k, beat) = k /\ UnitNamed(p, k, beat) = k
  BY <1>2 DEF Traced, UnitNamed, id
<1> DEFINE d == CustomActions(p, NeverIdle(p, k, beat), n)
<1>6. Posed(p, d, n) = d
  BY DEF Posed, Declared
<1>7. WorkedOut(p, goal, d, beat) = d
  BY <1>2 DEF WorkedOut, id
<1>8. ExpandBeat(p, goal, b, n) = Finished(p, goal, n, g)
  BY ExpandBeatIs DEF g
<1>9. Finished(p, goal, n, g) =
         WorkedOut(p, goal, Posed(p, CustomActions(p, NeverIdle(p, UnitNamed(p, Traced(p, RayParts(p,
             k, beat), beat), beat), beat), n), n), beat)
  BY DEF Finished, k
<1>10. QED BY <1>3, <1>4, <1>5, <1>6, <1>7, <1>8, <1>9 DEF PairKind, g

LEMMA BrightFresh ==
    ASSUME NEW p, NEW b, Bright(p, b)
    PROVE  Bright(p, Fresh(b))
<1> DEFINE d == Fresh(b)
           x == <<>>
<1>1. d = [b EXCEPT !.actions = x]
  BY DEF Fresh
<1> HIDE DEF d, x
<1>2. Booked(d) /\ d.roles = b.roles
  BY <1>1, ActionsWritten DEF Bright
<1>3. Bright(p, d)
  BY <1>2, BrightByRoles
<1>4. QED BY <1>3 DEF d

LEMMA TargetsOfBeat ==
    ASSUME NEW p, NEW goal, Admitted(p, goal), NEW n \in DOMAIN p.beats
    PROVE  AllColourable(p, p.beats[n].targets) /\ Listed(p.beats[n].targets)
<1>1. Listed(p.beats[n].targets) /\ \A t \in Range(p.beats[n].targets) : Nameable(p, t)
  BY TargetsNameable
<1>2. QED BY <1>1, NameableIsShowable DEF AllColourable

\* Before the pairs go, no beat fades a value.
LEMMA BrightPlain ==
    ASSUME NEW p, p.strategy = "pair_elimination", NEW b, Bright(p, b), NEW beat,
           AllColourable(p, beat.targets), beat.kind # "organize"
    PROVE  Bright(p, Plain(p, b, beat))
<1> DEFINE s == Undetailed(beat, {})
           empty == {}
<1>1. Listed(s)
  <2>1. AllColourable(p, Undetailed(beat, empty))
    <3> HIDE DEF empty
    <3>1. QED BY UndetailedColourable
  <2>2. QED BY <2>1 DEF AllColourable
<1>2. /\ GenericRoles(p, b, beat, "focus") = RoleChanges(p, b, s, "focus")
      /\ GenericRoles(p, b, beat, "structure") = RoleChanges(p, b, s, "structure")
  BY DEF GenericRoles
<1> HIDE DEF s
<1>3. Bright(p, RoleChanges(p, b, s, "focus"))
  <2> DEFINE role == "focus"
  <2>1. role # "neutral"
    OBVIOUS
  <2> HIDE DEF role
  <2>2. Bright(p, RoleChanges(p, b, s, role))
    BY <1>1, <2>1, BrightChanges
  <2>3. QED BY <2>2 DEF role
<1>4. Bright(p, RoleChanges(p, b, s, "structure"))
  <2> DEFINE role == "structure"
  <2>1. role # "neutral"
    OBVIOUS
  <2> HIDE DEF role
  <2>2. Bright(p, RoleChanges(p, b, s, role))
    BY <1>1, <2>1, BrightChanges
  <2>3. QED BY <2>2 DEF role
<1>5. Bright(p, MedianCallout(p, b, beat))
  <2>1. Bright(p, Callout(b, CalloutRef("median_callout", 0, 0), Middle(p), "bottom"))
    BY BrightCallout
  <2>2. QED BY <2>1 DEF MedianCallout
<1>6. Conclusion(p, b, beat) = MedianCallout(p, b, beat)
  BY DEF Conclusion
<1>7. QED BY <1>2, <1>3, <1>4, <1>5, <1>6 DEF Plain, Ordinary

LEMMA BrightNeverIdle ==
    ASSUME NEW p, NEW b, Bright(p, b), NEW beat, Listed(beat.targets)
    PROVE  Bright(p, NeverIdle(p, b, beat))
<1> DEFINE role == "focus"
           s == beat.targets
<1>1. role # "neutral" /\ Listed(s)
  OBVIOUS
<1>2. NeverIdle(p, b, beat) = b \/ NeverIdle(p, b, beat) = RoleChanges(p, b, s, role)
  BY DEF NeverIdle
<1> HIDE DEF role, s
<1>3. Bright(p, RoleChanges(p, b, s, role))
  BY <1>1, BrightChanges
<1>4. QED BY <1>2, <1>3

LEMMA BrightBeat ==
    ASSUME NEW p, NEW goal, Admitted(p, goal), p.strategy = "pair_elimination",
           NEW n \in DOMAIN p.beats, p.beats[n].kind # "organize",
           NEW o \in DOMAIN p.beats, Eliminates(p, p.beats[o]),
           NEW b, Bright(p, b)
    PROVE  Bright(p, ExpandBeat(p, goal, b, n))
<1> DEFINE beat == p.beats[n]
           f == Fresh(b)
           g == Named(p, f, beat)
           k == Plain(p, g, beat)
           i == NeverIdle(p, k, beat)
<1>1. AllColourable(p, beat.targets) /\ Listed(beat.targets)
  BY TargetsOfBeat
<1>2. Bright(p, f)
  BY BrightFresh
<1> HIDE DEF f
<1>3. Bright(p, g)
  <2>1. Bright(p, RevealUnrevealed(p, f, beat.targets, PosedMode(p)))
    BY <1>2, BrightReveal
  <2>2. QED BY <2>1 DEF Named
<1> HIDE DEF g
<1>4. Bright(p, k)
  BY <1>1, <1>3, BrightPlain
<1> HIDE DEF k
<1>5. Bright(p, i)
  BY <1>1, <1>4, BrightNeverIdle
<1>6. Listed(p.beats[n].custom) /\ \A a \in Range(p.beats[n].custom) : SparesValues(p, a)
  <2>1. Listed(p.beats[n].custom) /\ \A a \in Range(p.beats[n].custom) : CustomAllowed(p, a)
    BY CustomIsAllowed
  <2>2. p.beats[n] \in Range(p.beats)
    BY BeatsOfPlan DEF Admitted
  <2>3. \A a \in Range(p.beats[n].custom) :
           a.kind \in {"dim", "emphasize", "restore"} => a.target.visual # p.primary.ref
    BY <2>2, FocusAfter
  <2>4. QED BY <2>1, <2>3 DEF SparesValues, CustomAllowed
<1>7. i = PairKind(p, n, b)
  BY DEF PairKind, i, k, g, f
<1> HIDE DEF i
<1>8. Bright(p, CustomActions(p, i, n))
  BY <1>5, <1>6, BrightCustoms
<1>9. QED BY <1>7, <1>8, PlainBeat

\* At first none has faded.
LEMMA BrightAtFirst ==
    ASSUME NEW p, p.strategy = "pair_elimination", p.primary.kind = "ordered_values",
           VisualOf(p, p.primary.ref) = p.primary
    PROVE  Bright(p, Books(p))
<1>1. Booked(Books(p)) /\ Books(p).roles = InitialRoles(p)
  BY BooksAgree
<1>2. ASSUME NEW t \in DOMAIN InitialRoles(p), t.visual = p.primary.ref
      PROVE  InitialRoles(p)[t] = "structure"
  <2>1. t \in {Whole(ref) : ref \in Refs(p)}
    BY <1>2, InitialDomain DEF KnownRefs, Declared
  <2>2. InitialRoles(p)[t] = InitialRole(p, VisualOf(p, t.visual))
    BY <2>1 DEF InitialRoles, Declared
  <2>3. QED BY <1>2, <2>2 DEF InitialRole
<1>3. "structure" # "neutral"
  OBVIOUS
<1>4. QED BY <1>1, <1>2, <1>3 DEF Bright

-----------------------------------------------------------------------------
(* The pairs go, one value after another, and none goes twice.              *)

\* From the ends inwards.
Partner(m, k) == IF k % 2 = 1 THEN (k - 1) \div 2 ELSE m - k \div 2

LEMMA PartnersDiffer ==
    ASSUME NEW c \in Nat, NEW k \in 1..(2 * c), NEW j \in 1..(2 * c), k # j
    PROVE  Partner(2 * c + 1, k) # Partner(2 * c + 1, j)
<1> DEFINE a == k \div 2
           b == j \div 2
           u == k % 2
           v == j % 2
<1>1. /\ a \in Int /\ b \in Int /\ u \in {0, 1} /\ v \in {0, 1} /\ k = 2 * a + u /\ j = 2 * b + v
  OBVIOUS
<1>2. u = 1 => (k - 1) \div 2 = a
  OBVIOUS
<1>3. v = 1 => (j - 1) \div 2 = b
  OBVIOUS
<1>4. /\ Partner(2 * c + 1, k) = IF u = 1 THEN a ELSE (2 * c + 1) - a
      /\ Partner(2 * c + 1, j) = IF v = 1 THEN b ELSE (2 * c + 1) - b
  BY <1>2, <1>3 DEF Partner
<1> HIDE DEF a, b, u, v
<1>5. QED BY <1>1, <1>4

LEMMA ValuesDiffer ==
    ASSUME NEW p, NEW i \in Int, NEW j \in Int, i # j
    PROVE  Part(p.primary.ref, "item", i) # Part(p.primary.ref, "item", j)
BY DEF Part

\* The values from a place of the walk on hold a role of theirs, each on books that are in order.
ToFade(p, b, s, k) ==
    /\ Booked(b) /\ Listed(b.actions) /\ Whole(p.primary.ref) \in DOMAIN b.roles
    /\ \A j \in DOMAIN s : j > k => CurrentRole(b, s[j]) # "neutral"

\* The places of a walk over different values.
WalkOfValues(p, s) ==
    /\ Listed(s)
    /\ \A j \in DOMAIN s : \E i \in Int : s[j] = Part(p.primary.ref, "item", i)
    /\ \A i, j \in DOMAIN s : i # j => s[i] # s[j]

LEMMA ItemParts ==
    ASSUME NEW p, NEW t, NEW i, t = Part(p.primary.ref, "item", i)
    PROVE  t.part # None /\ t.visual = p.primary.ref /\ t # Whole(p.primary.ref)
<1>1. "item" # None
  BY PartsAreClasses, PartsAssumption
<1>2. t.part = "item" /\ t.visual = p.primary.ref
  BY DEF Part
<1>3. Whole(p.primary.ref).part = None
  BY WholeParts
<1>4. QED BY <1>1, <1>2, <1>3

\* So many values have gone.
Gone(p, b, s, n, d) == ToFade(p, d, s, n) /\ Len(d.actions) = Len(b.actions) + n

OneGone(p, b, s, k, d) == ToFade(p, d, s, k + 1) /\ Len(d.actions) = Len(b.actions) + 1

LEMMA FadesNext ==
    ASSUME NEW p, NEW b, NEW s, WalkOfValues(p, s), NEW k \in Nat, k + 1 \in DOMAIN s, ToFade(p, b, s, k)
    PROVE  OneGone(p, b, s, k, RoleChange(p, b, s[k + 1], "neutral"))
<1> DEFINE t == s[k + 1]
           role == "neutral"
           d == RoleChange(p, b, t, role)
           R == Changed(p, b, t, role)
           w == Whole(p.primary.ref)
           a == SetRole(t, role)
<1>1. k + 1 > k
  OBVIOUS
<1>2. CurrentRole(b, t) # role
  BY <1>1 DEF ToFade
<1>3. d = Restyle(p, b, t, role)
  BY <1>2 DEF RoleChange
<1>4. t.part # None /\ t.visual = p.primary.ref /\ t # w
  <2>1. PICK i \in Int : t = Part(p.primary.ref, "item", i)
    BY DEF WalkOfValues
  <2> HIDE DEF t
  <2>2. QED BY <2>1, ItemParts
<1>5. Forgotten(p, b, t) = {}
  BY <1>4 DEF Forgotten
<1>6. /\ DOMAIN R = DOMAIN b.roles \cup {t}
      /\ \A u \in DOMAIN b.roles : u # t => R[u] = b.roles[u]
  BY <1>5 DEF Changed, Entered, Restrict
<1> HIDE DEF t, role, d, R, w, a
<1>7. Restyles(p, b, d, t, role)
  BY <1>3, RestyledBooks DEF ToFade
<1>8. Booked(d) /\ d.roles = R /\ d.actions = b.actions \o <<a>>
  BY <1>7 DEF Restyles, R, a
<1>9. Listed(d.actions) /\ Len(d.actions) = Len(b.actions) + 1
  <2> DEFINE x == <<a>>
             y == b.actions
  <2>1. Listed(x) /\ Len(x) = 1 /\ Listed(y) /\ d.actions = y \o x
    BY <1>8, ListOfOne DEF ToFade
  <2> HIDE DEF x, y
  <2>2. Listed(y \o x) /\ Len(y \o x) = Len(y) + Len(x)
    BY <2>1, JoinedLists
  <2>3. QED BY <2>1, <2>2 DEF y
<1>10. w \in DOMAIN b.roles /\ w \in DOMAIN d.roles
  BY <1>6, <1>8 DEF ToFade, w
<1>11. ASSUME NEW j \in DOMAIN s, j > k + 1 PROVE CurrentRole(d, s[j]) # "neutral"
  <2> DEFINE u == s[j]
  <2>1. j \in Int /\ j > k /\ j # k + 1
    <3>1. DOMAIN s = 1..Len(s) /\ Len(s) \in Nat
      BY ListPlaces DEF WalkOfValues
    <3>2. QED BY <1>11, <3>1
  <2>2. u # t
    BY <2>1 DEF WalkOfValues, t
  <2>3. u.visual = p.primary.ref
    <3>1. PICK i \in Int : u = Part(p.primary.ref, "item", i)
      BY DEF WalkOfValues
    <3> HIDE DEF u
    <3>2. QED BY <3>1, ItemParts
  <2>4. CurrentRole(b, u) # "neutral"
    BY <2>1 DEF ToFade
  <2> HIDE DEF u
  <2>5. CurrentRole(d, u) = CurrentRole(b, u)
    BY <1>4, <1>6, <1>8, <1>10, <2>2, <2>3 DEF CurrentRole, w
  <2>6. QED BY <2>4, <2>5 DEF u
<1>12. ToFade(p, d, s, k + 1)
  BY <1>8, <1>9, <1>10, <1>11 DEF ToFade, w
<1>13. QED BY <1>9, <1>12 DEF OneGone, d, t, role

LEMMA AllFade ==
    ASSUME NEW p, NEW b, NEW s, WalkOfValues(p, s), ToFade(p, b, s, 0)
    PROVE  Len(RoleChanges(p, b, s, "neutral").actions) = Len(b.actions) + Len(s)
<1> DEFINE f == CHOOSE f : Changing(p, b, s, "neutral", f, Len(s))
<1>0. Len(s) \in Nat /\ DOMAIN s = 1..Len(s) /\ Len(b.actions) \in Nat
  BY ListPlaces DEF WalkOfValues, ToFade
<1>1. Changing(p, b, s, "neutral", f, Len(s))
  BY <1>0, ChangingExists
<1>2. RoleChanges(p, b, s, "neutral") = f[Len(s)]
  BY DEF RoleChanges, Changing
<1> HIDE DEF f
<1>3. \A k \in 0..Len(s) : f[k] = IF k = 0 THEN b ELSE RoleChange(p, f[k - 1], s[k], "neutral")
  BY <1>1 DEF Changing
<1> DEFINE S == {n \in Nat : n <= Len(s) => Gone(p, b, s, n, f[n])}
<1>4. 0 \in S
  <2>1. 0 \in 0..Len(s)
    BY <1>0
  <2>2. f[0] = b
    BY <1>3, <2>1
  <2>3. Len(b.actions) = Len(b.actions) + 0
    BY <1>0
  <2>4. Gone(p, b, s, 0, f[0])
    BY <2>2, <2>3 DEF Gone
  <2>5. QED BY <2>4
<1>5. ASSUME NEW n \in Nat, n \in S PROVE n + 1 \in S
  <2>1. SUFFICES ASSUME n + 1 <= Len(s) PROVE Gone(p, b, s, n + 1, f[n + 1])
    OBVIOUS
  <2>2. Gone(p, b, s, n, f[n])
    BY <1>0, <1>5, <2>1
  <2> HIDE DEF S
  <2> DEFINE e == f[n]
             d == f[n + 1]
  <2>3. n + 1 \in 0..Len(s) /\ n + 1 # 0 /\ (n + 1) - 1 = n /\ n + 1 \in DOMAIN s
    BY <1>0, <2>1
  <2>4. d = RoleChange(p, e, s[n + 1], "neutral")
    BY <1>3, <2>3
  <2>5. ToFade(p, e, s, n) /\ Len(e.actions) = Len(b.actions) + n
    BY <2>2 DEF Gone
  <2> HIDE DEF e, d
  <2>6. OneGone(p, e, s, n, d)
    BY <2>3, <2>4, <2>5, FadesNext
  <2> DEFINE x == Len(b.actions)
             y == Len(e.actions)
             z == Len(d.actions)
  <2>7. x \in Nat /\ y = x + n /\ z = y + 1 /\ ToFade(p, d, s, n + 1)
    BY <1>0, <2>5, <2>6 DEF OneGone
  <2> HIDE DEF x, y, z
  <2>8. z = x + (n + 1)
    BY <2>7
  <2>9. QED BY <2>7, <2>8 DEF Gone, d, x, z
<1>6. Len(s) \in S
  <2> HIDE DEF S
  <2>1. QED BY <1>0, <1>4, <1>5, NatInd
<1>7. Gone(p, b, s, Len(s), f[Len(s)])
  BY <1>0, <1>6
<1>8. QED BY <1>2, <1>7 DEF Gone

LEMMA WalkOfPairs ==
    ASSUME NEW p, NEW goal, Admitted(p, goal), p.strategy = "pair_elimination", NEW b
    PROVE  \E s : /\ WalkOfValues(p, s) /\ Len(s) = 2 * Couples(p)
                  /\ EliminationWalk(p, b) = RoleChanges(p, b, s, "neutral")
<1> DEFINE m == Len(p.primary.values)
           c == Couples(p)
           n == 2 * (m \div 2)
           s == [k \in 1..n |-> Part(p.primary.ref, "item", Partner(m, k))]
<1>1. EliminationWalk(p, b) = RoleChanges(p, b, s, "neutral")
  BY DEF EliminationWalk, Partner
<1>2. c \in 1..7 /\ m = 2 * c + 1
  BY ValuesOfElimination
<1> HIDE DEF m, c
<1>3. n = 2 * c /\ n \in Nat
  BY <1>2
<1> HIDE DEF n
<1>4. s = [k \in 1..n |-> s[k]]
  OBVIOUS
<1>5. \A k \in 1..n : s[k] = Part(p.primary.ref, "item", Partner(m, k))
  OBVIOUS
<1> HIDE DEF s
<1>6. Listed(s) /\ Len(s) = n /\ DOMAIN s = 1..n
  BY <1>3, <1>4, FunctionIsListed
<1>7. ASSUME NEW k \in 1..n PROVE Partner(m, k) \in Int
  BY <1>2, <1>3, <1>7 DEF Partner
<1>8. ASSUME NEW k \in 1..n, NEW j \in 1..n, k # j PROVE s[k] # s[j]
  <2>1. Partner(m, k) # Partner(m, j)
    BY <1>2, <1>3, <1>8, PartnersDiffer
  <2>2. QED BY <1>5, <1>7, <2>1, ValuesDiffer
<1>9. WalkOfValues(p, s)
  BY <1>5, <1>6, <1>7, <1>8 DEF WalkOfValues
<1>10. QED BY <1>1, <1>3, <1>6, <1>9 DEF c

LEMMA BrightToFade ==
    ASSUME NEW p, NEW goal, Admitted(p, goal), NEW h, NEW b, Agree(p, h, b), Bright(p, b),
           NEW s, WalkOfValues(p, s)
    PROVE  ToFade(p, b, s, 0)
<1>1. p.primary.ref \in KnownRefs(p)
  BY PrimaryRef DEF KnownRefs
<1>2. Booked(b) /\ Listed(b.actions) /\ Whole(p.primary.ref) \in DOMAIN b.roles
  BY <1>1 DEF Agree, RolesKept
<1>3. ASSUME NEW j \in DOMAIN s PROVE CurrentRole(b, s[j]) # "neutral"
  <2> DEFINE t == s[j]
  <2>1. t.visual = p.primary.ref
    <3>1. PICK i \in Int : t = Part(p.primary.ref, "item", i)
      BY DEF WalkOfValues
    <3> HIDE DEF t
    <3>2. QED BY <3>1, ItemParts
  <2>2. Whole(p.primary.ref).visual = p.primary.ref
    BY WholeParts
  <2> HIDE DEF t
  <2>3. CurrentRole(b, t) # "neutral"
    BY <1>2, <2>1, <2>2 DEF CurrentRole, Bright
  <2>4. QED BY <2>3 DEF t
<1>4. QED BY <1>2, <1>3 DEF ToFade

LEMMA NoCustomActions ==
    ASSUME NEW p, NEW b, NEW n, p.beats[n].custom = <<>>
    PROVE  CustomActions(p, b, n) = b
<1> DEFINE c == p.beats[n].custom
           f == CHOOSE f : Customizing(p, b, c, n, f, Len(c))
<1>1. Len(c) = 0 /\ 0 \in Nat
  BY EmptyList
<1>2. Customizing(p, b, c, n, f, Len(c))
  BY <1>1, CustomizingExists
<1>3. CustomActions(p, b, n) = f[Len(c)]
  BY DEF CustomActions, Customizing
<1> HIDE DEF f, c
<1>4. 0 \in 0..Len(c)
  BY <1>1
<1>5. f[0] = b
  BY <1>2, <1>4 DEF Customizing
<1>6. QED BY <1>1, <1>3, <1>5

\* What a beat of pairs shows first.
LEMMA NamedAgrees ==
    ASSUME NEW p, NEW goal, Admitted(p, goal), NEW n \in DOMAIN p.beats, NEW h, NEW b, Agree(p, h, Fresh(b))
    PROVE  Agree(p, h, Named(p, Fresh(b), p.beats[n]))
<1> DEFINE ts == p.beats[n].targets
           md == PosedMode(p)
           f == Fresh(b)
<1>1. Listed(ts) /\ (\A t \in Range(ts) : Nameable(p, t)) /\ (Clean(p) => NamesOnce(p, ts))
  BY TargetsNameable
<1>2. Agree(p, h, f) /\ Named(p, f, p.beats[n]) = RevealUnrevealed(p, f, ts, md)
  BY DEF Named
<1> HIDE DEF ts, md, f
<1>3. Goes(p, h, f, RevealUnrevealed(p, f, ts, md), {})
  BY <1>1, <1>2, NamedRevealed
<1>4. Agree(p, h, RevealUnrevealed(p, f, ts, md))
  BY <1>3, GoesAgree
<1>5. QED BY <1>2, <1>4 DEF f

\* The beat that takes the pairs away fades every value but the one in the middle.
LEMMA PairsGo ==
    ASSUME NEW p, NEW goal, Admitted(p, goal), NEW o \in DOMAIN p.beats, Eliminates(p, p.beats[o]),
           NEW h, NEW b, Agree(p, h, Fresh(b)), Bright(p, b)
    PROVE  Len(ExpandBeat(p, goal, b, o).actions) >= 2 * Couples(p)
<1> DEFINE beat == p.beats[o]
           g == Named(p, Fresh(b), beat)
           k == EliminationWalk(p, g)
<1>1. p.strategy = "pair_elimination" /\ beat.kind = "organize" /\ beat.custom = <<>>
  BY FocusAfter DEF Eliminates
<1>2. Agree(p, h, g)
  BY NamedAgrees
<1>3. Bright(p, g)
  <2>1. Bright(p, Fresh(b))
    BY BrightFresh
  <2>2. QED BY <2>1, BrightReveal DEF Named
<1>4. PairKind(p, o, b) = NeverIdle(p, k, beat)
  BY <1>1 DEF PairKind, Plain, Ordinary
<1> HIDE DEF g
<1>5. PICK s : WalkOfValues(p, s) /\ Len(s) = 2 * Couples(p) /\ k = RoleChanges(p, g, s, "neutral")
  BY <1>1, WalkOfPairs
<1>6. ToFade(p, g, s, 0)
  BY <1>2, <1>3, <1>5, BrightToFade
<1>7. Len(k.actions) = Len(g.actions) + Len(s)
  BY <1>5, <1>6, AllFade
<1>8. Len(g.actions) \in Nat /\ Couples(p) \in 1..7
  <2>1. Listed(g.actions)
    BY <1>2 DEF Agree
  <2>2. QED BY <1>1, <2>1, ListPlaces, ValuesOfElimination
<1> HIDE DEF k
<1>9. Len(k.actions) >= 2 * Couples(p) /\ k.actions # <<>>
  <2> DEFINE x == Len(g.actions)
             c == Couples(p)
             y == Len(k.actions)
  <2>1. x \in Nat /\ c \in 1..7 /\ y = x + 2 * c
    BY <1>5, <1>7, <1>8
  <2> HIDE DEF x, c
  <2>2. y >= 2 * c /\ y > 0
    BY <2>1
  <2>3. k.actions # <<>>
    BY <2>2, EmptyList
  <2>4. QED BY <2>2, <2>3 DEF c
<1>10. NeverIdle(p, k, beat) = k
  BY <1>9 DEF NeverIdle
<1>11. ExpandBeat(p, goal, b, o) = CustomActions(p, k, o)
  BY <1>1, <1>4, <1>10, PlainBeat
<1>12. CustomActions(p, k, o) = k
  BY <1>1, NoCustomActions
<1>13. QED BY <1>9, <1>11, <1>12

-----------------------------------------------------------------------------
(* The conclusion names the value that is left.                             *)

LEMMA OneMakesSome ==
    ASSUME NEW s, Listed(s), NEW a
    PROVE  s \o <<a>> # <<>>
<1> DEFINE x == <<a>>
<1>1. Listed(x) /\ Len(x) = 1
  BY ListOfOne
<1> HIDE DEF x
<1>2. Len(s \o x) = Len(s) + Len(x) /\ Len(s) \in Nat
  BY <1>1, JoinedLists
<1> DEFINE n == Len(s)
           m == Len(s \o x)
<1>3. n \in Nat /\ m = n + 1
  BY <1>1, <1>2
<1> HIDE DEF n
<1>4. m # 0
  BY <1>3
<1>5. s \o x # <<>>
  BY <1>4, EmptyList
<1>6. QED BY <1>5 DEF x

LEMMA GoesActs ==
    ASSUME NEW p, NEW h, NEW b, NEW d, NEW C, Agree(p, h, b), Goes(p, h, b, d, C), b.actions # <<>>
    PROVE  d.actions # <<>>
<1>1. PICK x : Listed(x) /\ d.actions = b.actions \o x
  BY DEF Goes, Plays
<1> DEFINE s == b.actions
<1>2. Listed(s) /\ s # <<>> /\ d.actions = s \o x
  BY <1>1 DEF Agree
<1> HIDE DEF s
<1>3. Len(s \o x) = Len(s) + Len(x) /\ Len(s) \in Nat /\ Len(x) \in Nat
  BY <1>1, <1>2, JoinedLists
<1>4. Len(s) # 0
  <2>1. SUFFICES ASSUME Len(s) = 0 PROVE FALSE
    OBVIOUS
  <2>2. Listed(<<>>) /\ Len(<<>>) = 0
    BY EmptyList
  <2> DEFINE e == <<>>
  <2>3. Listed(e) /\ Len(e) = 0
    BY <2>2
  <2> HIDE DEF e
  <2>4. Len(s) = Len(e) /\ \A k \in 1..Len(s) : s[k] = e[k]
    BY <2>1, <2>3
  <2>5. s = e
    BY <1>2, <2>3, <2>4, SameList
  <2>6. QED BY <1>2, <2>5 DEF e
<1> DEFINE n == Len(s)
           l == Len(x)
           m == Len(s \o x)
<1>5. n \in Nat /\ l \in Nat /\ n # 0 /\ m = n + l
  BY <1>3, <1>4
<1> HIDE DEF n, l
<1>6. m # 0
  BY <1>5
<1>7. s \o x # <<>>
  BY <1>6, EmptyList
<1>8. QED BY <1>2, <1>7

LEMMA CalloutActs ==
    ASSUME NEW b, Booked(b), Listed(b.actions), NEW ref, NEW t, NEW anchor
    PROVE  Callout(b, ref, t, anchor).actions # <<>>
<1> DEFINE a == ShowRelation(ref)
           e == Emit(b, <<a>>)
           d == Callout(b, ref, t, anchor)
           y == Append(e.relations, [ref |-> ref, target |-> t, anchor |-> anchor])
           s == b.actions
           z == s \o <<a>>
<1>1. Booked(e) /\ e.actions = z
  <2>1. e = [b EXCEPT !.actions = z]
    BY DEF Emit
  <2> HIDE DEF e, z
  <2>2. QED BY <2>1, ActionsWritten
<1>2. d = [e EXCEPT !.relations = y]
  BY DEF Callout
<1> HIDE DEF d, e, y, a
<1>3. d.actions = z
  <2> HIDE DEF z
  <2>1. QED BY <1>1, <1>2, RelationsWritten
<1>4. z # <<>>
  <2>1. Listed(s)
    OBVIOUS
  <2> HIDE DEF s
  <2>2. QED BY <2>1, OneMakesSome
<1>5. QED BY <1>3, <1>4 DEF d

LEMMA CustomCalls ==
    ASSUME NEW p, NEW h, NEW b, Agree(p, h, b), NEW a, a.kind = "callout", NEW ref
    PROVE  CustomAction(p, b, a, ref).actions # <<>>
<1>1. CustomAction(p, b, a, ref) = Callout(b, ref, a.target, a.anchor)
  BY DEF CustomAction
<1>2. Booked(b) /\ Listed(b.actions)
  BY DEF Agree
<1>3. QED BY <1>1, <1>2, CalloutActs

\* A beat acts once its author has called something out.
LEMMA CustomsAct ==
    ASSUME NEW p, NEW h, NEW b, Agree(p, h, b), NEW n,
           Listed(p.beats[n].custom), \A a \in Range(p.beats[n].custom) : CustomAllowed(p, a),
           \E a \in Range(p.beats[n].custom) : a.kind = "callout"
    PROVE  CustomActions(p, b, n).actions # <<>>
<1> DEFINE c == p.beats[n].custom
           f == CHOOSE f : Customizing(p, b, c, n, f, Len(c))
<1>0. /\ Len(c) \in Nat /\ \A k \in 1..Len(c) : CustomAllowed(p, c[k])
      /\ \E k \in 1..Len(c) : c[k].kind = "callout"
  BY ListPlaces
<1>1. Customizing(p, b, c, n, f, Len(c))
  BY <1>0, CustomizingExists
<1>2. CustomActions(p, b, n) = f[Len(c)]
  BY DEF CustomActions, Customizing
<1> HIDE DEF f, c
<1>3. \A k \in 0..Len(c) :
         f[k] = IF k = 0 THEN b ELSE CustomAction(p, f[k - 1], c[k], CalloutRef("callout", n, k))
  BY <1>1 DEF Customizing
<1>4. PICK j \in 1..Len(c) : c[j].kind = "callout"
  BY <1>0
<1> DEFINE S == {m \in Nat : m <= Len(c) => Agree(p, h, f[m]) /\ (j <= m => f[m].actions # <<>>)}
<1>5. 0 \in S
  <2>1. 0 \in 0..Len(c) /\ ~(j <= 0)
    BY <1>0, <1>4
  <2>2. f[0] = b
    BY <1>3, <2>1
  <2>3. QED BY <2>1, <2>2
<1>6. ASSUME NEW m \in Nat, m \in S PROVE m + 1 \in S
  <2>1. SUFFICES ASSUME m + 1 <= Len(c)
                 PROVE Agree(p, h, f[m + 1]) /\ (j <= m + 1 => f[m + 1].actions # <<>>)
    OBVIOUS
  <2>2. Agree(p, h, f[m]) /\ (j <= m => f[m].actions # <<>>)
    BY <1>0, <1>6, <2>1
  <2> HIDE DEF S
  <2> DEFINE ref == CalloutRef("callout", n, m + 1)
             x == f[m]
             y == f[m + 1]
             a == c[m + 1]
  <2>3. m + 1 \in 0..Len(c) /\ m + 1 # 0 /\ (m + 1) - 1 = m /\ m + 1 \in 1..Len(c)
    BY <1>0, <2>1
  <2>4. y = CustomAction(p, x, a, ref) /\ CustomAllowed(p, a)
    BY <1>0, <1>3, <2>3
  <2>5. (j <= m + 1 /\ ~(j <= m)) => j = m + 1
    BY <1>4
  <2>6. j = m + 1 => a.kind = "callout"
    BY <1>4
  <2>7. Agree(p, h, x) /\ (j <= m => x.actions # <<>>)
    BY <2>2
  <2> HIDE DEF x, y, a, ref
  <2>8. Goes(p, h, x, y, {})
    BY <2>4, <2>7, CustomActed
  <2> DEFINE C == {}
  <2>9. Goes(p, h, x, y, C)
    BY <2>8
  <2> HIDE DEF C
  <2>10. Agree(p, h, y) /\ (x.actions # <<>> => y.actions # <<>>)
    BY <2>7, <2>9, GoesAgree, GoesActs
  <2>11. a.kind = "callout" => y.actions # <<>>
    BY <2>4, <2>7, CustomCalls
  <2>12. Agree(p, h, y) /\ (j <= m + 1 => y.actions # <<>>)
    BY <2>5, <2>6, <2>7, <2>10, <2>11
  <2>13. QED BY <2>12 DEF y
<1>7. Len(c) \in S
  <2> HIDE DEF S
  <2>1. QED BY <1>0, <1>5, <1>6, NatInd
<1>8. j <= Len(c)
  BY <1>0, <1>4
<1>9. QED BY <1>0, <1>2, <1>7, <1>8

\* The conclusion of a lesson of pairs acts, whoever calls the value out.
LEMMA PairsConclude ==
    ASSUME NEW p, NEW goal, Admitted(p, goal), p.strategy = "pair_elimination",
           NEW n \in DOMAIN p.beats, p.beats[n].kind = "conclude",
           NEW h, NEW b, Agree(p, h, Fresh(b))
    PROVE  ExpandBeat(p, goal, b, n).actions # <<>>
<1> DEFINE beat == p.beats[n]
           g == Named(p, Fresh(b), beat)
           k == MedianCallout(p, g, beat)
           i == NeverIdle(p, k, beat)
           d == CustomActions(p, i, n)
<1>1. Agree(p, h, g)
  BY NamedAgrees
<1>2. PairKind(p, n, b) = i
  BY DEF PairKind, Plain, Ordinary, Works, Conclusion
<1>3. ExpandBeat(p, goal, b, n) = d
  BY <1>2, PlainBeat
<1>4. AllColourable(p, beat.targets)
  BY TargetsOfBeat
<1>5. Listed(beat.custom) /\ \A a \in Range(beat.custom) : CustomAllowed(p, a)
  BY CustomIsAllowed
<1> HIDE DEF g
<1>6. Agree(p, h, k)
  <2> DEFINE ref == CalloutRef("median_callout", 0, 0)
             t == Middle(p)
             anchor == "bottom"
  <2>1. k = g \/ k = Callout(g, ref, t, anchor)
    BY DEF MedianCallout
  <2> HIDE DEF ref, t, anchor, k
  <2>2. Agree(p, h, Callout(g, ref, t, anchor))
    BY <1>1, CalledOut, GoesAgree
  <2>3. QED BY <1>1, <2>1, <2>2
<1>7. CASE \E a \in Range(beat.custom) : a.kind = "callout"
  <2> HIDE DEF k
  <2>1. Agree(p, h, i)
    BY <1>4, <1>6, NeverIdleGoes, GoesAgree
  <2> HIDE DEF i
  <2>2. d.actions # <<>>
    BY <1>5, <1>7, <2>1, CustomsAct
  <2>3. QED BY <1>3, <2>2
<1>8. CASE ~\E a \in Range(beat.custom) : a.kind = "callout"
  <2>1. k = Callout(g, CalloutRef("median_callout", 0, 0), Middle(p), "bottom")
    BY <1>8 DEF MedianCallout
  <2> HIDE DEF k
  <2>2. k.actions # <<>>
    BY <1>1, <2>1, CalloutActs DEF Agree
  <2>3. i = k
    BY <2>2 DEF NeverIdle
  <2> DEFINE C == {}
  <2>4. Goes(p, h, k, CustomActions(p, k, n), C)
    BY <1>5, <1>6, CustomInTurn
  <2> HIDE DEF C
  <2>5. CustomActions(p, k, n).actions # <<>>
    BY <1>6, <2>2, <2>4, GoesActs
  <2>6. QED BY <1>3, <2>3, <2>5
<1>9. QED BY <1>7, <1>8

-----------------------------------------------------------------------------
(* What the expanded beats of a lesson have, beside what stages its moves.  *)

LEMMA VisualByRef ==
    ASSUME NEW p, Listed(p.supporting), UniqueRefs(p)
    PROVE  VisualOf(p, p.primary.ref) = p.primary
<1> DEFINE vs == Visuals(p)
           n == Len(vs)
           f == [k \in 1..n |-> vs[k].ref]
<1>1. /\ Listed(vs) /\ p.primary \in Range(vs)
  BY RefsOfVisuals
<1>2. /\ n \in Nat /\ \A x : x \in Range(vs) <=> \E k \in 1..n : vs[k] = x
  <2> HIDE DEF vs
  <2>1. QED BY <1>1, ListPlaces
<1>3. Refs(p) = {v.ref : v \in Range(vs)} /\ Cardinality(Refs(p)) = n
  BY DEF Refs, UniqueRefs
<1> DEFINE R == Refs(p)
<1> HIDE DEF vs, n
<1>4. f \in Surjection(1..n, R)
  <2>1. \A k \in 1..n : f[k] \in R
    BY <1>2, <1>3
  <2>2. \A t \in R : \E k \in 1..n : f[k] = t
    BY <1>2, <1>3
  <2>3. f \in [1..n -> R]
    BY <2>1
  <2>4. QED BY <2>2, <2>3 DEF Surjection
<1>5. IsFiniteSet(1..n) /\ Cardinality(1..n) = n
  BY <1>2, FS_Interval
<1>6. f \in Injection(1..n, R)
  <2> HIDE DEF f, R
  <2> DEFINE S == 1..n
  <2>1. IsFiniteSet(S) /\ Cardinality(S) = Cardinality(R) /\ f \in Surjection(S, R)
    BY <1>3, <1>4, <1>5 DEF R
  <2> HIDE DEF S
  <2>2. f \in Injection(S, R)
    BY <2>1, FS_SurjSameCardinalityImpliesInj
  <2>3. QED BY <2>2 DEF S
<1>7. \A i, j \in 1..n : vs[i].ref = vs[j].ref => i = j
  <2>1. \A i, j \in 1..n : f[i] = f[j] => i = j
    <3>1. f \in [1..n -> R] /\ IsInjective(f)
      <4> HIDE DEF f, R
      <4>1. QED BY <1>6 DEF Injection
    <3>2. DOMAIN f = 1..n
      OBVIOUS
    <3> HIDE DEF f, R
    <3>3. QED BY <3>1, <3>2 DEF IsInjective
  <2>2. QED BY <2>1
<1>8. \A v, w \in Range(vs) : v.ref = w.ref => v = w
  BY <1>2, <1>7
<1>9. \A v \in Range(vs) : v.ref = p.primary.ref => v = p.primary
  BY <1>1, <1>8
<1>10. VisualOf(p, p.primary.ref) = CHOOSE v \in Range(vs) : v.ref = p.primary.ref
  BY DEF VisualOf, vs
<1>11. QED BY <1>1, <1>9, <1>10

\* Of a lesson that takes pairs away.
PairsKept(p, bs, bk) ==
    /\ (\A b \in DOMAIN bs : p.beats[b].kind # "organize") => Bright(p, bk)
    /\ \A b \in DOMAIN bs :
          /\ p.beats[b].kind = "organize" => Len(bs[b].actions) >= 2 * Couples(p)
          /\ p.beats[b].kind = "conclude" => bs[b].actions # <<>>

LEMMA OneOrganizes ==
    ASSUME NEW p, NEW goal, Admitted(p, goal), p.strategy = "pair_elimination"
    PROVE  \E o \in DOMAIN p.beats :
               /\ Eliminates(p, p.beats[o])
               /\ \A b \in DOMAIN p.beats : p.beats[b].kind = "organize" <=> b = o
<1>1. PairEliminationShape(p) /\ p.primary.kind = "ordered_values"
  BY StrategyKinds DEF Admitted, ValidDocument
<1>2. PICK o \in DOMAIN p.beats : \A b \in DOMAIN p.beats : p.beats[b].kind = "organize" <=> b = o
  BY <1>1 DEF PairEliminationShape
<1>3. p.beats[o].kind = "organize"
  BY <1>2
<1>4. QED BY <1>2, <1>3 DEF Eliminates

LEMMA PairsGrow ==
    ASSUME NEW p, NEW goal, Admitted(p, goal), p.strategy = "pair_elimination",
           NEW bs, NEW bk, BeatsStaged(p, goal, bs, bk), PairsKept(p, bs, bk),
           Len(bs) < Len(p.beats), NEW n, n = Len(bs) + 1, NEW d, d = ExpandBeat(p, goal, bk, n),
           NEW e, e.actions = d.actions
    PROVE  PairsKept(p, Append(bs, e), d)
<1> DEFINE es == Append(bs, e)
           h == FlattenSeq(Acts(bs))
<1>1. Listed(bs) /\ Agree(p, h, Fresh(bk))
  BY DEF BeatsStaged
<1>2. Len(bs) \in Nat /\ DOMAIN bs = 1..Len(bs)
  BY <1>1, ListPlaces
<1>3. DOMAIN es = 1..(Len(bs) + 1) /\ es[Len(bs) + 1] = e /\ \A b \in DOMAIN bs : es[b] = bs[b]
  BY <1>1, ActsAppend
<1>4. DOMAIN p.beats = 1..Len(p.beats) /\ Len(p.beats) \in 3..5
  BY BeatsOfPlan DEF Admitted
<1>5. n \in DOMAIN p.beats /\ n \notin DOMAIN bs /\ n \in DOMAIN es /\ es[n] = e
  BY <1>2, <1>3, <1>4
<1>6. \A b \in DOMAIN es : b \in DOMAIN bs \/ b = n
  BY <1>2, <1>3
<1>7. \A b \in DOMAIN bs : b \in DOMAIN es /\ b \in DOMAIN p.beats
  BY <1>2, <1>3, <1>4
<1>8. PICK o \in DOMAIN p.beats :
         /\ Eliminates(p, p.beats[o])
         /\ \A b \in DOMAIN p.beats : p.beats[b].kind = "organize" <=> b = o
  BY OneOrganizes
<1> HIDE DEF es, h
<1>9. ASSUME \A b \in DOMAIN es : p.beats[b].kind # "organize" PROVE Bright(p, d)
  <2>1. Bright(p, bk)
    BY <1>7, <1>9 DEF PairsKept
  <2>2. p.beats[n].kind # "organize"
    BY <1>5, <1>9
  <2>3. QED BY <1>5, <1>8, <2>1, <2>2, BrightBeat
<1>10. ASSUME p.beats[n].kind = "organize" PROVE Len(e.actions) >= 2 * Couples(p)
  <2>1. n = o
    BY <1>5, <1>8, <1>10
  <2>2. Bright(p, bk)
    BY <1>5, <1>7, <1>8, <2>1 DEF PairsKept
  <2>3. Len(ExpandBeat(p, goal, bk, o).actions) >= 2 * Couples(p)
    BY <1>1, <1>8, <2>2, PairsGo
  <2>4. QED BY <2>1, <2>3
<1>11. ASSUME p.beats[n].kind = "conclude" PROVE e.actions # <<>>
  BY <1>1, <1>5, <1>11, PairsConclude
<1>12. ASSUME NEW b \in DOMAIN es
       PROVE  /\ p.beats[b].kind = "organize" => Len(es[b].actions) >= 2 * Couples(p)
              /\ p.beats[b].kind = "conclude" => es[b].actions # <<>>
  <2>1. CASE b \in DOMAIN bs
    BY <1>3, <2>1 DEF PairsKept
  <2>2. CASE b = n
    BY <1>5, <1>10, <1>11, <2>2
  <2>3. QED BY <1>6, <2>1, <2>2
<1>13. PairsKept(p, es, d)
  BY <1>9, <1>12 DEF PairsKept
<1>14. QED BY <1>13 DEF es

-----------------------------------------------------------------------------
(* The second invariant: what every beat has been expanded into, and, of a  *)
(* lesson that takes pairs away, which values have not faded yet.           *)

TimeInv ==
    /\ \A b \in DOMAIN beats : beats[b] = Expanded(plan, plan.beats[b], beats[b].actions)
    /\ (Admissible /\ plan.strategy = "pair_elimination") => PairsKept(plan, beats, books)

LEMMA PairsAtFirst ==
    ASSUME NEW p, NEW goal, Admitted(p, goal), UniqueRefs(p), p.strategy = "pair_elimination"
    PROVE  PairsKept(p, <<>>, Books(p))
<1>1. p.primary.kind = "ordered_values" /\ Listed(p.supporting)
  BY StrategyKinds, PrimaryRef
<1>2. Bright(p, Books(p))
  BY <1>1, VisualByRef, BrightAtFirst
<1>3. QED BY <1>2, EmptyList DEF PairsKept

LEMMA TimeInit == Init => TimeInv
<1> SUFFICES ASSUME Init PROVE TimeInv
  OBVIOUS
<1>1. ValidDocument(plan) /\ beats = <<>> /\ books = Books(plan)
  BY RequestsAssumption DEF Init
<1>2. ASSUME Admissible, plan.strategy = "pair_elimination" PROVE PairsKept(plan, beats, books)
  <2> DEFINE p == plan
             goal == answer
  <2>1. Admitted(p, goal) /\ UniqueRefs(p) /\ p.strategy = "pair_elimination"
    BY <1>1, <1>2, AdmissibleIsAdmitted DEF Admissible
  <2> HIDE DEF p, goal
  <2>2. PairsKept(p, <<>>, Books(p))
    BY <2>1, PairsAtFirst
  <2>3. QED BY <1>1, <2>2 DEF p
<1>3. \A b \in DOMAIN beats : beats[b] = Expanded(plan, plan.beats[b], beats[b].actions)
  BY <1>1, EmptyList
<1>4. QED BY <1>2, <1>3 DEF TimeInv

LEMMA TimeStep == CompilerInv /\ TimeInv /\ [Next]_vars => TimeInv'
<1> SUFFICES ASSUME CompilerInv, TimeInv, [Next]_vars PROVE TimeInv'
  OBVIOUS
<1>1. CASE Expand
  <2> DEFINE n == Len(beats) + 1
             e == Expanded(plan, plan.beats[n], books'.actions)
             p == plan
             goal == answer
             bs == beats
             bk == books
             d == books'
  <2>1. /\ phase = "expanding" /\ Len(bs) < Len(p.beats)
        /\ d = ExpandBeat(p, goal, bk, n) /\ beats' = Append(bs, e)
        /\ plan' = p /\ answer' = goal
    BY <1>1 DEF Expand
  <2>2. Admissible /\ ValidDocument(plan) /\ BeatsStaged(p, goal, bs, bk)
    BY <2>1 DEF CompilerInv
  <2>3. Admitted(p, goal)
    BY <2>2, AdmissibleIsAdmitted
  <2>4. e.actions = d.actions /\ e = Expanded(p, p.beats[n], e.actions)
    BY DEF Expanded
  <2>5. \A b \in DOMAIN bs : bs[b] = Expanded(p, p.beats[b], bs[b].actions)
    BY DEF TimeInv
  <2>6. p.strategy = "pair_elimination" => PairsKept(p, bs, bk)
    BY <2>2 DEF TimeInv
  <2>7. n = Len(bs) + 1
    OBVIOUS
  <2>8. TimeInv' <=> /\ \A b \in DOMAIN beats' : beats'[b] = Expanded(plan', plan'.beats[b], beats'[b].actions)
                     /\ (Admissible /\ plan.strategy = "pair_elimination")' => PairsKept(plan', beats', books')
    BY DEF TimeInv
  <2> HIDE DEF e, p, goal, bs, bk, d, n
  <2>9. Listed(bs)
    BY <2>2 DEF BeatsStaged
  <2>10. /\ DOMAIN Append(bs, e) = 1..(Len(bs) + 1) /\ Append(bs, e)[Len(bs) + 1] = e
         /\ \A b \in DOMAIN bs : Append(bs, e)[b] = bs[b]
         /\ DOMAIN bs = 1..Len(bs) /\ Len(bs) \in Nat
    BY <2>9, ActsAppend, ListPlaces
  <2>11. \A b \in DOMAIN Append(bs, e) : Append(bs, e)[b] = Expanded(p, p.beats[b], Append(bs, e)[b].actions)
    <3>1. \A b \in DOMAIN Append(bs, e) : b \in DOMAIN bs \/ b = n
      BY <2>7, <2>10
    <3>2. Append(bs, e)[n] = e
      BY <2>7, <2>10
    <3>3. QED BY <2>4, <2>5, <2>10, <3>1, <3>2
  <2>12. p.strategy = "pair_elimination" => PairsKept(p, Append(bs, e), d)
    BY <2>1, <2>2, <2>3, <2>4, <2>6, <2>7, PairsGrow
  <2>13. plan' = p /\ beats' = Append(bs, e) /\ books' = d
    BY <2>1 DEF d
  <2>14. QED BY <2>8, <2>11, <2>12, <2>13
<1>2. ASSUME UNCHANGED <<plan, answer, books, beats>> PROVE TimeInv'
  <2>1. Admissible' => Admissible
    BY <1>2 DEF Admissible
  <2>2. QED BY <1>2, <2>1 DEF TimeInv
<1>3. CASE Validate
  BY <1>2, <1>3 DEF Validate
<1>4. CASE Compile
  BY <1>2, <1>4 DEF Compile
<1>5. CASE Judge
  BY <1>2, <1>5 DEF Judge
<1>6. CASE Resolve
  BY <1>2, <1>6 DEF Resolve
<1>7. CASE PlayGroup
  BY <1>2, <1>7 DEF PlayGroup
<1>8. CASE Finish
  BY <1>2, <1>8 DEF Finish
<1>9. CASE UNCHANGED vars
  BY <1>2, <1>9 DEF vars
<1>10. QED BY <1>1, <1>3, <1>4, <1>5, <1>6, <1>7, <1>8, <1>9 DEF Next

LEMMA TimeAlways == Spec => [](CompilerInv /\ TimeInv)
<1>1. QED BY CompilerInit, CompilerStep, TimeInit, TimeStep, PTL DEF Spec

-----------------------------------------------------------------------------
(* The gates on time.                                                       *)

\* The beat that turns has an action for every turn.
LEMMA TurnsEnough ==
    ASSUME NEW p, NEW goal, NEW bs, NEW bk, NEW line, NEW off, Scheduled(p, goal, bs, bk, line, off),
           Distinct(p), NEW b \in DOMAIN bs, Turning(p, p.beats[b])
    PROVE  Len(bs[b].actions) >= p.primary.iterations
<1> DEFINE c == "turn"
           x == bs[b].actions
           m == Turns(p)
           n == p.primary.iterations
<1>1. Listed(x) /\ b \in DOMAIN p.beats /\ Admitted(p, goal)
  BY ScheduledBeats DEF Scheduled
<1>2. n \in 1..4
  BY <1>1, TurningBeat
<1>3. c \in Classes /\ Moves(p, c) = m /\ c \in ClassesOf(p, goal, b)
  <2>1. c \in ClassesOf(p, goal, b)
    BY ClassesAre DEF Turning
  <2>2. QED BY <2>1 DEF Classes, Moves
<1> HIDE DEF c
<1>4. Staged(p, c, x, m)
  BY <1>3, ClassOfBeat
<1>5. Listed(m) /\ \E i \in 0..Len(x) : i + Len(m) <= Len(x)
  BY <1>4 DEF Staged, Run
<1>6. DOMAIN m = 1..n
  BY DEF Turns
<1>7. DOMAIN m = 1..Len(m) /\ Len(m) \in Nat /\ Len(x) \in Nat
  BY <1>1, <1>5, ListPlaces
<1> HIDE DEF m, x, n
<1>8. Len(m) = n
  <2> DEFINE l == Len(m)
  <2>1. l \in Nat /\ 1..l = 1..n
    BY <1>6, <1>7
  <2> HIDE DEF l
  <2>2. n \in 1..l /\ n <= l
    BY <1>2, <2>1
  <2>3. l \in 1..n /\ l <= n
    BY <1>2, <2>1, <2>2
  <2>4. l = n
    BY <1>2, <2>1, <2>2, <2>3
  <2>5. QED BY <2>4 DEF l
<1>9. Len(x) >= n
  BY <1>2, <1>5, <1>7, <1>8
<1>10. QED BY <1>9 DEF x, n

\* The last beat acts: it gives the answer, or it calls out what is left of the pairs.
LEMMA LastActs ==
    ASSUME NEW p, NEW goal, NEW bs, NEW bk, NEW line, NEW off, Scheduled(p, goal, bs, bk, line, off),
           Distinct(p), p.strategy = "pair_elimination" => PairsKept(p, bs, bk)
    PROVE  bs[Len(bs)].actions # <<>>
<1> DEFINE n == Len(bs)
<1>1. /\ n \in DOMAIN bs /\ n = Len(p.beats) /\ Admitted(p, goal)
      /\ DOMAIN p.beats = DOMAIN bs /\ Listed(bs[n].actions)
  <2>1. DOMAIN bs = 1..n /\ n \in 3..5 /\ DOMAIN p.beats = DOMAIN bs
    BY ScheduledBeats
  <2>2. n \in DOMAIN bs
    BY <2>1
  <2>3. Listed(bs[n].actions)
    BY <2>2, ScheduledBeats
  <2>4. QED BY <2>1, <2>2, <2>3 DEF Scheduled
<1>2. p.beats[n].kind = "conclude"
  BY <1>1, LastConcludes
<1> HIDE DEF n
<1>3. CASE Declared(p)
  <2> DEFINE c == "value"
             a == ShowStage("value")
             x == bs[n].actions
  <2>1. c \in Classes /\ Moves(p, c) = <<a>> /\ c \in ClassesOf(p, goal, n)
    <3>1. c \in ClassesOf(p, goal, n)
      BY <1>2, <1>3, ClassesAre
    <3>2. QED BY <3>1 DEF Classes, Moves
  <2> HIDE DEF c, a
  <2>2. Staged(p, c, x, <<a>>)
    BY <1>1, <2>1, ClassOfBeat
  <2>3. \E i \in 0..Len(x) : i + Len(<<a>>) <= Len(x)
    BY <2>2 DEF Staged, Run
  <2>4. Len(<<a>>) = 1
    BY ListOfOne
  <2>5. Len(x) \in Nat
    BY <1>1, ListPlaces
  <2>6. x # <<>>
    <3> HIDE DEF x
    <3>1. Len(x) # 0
      BY <2>3, <2>4, <2>5
    <3>2. QED BY <3>1, EmptyList
  <2>7. QED BY <2>6 DEF n
<1>4. CASE ~Declared(p)
  <2>1. p.strategy = "pair_elimination"
    BY <1>4 DEF Declared
  <2>2. QED BY <1>1, <1>2, <2>1 DEF PairsKept, n
<1>5. QED BY <1>3, <1>4

\* Every beat that the gate finds acting has actions, and as many as its move needs.
LEMMA ActsEnough ==
    ASSUME NEW p, NEW goal, NEW bs, NEW bk, NEW program_, NEW off,
           Scheduled(p, goal, bs, bk, program_.timeline, off), Distinct(p),
           p.strategy = "pair_elimination" => PairsKept(p, bs, bk), EveryBeatActs(p, program_)
    PROVE  AllAct(p, bs)
<1> DEFINE line == program_.timeline
<1>1. /\ DOMAIN p.beats = DOMAIN bs
      /\ \A b \in DOMAIN bs : bs[b].id = p.beats[b].id /\ Listed(bs[b].actions)
  BY ScheduledBeats
<1>2. Played_(bs, line, off) /\ Listed(line)
  BY DEF Scheduled, Played_
<1>3. ASSUME NEW b \in DOMAIN bs PROVE bs[b].actions # <<>>
  <2>1. p.beats[b] \in Range(p.beats)
    BY <1>1 DEF Range
  <2>2. PICK e \in Range(line) : e.beat = p.beats[b].id
    BY <2>1 DEF EveryBeatActs
  <2>3. PICK k \in DOMAIN line : line[k] = e
    BY <2>2 DEF Range
  <2>4. PICK c \in DOMAIN bs : \E a \in DOMAIN bs[c].actions : k = off[c - 1] + a
    BY <1>2, <2>3 DEF Played_
  <2>5. line[k].beat = bs[c].id
    BY <1>2, <2>4 DEF Played_
  <2>6. c = b
    BY <1>1, <2>2, <2>3, <2>5 DEF Distinct
  <2>7. QED BY <2>4, <2>6, EmptyList
<1>4. ASSUME NEW b \in DOMAIN bs PROVE Enough(p, p.beats[b], Len(bs[b].actions))
  <2>1. Turning(p, p.beats[b]) => Len(bs[b].actions) >= p.primary.iterations
    BY TurnsEnough
  <2>2. Eliminates(p, p.beats[b]) => Len(bs[b].actions) >= 2 * Couples(p)
    BY <1>4 DEF Eliminates, PairsKept
  <2>3. QED BY <2>1, <2>2 DEF Enough
<1>5. QED BY <1>3, <1>4 DEF AllAct

\* What the compiler has made of a lesson whose beats have names of their own.
OnTheClock(p, goal, bs, bk, pr, off) ==
    /\ Scheduled(p, goal, bs, bk, pr.timeline, off) /\ Paced(p, goal, bs)
    /\ Played_(bs, pr.timeline, off) /\ OnTime(bs, pr.timeline, off)
    /\ Len(pr.timeline) \in 1..MaxEntries
    /\ pr.total = SceneLength(bs) /\ FitsScene(pr.timeline, pr.total)
    /\ bs[Len(bs)].actions # <<>>
    /\ EveryBeatActs(p, pr) => OnSchedule(p, goal, bs, pr.timeline, off)

LEMMA CompiledIsPaced ==
    ASSUME CompilerInv, TimeInv, Compiled, UniqueIds
    PROVE  \E off : OnTheClock(plan, answer, beats, books, program, off)
<1> DEFINE p == plan
           goal == answer
           bs == beats
           bk == books
           pr == program
           line == pr.timeline
<1>1. PICK off : Scheduled(p, goal, bs, bk, line, off)
  BY CompiledIsScheduled
<1>2. /\ Admissible /\ Schedulable /\ line = Schedule(bs) /\ pr.total = SceneLength(bs)
  BY DEF CompilerInv, Compiled
<1>3. /\ FloorOf(bs) <= MaxScene /\ Len(line) \in 1..MaxEntries /\ FitsScene(line, pr.total)
  BY <1>2 DEF Schedulable
<1>4. /\ \A b \in DOMAIN bs : bs[b] = Expanded(p, p.beats[b], bs[b].actions)
      /\ p.strategy = "pair_elimination" => PairsKept(p, bs, bk)
  BY <1>2 DEF TimeInv
<1>5. Distinct(p)
  BY DEF UniqueIds, Distinct
<1> HIDE DEF p, goal, bs, bk, pr
<1>6. Admitted(p, goal) /\ Played_(bs, line, off) /\ Len(bs) = Len(p.beats)
  BY <1>1 DEF Scheduled
<1>7. Listed(bs) /\ \A b \in DOMAIN bs : Listed(bs[b].actions)
  BY <1>1, ScheduledBeats
<1>8. Paced(p, goal, bs)
  BY <1>3, <1>4, <1>5, <1>6, <1>7 DEF Paced
<1>9. OnTime(bs, line, off)
  <2>1. Played_(bs, Schedule(bs), off)
    BY <1>2, <1>6
  <2>2. OnTime(bs, Schedule(bs), off)
    BY <1>7, <2>1, ScheduleTimes
  <2>3. QED BY <1>2, <2>2
<1>10. bs[Len(bs)].actions # <<>>
  BY <1>1, <1>4, <1>5, LastActs
<1>11. ASSUME EveryBeatActs(p, pr) PROVE OnSchedule(p, goal, bs, line, off)
  <2>1. AllAct(p, bs)
    BY <1>1, <1>4, <1>5, <1>11, ActsEnough
  <2>2. Len(line) <= MaxEntries
    <3> DEFINE m == Len(line)
    <3>1. m \in 1..MaxEntries
      BY <1>3
    <3> HIDE DEF m
    <3>2. m <= MaxEntries
      BY <3>1, FewEntries
    <3>3. QED BY <3>2 DEF m
  <2>3. QED BY <1>6, <1>8, <1>9, <2>1, <2>2 DEF OnSchedule
<1>12. OnTheClock(p, goal, bs, bk, pr, off)
  BY <1>1, <1>2, <1>3, <1>6, <1>8, <1>9, <1>10, <1>11 DEF OnTheClock
<1>13. QED BY <1>12 DEF p, goal, bs, bk, pr

LEMMA TimeKept == CompilerInv /\ TimeInv => CompilerKeepsTime
<1> SUFFICES ASSUME CompilerInv, TimeInv, phase = "compiled", UniqueIds
             PROVE  /\ Duration(program)
                    /\ ConclusionHold(program)
                    /\ (EveryBeatActs(plan, program) /\ ~OneTurnInFocus(plan)) => NoIdleTime(program)
  BY DEF CompilerKeepsTime
<1> DEFINE p == plan
           goal == answer
           bs == beats
           bk == books
           pr == program
<1>1. PICK off : OnTheClock(p, goal, bs, bk, pr, off)
  BY CompiledIsPaced DEF Compiled
<1> HIDE DEF p, goal, bs, bk, pr
<1>2. Duration(pr)
  <2>1. SceneLength(bs) \in MinScene..MaxScene
    BY <1>1, LastsLong DEF OnTheClock
  <2>2. QED BY <1>1, <2>1 DEF OnTheClock, Duration
<1>3. ConclusionHold(pr)
  BY <1>1, ConclusionHolds DEF OnTheClock
<1>4. ASSUME EveryBeatActs(p, pr), ~OneTurnInFocus(p) PROVE NoIdleTime(pr)
  <2>1. OnSchedule(p, goal, bs, pr.timeline, off)
    BY <1>1, <1>4 DEF OnTheClock
  <2>2. QED BY <1>4, <2>1, NothingIdle
<1>5. QED BY <1>2, <1>3, <1>4 DEF p, pr

LEMMA GatesInTime == CompilerInv /\ TimeInv => CompilerKeepsGates
BY AnswerInTime, ShownInTime, TimeKept DEF CompilerKeepsGates

\* No plan that compiles is refused by a gate its author cannot keep: the stages
\* of its answer and the work that resolves on screen, the reveals that nothing
\* repeats, the length of the scene, the hold of its conclusion and, but for the one
\* shape of a lesson with a single turn, the time between its actions (quality.py).
THEOREM CompilerKeepsGatesAlways == Spec => []CompilerKeepsGates
BY TimeAlways, GatesInTime, PTL

-----------------------------------------------------------------------------
(* How far the renderer may fall behind: what the other beats leave.        *)

\* The sum of a few naturals, when all but two of them have a bound.
LEMMA SumAtMost ==
    ASSUME NEW n \in 3..5, NEW v, \A k \in 1..n : v[k] \in Nat, NEW f, Summing(v, f, n),
           NEW t \in 1..n, t # n, NEW x \in Nat,
           \A k \in 1..n : (k # t /\ k # n) => v[k] <= x
    PROVE  f[n] <= v[t] + v[n] + (n - 2) * x
<1>1. f[0] = 0 /\ \A k \in 1..n : f[k] = f[k - 1] + v[k]
  BY SumOfFew
<1>2. f[1] = v[1] /\ f[2] = v[1] + v[2] /\ f[3] = v[1] + v[2] + v[3]
  <2>1. 1 \in 1..n /\ 2 \in 1..n /\ 3 \in 1..n
    OBVIOUS
  <2>2. f[1] = f[1 - 1] + v[1] /\ f[2] = f[2 - 1] + v[2] /\ f[3] = f[3 - 1] + v[3]
    BY <1>1, <2>1
  <2>3. 1 - 1 = 0 /\ 2 - 1 = 1 /\ 3 - 1 = 2 /\ v[1] \in Nat /\ v[2] \in Nat /\ v[3] \in Nat
    BY <2>1
  <2>4. QED BY <1>1, <2>2, <2>3
<1>3. v[1] \in Nat /\ v[2] \in Nat /\ v[3] \in Nat
  OBVIOUS
<1>4. CASE n = 3
  <2>1. t \in {1, 2}
    BY <1>4
  <2>2. (n - 2) * x = x
    BY <1>4
  <2>3. t = 1 => v[2] <= x
    BY <1>4
  <2>4. t = 2 => v[1] <= x
    BY <1>4
  <2>5. QED BY <1>2, <1>3, <1>4, <2>1, <2>2, <2>3, <2>4
<1>5. CASE n = 4
  <2>1. t \in {1, 2, 3} /\ v[4] \in Nat
    BY <1>5
  <2>2. (n - 2) * x = x + x
    BY <1>5
  <2>3. f[4] = v[1] + v[2] + v[3] + v[4]
    <3>1. 4 \in 1..n /\ 4 - 1 = 3
      BY <1>5
    <3>2. f[4] = f[4 - 1] + v[4]
      BY <1>1, <3>1
    <3>3. QED BY <1>2, <3>1, <3>2
  <2>4. /\ t # 1 => v[1] <= x
        /\ t # 2 => v[2] <= x
        /\ t # 3 => v[3] <= x
    BY <1>5
  <2>5. QED BY <1>3, <1>5, <2>1, <2>2, <2>3, <2>4
<1>6. CASE n = 5
  <2>1. t \in {1, 2, 3, 4} /\ v[4] \in Nat /\ v[5] \in Nat
    BY <1>6
  <2>2. (n - 2) * x = x + x + x
    BY <1>6
  <2>3. f[5] = v[1] + v[2] + v[3] + v[4] + v[5]
    <3>1. 4 \in 1..n /\ 4 - 1 = 3 /\ 5 \in 1..n /\ 5 - 1 = 4
      BY <1>6
    <3>2. f[4] = f[4 - 1] + v[4] /\ f[5] = f[5 - 1] + v[5]
      BY <1>1, <3>1
    <3>3. QED BY <1>2, <3>1, <3>2
  <2>4. /\ t # 1 => v[1] <= x
        /\ t # 2 => v[2] <= x
        /\ t # 3 => v[3] <= x
        /\ t # 4 => v[4] <= x
    BY <1>6
  <2>5. QED BY <1>3, <1>6, <2>1, <2>2, <2>3, <2>4
<1>7. QED BY <1>4, <1>5, <1>6

\* The sum of a few naturals, none of them zero.
LEMMA SumAtLeast ==
    ASSUME NEW n \in 3..5, NEW v, \A k \in 1..n : v[k] \in Nat /\ v[k] >= 1, NEW f, Summing(v, f, n),
           NEW t \in 1..n
    PROVE  v[t] + (n - 1) <= f[n]
<1>1. f[0] = 0 /\ \A k \in 1..n : f[k] = f[k - 1] + v[k]
  BY SumOfFew
<1>2. f[1] = v[1] /\ f[2] = v[1] + v[2] /\ f[3] = v[1] + v[2] + v[3]
  <2>1. 1 \in 1..n /\ 2 \in 1..n /\ 3 \in 1..n
    OBVIOUS
  <2>2. f[1] = f[1 - 1] + v[1] /\ f[2] = f[2 - 1] + v[2] /\ f[3] = f[3 - 1] + v[3]
    BY <1>1, <2>1
  <2>3. 1 - 1 = 0 /\ 2 - 1 = 1 /\ 3 - 1 = 2 /\ v[1] \in Nat /\ v[2] \in Nat /\ v[3] \in Nat
    BY <2>1
  <2>4. QED BY <1>1, <2>2, <2>3
<1>3. /\ v[1] \in Nat /\ v[2] \in Nat /\ v[3] \in Nat
      /\ v[1] >= 1 /\ v[2] >= 1 /\ v[3] >= 1
  OBVIOUS
<1>4. CASE n = 3
  <2>1. t \in {1, 2, 3}
    BY <1>4
  <2>2. QED BY <1>2, <1>3, <1>4, <2>1
<1>5. CASE n = 4
  <2>1. t \in {1, 2, 3, 4} /\ v[4] \in Nat /\ v[4] >= 1
    BY <1>5
  <2>2. f[4] = v[1] + v[2] + v[3] + v[4]
    <3>1. 4 \in 1..n /\ 4 - 1 = 3
      BY <1>5
    <3>2. f[4] = f[4 - 1] + v[4]
      BY <1>1, <3>1
    <3>3. QED BY <1>2, <3>1, <3>2
  <2>3. QED BY <1>3, <1>5, <2>1, <2>2
<1>6. CASE n = 5
  <2>1. t \in {1, 2, 3, 4, 5} /\ v[4] \in Nat /\ v[5] \in Nat /\ v[4] >= 1 /\ v[5] >= 1
    BY <1>6
  <2>2. f[5] = v[1] + v[2] + v[3] + v[4] + v[5]
    <3>1. 4 \in 1..n /\ 4 - 1 = 3 /\ 5 \in 1..n /\ 5 - 1 = 4
      BY <1>6
    <3>2. f[4] = f[4 - 1] + v[4] /\ f[5] = f[5 - 1] + v[5]
      BY <1>1, <3>1
    <3>3. QED BY <1>2, <3>1, <3>2
  <2>3. QED BY <1>3, <1>6, <2>1, <2>2
<1>7. QED BY <1>4, <1>5, <1>6

\* A beat's share of three seconds, when its weight is four and all of them at most 26.
LEMMA ShareAtLeast ==
    ASSUME NEW w \in 4..5, NEW all \in 1..26, NEW left, left = 30 * Tenth
    PROVE  (left * w) \div all \in Nat /\ (left * w) \div all >= 4 * Tenth
<1> DEFINE a == left * w
           q == a \div all
           r == 4 * Tenth
<1>1. Tenth \in Nat /\ Tenth > 0
  BY TimesAre
<1> HIDE DEF Tenth
<1>2. a \in Nat /\ a >= 120 * Tenth
  <2>1. w = 4 \/ w = 5
    OBVIOUS
  <2>2. w = 4 => a = 120 * Tenth
    BY <1>1
  <2>3. w = 5 => a = 150 * Tenth
    BY <1>1
  <2>4. QED BY <1>1, <2>1, <2>2, <2>3
<1>3. r \in Nat /\ r * all <= 104 * Tenth
  <2>1. Tenth * all <= Tenth * 26
    BY <1>1
  <2>2. r * all = 4 * (Tenth * all)
    BY <1>1
  <2>3. Tenth * all \in Nat
    BY <1>1
  <2> DEFINE u == Tenth * all
  <2> HIDE DEF u
  <2>4. QED BY <1>1, <2>1, <2>2, <2>3 DEF u
<1>4. all \in Nat /\ all > 0
  OBVIOUS
<1> HIDE DEF a
<1>5. q \in Nat /\ a < q * all + all
  BY <1>2, <1>4, Quotient_
<1> HIDE DEF q, r
<1>6. r * all < q * all + all
  <2> DEFINE x == r * all
             y == q * all
  <2>1. x \in Int /\ y \in Int
    BY <1>3, <1>4, <1>5
  <2> HIDE DEF x, y
  <2>2. x <= 104 * Tenth /\ a < y + all
    BY <1>3, <1>5 DEF x, y
  <2>3. x < y + all
    BY <1>1, <1>2, <1>4, <2>1, <2>2
  <2>4. QED BY <2>3 DEF x, y
<1>7. r <= q
  BY <1>3, <1>4, <1>5, <1>6, QuotientIs
<1>8. QED BY <1>5, <1>7 DEF q, r, a

\* The scene, and the most that the slots of one beat can make it late.
LEMMA LateAtMost ==
    ASSUME NEW k \in 3..5, NEW f \in 11..60, NEW s \in Nat, s <= 41 - k,
           NEW t \in Nat, t <= (f + 25 * (k - 2) + 30) * Tenth,
           NEW l \in Nat, l >= f * Tenth, LeftOver(t) = 30 * Tenth => l >= (f + 4) * Tenth
    PROVE  t + LeftOver(t) + 3 * (s * Tenth) + s - l <= 240 * Tenth
<1> DEFINE g == f * Tenth
           u == s * Tenth
<1>1. Tenth \in Nat /\ Tenth > 100
  BY DEF Tenth
<1>2. MaxScene = 240 * Tenth /\ MinScene = 120 * Tenth /\ MinHold = 30 * Tenth
  BY TimesAre
<1> HIDE DEF Tenth, MaxScene, MinScene, MinHold
<1>3. /\ g \in Nat /\ u \in Nat /\ g <= 60 * Tenth /\ 11 * Tenth <= g
      /\ (f + 25 * (k - 2) + 30) * Tenth = g + (25 * (k - 2) + 30) * Tenth
      /\ (f + 4) * Tenth = g + 4 * Tenth
  BY <1>1
<1>4. u <= (41 - k) * Tenth
  BY <1>1
<1> HIDE DEF g, u
<1>5. k = 3 \/ k = 4 \/ k = 5
  OBVIOUS
<1>6. /\ k = 3 => t <= g + 55 * Tenth /\ u <= 38 * Tenth
      /\ k = 4 => t <= g + 80 * Tenth /\ u <= 37 * Tenth
      /\ k = 5 => t <= g + 105 * Tenth /\ u <= 36 * Tenth
  BY <1>1, <1>3, <1>4
<1>7. s <= Tenth
  BY <1>1
<1>8. l >= g /\ (LeftOver(t) = 30 * Tenth => l >= g + 4 * Tenth)
  BY <1>3 DEF g
<1>9. CASE t + 30 * Tenth <= 120 * Tenth
  <2>1. t + LeftOver(t) = 120 * Tenth
    BY <1>1, <1>2, <1>9 DEF LeftOver, Least, Most
  <2>2. QED BY <1>1, <1>3, <1>5, <1>6, <1>7, <1>8, <2>1 DEF u
<1>10. CASE t + 30 * Tenth > 120 * Tenth
  <2>1. t + 30 * Tenth <= 240 * Tenth
    BY <1>1, <1>3, <1>5, <1>6
  <2>2. LeftOver(t) = 30 * Tenth
    BY <1>1, <1>2, <1>10, <2>1 DEF LeftOver, Least, Most
  <2>3. t + 30 * Tenth + 3 * u + s - l <= 240 * Tenth
    BY <1>1, <1>3, <1>5, <1>6, <1>7, <1>8, <2>2
  <2>4. QED BY <2>2, <2>3 DEF u
<1>11. QED BY <1>1, <1>9, <1>10

\* The beats whose changes a strategy groups into slots of its own.
Grouped(p, beat) ==
    \/ Eliminates(p, beat)
    \/ beat.id \in {RegroupBeat(p), MagnitudeBeat(p), BridgeBeat(p), PercentBeat(p), RotationBeat(p)}

\* A lesson has one of them at most.
LEMMA OneIsGrouped ==
    ASSUME NEW p, NEW goal, Admitted(p, goal), Distinct(p),
           NEW b \in DOMAIN p.beats, NEW c \in DOMAIN p.beats,
           Grouped(p, p.beats[b]), Grouped(p, p.beats[c])
    PROVE  b = c
<1> DEFINE s == p.strategy
           x == p.beats[b].id
           y == p.beats[c].id
           k1 == RegroupBeat(p)
           k2 == MagnitudeBeat(p)
           k3 == BridgeBeat(p)
           k4 == PercentBeat(p)
           k5 == RotationBeat(p)
<1>1. /\ x = k1 => s = "regroup"
      /\ x = k2 => s = "magnitude_comparison"
      /\ x = k3 => s = "common_denominator_bridge"
      /\ x = k4 => s \in {"percent_of_whole", "percent_change"}
      /\ x = k5 => s = "rotation"
  BY SelectedBeat
<1>2. /\ y = k1 => s = "regroup"
      /\ y = k2 => s = "magnitude_comparison"
      /\ y = k3 => s = "common_denominator_bridge"
      /\ y = k4 => s \in {"percent_of_whole", "percent_change"}
      /\ y = k5 => s = "rotation"
  BY SelectedBeat
<1>3. /\ Eliminates(p, p.beats[b]) \/ x \in {k1, k2, k3, k4, k5}
      /\ Eliminates(p, p.beats[c]) \/ y \in {k1, k2, k3, k4, k5}
  BY DEF Grouped
<1>4. CASE s = "pair_elimination"
  <2>1. Eliminates(p, p.beats[b]) /\ Eliminates(p, p.beats[c])
    BY <1>1, <1>2, <1>3, <1>4
  <2>2. p.beats[c].kind = "organize"
    BY <2>1 DEF Eliminates
  <2>3. QED BY <2>1, <2>2, FocusAfter
<1>5. CASE s # "pair_elimination"
  <2>1. x \in {k1, k2, k3, k4, k5} /\ y \in {k1, k2, k3, k4, k5}
    BY <1>3, <1>5 DEF Eliminates
  <2> HIDE DEF s, x, y, k1, k2, k3, k4, k5
  <2>2. x = y
    BY <1>1, <1>2, <2>1
  <2>3. QED BY <2>2 DEF Distinct, x, y
<1>6. QED BY <1>4, <1>5

\* The other beats are cut into as many slots as have room.
LEMMA NoneAsked ==
    ASSUME NEW p, NEW goal, NEW bs, Paced(p, goal, bs), NEW b \in DOMAIN bs, ~Grouped(p, p.beats[b])
    PROVE  bs[b].slots = None
<1> DEFINE beat == p.beats[b]
           x == bs[b].actions
<1>1. bs[b].slots = SlotCount(p, beat, x)
  BY PacedBeats
<1>2. ~Eliminates(p, beat) /\ beat.id # RegroupBeat(p)
      /\ beat.id \notin {MagnitudeBeat(p), BridgeBeat(p), PercentBeat(p), RotationBeat(p)}
  BY DEF Grouped
<1>3. SlotCount(p, beat, x) = None
  <2> HIDE DEF beat, x
  <2>1. QED BY <1>2 DEF SlotCount, Eliminates
<1>4. QED BY <1>1, <1>3

\* The least time of a beat that groups nothing.
LEMMA TenthsOfOthers ==
    ASSUME NEW p, NEW goal, NEW bs, Paced(p, goal, bs), NEW b \in DOMAIN bs, b # Len(bs)
    PROVE  /\ LeastTenths(p, p.beats[b]) \in Nat /\ LeastTenths(p, p.beats[b]) >= 11
           /\ ~Grouped(p, p.beats[b]) => LeastTenths(p, p.beats[b]) <= 25
           /\ ~Eliminates(p, p.beats[b]) => LeastTenths(p, p.beats[b]) <= 60
<1> DEFINE beat == p.beats[b]
           f == LeastTenths(p, beat)
<1>1. beat.kind # "conclude" /\ Admitted(p, goal) /\ Distinct(p) /\ b \in DOMAIN p.beats
  <2>1. beat.kind # "conclude"
    BY WeightsOf
  <2>2. Admitted(p, goal) /\ Distinct(p)
    BY DEF Paced
  <2>3. DOMAIN p.beats = DOMAIN bs
    BY PacedBeats
  <2>4. QED BY <2>1, <2>2, <2>3
<1>2. f \in Nat /\ f >= 11
  BY <1>1, TenthsAtLeast
<1>3. ~Grouped(p, beat) => ~Turning(p, beat) /\ ~Eliminates(p, beat)
  BY DEF Grouped, Turning
<1>4. ASSUME ~Turning(p, beat), ~Eliminates(p, beat) PROVE f <= 25
  <2>1. ValidBeat(beat)
    BY <1>1, BeatsOfPlan DEF Admitted
  <2> HIDE DEF beat
  <2>2. \/ LeastTenths(p, beat) = 15
        \/ LeastTenths(p, beat) = 20
        \/ LeastTenths(p, beat) = 25
    BY <1>1, <1>4, <2>1, TenthsOfKind
  <2> HIDE DEF f
  <2>3. f = 15 \/ f = 20 \/ f = 25
    BY <2>2 DEF f
  <2>4. QED BY <2>3
<1>5. ASSUME Turning(p, beat) PROVE f <= 60
  <2>1. f = 11 * p.primary.iterations
    BY <1>5 DEF LeastTenths
  <2>2. p.primary.iterations \in 1..4
    BY <1>1, <1>5, TurningBeat
  <2> HIDE DEF f
  <2>3. QED BY <2>1, <2>2
<1> HIDE DEF beat, f
<1>6. ~Grouped(p, beat) => f <= 25
  BY <1>3, <1>4
<1>7. ~Eliminates(p, beat) => f <= 60
  BY <1>2, <1>4, <1>5
<1>8. QED BY <1>2, <1>6, <1>7 DEF beat, f

\* Every beat leaves an entry to each of the others.
LEMMA ActionsAtMost ==
    ASSUME NEW bs, NEW line, NEW off, Played_(bs, line, off), Listed(bs), Len(bs) \in 3..5,
           \A b \in DOMAIN bs : Listed(bs[b].actions) /\ bs[b].actions # <<>>,
           Len(line) <= MaxEntries, NEW t \in DOMAIN bs
    PROVE  Len(bs[t].actions) \in Nat /\ Len(bs[t].actions) <= 41 - Len(bs)
<1> DEFINE n == Len(bs)
           v == [b \in 1..n |-> Len(bs[b].actions)]
           ss == Acts(bs)
<1>1. DOMAIN bs = 1..n /\ DOMAIN ss = 1..n /\ \A b \in 1..n : ss[b] = bs[b].actions
  BY ListPlaces DEF Acts
<1>2. Offsets(ss, off) /\ Len(line) = off[n]
  BY DEF Played_
<1>3. Len(ss) = n
  <2>1. ListOfLists(ss)
    BY DEF Played_
  <2>2. Listed(ss)
    BY <2>1 DEF ListOfLists
  <2>3. Len(ss) \in Nat /\ DOMAIN ss = 1..Len(ss)
    BY <2>2, ListPlaces
  <2> DEFINE m == Len(ss)
  <2> HIDE DEF n, m, ss
  <2>4. m \in Nat /\ 1..m = 1..n /\ n \in 3..5
    BY <1>1, <2>3 DEF n, m
  <2>5. n \in 1..m /\ (m > 0 => m \in 1..n)
    BY <2>4
  <2>6. m = n
    BY <2>4, <2>5
  <2>7. QED BY <2>6 DEF m
<1>4. \A b \in 1..n : v[b] \in Nat /\ v[b] >= 1 /\ v[b] = Len(bs[b].actions)
  <2>1. ASSUME NEW b \in 1..n PROVE Len(bs[b].actions) \in Nat /\ Len(bs[b].actions) >= 1
    <3>1. Listed(bs[b].actions) /\ bs[b].actions # <<>>
      BY <1>1
    <3>2. Len(bs[b].actions) \in Nat
      BY <3>1, ListPlaces
    <3>3. Len(bs[b].actions) = 0 => bs[b].actions = <<>>
      BY <3>1, SameList, EmptyList
    <3>4. QED BY <3>1, <3>2, <3>3
  <2>2. QED BY <2>1
<1>5. /\ off \in [0..n -> Nat] /\ off[0] = 0
      /\ \A b \in 1..n : off[b] = off[b - 1] + v[b]
  BY <1>1, <1>2, <1>3, <1>4 DEF Offsets
<1>6. n \in 3..5 /\ t \in 1..n
  BY <1>1
<1> HIDE DEF v, n
<1>7. Summing(v, off, n)
  <2> DEFINE g == [k \in 0..n |-> IF k = 0 THEN 0 ELSE off[k - 1] + v[k]]
  <2>1. \A k \in 0..n : k = 0 \/ k \in 1..n
    BY <1>6
  <2>2. \A k \in 0..n : off[k] = g[k]
    BY <1>5, <2>1
  <2>3. off = g
    BY <1>5, <2>2
  <2>4. QED BY <2>3 DEF Summing
<1>8. v[t] + (n - 1) <= off[n]
  BY <1>4, <1>6, <1>7, SumAtLeast
<1>9. off[n] \in Nat /\ off[n] <= 40
  <2>1. off[n] <= MaxEntries
    BY <1>2 DEF n
  <2>2. off[n] \in Nat
    BY <1>5, <1>6
  <2>3. QED BY <2>1, <2>2, FewEntries
<1>10. v[t] \in Nat /\ v[t] <= 41 - n
  <2>1. v[t] \in Nat
    BY <1>4, <1>6
  <2>2. QED BY <1>6, <1>8, <1>9, <2>1
<1>11. v[t] = Len(bs[t].actions)
  BY <1>4, <1>6
<1>12. QED BY <1>10, <1>11 DEF n

\* A lesson has a beat besides its conclusion and another one.
LEMMA OtherBeat ==
    ASSUME NEW n \in 3..5, NEW t \in 1..n, t # n
    PROVE  \E c \in 1..n : c # t /\ c # n
<1>1. CASE t = 1
  <2>1. 2 \in 1..n /\ 2 # t /\ 2 # n
    BY <1>1
  <2>2. QED BY <2>1
<1>2. CASE t # 1
  <2>1. 1 \in 1..n /\ 1 # t /\ 1 # n
    BY <1>2
  <2>2. QED BY <2>1
<1>3. QED BY <1>1, <1>2

\* The weights of a lesson add up to 26 at most, and its floors to those of one of its beats,
\* 2.5 seconds for each other one and the three of the conclusion.
LEMMA TotalsAtMost ==
    ASSUME NEW p, NEW goal, NEW bs, Paced(p, goal, bs), NEW t \in DOMAIN bs, t # Len(bs),
           NEW f, f = LeastTenths(p, p.beats[t]),
           \A b \in DOMAIN bs : (b # t /\ b # Len(bs)) => LeastTenths(p, p.beats[b]) <= 25
    PROVE  /\ WeightOf(bs) \in 1..26
           /\ FloorOf(bs) <= (f + 25 * (Len(bs) - 2) + 30) * Tenth
<1> DEFINE n == Len(bs)
           vf == Floors(bs)
           vw == Weights(bs)
           x == 25 * Tenth
           L(b) == LeastTenths(p, p.beats[b])
           W(b) == Weight(p.beats[b])
<1>1. /\ n \in 3..5 /\ DOMAIN bs = 1..n
      /\ \A b \in DOMAIN bs : bs[b].floor = L(b) * Tenth /\ L(b) \in Nat /\ bs[b].weight = W(b)
  BY PacedBeats
<1>2. /\ W(n) = 6 /\ L(n) = 30 /\ \A b \in DOMAIN bs : W(b) \in Nat
      /\ \A b \in DOMAIN bs : b # n => W(b) \in 4..5
  BY WeightsOf
<1>3. Tenth \in Nat /\ x \in Nat
  BY TimesAre
<1>4. \A b \in DOMAIN bs : (b # t /\ b # n) => L(b) <= 25
  OBVIOUS
<1>5. f = L(t)
  OBVIOUS
<1> HIDE DEF L, W
<1>6. Len(bs) \in Nat
  BY <1>1
<1>7. PICK y : Summing(vf, y, n) /\ FloorOf(bs) = y[n]
  BY <1>6, FloorOfIs
<1>8. PICK z : Summing(vw, z, n) /\ WeightOf(bs) = z[n]
  BY <1>6, WeightOfIs
<1>9. \A b \in 1..n : vf[b] = L(b) * Tenth /\ vf[b] \in Nat
  BY <1>1, <1>3 DEF Floors
<1>10. \A b \in 1..n : vw[b] = W(b) /\ vw[b] \in Nat
  BY <1>1, <1>2 DEF Weights
<1> HIDE DEF n, vf, vw, x
<1>11. t \in 1..n /\ t # n /\ n \in 1..n
  BY <1>1 DEF n
<1>12. \A k \in 1..n : (k # t /\ k # n) => vf[k] <= x
  <2>1. ASSUME NEW k \in 1..n, k # t, k # n PROVE vf[k] <= x
    <3> DEFINE l == L(k)
    <3>1. l \in Nat /\ l <= 25 /\ vf[k] = l * Tenth
      BY <1>1, <1>4, <1>9, <2>1
    <3> HIDE DEF l
    <3>2. l * Tenth <= 25 * Tenth
      BY <1>3, <3>1
    <3>3. QED BY <3>1, <3>2 DEF x
  <2>2. QED BY <2>1
<1>13. y[n] <= vf[t] + vf[n] + (n - 2) * x
  BY <1>1, <1>3, <1>7, <1>9, <1>11, <1>12, SumAtMost
<1>14. \A k \in 1..n : (k # t /\ k # n) => vw[k] <= 5
  <2>1. ASSUME NEW k \in 1..n, k # t, k # n PROVE vw[k] <= 5
    <3>1. W(k) \in 4..5 /\ vw[k] = W(k)
      BY <1>1, <1>2, <1>10, <2>1
    <3>2. QED BY <3>1
  <2>2. QED BY <2>1
<1>15. z[n] <= vw[t] + vw[n] + (n - 2) * 5 /\ z[n] \in Nat /\ vw[t] + vw[n] <= z[n]
  <2>1. z[n] <= vw[t] + vw[n] + (n - 2) * 5
    BY <1>1, <1>8, <1>10, <1>11, <1>14, SumAtMost
  <2>2. /\ z[n] \in Nat
        /\ \A a, b, c \in 1..n : (a # b /\ b # c /\ a # c) => vw[a] + (vw[b] + vw[c]) <= z[n]
    BY <1>1, <1>8, <1>10, SumOfFew
  <2>3. \E c \in 1..n : c # t /\ c # n
    BY <1>1, <1>11, OtherBeat
  <2>4. PICK c \in 1..n : c # t /\ c # n
    BY <2>3
  <2>5. vw[c] + (vw[t] + vw[n]) <= z[n] /\ vw[c] \in Nat /\ vw[t] \in Nat /\ vw[n] \in Nat
    BY <1>10, <1>11, <2>2, <2>4
  <2>6. QED BY <2>1, <2>2, <2>5
<1>16. WeightOf(bs) \in 1..26
  <2>1. vw[n] = 6
    BY <1>2, <1>10, <1>11
  <2>2. vw[t] \in 4..5
    BY <1>1, <1>2, <1>10, <1>11
  <2>3. (n - 2) * 5 <= 15
    BY <1>1
  <2> DEFINE g == z[n]
             h == vw[t]
             m == (n - 2) * 5
  <2>4. g \in Nat /\ g <= h + 6 + m /\ h + 6 <= g
    BY <1>15, <2>1
  <2>5. m \in Int /\ m <= 15 /\ h \in 4..5
    BY <1>1, <2>2, <2>3
  <2> HIDE DEF g, h, m
  <2>6. g \in 1..26
    BY <2>4, <2>5
  <2>7. QED BY <1>8, <2>6 DEF g
<1>17. FloorOf(bs) <= (f + 25 * (n - 2) + 30) * Tenth
  <2>1. vf[n] = 30 * Tenth /\ vf[t] = f * Tenth /\ f \in Nat
    <3>1. vf[n] = L(n) * Tenth
      BY <1>9, <1>11
    <3>2. vf[t] = L(t) * Tenth /\ L(t) \in Nat
      BY <1>1, <1>9, <1>11
    <3>3. QED BY <1>2, <1>5, <3>1, <3>2
  <2>2. (n - 2) * x = (25 * (n - 2)) * Tenth
    BY <1>1, <1>3 DEF x
  <2> DEFINE m == 25 * (n - 2)
  <2>3. m \in Nat
    BY <1>1
  <2> HIDE DEF m
  <2>4. (f + m + 30) * Tenth = f * Tenth + m * Tenth + 30 * Tenth
    BY <1>3, <2>1, <2>3
  <2>5. f * Tenth \in Nat /\ m * Tenth \in Nat
    BY <1>3, <2>1, <2>3
  <2>6. (n - 2) * x = m * Tenth
    BY <2>2 DEF m
  <2>7. y[n] <= f * Tenth + 30 * Tenth + m * Tenth
    BY <1>13, <2>1, <2>6
  <2>8. y[n] <= (f + m + 30) * Tenth
    <3> DEFINE u == f * Tenth
               w == m * Tenth
               r == 30 * Tenth
    <3>1. u \in Nat /\ w \in Nat /\ r \in Nat
      BY <1>3, <2>5
    <3>2. y[n] <= u + r + w /\ (f + m + 30) * Tenth = u + w + r
      BY <2>4, <2>7
    <3> HIDE DEF u, w, r
    <3>3. u + r + w = u + w + r
      BY <3>1
    <3>4. QED BY <3>2, <3>3
  <2>9. QED BY <1>7, <2>8 DEF m
<1>18. QED BY <1>16, <1>17 DEF n

\* A beat lasts its least time, and four tenths of a second more when the scene is as long as its
\* floors ask.
LEMMA LengthAtLeast ==
    ASSUME NEW p, NEW goal, NEW bs, Paced(p, goal, bs), NEW t \in DOMAIN bs, t # Len(bs),
           NEW f, f = LeastTenths(p, p.beats[t]), NEW l, l = BeatLength(bs, t)
    PROVE  /\ l \in Nat /\ f \in Nat /\ l >= f * Tenth
           /\ (WeightOf(bs) \in 1..26 /\ LeftOver(FloorOf(bs)) = 30 * Tenth) => l >= (f + 4) * Tenth
<1> DEFINE left == LeftOver(FloorOf(bs))
           w == Weight(p.beats[t])
           all == WeightOf(bs)
           share == (left * w) \div all
           a == left * w
<1>1. l = f * Tenth + share /\ all \in Nat /\ FloorOf(bs) \in Nat /\ FloorOf(bs) <= MaxScene
  BY LengthIs
<1>2. f \in Nat
  BY PacedBeats
<1>3. w \in 4..5
  BY WeightsOf
<1>4. left \in Nat
  BY <1>1, LeftOverAtMost
<1>5. Tenth \in Nat
  BY TimesAre
<1>6. all > 0
  <2>1. \E c \in DOMAIN bs : c # t /\ c # Len(bs)
    <3>1. Len(bs) \in 3..5 /\ DOMAIN bs = 1..Len(bs)
      BY PacedBeats
    <3>2. QED BY <3>1, OtherBeat
  <2>2. PICK c \in DOMAIN bs : c # t /\ c # Len(bs)
    BY <2>1
  <2>3. w + Weight(p.beats[c]) + 6 <= all
    BY <2>2, LengthIs
  <2>4. Weight(p.beats[c]) \in Nat
    BY WeightsOf
  <2> HIDE DEF w, all
  <2>5. QED BY <1>1, <1>3, <2>3, <2>4
<1>7. a \in Nat
  <2> HIDE DEF left, w
  <2>1. QED BY <1>3, <1>4
<1>8. share = a \div all
  OBVIOUS
<1>9. share \in Nat
  <2> HIDE DEF share, a, all
  <2>1. QED BY <1>1, <1>6, <1>7, <1>8, Quotient_
<1>10. ASSUME all \in 1..26, left = 30 * Tenth PROVE share >= 4 * Tenth
  <2> HIDE DEF left, w, all
  <2>1. QED BY <1>3, <1>10, ShareAtLeast
<1> HIDE DEF share, left, all
<1>11. f * Tenth \in Nat /\ (f + 4) * Tenth = f * Tenth + 4 * Tenth
  BY <1>2, <1>5
<1>12. l \in Nat /\ l >= f * Tenth
  BY <1>1, <1>9, <1>11
<1>13. (all \in 1..26 /\ left = 30 * Tenth) => l >= (f + 4) * Tenth
  BY <1>1, <1>5, <1>9, <1>10, <1>11
<1>14. QED BY <1>2, <1>12, <1>13 DEF all, left

\* The slots of a beat that plays, and the time each of them has.
LEMMA SlotsHave ==
    ASSUME NEW p, NEW goal, NEW bs, NEW line, NEW off, OnSchedule(p, goal, bs, line, off),
           NEW b \in DOMAIN bs, NEW q, q = SlotTime(bs, b), NEW s, s = SlotsOf(bs, b),
           NEW n, n = Len(bs[b].actions), NEW l, l = BeatLength(bs, b)
    PROVE  /\ n \in Nat /\ n <= 41 - Len(bs) /\ DOMAIN bs[b].actions = 1..n
           /\ s \in 1..n /\ (b = Len(bs) => s = 1)
           /\ l \in Nat /\ l >= 11 * Tenth
           /\ q \in Nat /\ q >= 1 /\ q * s <= l /\ l < q * s + s
<1>1. /\ Paced(p, goal, bs) /\ Listed(bs) /\ Len(bs) \in 3..5 /\ DOMAIN bs = 1..Len(bs)
      /\ Played_(bs, line, off) /\ Len(line) <= MaxEntries /\ AllAct(p, bs)
  BY PacedBeats DEF OnSchedule, Paced
<1>2. \A c \in DOMAIN bs : Listed(bs[c].actions) /\ bs[c].actions # <<>>
  BY <1>1, PacedBeats DEF AllAct
<1>3. n \in Nat /\ n <= 41 - Len(bs)
  BY <1>1, <1>2, ActionsAtMost
<1>4. DOMAIN bs[b].actions = 1..n
  BY <1>2, ListPlaces
<1>5. Len(bs) \in DOMAIN bs
  BY <1>1
<1>6. l \in Nat /\ l >= 11 * Tenth
  <2>1. CASE b = Len(bs)
    <3>1. l \in Nat /\ l >= MinHold
      BY <1>1, <2>1, LastsLong
    <3>2. MinHold = 30 * Tenth /\ Tenth \in Nat
      BY TimesAre
    <3>3. QED BY <3>1, <3>2
  <2>2. CASE b # Len(bs)
    <3> DEFINE f == LeastTenths(p, p.beats[b])
    <3>1. f \in Nat /\ f >= 11
      BY <1>1, <2>2, TenthsOfOthers
    <3>2. l \in Nat /\ l >= f * Tenth
      BY <1>1, <2>2, LengthAtLeast
    <3> HIDE DEF f
    <3>3. Tenth \in Nat
      BY TimesAre
    <3>4. f * Tenth >= 11 * Tenth /\ f * Tenth \in Nat
      BY <3>1, <3>3
    <3>5. QED BY <3>2, <3>3, <3>4
  <2>3. QED BY <2>1, <2>2
<1>7. s \in 1..n /\ (b = Len(bs) => s = 1)
  BY <1>1, <1>2, <1>5, <1>6, SlotsAre
<1>8. s \in Nat /\ s > 0 /\ s <= 40
  BY <1>1, <1>3, <1>7
<1>9. q = l \div s
  BY DEF SlotTime
<1>10. q \in Nat /\ q * s <= l /\ l < q * s + s
  BY <1>6, <1>8, <1>9, Quotient_
<1>11. q >= 1
  <2>1. Tenth >= 40
    BY DEF Tenth
  <2>2. q = 0 => q * s = 0
    BY <1>8
  <2>3. Tenth \in Nat
    BY TimesAre
  <2>4. l >= 440
    BY <1>6, <2>1, <2>3
  <2>5. QED BY <1>6, <1>8, <1>10, <2>2, <2>4
<1>12. QED BY <1>3, <1>4, <1>6, <1>7, <1>10, <1>11

\* A beat that groups nothing is not cut into slots that are too short for an action.
LEMMA SlotsFit ==
    ASSUME NEW p, NEW goal, NEW bs, NEW line, NEW off, OnSchedule(p, goal, bs, line, off),
           NEW b \in DOMAIN bs, b # Len(bs), ~Grouped(p, p.beats[b])
    PROVE  SlotTime(bs, b) >= MinAction
<1> DEFINE n == Len(bs[b].actions)
           s == SlotsOf(bs, b)
           l == BeatLength(bs, b)
           q == SlotTime(bs, b)
           g == l \div MinAction
<1>1. /\ Paced(p, goal, bs) /\ Listed(bs) /\ Len(bs) \in 3..5 /\ DOMAIN bs = 1..Len(bs)
      /\ AllAct(p, bs)
  BY PacedBeats DEF OnSchedule, Paced
<1>2. FinalBeat(bs) = Len(bs)
  <2>1. Len(bs) \in DOMAIN bs
    BY <1>1
  <2>2. QED BY <1>1, <2>1, FinalIs DEF AllAct
<1>3. bs[b].slots = None
  BY <1>1, NoneAsked
<1>4. s = Least(n, Most(1, g))
  BY <1>2, <1>3 DEF SlotsOf
<1>5. /\ n \in Nat /\ s \in 1..n /\ l \in Nat /\ l >= 11 * Tenth
      /\ q \in Nat /\ l < q * s + s
  <2>1. q = SlotTime(bs, b) /\ s = SlotsOf(bs, b) /\ n = Len(bs[b].actions) /\ l = BeatLength(bs, b)
    OBVIOUS
  <2> HIDE DEF q, s, n, l
  <2>2. QED BY <2>1, SlotsHave
<1>6. MinAction = 3 * Tenth /\ Tenth \in Nat /\ Tenth > 0
  BY TimesAre
<1> DEFINE m == MinAction
<1> HIDE DEF n, l, q
<1>7. m \in Nat /\ m > 0 /\ l >= m
  BY <1>5, <1>6
<1>8. g \in Nat /\ g * m <= l /\ l < g * m + m
  BY <1>5, <1>7, Quotient_
<1> HIDE DEF g, m
<1>9. g >= 1
  <2>1. g = 0 => g * m = 0
    BY <1>7
  <2>2. QED BY <1>5, <1>7, <1>8, <2>1
<1>10. s \in Nat /\ s > 0 /\ s <= g
  <2> HIDE DEF s
  <2>1. Most(1, g) = g
    BY <1>8, <1>9 DEF Most
  <2>2. s = Least(n, g)
    BY <1>4, <2>1
  <2>3. QED BY <1>5, <1>8, <1>9, <2>2 DEF Least
<1> HIDE DEF s
<1>11. m * s <= l
  <2>1. s * m <= g * m
    BY <1>7, <1>8, <1>10
  <2>2. m * s = s * m /\ s * m \in Nat /\ g * m \in Nat
    BY <1>7, <1>8, <1>10
  <2> DEFINE u == g * m
             v == s * m
  <2> HIDE DEF u, v
  <2>3. v <= u /\ u <= l /\ v \in Nat /\ u \in Nat
    BY <1>8, <2>1, <2>2 DEF u, v
  <2>4. v <= l
    BY <1>5, <2>3
  <2>5. QED BY <2>2, <2>4 DEF v
<1>12. m * s < q * s + s
  <2> DEFINE u == m * s
             v == q * s
  <2>1. u \in Nat /\ v \in Nat
    BY <1>5, <1>7, <1>10
  <2>2. u <= l /\ l < v + s
    BY <1>5, <1>11
  <2> HIDE DEF u, v
  <2>3. u < v + s
    BY <1>5, <1>10, <2>1, <2>2
  <2>4. QED BY <2>3 DEF u, v
<1>13. m <= q
  BY <1>5, <1>7, <1>10, <1>12, QuotientIs
<1>14. QED BY <1>5, <1>7, <1>13 DEF q, m

\* By how much a slot is too short for its actions.
Lack(bs, b) ==
    IF b # Len(bs) /\ SlotTime(bs, b) < MinAction THEN MinAction - SlotTime(bs, b) ELSE 0

\* Pairs that fade together are too few to need more than nineteen slots.
LEMMA PairsInSlots ==
    ASSUME NEW p, NEW goal, NEW bs, NEW line, NEW off, OnSchedule(p, goal, bs, line, off),
           NEW b \in DOMAIN bs, b # Len(bs), Eliminates(p, p.beats[b])
    PROVE  SlotsOf(bs, b) <= 19
<1> DEFINE x == bs[b].actions
           n == Len(x)
           s == SlotsOf(bs, b)
           c == bs[b].slots
           fitting == Most(1, BeatLength(bs, b) \div MinAction)
<1>1. /\ Paced(p, goal, bs) /\ Listed(bs) /\ Len(bs) \in 3..5 /\ DOMAIN bs = 1..Len(bs)
      /\ AllAct(p, bs) /\ DOMAIN p.beats = DOMAIN bs /\ Admitted(p, goal)
  BY PacedBeats DEF OnSchedule, Paced
<1>2. FinalBeat(bs) = Len(bs)
  <2>1. Len(bs) \in DOMAIN bs
    BY <1>1
  <2>2. QED BY <1>1, <2>1, FinalIs DEF AllAct
<1>3. n \in Nat /\ n <= 41 - Len(bs)
  <2>1. n = Len(bs[b].actions)
    OBVIOUS
  <2> HIDE DEF n
  <2>2. QED BY <2>1, SlotsHave
<1>4. Listed(x) /\ x # <<>> /\ c = SlotCount(p, p.beats[b], x)
  BY <1>1, PacedBeats DEF AllAct
<1>5. c = (n + 1) \div 2
  <2>1. b \in DOMAIN p.beats
    BY <1>1
  <2> DEFINE y == SlotCount(p, p.beats[b], x)
  <2> HIDE DEF x, n
  <2>2. y = (Len(x) + 1) \div 2
    BY <1>1, <1>4, <2>1, SlotsAsked
  <2>3. QED BY <1>4, <2>2 DEF n
<1>6. s = Least(n, IF c = None THEN fitting ELSE c)
  BY <1>2 DEF SlotsOf
<1> HIDE DEF n, s, c, fitting
<1> DEFINE k == Len(bs)
<1>7. n <= 38
  <2>1. k \in 3..5 /\ n <= 41 - k
    BY <1>1, <1>3
  <2> HIDE DEF k
  <2>2. QED BY <1>3, <2>1
<1>8. c \in Nat /\ c <= 19
  BY <1>3, <1>5, <1>7
<1>9. c # None
  BY <1>8, NoneAssumption
<1>10. s = Least(n, c)
  BY <1>6, <1>9
<1>11. s <= 19
  BY <1>3, <1>8, <1>10 DEF Least
<1>12. QED BY <1>11 DEF s

\* What the slots of one beat make the renderer late stays in the scene's four minutes.
LEMMA BudgetOf ==
    ASSUME NEW p, NEW goal, NEW bs, NEW line, NEW off, OnSchedule(p, goal, bs, line, off),
           NEW t \in DOMAIN bs
    PROVE  SceneLength(bs) + SlotsOf(bs, t) * Lack(bs, t) <= MaxScene
<1> DEFINE n == Len(bs[t].actions)
           s == SlotsOf(bs, t)
           l == BeatLength(bs, t)
           q == SlotTime(bs, t)
           k == Len(bs)
           f == LeastTenths(p, p.beats[t])
           beat == p.beats[t]
           F == FloorOf(bs)
<1>1. /\ Paced(p, goal, bs) /\ k \in 3..5 /\ DOMAIN bs = 1..k /\ DOMAIN p.beats = DOMAIN bs
      /\ Admitted(p, goal) /\ Distinct(p)
  BY PacedBeats DEF OnSchedule, Paced
<1>2. /\ n \in Nat /\ n <= 41 - k /\ s \in 1..n
      /\ l \in Nat /\ q \in Nat /\ q * s <= l /\ l < q * s + s
  <2>1. q = SlotTime(bs, t) /\ s = SlotsOf(bs, t) /\ n = Len(bs[t].actions) /\ l = BeatLength(bs, t)
    OBVIOUS
  <2>2. k = Len(bs)
    OBVIOUS
  <2> HIDE DEF q, s, n, l, k
  <2>3. QED BY <2>1, <2>2, SlotsHave
<1>3. SceneLength(bs) \in MinScene..MaxScene /\ SceneLength(bs) = F + LeftOver(F)
      /\ F \in Nat /\ F <= MaxScene
  BY <1>1, LastsLong, LengthIs
<1>4. /\ MinAction = 3 * Tenth /\ MaxScene = 240 * Tenth /\ MinScene = 120 * Tenth
      /\ Tenth \in Nat /\ Tenth > 0
  BY TimesAre
<1>5. CASE Lack(bs, t) = 0
  <2>1. s * Lack(bs, t) = 0
    BY <1>2, <1>5
  <2>2. QED BY <1>3, <1>4, <2>1
<1>6. CASE Lack(bs, t) # 0
  <2>1. t # k /\ q < MinAction /\ Lack(bs, t) = MinAction - q
    BY <1>6 DEF Lack
  <2>2. Grouped(p, beat)
    <3>1. ~Grouped(p, beat) => q >= MinAction
      BY <2>1, SlotsFit
    <3> HIDE DEF q
    <3>2. QED BY <1>2, <1>4, <2>1, <3>1
  <2>3. ASSUME NEW b \in DOMAIN bs, b # t, b # k PROVE LeastTenths(p, p.beats[b]) <= 25
    <3>1. ~Grouped(p, p.beats[b])
      BY <1>1, <2>2, <2>3, OneIsGrouped
    <3>2. QED BY <1>1, <2>3, <3>1, TenthsOfOthers
  <2>4. WeightOf(bs) \in 1..26 /\ F <= (f + 25 * (k - 2) + 30) * Tenth
    BY <1>1, <2>1, <2>3, TotalsAtMost
  <2>5. l >= f * Tenth /\ (LeftOver(F) = 30 * Tenth => l >= (f + 4) * Tenth)
    BY <1>1, <2>1, <2>4, LengthAtLeast
  <2>6. f \in Nat /\ f >= 11 /\ (~Eliminates(p, beat) => f <= 60)
    BY <1>1, <2>1, TenthsOfOthers
  <2>7. s \in Nat /\ s > 0 /\ s <= 41 - k
    BY <1>1, <1>2
  <2>8. q * s + s <= 3 * (s * Tenth) /\ s * (MinAction - q) = 3 * (s * Tenth) - q * s
    <3> HIDE DEF q, s
    <3>1. q + 1 <= 3 * Tenth
      BY <1>2, <1>4, <2>1
    <3>2. (q + 1) * s <= (3 * Tenth) * s
      BY <1>2, <1>4, <2>7, <3>1
    <3>3. (q + 1) * s = q * s + s /\ (3 * Tenth) * s = 3 * (s * Tenth)
      BY <1>2, <1>4, <2>7
    <3>4. s * (MinAction - q) = 3 * (s * Tenth) - q * s
      BY <1>2, <1>4, <2>7
    <3>5. QED BY <3>2, <3>3, <3>4
  <2> DEFINE over == MinAction - q
             z == SceneLength(bs)
  <2> HIDE DEF q, s, l, f, F, k, n, beat, over, z
  <2>9. f <= 60
    <3>1. ASSUME Eliminates(p, beat) PROVE f <= 60
      <4>1. s <= 19
        BY <2>1, <3>1, PairsInSlots DEF s, beat, k
      <4>2. s * Tenth <= 19 * Tenth /\ s * Tenth \in Nat
        BY <1>4, <2>7, <4>1
      <4> DEFINE u == s * Tenth
                 v == q * s
                 w == f * Tenth
      <4>3. v \in Nat /\ w \in Nat
        BY <1>2, <1>4, <2>6, <2>7
      <4>4. w <= l /\ l < v + s /\ v + s <= 3 * u /\ u <= 19 * Tenth /\ u \in Nat
        BY <1>2, <2>5, <2>8, <4>2
      <4> HIDE DEF u, v, w
      <4>5. w < 57 * Tenth
        BY <1>2, <1>4, <2>7, <4>3, <4>4
      <4>6. f * Tenth < 57 * Tenth
        BY <4>5 DEF w
      <4>7. f < 57
        BY <1>4, <2>6, <4>6
      <4>8. QED BY <2>6, <4>7
    <3>2. QED BY <2>6, <3>1
  <2>10. F + LeftOver(F) + 3 * (s * Tenth) + s - l <= 240 * Tenth
    <3>1. f \in 11..60
      BY <2>6, <2>9
    <3>2. QED BY <1>1, <1>2, <1>3, <2>4, <2>5, <2>7, <3>1, LateAtMost DEF F, k
  <2>11. z + s * over <= 240 * Tenth
    <3> DEFINE u == 3 * (s * Tenth)
               v == q * s
               x == F + LeftOver(F)
    <3>1. u \in Nat /\ v \in Nat /\ x \in Nat /\ z = x
      <4>1. z \in MinScene..MaxScene /\ z = x
        BY <1>3 DEF z
      <4>2. z \in Nat
        BY <1>4, <4>1
      <4>3. QED BY <1>2, <1>4, <2>7, <4>1, <4>2
    <3>2. s * over = u - v /\ x + u + s - l <= 240 * Tenth /\ l < v + s
      BY <1>2, <2>8, <2>10 DEF over
    <3> HIDE DEF u, v, x
    <3>3. QED BY <1>2, <1>4, <2>7, <3>1, <3>2
  <2>12. QED BY <1>4, <2>1, <2>11 DEF z, s, over, q
<1>7. QED BY <1>5, <1>6

\* A later action falls in no earlier slot.
LEMMA SlotsOrder ==
    ASSUME NEW n \in Nat, NEW s \in 1..n, NEW a \in 1..n, NEW c \in 1..n, a <= c
    PROVE  SlotOf(a, n, s) \in 0..(s - 1) /\ SlotOf(c, n, s) \in 0..(s - 1) /\ SlotOf(a, n, s) <= SlotOf(c, n, s)
<1> DEFINE k == SlotOf(a, n, s)
           j == SlotOf(c, n, s)
<1>1. k \in 0..(s - 1) /\ Cut(n, s, k) < a
  BY SlotIs
<1>2. j \in 0..(s - 1) /\ c <= Cut(n, s, j + 1)
  BY SlotIs
<1> HIDE DEF k, j
<1>3. ~(j < k)
  <2>1. ASSUME j < k PROVE FALSE
    <3>1. j + 1 \in Nat /\ k \in Nat /\ j + 1 <= k
      BY <1>1, <1>2, <2>1
    <3>2. Cut(n, s, j + 1) <= Cut(n, s, k) /\ Cut(n, s, k) \in Nat /\ Cut(n, s, j + 1) \in Nat
      BY <3>1, Cuts
    <3>3. QED BY <1>1, <1>2, <3>2
  <2>2. QED BY <2>1
<1>4. k <= j
  BY <1>1, <1>2, <1>3
<1>5. QED BY <1>1, <1>2, <1>4 DEF k, j

\* A later beat starts when an earlier one has ended.
LEMMA LaterStarts ==
    ASSUME NEW p, NEW goal, NEW bs, NEW line, NEW off, OnSchedule(p, goal, bs, line, off)
    PROVE  /\ \A b \in DOMAIN bs : BeatStart(bs, b) \in Nat
           /\ BeatStart(bs, 1) = 0
           /\ \A b, c \in DOMAIN bs : b < c => BeatStart(bs, b) + BeatLength(bs, b) <= BeatStart(bs, c)
<1> DEFINE n == Len(bs)
           S(b) == BeatStart(bs, b)
           L(b) == BeatLength(bs, b)
<1>1. n \in 3..5 /\ DOMAIN bs = 1..n
  BY PacedBeats DEF OnSchedule
<1>2. \A b \in 1..n : L(b) \in Nat
  BY <1>1, SlotsHave
<1>3. /\ S(1) = 0 /\ \A b \in 1..n : S(b) \in Nat
      /\ \A b \in 1..n : b # 1 => S(b) = S(b - 1) + L(b - 1)
  BY <1>1, <1>2, StartsAre
<1> HIDE DEF n, S, L
<1>4. ASSUME NEW b \in 1..n, b # n PROVE S(b) + L(b) = S(b + 1)
  <2> DEFINE c == b + 1
  <2>1. c \in 1..n /\ c # 1 /\ c - 1 = b
    BY <1>1, <1>4
  <2> HIDE DEF c
  <2>2. S(c) = S(c - 1) + L(c - 1)
    BY <1>3, <2>1
  <2>3. QED BY <2>1, <2>2 DEF c
<1>5. \A b \in 1..n : b # n => S(b) <= S(b + 1) /\ S(b) + L(b) = S(b + 1)
  <2>1. ASSUME NEW b \in 1..n, b # n PROVE S(b) <= S(b + 1) /\ S(b) + L(b) = S(b + 1)
    BY <1>2, <1>3, <1>4, <2>1
  <2>2. QED BY <2>1
<1>6. /\ S(1) \in Nat /\ S(2) \in Nat /\ S(3) \in Nat
      /\ n > 3 => S(4) \in Nat
      /\ n > 4 => S(5) \in Nat
      /\ S(1) <= S(2) /\ S(2) <= S(3)
      /\ n > 3 => S(3) <= S(4)
      /\ n > 4 => S(4) <= S(5)
  <2>1. /\ 1 \in 1..n /\ 2 \in 1..n /\ 3 \in 1..n /\ 1 # n /\ 2 # n
        /\ n > 3 => 3 # n /\ 4 \in 1..n
        /\ n > 4 => 4 # n /\ 4 \in 1..n /\ 5 \in 1..n
        /\ 1 + 1 = 2 /\ 2 + 1 = 3 /\ 3 + 1 = 4 /\ 4 + 1 = 5
    BY <1>1
  <2>2. S(1) <= S(2) /\ S(2) <= S(3) /\ (n > 3 => S(3) <= S(4)) /\ (n > 4 => S(4) <= S(5))
    BY <1>5, <2>1
  <2>3. QED BY <1>3, <2>1, <2>2
<1>7. \A b, c \in 1..n : b <= c => S(b) <= S(c)
  <2>1. ASSUME NEW b \in 1..n, NEW c \in 1..n, b <= c PROVE S(b) <= S(c)
    <3> DEFINE s1 == S(1)
               s2 == S(2)
               s3 == S(3)
               s4 == S(4)
               s5 == S(5)
    <3>1. CASE b = 1
      <4>1. c = 1 \/ c = 2 \/ c = 3 \/ (c = 4 /\ n > 3) \/ (c = 5 /\ n > 4)
        BY <1>1
      <4>2. QED BY <1>1, <1>6, <3>1, <4>1
    <3>2. CASE b = 2
      <4>1. c = 2 \/ c = 3 \/ (c = 4 /\ n > 3) \/ (c = 5 /\ n > 4)
        BY <1>1, <2>1, <3>2
      <4>2. QED BY <1>1, <1>6, <3>2, <4>1
    <3>3. CASE b = 3
      <4>1. c = 3 \/ (c = 4 /\ n > 3) \/ (c = 5 /\ n > 4)
        BY <1>1, <2>1, <3>3
      <4>2. QED BY <1>1, <1>6, <3>3, <4>1
    <3>4. CASE b = 4
      <4>1. n > 3 /\ (c = 4 \/ (c = 5 /\ n > 4))
        BY <1>1, <2>1, <3>4
      <4>2. QED BY <1>1, <1>6, <3>4, <4>1
    <3>5. CASE b = 5
      <4>1. c = b /\ S(b) \in Nat
        BY <1>1, <1>3, <2>1, <3>5
      <4>2. QED BY <4>1
    <3>6. b = 1 \/ b = 2 \/ b = 3 \/ b = 4 \/ b = 5
      BY <1>1
    <3>7. QED BY <3>1, <3>2, <3>3, <3>4, <3>5, <3>6
  <2>2. QED BY <2>1
<1>8. \A b, c \in 1..n : b < c => S(b) + L(b) <= S(c)
  <2>1. ASSUME NEW b \in 1..n, NEW c \in 1..n, b < c PROVE S(b) + L(b) <= S(c)
    <3>1. b + 1 \in 1..n /\ b # n /\ b + 1 <= c
      BY <1>1, <2>1
    <3>2. S(b + 1) <= S(c)
      BY <1>7, <3>1
    <3>3. QED BY <1>5, <3>1, <3>2
  <2>2. QED BY <2>1
<1>9. QED BY <1>1, <1>3, <1>8 DEF S, L, n

\* An entry starts with its slot, and lasts its slot or, when that is too short, three tenths.
EntryIs(bs, line, b, k, at, j, q, s) ==
    /\ k \in DOMAIN line /\ line[k].at = at + j * q
    /\ at \in Nat /\ q \in Nat /\ q >= 1 /\ s \in Nat /\ j \in 0..(s - 1) /\ j * q \in Nat
    /\ line[k].lasts = Least(MaxAction, Most(MinAction, q))
    /\ line[k].lasts \in Nat /\ line[k].lasts >= MinAction
    /\ b # Len(bs) => line[k].lasts <= q + Lack(bs, b)
    /\ Lack(bs, b) \in Nat /\ Lack(bs, b) <= MinAction

LEMMA EntryTimes ==
    ASSUME NEW p, NEW goal, NEW bs, NEW line, NEW off, OnSchedule(p, goal, bs, line, off),
           NEW b \in DOMAIN bs, NEW a \in DOMAIN bs[b].actions, NEW k, k = off[b - 1] + a,
           NEW q, q = SlotTime(bs, b), NEW j, j = SlotAt(bs, b, a), NEW at, at = BeatStart(bs, b),
           NEW s, s = SlotsOf(bs, b)
    PROVE  EntryIs(bs, line, b, k, at, j, q, s)
<1>1. Played_(bs, line, off) /\ OnTime(bs, line, off)
  BY DEF OnSchedule
<1>2. k \in DOMAIN line
  BY <1>1 DEF Played_
<1>3. line[k].at = at + j * q /\ line[k].lasts = Least(MaxAction, Most(MinAction, q))
  BY <1>1 DEF OnTime
<1>4. at \in Nat
  BY LaterStarts
<1> DEFINE n == Len(bs[b].actions)
<1>5. n \in Nat /\ DOMAIN bs[b].actions = 1..n /\ s \in 1..n /\ q \in Nat /\ q >= 1
  <2>1. n = Len(bs[b].actions)
    OBVIOUS
  <2> HIDE DEF n
  <2>2. QED BY <2>1, SlotsHave
<1>6. j \in 0..(s - 1) /\ s \in Nat
  <2>1. j = SlotOf(a, n, s) /\ a \in 1..n
    BY <1>5 DEF SlotAt
  <2> HIDE DEF n
  <2>2. n \in Nat /\ s \in 1..n
    BY <1>5
  <2>3. a <= a
    BY <2>1, <2>2
  <2>4. SlotOf(a, n, s) \in 0..(s - 1)
    BY <2>1, <2>2, <2>3, SlotsOrder
  <2>5. s \in Nat
    BY <2>2
  <2>6. QED BY <2>1, <2>4, <2>5
<1>7. j * q \in Nat
  BY <1>5, <1>6
<1>8. MinAction = 3 * Tenth /\ MaxAction = 40 * Tenth /\ Tenth \in Nat
  BY TimesAre
<1> DEFINE m == MinAction
           x == MaxAction
           d == Least(x, Most(m, q))
<1>9. m \in Nat /\ x \in Nat /\ m <= x
  BY <1>8
<1>10. Lack(bs, b) = IF b # Len(bs) /\ q < m THEN m - q ELSE 0
  BY DEF Lack
<1>11. d \in Nat /\ d >= m
  <2> HIDE DEF m, x
  <2>1. QED BY <1>5, <1>9 DEF Least, Most
<1>12. b # Len(bs) => d <= q + Lack(bs, b)
  <2> HIDE DEF m, x
  <2>1. QED BY <1>5, <1>9, <1>10 DEF Least, Most
<1>13. Lack(bs, b) \in Nat /\ Lack(bs, b) <= m
  <2> HIDE DEF m, x
  <2>1. QED BY <1>5, <1>9, <1>10
<1>14. line[k].lasts = d
  BY <1>3
<1> HIDE DEF d, m, n
<1>15. QED BY <1>2, <1>3, <1>4, <1>5, <1>6, <1>7, <1>11, <1>12, <1>13, <1>14 DEF EntryIs, m

\* Its times are natural numbers.
LEMMA EntryStarts ==
    ASSUME NEW p, NEW goal, NEW bs, NEW line, NEW off, OnSchedule(p, goal, bs, line, off),
           NEW b \in DOMAIN bs, NEW a \in DOMAIN bs[b].actions, NEW k, k = off[b - 1] + a
    PROVE  line[k].at \in Nat /\ line[k].lasts \in Nat
<1> DEFINE q == SlotTime(bs, b)
           j == SlotAt(bs, b, a)
           at == BeatStart(bs, b)
           s == SlotsOf(bs, b)
           y == j * q
<1>1. q = SlotTime(bs, b) /\ j = SlotAt(bs, b, a) /\ at = BeatStart(bs, b) /\ s = SlotsOf(bs, b)
  OBVIOUS
<1>2. y = j * q
  OBVIOUS
<1> HIDE DEF q, j, at, s, y
<1>3. EntryIs(bs, line, b, k, at, j, q, s)
  BY <1>1, EntryTimes
<1>4. line[k].at = at + y /\ at \in Nat /\ y \in Nat /\ line[k].lasts \in Nat
  BY <1>2, <1>3 DEF EntryIs
<1>5. QED BY <1>4

LEMMA SlotOfEntry ==
    ASSUME NEW p, NEW goal, NEW bs, NEW line, NEW off, OnSchedule(p, goal, bs, line, off),
           NEW b \in DOMAIN bs, NEW a \in DOMAIN bs[b].actions
    PROVE  SlotAt(bs, b, a) \in 0..(SlotsOf(bs, b) - 1)
<1> DEFINE q == SlotTime(bs, b)
           j == SlotAt(bs, b, a)
           at == BeatStart(bs, b)
           s == SlotsOf(bs, b)
           k == off[b - 1] + a
<1>1. q = SlotTime(bs, b) /\ j = SlotAt(bs, b, a) /\ at = BeatStart(bs, b) /\ s = SlotsOf(bs, b)
      /\ k = off[b - 1] + a
  OBVIOUS
<1> HIDE DEF q, j, at, s, k
<1>2. EntryIs(bs, line, b, k, at, j, q, s)
  BY <1>1, EntryTimes
<1>3. j \in 0..(s - 1)
  BY <1>2 DEF EntryIs
<1>4. QED BY <1>3 DEF j, s

LEMMA TimesGrow ==
    ASSUME NEW x \in Nat, NEW y \in Nat, NEW q \in Nat, x <= y
    PROVE  x * q <= y * q
OBVIOUS

\* An entry starts no earlier than one before it in the timeline: with it when they share a slot,
\* and then they last as long; otherwise when that slot has passed.
LEMMA InOrder ==
    ASSUME NEW p, NEW goal, NEW bs, NEW line, NEW off, OnSchedule(p, goal, bs, line, off),
           NEW b \in DOMAIN bs, NEW a \in DOMAIN bs[b].actions, NEW k, k = off[b - 1] + a,
           NEW c \in DOMAIN bs, NEW e \in DOMAIN bs[c].actions, NEW l, l = off[c - 1] + e, k < l,
           NEW i, i = SlotAt(bs, b, a), NEW j, j = SlotAt(bs, c, e), NEW q, q = SlotTime(bs, b)
    PROVE  /\ line[k].at <= line[l].at
           /\ line[k].at = line[l].at => line[k].lasts = line[l].lasts
           /\ line[k].at # line[l].at =>
                 /\ b # Len(bs) /\ line[k].at + q <= line[l].at
                 /\ b < c \/ (b = c /\ i < j)
<1> DEFINE s == SlotsOf(bs, b)
           r == SlotTime(bs, c)
           S == BeatStart(bs, b)
           T == BeatStart(bs, c)
           L == BeatLength(bs, b)
           n == Len(bs[b].actions)
<1>1. /\ Len(bs) \in 3..5 /\ DOMAIN bs = 1..Len(bs) /\ b \in Nat /\ c \in Nat /\ Listed(bs)
      /\ Played_(bs, line, off)
  BY PacedBeats DEF OnSchedule, Paced
<1>2. /\ line[k].at = S + i * q /\ S \in Nat /\ q \in Nat /\ q >= 1 /\ s \in Nat
      /\ i \in 0..(s - 1) /\ i * q \in Nat
      /\ line[k].lasts = Least(MaxAction, Most(MinAction, q))
  <2>1. S = BeatStart(bs, b) /\ s = SlotsOf(bs, b)
    OBVIOUS
  <2> HIDE DEF S, s
  <2>2. EntryIs(bs, line, b, k, S, i, q, s)
    BY <2>1, EntryTimes
  <2>3. QED BY <2>2 DEF EntryIs
<1>3. /\ line[l].at = T + j * r /\ T \in Nat /\ r \in Nat /\ j * r \in Nat
      /\ j \in Nat
      /\ line[l].lasts = Least(MaxAction, Most(MinAction, r))
  <2> DEFINE z == SlotsOf(bs, c)
  <2>1. T = BeatStart(bs, c) /\ r = SlotTime(bs, c) /\ z = SlotsOf(bs, c)
    OBVIOUS
  <2> HIDE DEF T, r, z
  <2>2. EntryIs(bs, line, c, l, T, j, r, z)
    BY <2>1, EntryTimes
  <2>3. /\ line[l].at = T + j * r /\ T \in Nat /\ r \in Nat /\ j * r \in Nat
        /\ j \in 0..(z - 1)
        /\ line[l].lasts = Least(MaxAction, Most(MinAction, r))
    BY <2>2 DEF EntryIs
  <2>4. QED BY <2>3
<1>4. /\ n \in Nat /\ DOMAIN bs[b].actions = 1..n /\ s \in 1..n /\ (b = Len(bs) => s = 1)
      /\ L \in Nat /\ q * s <= L
  <2>1. n = Len(bs[b].actions) /\ s = SlotsOf(bs, b) /\ L = BeatLength(bs, b)
    OBVIOUS
  <2> HIDE DEF n, s, L
  <2>2. QED BY <2>1, SlotsHave
<1>5. ~(c < b)
  <2>1. c < b => off[c - 1] + e < off[b - 1] + a
    BY <1>1, PlayedBefore
  <2>2. off[c - 1] + e \in Nat /\ off[b - 1] + a \in Nat
    <3>1. off[b - 1] \in Nat /\ a \in Nat /\ off[c - 1] \in Nat /\ e \in Nat
      BY <1>1, PlayedBefore
    <3>2. QED BY <3>1
  <2>3. QED BY <2>1, <2>2
<1>6. CASE b = c
  <2>1. a <= e
    <3>1. off[b - 1] \in Nat /\ a \in Nat /\ e \in Nat
      BY <1>1, PlayedBefore
    <3>2. QED BY <1>6, <3>1
  <2>2. a \in 1..n /\ e \in 1..n
    BY <1>4, <1>6
  <2>3. i = SlotOf(a, n, s) /\ j = SlotOf(e, n, s) /\ r = q /\ T = S
    BY <1>6 DEF SlotAt
  <2> HIDE DEF n, s, S, T, r, L
  <2>4. j \in 0..(s - 1) /\ i <= j
    BY <1>4, <2>1, <2>2, <2>3, SlotsOrder
  <2>5. CASE i = j
    <3>1. line[k].at = line[l].at /\ line[k].lasts = line[l].lasts
      BY <1>2, <1>3, <2>3, <2>5
    <3>2. line[k].at \in Nat
      BY <1>2
    <3>3. QED BY <3>1, <3>2
  <2>6. CASE i # j
    <3>1. i + 1 <= j /\ i < j
      BY <1>2, <1>3, <2>4, <2>6
    <3>2. i * q + q <= j * q
      <4>1. (i + 1) * q <= j * q
        <5>1. i + 1 \in Nat /\ j \in Nat /\ q \in Nat
          BY <1>2, <1>3
        <5>2. QED BY <3>1, <5>1, TimesGrow
      <4>2. (i + 1) * q = i * q + q
        BY <1>2
      <4>3. QED BY <4>1, <4>2
    <3> DEFINE x == i * q
               y == j * q
    <3>3. x \in Nat /\ y \in Nat /\ x + q <= y
      BY <1>2, <1>3, <2>3, <3>2
    <3>4. line[k].at = S + x /\ line[l].at = S + y
      BY <1>2, <1>3, <2>3
    <3> HIDE DEF x, y
    <3>5. line[k].at + q <= line[l].at /\ line[k].at <= line[l].at /\ line[k].at # line[l].at
      BY <1>2, <3>3, <3>4
    <3>6. b # Len(bs)
      BY <1>2, <1>3, <1>4, <2>4, <3>1
    <3>7. QED BY <1>6, <3>1, <3>5, <3>6
  <2>7. QED BY <2>5, <2>6
<1>7. CASE b < c
  <2>1. S + L <= T
    BY <1>7, LaterStarts
  <2>2. b # Len(bs)
    BY <1>1, <1>7
  <2> HIDE DEF n, s, S, T, r, L
  <2>3. i * q + q <= q * s
    <3>1. i + 1 <= s
      BY <1>2
    <3>2. (i + 1) * q <= s * q
      <4>1. i + 1 \in Nat /\ s \in Nat /\ q \in Nat
        BY <1>2
      <4>2. QED BY <3>1, <4>1, TimesGrow
    <3>3. (i + 1) * q = i * q + q /\ s * q = q * s
      BY <1>2
    <3>4. QED BY <3>2, <3>3
  <2> DEFINE x == i * q
             y == j * r
             z == q * s
  <2>4. x \in Nat /\ y \in Nat /\ z \in Nat /\ x + q <= z /\ z <= L
    <3>1. x \in Nat /\ y \in Nat /\ q \in Nat /\ s \in Nat
      BY <1>2, <1>3
    <3>2. z \in Nat
      BY <3>1
    <3>3. QED BY <1>4, <2>3, <3>1, <3>2
  <2>5. line[k].at = S + x /\ line[l].at = T + y
    BY <1>2, <1>3
  <2> HIDE DEF x, y, z
  <2>6. line[k].at + q <= line[l].at /\ line[k].at <= line[l].at /\ line[k].at # line[l].at
    <3>0. S \in Nat /\ T \in Nat /\ L \in Nat /\ q \in Nat /\ q >= 1
      BY <1>2, <1>3, <1>4
    <3>1. S + (x + q) <= S + L
      BY <2>4, <3>0
    <3>2. S + L <= T
      BY <2>1
    <3>3. S + x + q <= T + y
      BY <2>4, <3>0, <3>1, <3>2
    <3>4. QED BY <2>4, <2>5, <3>0, <3>3
  <2>7. QED BY <1>7, <2>2, <2>6
<1>8. b < c \/ b = c
  BY <1>1, <1>5
<1>9. QED BY <1>6, <1>7, <1>8

\* The entries of a timeline that start with one of them.
Together(line, x) == {k \in x..Len(line) : line[k].at = line[x].at}

\* They are the entries up to one of them, and last equally long.
GroupTo(line, x, m) ==
    /\ m \in DOMAIN line /\ x <= m /\ line[m].at = line[x].at
    /\ Max({line[k].lasts : k \in Together(line, x)}) = line[m].lasts
    /\ Cardinality(Together(line, x)) = (m - x) + 1
    /\ m + 1 \in DOMAIN line => line[m].at # line[m + 1].at

LEMMA GroupsAre ==
    ASSUME NEW p, NEW goal, NEW bs, NEW line, NEW off, OnSchedule(p, goal, bs, line, off),
           NEW x \in DOMAIN line
    PROVE  \E m : GroupTo(line, x, m)
<1> DEFINE n == Len(line)
           G == Together(line, x)
           m == Max(G)
<1>1. /\ Played_(bs, line, off) /\ Listed(line) /\ n \in Nat /\ DOMAIN line = 1..n /\ x \in 1..n
  BY ListPlaces DEF OnSchedule, Played_
<1>2. G \subseteq 1..n /\ x \in G
  BY <1>1 DEF Together
<1> HIDE DEF G
<1>3. m \in G /\ \A y \in G : y <= m
  BY <1>1, <1>2, MaxOfPlaces
<1> HIDE DEF m
<1>4. m \in 1..n /\ m \in x..n /\ line[m].at = line[x].at
  BY <1>1, <1>3 DEF G, Together
<1>5. ASSUME NEW k \in DOMAIN line, NEW l \in DOMAIN line, k < l
      PROVE  /\ line[k].at \in Nat /\ line[l].at \in Nat /\ line[k].at <= line[l].at
             /\ line[k].at = line[l].at => line[k].lasts = line[l].lasts
             /\ line[k].lasts \in Nat /\ line[l].lasts \in Nat
  <2>1. PICK b \in DOMAIN bs : \E a \in DOMAIN bs[b].actions : k = off[b - 1] + a
    BY <1>1 DEF Played_
  <2>2. PICK a \in DOMAIN bs[b].actions : k = off[b - 1] + a
    BY <2>1
  <2>3. PICK c \in DOMAIN bs : \E e \in DOMAIN bs[c].actions : l = off[c - 1] + e
    BY <1>1 DEF Played_
  <2>4. PICK e \in DOMAIN bs[c].actions : l = off[c - 1] + e
    BY <2>3
  <2>5. /\ line[k].at <= line[l].at
        /\ line[k].at = line[l].at => line[k].lasts = line[l].lasts
    <3> DEFINE i == SlotAt(bs, b, a)
               j == SlotAt(bs, c, e)
               q == SlotTime(bs, b)
    <3>1. i = SlotAt(bs, b, a) /\ j = SlotAt(bs, c, e) /\ q = SlotTime(bs, b)
      OBVIOUS
    <3> HIDE DEF i, j, q
    <3>2. QED BY <1>5, <2>2, <2>4, <3>1, InOrder
  <2>6. line[k].at \in Nat /\ line[k].lasts \in Nat
    BY <2>2, EntryStarts
  <2>7. line[l].at \in Nat /\ line[l].lasts \in Nat
    BY <2>4, EntryStarts
  <2>8. QED BY <2>5, <2>6, <2>7
<1>6. \A k \in x..m : k \in 1..n /\ k \in Nat
  BY <1>1, <1>4
<1>7. G = x..m
  <2>1. ASSUME NEW k \in G PROVE k \in x..m
    <3>1. k \in x..n
      BY <2>1 DEF G, Together
    <3>2. QED BY <1>1, <1>3, <1>4, <3>1
  <2>2. ASSUME NEW k \in x..m PROVE k \in G
    <3>1. k \in DOMAIN line /\ x \in DOMAIN line /\ m \in DOMAIN line /\ k \in Nat /\ x \in Nat /\ m \in Nat
      BY <1>1, <1>4, <1>6
    <3>2. k = x \/ x < k
      BY <3>1
    <3>3. k = m \/ k < m
      BY <3>1
    <3>4. CASE k = x \/ k = m
      BY <1>2, <1>3, <3>4
    <3>5. CASE x < k /\ k < m
      <4>1. line[x].at <= line[k].at /\ line[k].at <= line[m].at /\ line[x].at \in Nat /\ line[k].at \in Nat
        BY <1>5, <3>1, <3>5
      <4>2. line[k].at = line[x].at
        BY <1>4, <4>1
      <4>3. k \in x..n
        BY <1>1, <1>6, <3>1
      <4>4. QED BY <4>2, <4>3 DEF G, Together
    <3>6. QED BY <3>2, <3>3, <3>4, <3>5
  <2>3. QED BY <2>1, <2>2
<1>8. Cardinality(G) = (m - x) + 1
  <2>1. x \in Int /\ m \in Int /\ x <= m
    BY <1>1, <1>4
  <2>2. Cardinality(x..m) = (m - x) + 1
    BY <2>1, FS_Interval
  <2>3. QED BY <1>7, <2>2
<1>9. \A k \in G : line[k].lasts = line[m].lasts
  <2>1. ASSUME NEW k \in G PROVE line[k].lasts = line[m].lasts
    <3>1. k \in DOMAIN line /\ m \in DOMAIN line /\ k <= m /\ k \in Nat /\ m \in Nat
      BY <1>1, <1>2, <1>3, <1>4
    <3>2. line[k].at = line[m].at
      BY <1>3 DEF G, Together
    <3>3. CASE k = m
      BY <3>3
    <3>4. CASE k < m
      BY <1>5, <3>1, <3>2, <3>4
    <3>5. QED BY <3>1, <3>3, <3>4
  <2>2. QED BY <2>1
<1>10. Max({line[k].lasts : k \in G}) = line[m].lasts
  <2> DEFINE T == {line[k].lasts : k \in G}
             z == line[m].lasts
  <2>1. T = {z}
    BY <1>3, <1>9
  <2>2. z \in Nat
    <3>1. m \in DOMAIN line
      BY <1>1, <1>4
    <3>2. PICK b \in DOMAIN bs : \E a \in DOMAIN bs[b].actions : m = off[b - 1] + a
      BY <1>1, <3>1 DEF Played_
    <3>3. PICK a \in DOMAIN bs[b].actions : m = off[b - 1] + a
      BY <3>2
    <3>4. QED BY <3>3, EntryStarts
  <2> HIDE DEF T, z
  <2>3. T \subseteq Nat /\ z \in T /\ \A y \in T : y <= z
    BY <2>1, <2>2
  <2>4. Max(T) = z
    BY <2>3, MaxIs
  <2>5. QED BY <2>4 DEF T, z
<1>11. ASSUME m + 1 \in DOMAIN line PROVE line[m].at # line[m + 1].at
  <2>1. m + 1 \in x..n /\ ~(m + 1 <= m)
    BY <1>1, <1>4, <1>11
  <2>2. m + 1 \notin G
    BY <1>3, <2>1
  <2>3. line[m + 1].at # line[x].at
    BY <2>1, <2>2 DEF G, Together
  <2>4. QED BY <1>4, <2>3
<1>12. GroupTo(line, x, m)
  <2>1. m \in DOMAIN line /\ x <= m
    BY <1>1, <1>4
  <2>2. QED BY <1>4, <1>8, <1>10, <1>11, <2>1 DEF GroupTo, G
<1>13. QED BY <1>12

LEMMA LackIs ==
    ASSUME NEW p, NEW goal, NEW bs, NEW line, NEW off, OnSchedule(p, goal, bs, line, off),
           NEW b \in DOMAIN bs
    PROVE  SlotTime(bs, b) \in Nat /\ Lack(bs, b) \in Nat /\ SlotsOf(bs, b) \in Nat
<1> DEFINE q == SlotTime(bs, b)
           s == SlotsOf(bs, b)
           n == Len(bs[b].actions)
           m == MinAction
<1>1. q \in Nat /\ n \in Nat /\ s \in 1..n
  <2>1. q = SlotTime(bs, b) /\ s = SlotsOf(bs, b) /\ n = Len(bs[b].actions)
    OBVIOUS
  <2> HIDE DEF q, s, n
  <2>2. QED BY <2>1, SlotsHave
<1>2. m \in Nat
  BY TimesAre
<1>3. Lack(bs, b) = IF b # Len(bs) /\ q < m THEN m - q ELSE 0
  BY DEF Lack
<1> HIDE DEF q, s, n, m
<1>4. Lack(bs, b) \in Nat
  BY <1>1, <1>2, <1>3
<1>5. s \in Nat
  BY <1>1
<1>6. QED BY <1>1, <1>4, <1>5 DEF s, q

\* Only the slots of one beat may be too short.
OnlyTight(bs, t) == t \in DOMAIN bs /\ \A b \in DOMAIN bs : b # t => Lack(bs, b) = 0

LEMMA OneIsTight ==
    ASSUME NEW p, NEW goal, NEW bs, NEW line, NEW off, OnSchedule(p, goal, bs, line, off)
    PROVE  \E t : OnlyTight(bs, t)
<1>1. /\ Paced(p, goal, bs) /\ Len(bs) \in 3..5 /\ DOMAIN bs = 1..Len(bs) /\ DOMAIN p.beats = DOMAIN bs
      /\ Admitted(p, goal) /\ Distinct(p)
  BY PacedBeats DEF OnSchedule, Paced
<1>2. ASSUME NEW b \in DOMAIN bs, ~Grouped(p, p.beats[b]) PROVE Lack(bs, b) = 0
  <2>1. CASE b = Len(bs)
    BY <2>1 DEF Lack
  <2>2. CASE b # Len(bs)
    <3> DEFINE q == SlotTime(bs, b)
               m == MinAction
    <3>1. q >= m
      BY <1>2, <2>2, SlotsFit
    <3>2. q \in Nat
      BY LackIs
    <3>3. m \in Nat
      BY TimesAre
    <3>4. Lack(bs, b) = IF b # Len(bs) /\ q < m THEN m - q ELSE 0
      BY DEF Lack
    <3> HIDE DEF q, m
    <3>5. QED BY <3>1, <3>2, <3>3, <3>4
  <2>3. QED BY <2>1, <2>2
<1>3. CASE \E t \in DOMAIN bs : Grouped(p, p.beats[t])
  <2>1. PICK t \in DOMAIN bs : Grouped(p, p.beats[t])
    BY <1>3
  <2>2. ASSUME NEW b \in DOMAIN bs, b # t PROVE Lack(bs, b) = 0
    <3>1. ~Grouped(p, p.beats[b])
      BY <1>1, <2>1, <2>2, OneIsGrouped
    <3>2. QED BY <1>2, <3>1
  <2>3. QED BY <2>1, <2>2 DEF OnlyTight
<1>4. CASE \A t \in DOMAIN bs : ~Grouped(p, p.beats[t])
  <2>1. 1 \in DOMAIN bs
    BY <1>1
  <2>2. QED BY <1>2, <1>4, <2>1 DEF OnlyTight
<1>5. QED BY <1>3, <1>4

\* How late the renderer may be after a slot of a beat.
Behind(bs, t, b, j) ==
    IF b < t THEN 0 ELSE IF b = t THEN j * Lack(bs, t) ELSE SlotsOf(bs, t) * Lack(bs, t)

\* With each slot it may fall behind by what that lacks, up to what all the slots of one beat lack.
LEMMA BehindGrows ==
    ASSUME NEW p, NEW goal, NEW bs, NEW line, NEW off, OnSchedule(p, goal, bs, line, off),
           NEW t, OnlyTight(bs, t), NEW b \in DOMAIN bs, NEW c \in DOMAIN bs,
           NEW i \in 0..(SlotsOf(bs, b) - 1), NEW j \in 0..(SlotsOf(bs, c) - 1)
    PROVE  /\ Behind(bs, t, b, i) \in Nat
           /\ Behind(bs, t, b, i) <= SlotsOf(bs, t) * Lack(bs, t)
           /\ (b < c \/ (b = c /\ i < j)) =>
                 Behind(bs, t, b, i) + Lack(bs, b) <= Behind(bs, t, c, j)
<1> DEFINE x == Lack(bs, t)
           s == SlotsOf(bs, t)
           y == s * x
           u == i * x
           v == j * x
           w == Lack(bs, b)
<1>1. t \in DOMAIN bs /\ (b # t => w = 0) /\ (b = t => w = x)
  BY DEF OnlyTight
<1>2. DOMAIN bs = 1..Len(bs) /\ Len(bs) \in 3..5
  BY PacedBeats DEF OnSchedule
<1>3. b \in Nat /\ c \in Nat /\ t \in Nat
  BY <1>1, <1>2
<1>4. x \in Nat /\ s \in Nat /\ w \in Nat
  BY <1>1, LackIs
<1>5. /\ Behind(bs, t, b, i) = IF b < t THEN 0 ELSE IF b = t THEN u ELSE y
      /\ Behind(bs, t, c, j) = IF c < t THEN 0 ELSE IF c = t THEN v ELSE y
  BY DEF Behind
<1>6. i \in Nat /\ j \in Nat /\ (b = t => i + 1 <= s) /\ (c = t => j + 1 <= s)
  <2>1. SlotsOf(bs, b) \in Nat /\ SlotsOf(bs, c) \in Nat
    BY LackIs
  <2> DEFINE k == SlotsOf(bs, b)
             l == SlotsOf(bs, c)
  <2>2. (b = t => k = s) /\ (c = t => l = s)
    OBVIOUS
  <2>3. k \in Nat /\ l \in Nat /\ i \in 0..(k - 1) /\ j \in 0..(l - 1)
    BY <2>1
  <2> HIDE DEF k, l, s
  <2>4. QED BY <1>4, <2>2, <2>3
<1> HIDE DEF x, s, w
<1>7. y \in Nat /\ u \in Nat /\ v \in Nat
  BY <1>4, <1>6
<1>8. b = t => u + x <= y
  <2>1. ASSUME b = t PROVE u + x <= y
    <3>1. i + 1 \in Nat /\ i + 1 <= s
      BY <1>6, <2>1
    <3>2. (i + 1) * x <= s * x
      BY <1>4, <3>1, TimesGrow
    <3>3. (i + 1) * x = i * x + x
      BY <1>4, <1>6
    <3>4. QED BY <3>2, <3>3
  <2>2. QED BY <2>1
<1>9. c = t => v + x <= y
  <2>1. ASSUME c = t PROVE v + x <= y
    <3>1. j + 1 \in Nat /\ j + 1 <= s
      BY <1>6, <2>1
    <3>2. (j + 1) * x <= s * x
      BY <1>4, <3>1, TimesGrow
    <3>3. (j + 1) * x = j * x + x
      BY <1>4, <1>6
    <3>4. QED BY <3>2, <3>3
  <2>2. QED BY <2>1
<1>10. i < j => u + x <= v
  <2>1. ASSUME i < j PROVE u + x <= v
    <3>1. i + 1 \in Nat /\ i + 1 <= j
      BY <1>6, <2>1
    <3>2. (i + 1) * x <= j * x
      BY <1>4, <1>6, <3>1, TimesGrow
    <3>3. (i + 1) * x = i * x + x
      BY <1>4, <1>6
    <3>4. QED BY <3>2, <3>3
  <2>2. QED BY <2>1
<1> DEFINE f == Behind(bs, t, b, i)
           g == Behind(bs, t, c, j)
<1>11. /\ f = IF b < t THEN 0 ELSE IF b = t THEN u ELSE y
       /\ g = IF c < t THEN 0 ELSE IF c = t THEN v ELSE y
  BY <1>5
<1> HIDE DEF f, g, u, v, y
<1>12. f \in Nat /\ f <= y
  BY <1>4, <1>7, <1>8, <1>11
<1>13. ASSUME b < c PROVE f + w <= g
  <2>1. CASE b < t
    BY <1>1, <1>3, <1>7, <1>11, <2>1
  <2>2. CASE b = t
    <3>1. f = u /\ g = y /\ w = x
      BY <1>1, <1>3, <1>11, <1>13, <2>2
    <3>2. QED BY <1>8, <2>2, <3>1
  <2>3. CASE t < b
    <3>1. f = y /\ g = y /\ w = 0
      BY <1>1, <1>3, <1>11, <1>13, <2>3
    <3>2. QED BY <1>7, <3>1
  <2>4. QED BY <1>3, <2>1, <2>2, <2>3
<1>14. ASSUME b = c, i < j PROVE f + w <= g
  <2>1. CASE b = t
    <3>1. f = u /\ g = v /\ w = x
      BY <1>1, <1>3, <1>11, <1>14, <2>1
    <3>2. QED BY <1>10, <1>14, <3>1
  <2>2. CASE b # t
    <3>1. f = g /\ w = 0
      BY <1>1, <1>11, <1>14, <2>2
    <3>2. QED BY <1>12, <3>1
  <2>3. QED BY <2>1, <2>2
<1>15. QED BY <1>12, <1>13, <1>14 DEF f, g, w, y, x, s

\* The renderer has played up to an entry, and is as late as the slots up to it may have made it.
LateAt(bs, line, off, t, k, cur, el) ==
    \E b \in DOMAIN bs : \E a \in DOMAIN bs[b].actions :
        /\ k = off[b - 1] + a /\ cur = Ends(line[k])
        /\ el \in Nat /\ cur <= el /\ el <= cur + Behind(bs, t, b, SlotAt(bs, b, a))

\* Where it is once it has waited for a group and played it.
Waits(line, x, cur) == Most(0, line[x].at - cur)
PlayedTo(line, x, m, cur) == Most(cur, line[x].at + line[m].lasts)
PlayedFor(line, x, m, cur, el) == el + Waits(line, x, cur) + line[m].lasts

\* The first group starts on time.
LEMMA FirstLate ==
    ASSUME NEW p, NEW goal, NEW bs, NEW line, NEW off, OnSchedule(p, goal, bs, line, off),
           NEW t, OnlyTight(bs, t), NEW x \in DOMAIN line, NEW m, GroupTo(line, x, m)
    PROVE  LateAt(bs, line, off, t, m, PlayedTo(line, x, m, 0), PlayedFor(line, x, m, 0, 0))
<1>1. m \in DOMAIN line /\ line[m].at = line[x].at
  BY DEF GroupTo
<1>2. PICK b \in DOMAIN bs : \E a \in DOMAIN bs[b].actions : m = off[b - 1] + a
  BY <1>1 DEF OnSchedule, Played_
<1>3. PICK a \in DOMAIN bs[b].actions : m = off[b - 1] + a
  BY <1>2
<1> DEFINE i == SlotAt(bs, b, a)
           at == line[m].at
           las == line[m].lasts
           f == Behind(bs, t, b, i)
<1>4. at \in Nat /\ las \in Nat
  BY <1>3, EntryStarts
<1>5. i \in 0..(SlotsOf(bs, b) - 1)
  BY <1>3, SlotOfEntry
<1>6. f \in Nat
  <2> HIDE DEF i
  <2>1. QED BY <1>5, BehindGrows
<1>7. Ends(line[m]) = at + las
  BY DEF Ends
<1> HIDE DEF f
<1>8. PlayedTo(line, x, m, 0) = at + las
  <2> HIDE DEF at, las
  <2>1. PlayedTo(line, x, m, 0) = Most(0, at + las)
    BY <1>1 DEF PlayedTo, at, las
  <2>2. QED BY <1>4, <2>1 DEF Most
<1>9. PlayedFor(line, x, m, 0, 0) = at + las
  <2> HIDE DEF at, las
  <2>1. PlayedFor(line, x, m, 0, 0) = 0 + Most(0, at - 0) + las
    BY <1>1 DEF PlayedFor, Waits, at, las
  <2>2. QED BY <1>4, <2>1 DEF Most
<1>10. at + las \in Nat /\ at + las <= at + las + f
  <2> HIDE DEF at, las
  <2>1. QED BY <1>4, <1>6
<1>11. f = Behind(bs, t, b, SlotAt(bs, b, a))
  BY DEF f
<1> DEFINE c == PlayedTo(line, x, m, 0)
           e == PlayedFor(line, x, m, 0, 0)
<1>12. c = Ends(line[m]) /\ e \in Nat /\ c <= e /\ e <= c + f
  BY <1>4, <1>6, <1>7, <1>8, <1>9, <1>10
<1> HIDE DEF c, e, i, at, las
<1>13. LateAt(bs, line, off, t, m, c, e)
  BY <1>3, <1>11, <1>12 DEF LateAt
<1>14. QED BY <1>13 DEF c, e

\* Each later one makes it later by no more than the slot before it lacks.
LEMMA NextLate ==
    ASSUME NEW p, NEW goal, NEW bs, NEW line, NEW off, OnSchedule(p, goal, bs, line, off),
           NEW t, OnlyTight(bs, t), NEW k, NEW cur, NEW el, LateAt(bs, line, off, t, k, cur, el),
           NEW x \in DOMAIN line, x = k + 1, line[k].at # line[x].at, NEW m, GroupTo(line, x, m)
    PROVE  LateAt(bs, line, off, t, m, PlayedTo(line, x, m, cur), PlayedFor(line, x, m, cur, el))
<1>1. /\ m \in DOMAIN line /\ line[m].at = line[x].at /\ x <= m
      /\ Played_(bs, line, off) /\ Listed(bs) /\ Listed(line)
  BY DEF GroupTo, OnSchedule, Paced, Played_
<1>2. PICK b \in DOMAIN bs : \E a \in DOMAIN bs[b].actions :
               /\ k = off[b - 1] + a /\ cur = Ends(line[k])
               /\ el \in Nat /\ cur <= el /\ el <= cur + Behind(bs, t, b, SlotAt(bs, b, a))
  BY DEF LateAt
<1>3. PICK a \in DOMAIN bs[b].actions :
               /\ k = off[b - 1] + a /\ cur = Ends(line[k])
               /\ el \in Nat /\ cur <= el /\ el <= cur + Behind(bs, t, b, SlotAt(bs, b, a))
  BY <1>2
<1>4. PICK c \in DOMAIN bs : \E e \in DOMAIN bs[c].actions : m = off[c - 1] + e
  BY <1>1 DEF Played_
<1>5. PICK e \in DOMAIN bs[c].actions : m = off[c - 1] + e
  BY <1>4
<1>6. k < m
  <2>1. off[b - 1] \in Nat /\ a \in Nat /\ off[c - 1] \in Nat /\ e \in Nat
    BY <1>1, PlayedBefore
  <2>2. k \in Nat /\ m \in Nat
    BY <1>3, <1>5, <2>1
  <2>3. QED BY <1>1, <2>2
<1> DEFINE i == SlotAt(bs, b, a)
           j == SlotAt(bs, c, e)
           q == SlotTime(bs, b)
           w == Lack(bs, b)
           f == Behind(bs, t, b, i)
           g == Behind(bs, t, c, j)
           ak == line[k].at
           dk == line[k].lasts
           am == line[m].at
           dm == line[m].lasts
           s == SlotsOf(bs, b)
           start == BeatStart(bs, b)
<1>7. /\ b # Len(bs) /\ ak + q <= am
      /\ b < c \/ (b = c /\ i < j)
  <2>1. line[k].at # line[m].at
    BY <1>1
  <2>2. i = SlotAt(bs, b, a) /\ j = SlotAt(bs, c, e) /\ q = SlotTime(bs, b)
    OBVIOUS
  <2> HIDE DEF i, j, q
  <2>3. QED BY <1>3, <1>5, <1>6, <2>1, <2>2, InOrder
<1>8. EntryIs(bs, line, b, k, start, i, q, s)
  <2>1. i = SlotAt(bs, b, a) /\ q = SlotTime(bs, b) /\ s = SlotsOf(bs, b) /\ start = BeatStart(bs, b)
    OBVIOUS
  <2> HIDE DEF i, q, s, start
  <2>2. QED BY <1>3, <2>1, EntryTimes
<1>9. q \in Nat /\ dk <= q + w /\ w \in Nat /\ w <= MinAction
  <2> HIDE DEF i, q, s, start
  <2>1. QED BY <1>7, <1>8 DEF EntryIs
<1>10. ak \in Nat /\ dk \in Nat /\ am \in Nat /\ dm \in Nat
  BY <1>3, <1>5, EntryStarts
<1>11. dm >= MinAction /\ MinAction \in Nat
  <2> DEFINE z == SlotsOf(bs, c)
             r == SlotTime(bs, c)
             T == BeatStart(bs, c)
  <2>1. EntryIs(bs, line, c, m, T, j, r, z)
    <3>1. j = SlotAt(bs, c, e) /\ r = SlotTime(bs, c) /\ z = SlotsOf(bs, c) /\ T = BeatStart(bs, c)
      OBVIOUS
    <3> HIDE DEF j, r, z, T
    <3>2. QED BY <1>5, <3>1, EntryTimes
  <2> HIDE DEF j, r, z, T
  <2>2. dm >= MinAction
    BY <2>1 DEF EntryIs
  <2>3. MinAction \in Nat
    BY TimesAre
  <2>4. QED BY <2>2, <2>3
<1>12. i \in 0..(SlotsOf(bs, b) - 1) /\ j \in 0..(SlotsOf(bs, c) - 1)
  BY SlotOfEntry
<1>13. f \in Nat /\ g \in Nat /\ f + w <= g
  <2> HIDE DEF i, j
  <2>1. f \in Nat /\ g \in Nat
    BY <1>12, BehindGrows
  <2>2. f + w <= g
    BY <1>7, <1>12, BehindGrows
  <2>3. QED BY <2>1, <2>2
<1>14. cur = ak + dk
  BY <1>3 DEF Ends
<1>15. el \in Nat /\ cur <= el /\ el <= cur + f
  BY <1>3
<1>16. Ends(line[m]) = am + dm
  BY DEF Ends
<1> DEFINE cc == PlayedTo(line, x, m, cur)
           ee == PlayedFor(line, x, m, cur, el)
<1>17. cc = Most(cur, am + dm) /\ ee = el + Most(0, am - cur) + dm
  BY <1>1 DEF PlayedTo, PlayedFor, Waits
<1> HIDE DEF w, q, f, g, ak, dk, am, dm, cc, ee, i, j, s, start
<1>18. cur \in Nat /\ cur <= am + w /\ cur <= am + dm
  BY <1>7, <1>9, <1>10, <1>11, <1>14
<1>19. cc = am + dm
  BY <1>10, <1>17, <1>18 DEF Most
<1>20. CASE am >= cur
  <2>1. ee = el + (am - cur) + dm
    BY <1>10, <1>17, <1>18, <1>20 DEF Most
  <2>2. ee \in Nat /\ cc <= ee /\ ee <= cc + g
    BY <1>9, <1>10, <1>13, <1>15, <1>18, <1>19, <1>20, <2>1
  <2>3. QED BY <1>5, <1>16, <1>19, <2>2 DEF LateAt, cc, ee, g, j, am, dm
<1>21. CASE am < cur
  <2>1. ee = el + dm
    BY <1>10, <1>15, <1>17, <1>18, <1>21 DEF Most
  <2>2. ee \in Nat /\ cc <= ee /\ ee <= cc + g
    BY <1>9, <1>10, <1>13, <1>15, <1>18, <1>19, <1>21, <2>1
  <2>3. QED BY <1>5, <1>16, <1>19, <2>2 DEF LateAt, cc, ee, g, j, am, dm
<1>22. QED BY <1>10, <1>18, <1>20, <1>21

\* In the end the scene is as long as it was declared, and by no more than that late.
LEMMA LastLate ==
    ASSUME NEW p, NEW goal, NEW bs, NEW line, NEW off, OnSchedule(p, goal, bs, line, off),
           NEW t, OnlyTight(bs, t), NEW k \in DOMAIN line, NEW cur, NEW el,
           LateAt(bs, line, off, t, k, cur, el),
           NEW total, total = SceneLength(bs), FitsScene(line, total)
    PROVE  el + Most(0, total - cur) \in MinScene..MaxScene
<1>1. PICK b \in DOMAIN bs : \E a \in DOMAIN bs[b].actions :
               /\ k = off[b - 1] + a /\ cur = Ends(line[k])
               /\ el \in Nat /\ cur <= el /\ el <= cur + Behind(bs, t, b, SlotAt(bs, b, a))
  BY DEF LateAt
<1>2. PICK a \in DOMAIN bs[b].actions :
               /\ k = off[b - 1] + a /\ cur = Ends(line[k])
               /\ el \in Nat /\ cur <= el /\ el <= cur + Behind(bs, t, b, SlotAt(bs, b, a))
  BY <1>1
<1> DEFINE i == SlotAt(bs, b, a)
           f == Behind(bs, t, b, i)
           y == SlotsOf(bs, t) * Lack(bs, t)
<1>3. i \in 0..(SlotsOf(bs, b) - 1)
  BY SlotOfEntry
<1>4. f \in Nat /\ f <= y
  <2> HIDE DEF i
  <2>1. QED BY <1>3, BehindGrows
<1>5. y \in Nat /\ total + y <= MaxScene
  <2>1. t \in DOMAIN bs
    BY DEF OnlyTight
  <2>2. SlotsOf(bs, t) \in Nat /\ Lack(bs, t) \in Nat
    BY <2>1, LackIs
  <2>3. QED BY <2>1, <2>2, BudgetOf
<1>6. cur \in Nat /\ cur <= total
  <2>1. line[k].at \in Nat /\ line[k].lasts \in Nat
    BY <1>2, EntryStarts
  <2>2. line[k] \in Range(line)
    BY DEF Range
  <2>3. Ends(line[k]) <= total
    BY <2>2 DEF FitsScene
  <2>4. QED BY <1>2, <2>1, <2>3 DEF Ends
<1>7. total \in MinScene..MaxScene
  <2>1. Paced(p, goal, bs)
    BY DEF OnSchedule
  <2>2. QED BY <2>1, LastsLong
<1>8. MinScene \in Nat /\ MaxScene \in Nat
  BY TimesAre
<1>9. el \in Nat /\ cur <= el /\ el <= cur + f
  BY <1>2
<1> DEFINE h == Most(0, total - cur)
<1> HIDE DEF f, y
<1>10. h = total - cur
  BY <1>6, <1>7, <1>8 DEF Most
<1> HIDE DEF h
<1>11. el + h \in MinScene..MaxScene
  BY <1>4, <1>5, <1>6, <1>7, <1>8, <1>9, <1>10
<1>12. QED BY <1>11 DEF h

-----------------------------------------------------------------------------
(* The third invariant: where the renderer is in the timeline, and how late. *)

Clock(p, goal, bs, line, nx, cur, el, co) ==
    \E off, t :
        /\ OnSchedule(p, goal, bs, line, off) /\ OnlyTight(bs, t)
        /\ \/ nx = 1 /\ cur = 0 /\ el = 0
           \/ /\ nx - 1 \in DOMAIN line /\ nx \in Nat
              /\ LateAt(bs, line, off, t, nx - 1, cur, el)
              /\ nx \in DOMAIN line => line[nx - 1].at # line[nx].at
              /\ co \in Nat /\ el = co + line[nx - 1].lasts

ClockInv ==
    /\ phase \in {"received", "expanding", "compiled", "judged"} =>
          next = 1 /\ cursor = 0 /\ elapsed = 0 /\ concluding = 0
    /\ (phase = "playing" /\ UniqueIds) =>
          Clock(plan, answer, beats, program.timeline, next, cursor, elapsed, concluding)

\* What the gates have passed can be played from its beginning.
LEMMA ClockStarts ==
    ASSUME CompilerInv, TimeInv, Accepted, UniqueIds
    PROVE  /\ Clock(plan, answer, beats, program.timeline, 1, 0, 0, 0)
           /\ program.total = SceneLength(beats) /\ FitsScene(program.timeline, program.total)
           /\ Len(program.timeline) \in 1..MaxEntries
<1> DEFINE p == plan
           goal == answer
           bs == beats
           bk == books
           pr == program
<1>1. PICK off : OnTheClock(p, goal, bs, bk, pr, off)
  BY CompiledIsPaced DEF Compiled, Accepted
<1>2. EveryBeatActs(p, pr)
  BY DEF CompilerInv, QualityPassed
<1> HIDE DEF p, goal, bs, bk, pr
<1>3. OnSchedule(p, goal, bs, pr.timeline, off)
  BY <1>1, <1>2 DEF OnTheClock
<1>4. PICK t : OnlyTight(bs, t)
  BY <1>3, OneIsTight
<1>5. Clock(p, goal, bs, pr.timeline, 1, 0, 0, 0)
  BY <1>3, <1>4 DEF Clock
<1>6. QED BY <1>1, <1>5 DEF OnTheClock, p, goal, bs, pr

LEMMA TimesOfLate ==
    ASSUME NEW p, NEW goal, NEW bs, NEW line, NEW off, OnSchedule(p, goal, bs, line, off),
           NEW t, NEW k, NEW cur, NEW el, LateAt(bs, line, off, t, k, cur, el)
    PROVE  cur \in Nat /\ el \in Nat
<1>1. PICK b \in DOMAIN bs : \E a \in DOMAIN bs[b].actions :
          k = off[b - 1] + a /\ cur = Ends(line[k]) /\ el \in Nat
  BY DEF LateAt
<1>2. PICK a \in DOMAIN bs[b].actions : k = off[b - 1] + a
  BY <1>1
<1>3. line[k].at \in Nat /\ line[k].lasts \in Nat
  BY <1>2, EntryStarts
<1>4. QED BY <1>1, <1>3 DEF Ends

\* One group further.
LEMMA ClockGoesOn ==
    ASSUME NEW p, NEW goal, NEW bs, NEW line, NEW nx, NEW cur, NEW el, NEW co,
           Clock(p, goal, bs, line, nx, cur, el, co), nx \in DOMAIN line,
           NEW lasting, lasting = Max({line[k].lasts : k \in Together(line, nx)})
    PROVE  Clock(p, goal, bs, line, nx + Cardinality(Together(line, nx)),
                 Most(cur, line[nx].at + lasting), el + Most(0, line[nx].at - cur) + lasting,
                 el + Most(0, line[nx].at - cur))
<1>1. PICK off, t :
          /\ OnSchedule(p, goal, bs, line, off) /\ OnlyTight(bs, t)
          /\ \/ nx = 1 /\ cur = 0 /\ el = 0
             \/ /\ nx - 1 \in DOMAIN line /\ nx \in Nat
                /\ LateAt(bs, line, off, t, nx - 1, cur, el)
                /\ nx \in DOMAIN line => line[nx - 1].at # line[nx].at
                /\ co \in Nat /\ el = co + line[nx - 1].lasts
  BY DEF Clock
<1>2. PICK m : GroupTo(line, nx, m)
  BY <1>1, GroupsAre
<1>3. /\ m \in DOMAIN line /\ lasting = line[m].lasts
      /\ Cardinality(Together(line, nx)) = (m - nx) + 1
      /\ m + 1 \in DOMAIN line => line[m].at # line[m + 1].at
  BY <1>2 DEF GroupTo
<1>4. DOMAIN line = 1..Len(line) /\ Len(line) \in Nat
  BY <1>1, ListPlaces DEF OnSchedule, Played_
<1> DEFINE y == nx + Cardinality(Together(line, nx))
           cc == Most(cur, line[nx].at + lasting)
           ee == el + Most(0, line[nx].at - cur) + lasting
<1>5. y = m + 1 /\ y - 1 = m /\ y \in Nat
  <2>1. m \in Nat /\ nx \in Nat
    BY <1>3, <1>4
  <2>2. QED BY <1>3, <2>1
<1>6. cc = PlayedTo(line, nx, m, cur) /\ ee = PlayedFor(line, nx, m, cur, el)
  BY <1>3 DEF PlayedTo, PlayedFor, Waits
<1> HIDE DEF y, cc, ee
<1>7. LateAt(bs, line, off, t, m, cc, ee)
  <2>1. CASE nx = 1 /\ cur = 0 /\ el = 0
    BY <1>1, <1>2, <1>6, <2>1, FirstLate
  <2>2. CASE /\ nx - 1 \in DOMAIN line /\ nx \in Nat
             /\ LateAt(bs, line, off, t, nx - 1, cur, el)
             /\ nx \in DOMAIN line => line[nx - 1].at # line[nx].at
             /\ co \in Nat /\ el = co + line[nx - 1].lasts
    <3> DEFINE k == nx - 1
    <3>1. nx = k + 1 /\ LateAt(bs, line, off, t, k, cur, el) /\ line[k].at # line[nx].at
      BY <2>2
    <3> HIDE DEF k
    <3>2. QED BY <1>1, <1>2, <1>6, <3>1, NextLate
  <2>3. QED BY <1>1, <2>1, <2>2
<1> DEFINE oo == el + Most(0, line[nx].at - cur)
<1>8. ee = oo + line[m].lasts /\ oo \in Nat
  <2>1. ee = oo + line[m].lasts
    BY <1>3 DEF ee
  <2>2. line[nx].at \in Nat
    <3>1. PICK b \in DOMAIN bs : \E a \in DOMAIN bs[b].actions : nx = off[b - 1] + a
      BY <1>1 DEF OnSchedule, Played_
    <3>2. PICK a \in DOMAIN bs[b].actions : nx = off[b - 1] + a
      BY <3>1
    <3>3. QED BY <1>1, <3>2, EntryStarts
  <2>3. cur \in Nat /\ el \in Nat
    <3>1. CASE nx = 1 /\ cur = 0 /\ el = 0
      BY <3>1
    <3>2. CASE LateAt(bs, line, off, t, nx - 1, cur, el)
      BY <1>1, <3>2, TimesOfLate
    <3>3. QED BY <1>1, <3>1, <3>2
  <2> DEFINE w == line[nx].at
  <2> HIDE DEF w
  <2>4. el + Most(0, w - cur) \in Nat
    BY <2>2, <2>3 DEF Most, w
  <2>5. QED BY <2>1, <2>4 DEF w
<1> HIDE DEF oo
<1>9. Clock(p, goal, bs, line, y, cc, ee, oo)
  <2>1. y - 1 \in DOMAIN line /\ LateAt(bs, line, off, t, y - 1, cc, ee)
    BY <1>3, <1>5, <1>7
  <2>2. y \in DOMAIN line => line[y - 1].at # line[y].at
    BY <1>3, <1>5
  <2>3. oo \in Nat /\ ee = oo + line[y - 1].lasts
    BY <1>5, <1>8
  <2>4. QED BY <1>1, <1>5, <2>1, <2>2, <2>3 DEF Clock
<1>10. QED BY <1>9 DEF y, cc, ee, oo

\* The end of the timeline.
LEMMA ClockStops ==
    ASSUME NEW p, NEW goal, NEW bs, NEW pr, NEW line, line = pr.timeline, NEW nx, NEW cur, NEW el, NEW co,
           Clock(p, goal, bs, line, nx, cur, el, co), nx > Len(line), Len(line) \in 1..MaxEntries,
           NEW total, total = SceneLength(bs), FitsScene(line, total), ConclusionHold(pr)
    PROVE  /\ el + Most(0, total - cur) \in MinScene..MaxScene
           /\ (el + Most(0, total - cur)) - co >= MinHold
<1>1. PICK off, t :
          /\ OnSchedule(p, goal, bs, line, off) /\ OnlyTight(bs, t)
          /\ \/ nx = 1 /\ cur = 0 /\ el = 0
             \/ /\ nx - 1 \in DOMAIN line /\ nx \in Nat
                /\ LateAt(bs, line, off, t, nx - 1, cur, el)
                /\ nx \in DOMAIN line => line[nx - 1].at # line[nx].at
                /\ co \in Nat /\ el = co + line[nx - 1].lasts
  BY DEF Clock
<1> DEFINE n == Len(line)
<1>2. DOMAIN line = 1..n /\ n \in Nat
  BY <1>1, ListPlaces DEF OnSchedule, Played_
<1>3. n \in 1..MaxEntries /\ nx > n
  OBVIOUS
<1> HIDE DEF n
<1>4. nx # 1
  <2>1. n \in Nat /\ n >= 1
    BY <1>3, FewEntries
  <2>2. QED BY <1>3, <2>1
<1> DEFINE k == nx - 1
<1>5. /\ k \in DOMAIN line /\ LateAt(bs, line, off, t, k, cur, el)
      /\ co \in Nat /\ el = co + line[k].lasts /\ nx \in Nat
  BY <1>1, <1>4
<1>6. k = n
  BY <1>2, <1>3, <1>5
<1> HIDE DEF k
<1> DEFINE h == Most(0, total - cur)
<1>7. el + h \in MinScene..MaxScene
  BY <1>1, <1>5, LastLate
<1>8. line[k].lasts >= MinHold
  <2>1. line[k] \in Range(line) /\ line[k].beat = line[Len(line)].beat
    BY <1>5, <1>6 DEF Range, n
  <2>2. QED BY <2>1 DEF ConclusionHold
<1>9. cur \in Nat /\ el \in Nat
  BY <1>1, <1>5, TimesOfLate
<1>10. /\ MinHold \in Nat /\ MinScene \in Nat /\ MaxScene \in Nat
  BY TimesAre
<1>11. total \in Nat
  <2>1. Paced(p, goal, bs)
    BY <1>1 DEF OnSchedule
  <2>2. total \in MinScene..MaxScene
    BY <2>1, LastsLong
  <2>3. QED BY <1>10, <2>2
<1>12. h \in Nat
  BY <1>9, <1>11 DEF Most
<1>13. line[k].lasts \in Nat
  <2>1. PICK b \in DOMAIN bs : \E a \in DOMAIN bs[b].actions : k = off[b - 1] + a
    BY <1>1, <1>5 DEF OnSchedule, Played_
  <2>2. PICK a \in DOMAIN bs[b].actions : k = off[b - 1] + a
    BY <2>1
  <2>3. QED BY <1>1, <2>2, EntryStarts
<1> HIDE DEF h
<1> DEFINE las == line[k].lasts
<1>14. las \in Nat /\ las >= MinHold /\ el = co + las /\ co \in Nat
  BY <1>5, <1>8, <1>13
<1> HIDE DEF las
<1>15. (el + h) - co >= MinHold
  BY <1>10, <1>12, <1>14
<1>16. QED BY <1>7, <1>15 DEF h

LEMMA ClockInit == Init => ClockInv
BY DEF Init, ClockInv

LEMMA ClockStep == CompilerInv /\ TimeInv /\ ClockInv /\ [Next]_vars => ClockInv'
<1> SUFFICES ASSUME CompilerInv, TimeInv, ClockInv, [Next]_vars PROVE ClockInv'
  OBVIOUS
<1> USE DEF playback
<1>0. ASSUME plan' = plan, UniqueIds' PROVE UniqueIds
  BY <1>0 DEF UniqueIds
<1>1. CASE Validate
  <2>1. /\ phase = "received" /\ phase' \in {"expanding", "refused"}
        /\ UNCHANGED <<next, cursor, elapsed, concluding>>
    BY <1>1 DEF Validate
  <2>2. QED BY <2>1 DEF ClockInv
<1>2. CASE Expand
  <2>1. phase = "expanding" /\ phase' = phase /\ UNCHANGED <<next, cursor, elapsed, concluding>>
    BY <1>2 DEF Expand
  <2>2. QED BY <2>1 DEF ClockInv
<1>3. CASE Compile
  <2>1. /\ phase = "expanding" /\ phase' \in {"compiled", "refused"}
        /\ UNCHANGED <<next, cursor, elapsed, concluding>>
    BY <1>3 DEF Compile
  <2>2. QED BY <2>1 DEF ClockInv
<1>4. CASE Judge
  <2>1. /\ phase = "compiled" /\ phase' \in {"judged", "refused"}
        /\ UNCHANGED <<next, cursor, elapsed, concluding>>
    BY <1>4 DEF Judge
  <2>2. QED BY <2>1 DEF ClockInv
<1>5. CASE Resolve
  <2>1. /\ phase = "judged" /\ phase' \in {"playing", "refused"}
        /\ UNCHANGED <<plan, answer, beats, program, next, cursor, elapsed, concluding>>
    BY <1>5 DEF Resolve
  <2>2. next = 1 /\ cursor = 0 /\ elapsed = 0 /\ concluding = 0
    BY <2>1 DEF ClockInv
  <2>3. ASSUME phase' = "playing", UniqueIds'
        PROVE  Clock(plan, answer, beats, program.timeline, next, cursor, elapsed, concluding)'
    <3>1. UniqueIds
      BY <1>0, <2>1, <2>3
    <3>2. Accepted
      BY <2>1 DEF Accepted
    <3>3. Clock(plan, answer, beats, program.timeline, 1, 0, 0, 0)
      BY <3>1, <3>2, ClockStarts
    <3>4. QED BY <2>1, <2>2, <3>3
  <2>4. QED BY <2>1, <2>2, <2>3 DEF ClockInv
<1>6. CASE PlayGroup
  <2> DEFINE line == program.timeline
             G == Together(line, next)
             lasting == Max({line[k].lasts : k \in G})
             y == next + Cardinality(G)
             cc == Most(cursor, line[next].at + lasting)
             oo == elapsed + Most(0, line[next].at - cursor)
             ee == oo + lasting
  <2>1. /\ phase = "playing" /\ next <= Len(line) /\ phase' = phase
        /\ UNCHANGED <<plan, answer, beats, program>>
    BY <1>6 DEF PlayGroup
  <2>2. next' = y /\ cursor' = cc /\ elapsed' = ee /\ concluding' = oo
    BY <1>6 DEF PlayGroup, Group, Together
  <2>3. ASSUME UniqueIds' PROVE Clock(plan, answer, beats, line, y, cc, ee, oo)
    <3>1. UniqueIds
      BY <1>0, <2>1, <2>3
    <3>2. Clock(plan, answer, beats, line, next, cursor, elapsed, concluding)
      BY <2>1, <3>1 DEF ClockInv
    <3>3. next \in DOMAIN line
      <4>1. PICK off, t :
                /\ OnSchedule(plan, answer, beats, line, off)
                /\ \/ next = 1
                   \/ next - 1 \in DOMAIN line /\ next \in Nat
        BY <3>2 DEF Clock
      <4>2. DOMAIN line = 1..Len(line) /\ Len(line) \in Nat
        BY <4>1, ListPlaces DEF OnSchedule, Played_
      <4> DEFINE n == Len(line)
      <4> HIDE DEF line, n
      <4>3. next <= n /\ DOMAIN line = 1..n /\ n \in Nat
        BY <2>1, <4>2 DEF n
      <4>4. next \in Nat /\ next >= 1
        BY <4>1, <4>3
      <4>5. QED BY <4>3, <4>4
    <3>4. lasting = Max({line[k].lasts : k \in Together(line, next)})
      OBVIOUS
    <3> HIDE DEF line, lasting
    <3>5. Clock(plan, answer, beats, line, next + Cardinality(Together(line, next)),
                Most(cursor, line[next].at + lasting),
                elapsed + Most(0, line[next].at - cursor) + lasting,
                elapsed + Most(0, line[next].at - cursor))
      BY <3>2, <3>3, <3>4, ClockGoesOn
    <3>6. QED BY <3>5
  <2> HIDE DEF y, cc, ee, oo
  <2>4. QED BY <2>1, <2>2, <2>3 DEF ClockInv
<1>7. CASE Finish
  <2>1. phase' \in {"approved", "refused"}
    BY <1>7 DEF Finish
  <2>2. QED BY <2>1 DEF ClockInv
<1>8. CASE UNCHANGED vars
  <2>1. UNCHANGED <<phase, plan, answer, beats, program, next, cursor, elapsed, concluding>>
    BY <1>8 DEF vars
  <2>2. UniqueIds' => UniqueIds
    BY <1>0, <2>1
  <2>3. QED BY <2>1, <2>2 DEF ClockInv
<1>9. QED BY <1>1, <1>2, <1>3, <1>4, <1>5, <1>6, <1>7, <1>8 DEF Next

LEMMA ClockInBudget == CompilerInv /\ TimeInv /\ ClockInv => RenderedInBudget
<1> SUFFICES ASSUME CompilerInv, TimeInv, ClockInv, Played, UniqueIds
             PROVE  /\ elapsed + FinalHold \in MinScene..MaxScene
                    /\ (elapsed + FinalHold) - concluding >= MinHold
  BY DEF RenderedInBudget
<1>1. phase = "playing" /\ next > Len(program.timeline)
  BY DEF Played
<1>2. Clock(plan, answer, beats, program.timeline, next, cursor, elapsed, concluding)
  BY <1>1 DEF ClockInv
<1>3. /\ program.total = SceneLength(beats) /\ FitsScene(program.timeline, program.total)
      /\ Len(program.timeline) \in 1..MaxEntries
  BY <1>1, ClockStarts DEF Accepted
<1>4. ConclusionHold(program)
  BY <1>1 DEF CompilerInv, QualityPassed, Accepted
<1> DEFINE total == program.total
           line == program.timeline
           pr == program
<1>5. /\ total = SceneLength(beats) /\ FitsScene(line, total) /\ Len(line) \in 1..MaxEntries
      /\ line = pr.timeline /\ ConclusionHold(pr)
  BY <1>3, <1>4
<1>6. FinalHold = Most(0, total - cursor)
  BY DEF FinalHold
<1> HIDE DEF total, line, pr
<1>7. /\ elapsed + Most(0, total - cursor) \in MinScene..MaxScene
      /\ (elapsed + Most(0, total - cursor)) - concluding >= MinHold
  BY <1>1, <1>2, <1>5, ClockStops DEF line
<1>8. QED BY <1>6, <1>7

\* What the gates pass, the probe passes too: of no lesson whose beats have names of
\* their own does the renderer lose more to slots that are too short than the four
\* minutes of a scene have left (render_probe.py, check_rendered_duration).
THEOREM RenderedInBudgetAlways == Spec => []RenderedInBudget
<1>1. Spec => [](CompilerInv /\ TimeInv)
  BY TimeAlways
<1>2. CompilerInv /\ TimeInv /\ ClockInv /\ [Next]_vars => ClockInv'
  BY ClockStep
<1>3. Init => ClockInv
  BY ClockInit
<1>4. CompilerInv /\ TimeInv /\ ClockInv => RenderedInBudget
  BY ClockInBudget
<1>5. QED BY <1>1, <1>2, <1>3, <1>4, PTL DEF Spec
=============================================================================
