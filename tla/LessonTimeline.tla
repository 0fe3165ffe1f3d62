--------------------------- MODULE LessonTimeline ---------------------------
(***************************************************************************)
(* When the actions of the beats play (v3/timeline.py), what the static    *)
(* quality gates ask of the result (v3/quality.py) and how the renderer    *)
(* plays it (v3/renderer.py).  Times are whole microseconds: the code adds *)
(* decimal seconds and rounds to nine places.                              *)
(***************************************************************************)
EXTENDS BeatExpansion

CONSTANT MaxEntries  \* 40: the timed actions a scene may have

Seconds(tenths) == tenths * 100000

MinScene == Seconds(120)
MaxScene == Seconds(240)
MinAction == Seconds(3)
MaxAction == Seconds(40)
MinHold == Seconds(30)

\* What the renderer may lose to the slots of a walk has been reckoned for so many.
ASSUME EntriesAssumption == MaxEntries \in 1..40

-----------------------------------------------------------------------------
(* What the expander asks for each beat: its least time, its weight (in     *)
(* quarters) and, where a strategy groups its changes, its slots.           *)

Floor(plan, beat) ==
    IF beat.id = RotationBeat(plan) THEN Seconds(11) * plan.primary.iterations
    ELSE IF plan.strategy = "pair_elimination" /\ beat.kind = "organize"
         THEN Least(Seconds(26) * ((Len(plan.primary.values) - 1) \div 2), Seconds(120))
    ELSE IF beat.kind = "orient" THEN Seconds(15)
    ELSE IF beat.kind \in {"reveal", "focus"} THEN Seconds(20)
    ELSE IF beat.kind = "conclude" THEN Seconds(30) ELSE Seconds(25)

Weight(beat) ==
    IF beat.kind = "conclude" THEN 6 ELSE IF beat.kind \in {"organize", "derive"} THEN 5 ELSE 4

RegroupRows(v) ==
    IF v.kind = "grid" THEN LiteralInteger(v.rows)
    ELSE (LiteralInteger(v.count) + Least(5, LiteralInteger(v.count)) - 1)
            \div Least(5, LiteralInteger(v.count))

SlotCount(plan, beat, actions) ==
    LET n == Len(actions)
    IN  IF n = 0 THEN None
        ELSE IF plan.strategy = "pair_elimination" /\ beat.kind = "organize" THEN (n + 1) \div 2
        ELSE IF beat.id = RegroupBeat(plan)
             THEN IF RegroupCells(plan.primary) = n THEN RegroupRows(plan.primary) ELSE None
        ELSE IF beat.id \in {MagnitudeBeat(plan), BridgeBeat(plan), PercentBeat(plan),
                             RotationBeat(plan)} THEN n
        ELSE None

Expanded(plan, beat, actions) ==
    [id |-> beat.id, actions |-> actions, floor |-> Floor(plan, beat),
     weight |-> Weight(beat), slots |-> SlotCount(plan, beat, actions)]

-----------------------------------------------------------------------------
(* Scheduling.                                                              *)

Total(beats, Value(_)) ==
    LET upto[b \in 0..Len(beats)] == IF b = 0 THEN 0 ELSE upto[b - 1] + Value(beats[b])
    IN  upto[Len(beats)]

FloorOf(beats) == Total(beats, LAMBDA beat : beat.floor)

SceneLength(beats) == Least(MaxScene, Most(MinScene, FloorOf(beats) + MinHold))

\* What is left over the floors is shared by weight.
BeatLength(beats, b) ==
    beats[b].floor + ((SceneLength(beats) - FloorOf(beats)) * beats[b].weight)
                        \div Total(beats, LAMBDA beat : beat.weight)

BeatStart(beats, b) ==
    LET start[c \in 1..b] == IF c = 1 THEN 0 ELSE start[c - 1] + BeatLength(beats, c - 1)
    IN  start[b]

\* The last beat that acts; its actions start together.
FinalBeat(beats) ==
    CHOOSE b \in DOMAIN beats :
        beats[b].actions # <<>> /\ \A c \in DOMAIN beats : c > b => beats[c].actions = <<>>

\* Mutant: the last beat that acts is cut into slots as any other.
SlotsOfAny(beats, b) ==
    LET n == Len(beats[b].actions)
        fitting == Most(1, BeatLength(beats, b) \div MinAction)
    IN  Least(n, IF beats[b].slots = None THEN fitting ELSE beats[b].slots)

SlotsOf(beats, b) ==
    LET n == Len(beats[b].actions)
        fitting == Most(1, BeatLength(beats, b) \div MinAction)
    IN  IF b = FinalBeat(beats) THEN 1
        ELSE Least(n, IF beats[b].slots = None THEN fitting ELSE beats[b].slots)

\* The slot, from 0, in which the a-th of n actions falls when s slots share them.
SlotOf(a, n, s) == CHOOSE k \in 0..(s - 1) : (k * n) \div s < a /\ a <= ((k + 1) * n) \div s

Entries(beats, b) ==
    LET n == Len(beats[b].actions)
        s == SlotsOf(beats, b)
        slot == BeatLength(beats, b) \div s
    IN  [a \in 1..n |->
            [at |-> BeatStart(beats, b) + SlotOf(a, n, s) * slot,
             lasts |-> Least(MaxAction, Most(MinAction, slot)),
             beat |-> beats[b].id, action |-> beats[b].actions[a]]]

Schedule(beats) ==
    FlattenSeq([b \in DOMAIN beats |->
        IF beats[b].actions = <<>> THEN <<>> ELSE Entries(beats, b)])

Ends(entry) == entry.at + entry.lasts

\* The document of a program accepts only actions that end before the scene does.
FitsScene(timeline, total) == \A e \in Range(timeline) : Ends(e) <= total

=============================================================================
