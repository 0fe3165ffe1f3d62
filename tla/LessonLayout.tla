---------------------------- MODULE LessonLayout ----------------------------
(***************************************************************************)
(* How the measured visuals of a lesson are laid out (v3/layout.py): each  *)
(* supporting visual goes beside the primary one or to a row of its own,   *)
(* one scale is found at which everything fits, and the rows are stacked   *)
(* around the middle of the frame.  A callout keeps its size at any scale, *)
(* so room for it is reserved.  Lengths are hundredths of a unit; a scale  *)
(* is a rational; a placed length is a whole number of 1/(2d) hundredths,  *)
(* where d is the scale's denominator.                                     *)
(***************************************************************************)
EXTENDS Quantities, Sequences, Functions, FiniteSetsExt

FrameWidth == 1320      \* SAFE_FRAME
FrameHeight == 720
MinTextScale == <<7, 10>>
Gap == 45
Envelope == 90          \* CALLOUT_ENVELOPE: it does not scale

(* A measured visual is [ref, left, right, bottom, top]; a callout is       *)
(* [visual, anchor, y], with the height of its anchor in the visual's own   *)
(* coordinates, or None when the visual has no such anchor.                 *)

Width(m) == m.right - m.left

Height(m) == m.top - m.bottom

Widths(items) == [k \in DOMAIN items |-> Width(items[k])]

Heights(items) == [k \in DOMAIN items |-> Height(items[k])]

\* The cursor over a stack: what it has passed when it comes to each length, and
\* to the end, with a gap after every length.
Before(lengths) ==
    LET before[k \in 1..(Len(lengths) + 1)] ==
            IF k = 1 THEN 0 ELSE before[k - 1] + lengths[k - 1] + Gap
    IN  before

Reach(lengths) == Before(lengths)[Len(lengths) + 1]

\* A stack with a gap between each two.
Extent(lengths) == IF lengths = <<>> THEN 0 ELSE Reach(lengths) - Gap

-----------------------------------------------------------------------------
(* Beside the primary, or in a row of its own.                              *)

OnPrimary(callouts, primary) ==
    {c \in Range(callouts) : c.visual = primary.ref /\ c.anchor = "bottom" /\ c.y # None}

\* A visual beside the primary is centred on it: does it meet the strip a
\* callout takes below its anchor, at the smallest scale there may be?
MeetsCallout(primary, m, c) ==
    LET above == 2 * c.y - primary.bottom - primary.top  \* twice the anchor over the centre
    IN  7 * Height(m) > 7 * above - 20 * Envelope /\ above > -Height(m)

FitsBeside(primary, callouts, m) ==
    /\ 2 * Width(m) <= FrameWidth - Width(primary) - 2 * Gap
    /\ \A c \in OnPrimary(callouts, primary) : ~MeetsCallout(primary, m, c)

\* The first visual of the answer's name, and the first one that is not it.
AnswerAt(visuals) ==
    LET named == {k \in DOMAIN visuals : visuals[k].ref = Answer}
    IN  IF named = {} THEN None ELSE Min(named)

PrimaryAt(visuals) ==
    LET rest == DOMAIN visuals \ {AnswerAt(visuals)}
    IN  IF rest = {} THEN AnswerAt(visuals) ELSE Min(rest)

Stacks == {"left", "right", "above", "below"}

\* Of two stacks the one of the smaller extent grows, the first one on a tie.
StackFor(stacks, beside) ==
    IF beside
    THEN IF Extent(Widths(stacks["left"])) <= Extent(Widths(stacks["right"])) THEN "left" ELSE "right"
    ELSE IF Extent(Heights(stacks["above"])) <= Extent(Heights(stacks["below"])) THEN "above" ELSE "below"

Joined(stacks, m, beside) == [stacks EXCEPT ![StackFor(stacks, beside)] = Append(@, m)]

Stacked(visuals, callouts) ==
    LET primary == visuals[PrimaryAt(visuals)]
        stacked[k \in 0..Len(visuals)] ==
            IF k = 0 THEN [s \in Stacks |-> <<>>]
            ELSE IF k \in {PrimaryAt(visuals), AnswerAt(visuals)} THEN stacked[k - 1]
            ELSE Joined(stacked[k - 1], visuals[k], FitsBeside(primary, callouts, visuals[k]))
    IN  stacked[Len(visuals)]

WithAnswer(rows, visuals) ==
    IF AnswerAt(visuals) \in {None, PrimaryAt(visuals)} THEN rows
    ELSE Append(rows, visuals[AnswerAt(visuals)])

\* The answer takes the last row, or the whole frame when it is alone.
Arrangement(visuals, callouts) ==
    LET stacks == Stacked(visuals, callouts)
    IN  [primary |-> visuals[PrimaryAt(visuals)],
         left |-> stacks["left"], right |-> stacks["right"],
         above |-> stacks["above"], below |-> WithAnswer(stacks["below"], visuals)]

-----------------------------------------------------------------------------
(* The room that callouts need.                                             *)

\* A callout that leaves the column takes its whole height off the frame.
OuterPad(a, callouts, anchor, others) ==
    IF \E c \in Range(callouts) : c.anchor = anchor /\ (others => c.visual # a.primary.ref)
    THEN Envelope ELSE 0

TopPad(a, callouts) == OuterPad(a, callouts, "top", FALSE)

BottomPad(a, callouts) == OuterPad(a, callouts, "bottom", TRUE)

\* The least room, at scale 1, from an anchor at the bottom of the primary down
\* to the row below it; None when no callout hangs from the primary.
CalloutRoom(a, callouts) ==
    LET rooms == {c.y - a.primary.bottom + (IF a.below = <<>> THEN 0 ELSE Gap) :
                     c \in OnPrimary(callouts, a.primary)}
    IN  IF rooms = {} THEN None ELSE Min(rooms)

-----------------------------------------------------------------------------
(* The scale.                                                               *)

\* Mutant: what stands beside the primary is forgotten.
PrimaryHeight(a) == Height(a.primary)

BandHeight(a) == Max({Height(m) : m \in {a.primary} \cup Range(a.left) \cup Range(a.right)})

ColumnHeight(a) == BandHeight(a) + Reach(Heights(a.above)) + Reach(Heights(a.below))

Fit(available, extent) == IF extent = 0 THEN <<1, 1>> ELSE <<available, extent>>

FitVertical(column, frame, room) ==
    CASE column = 0 -> <<1, 1>>
      [] column # 0 /\ (room = None \/ (room # None /\ room * frame >= Envelope * column)) ->
            <<frame, column>>
      [] OTHER -> IF column <= room THEN <<1, 1>> ELSE <<frame - Envelope, column - room>>

FitSide(primary, side) == Fit(FrameWidth, Width(primary) + 2 * Reach(Widths(side)))

FitRows(a) == Fit(FrameWidth, Max({0} \cup {Width(m) : m \in Range(a.above) \cup Range(a.below)}))

FreeHeight(a, callouts) == FrameHeight - TopPad(a, callouts) - BottomPad(a, callouts)

Scale(a, callouts) ==
    LET across == Smaller(FitSide(a.primary, a.left), FitSide(a.primary, a.right))
        down == FitVertical(ColumnHeight(a), FreeHeight(a, callouts), CalloutRoom(a, callouts))
    IN  Smaller(<<1, 1>>, Smaller(Smaller(across, down), FitRows(a)))

-----------------------------------------------------------------------------
(* The places, at a scale n/d: boxes in 1/(2d) hundredths.                  *)

Box(m, centre, middle, n) ==
    [ref |-> m.ref, left |-> centre - Width(m) * n, right |-> centre + Width(m) * n,
     bottom |-> middle - Height(m) * n, top |-> middle + Height(m) * n]

StackRows(items, top, n) ==
    {Box(items[k], 0, top - n * (2 * Before(Heights(items))[k] + Height(items[k])), n) :
        k \in DOMAIN items}

\* To the left of an edge (-1) or to its right (1).
PlaceSide(items, edge, middle, direction, n) ==
    {Box(items[k], edge + direction * n * (2 * (Gap + Before(Widths(items))[k]) + Width(items[k])), middle, n) :
        k \in DOMAIN items}

\* Mutant: the room is measured at full size, whatever the scale.
PadAtFullSize(room, scale) == IF room = None THEN 0 ELSE Most(0, (Envelope - room) * scale[2])

\* Half of what has to be kept free below the primary's band for its callouts.
CalloutPad(room, scale) ==
    IF room = None THEN 0 ELSE Most(0, Envelope * scale[2] - room * scale[1])

ColumnTop(a, callouts, scale) ==
    (BottomPad(a, callouts) - TopPad(a, callouts)) * scale[2] + ColumnHeight(a) * scale[1]
      + CalloutPad(CalloutRoom(a, callouts), scale)

MiddleOfBand(a, callouts, scale) ==
    ColumnTop(a, callouts, scale) - 2 * scale[1] * Reach(Heights(a.above)) - scale[1] * BandHeight(a)

Places(a, callouts, scale) ==
    LET n == scale[1]
        middle == MiddleOfBand(a, callouts, scale)
        primary == Box(a.primary, 0, middle, n)
        rowsTop == middle - n * BandHeight(a) - 2 * n * Gap
                     - 2 * CalloutPad(CalloutRoom(a, callouts), scale)
    IN  {primary}
          \cup StackRows(a.above, ColumnTop(a, callouts, scale), n)
          \cup PlaceSide(a.left, primary.left, middle, -1, n)
          \cup PlaceSide(a.right, primary.right, middle, 1, n)
          \cup StackRows(a.below, rowsTop, n)

\* A lesson that would be drawn too small is refused.
Readable(visuals, callouts) ==
    AtMost(MinTextScale, Scale(Arrangement(visuals, callouts), callouts))
=============================================================================
