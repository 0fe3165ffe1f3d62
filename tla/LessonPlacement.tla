--------------------------- MODULE LessonPlacement ---------------------------
(***************************************************************************)
(* One pass of place_vertical_lesson (v3/layout.py) over the measured      *)
(* visuals of a lesson and its callouts: arrange, find the scale, place.   *)
(***************************************************************************)
EXTENDS LessonLayout

CONSTANT Lessons  \* what may be laid out: [visuals, callouts]

\* A visual takes some room, no two have one name, and a part that a callout may
\* hang from lies inside its visual.
Lesson(visuals, callouts) ==
    /\ visuals # <<>>
    /\ \A m \in Range(visuals) :
          /\ {m.left, m.right, m.bottom, m.top} \subseteq Int
          /\ m.left < m.right /\ m.bottom < m.top
    /\ \A j, k \in DOMAIN visuals : visuals[j].ref = visuals[k].ref => j = k
    /\ \A c \in Range(callouts) : c.y # None =>
          \E m \in Range(visuals) : m.ref = c.visual /\ c.y \in m.bottom..m.top

ASSUME LessonsAssumption ==
    \A l \in Lessons :
        /\ l.visuals \in Seq(Range(l.visuals)) /\ l.callouts \in Seq(Range(l.callouts))
        /\ Lesson(l.visuals, l.callouts)

VARIABLES
    visuals, callouts,  \* what was handed in
    progress,           \* "measured", "arranged", "scaled", "placed" or "refused"
    arrangement,        \* which visual goes where
    scale,              \* the scale of the whole lesson
    boxes               \* where the visuals end up

layoutVars == <<visuals, callouts, progress, arrangement, scale, boxes>>

LayoutInit ==
    /\ \E l \in Lessons : visuals = l.visuals /\ callouts = l.callouts
    /\ progress = "measured"
    /\ arrangement = None /\ scale = None /\ boxes = {}

Arrange ==
    /\ progress = "measured"
    /\ arrangement' = Arrangement(visuals, callouts)
    /\ progress' = "arranged"
    /\ UNCHANGED <<visuals, callouts, scale, boxes>>

FindScale ==
    /\ progress = "arranged"
    /\ scale' = Scale(arrangement, callouts)
    /\ progress' = IF AtMost(MinTextScale, scale') THEN "scaled" ELSE "refused"
    /\ UNCHANGED <<visuals, callouts, arrangement, boxes>>

Place ==
    /\ progress = "scaled"
    /\ boxes' = Places(arrangement, callouts, scale)
    /\ progress' = "placed"
    /\ UNCHANGED <<visuals, callouts, arrangement, scale>>

LayoutNext == Arrange \/ FindScale \/ Place

LayoutSpec == LayoutInit /\ [][LayoutNext]_layoutVars

-----------------------------------------------------------------------------
(* Correctness, in 1/(2d) hundredths.                                       *)

\* Everything is placed once and lies inside the safe frame, whatever is beside
\* what and whichever side the callouts reserve room on (_fit_instructional_scale);
\* and no two visuals are drawn over each other, though the box of a visual need
\* not be centred on its own origin (_place_instructional).
InsideFrame(b) ==
    /\ -FrameWidth * scale[2] <= b.left /\ b.right <= FrameWidth * scale[2]
    /\ -FrameHeight * scale[2] <= b.bottom /\ b.top <= FrameHeight * scale[2]

Apart(b, c) ==
    b.right <= c.left \/ c.right <= b.left \/ b.top <= c.bottom \/ c.top <= b.bottom

Drawn(m, b) ==
    /\ b.ref = m.ref
    /\ b.right - b.left = 2 * Width(m) * scale[1]
    /\ b.top - b.bottom = 2 * Height(m) * scale[1]

WellPlaced ==
    progress = "placed" =>
        /\ \A m \in Range(visuals) : \E b \in boxes : Drawn(m, b)
        /\ \A b \in boxes : \E m \in Range(visuals) : Drawn(m, b)
        /\ \A b \in boxes : InsideFrame(b)
        /\ \A b, c \in boxes : b # c => b.ref # c.ref /\ Apart(b, c)

\* Where a callout of a visual hangs: the height of its anchor in the frame.
AnchorAt(c, m, b) == b.bottom + 2 * (c.y - m.bottom) * scale[1]

\* Every callout has its whole height inside the frame, and one that hangs from
\* the primary meets no other visual: not a row below it, nor a visual beside it
\* that is taller (_bottom_callout_room_per_scale, _outer_callout_pad).
CalloutsClear ==
    progress = "placed" =>
        \A c \in Range(callouts), m \in Range(visuals), b \in boxes :
            (c.y # None /\ m.ref = c.visual /\ b.ref = c.visual) =>
                LET at == AnchorAt(c, m, b)
                    far == 2 * Envelope * scale[2]
                IN  /\ c.anchor = "bottom" => at - far >= -FrameHeight * scale[2]
                    /\ c.anchor = "top" => at + far <= FrameHeight * scale[2]
                    /\ (c.anchor = "bottom" /\ c.visual = arrangement.primary.ref) =>
                          \A other \in boxes \ {b} : other.bottom >= at \/ other.top <= at - far
=============================================================================
