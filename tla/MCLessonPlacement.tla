-------------------------- MODULE MCLessonPlacement --------------------------
(* Lessons of one to four visuals of the sizes the measurers produce.        *)
EXTENDS LessonPlacement

Measured(ref, left, right, bottom, top) ==
    [ref |-> ref, left |-> left, right |-> right, bottom |-> bottom, top |-> top]

Centred(ref, width, height) ==
    Measured(ref, -(width \div 2), width \div 2, -(height \div 2), height \div 2)

\* A rectangle with its dimensions written below it and to its left, a number
\* line, a tape, a bar, a circle, a grid of six rows, and a plane.
Pictures(ref) ==
    {Measured(ref, -268, 200, -218, 150), Measured(ref, -300, 290, -76, 20), Centred(ref, 760, 110),
     Centred(ref, 1034, 60), Centred(ref, 240, 240), Centred(ref, 340, 410), Centred(ref, 520, 600)}

\* A short label, a long one, a circle, a bar and a visual off its own centre.
Companions(ref) ==
    {Centred(ref, 120, 40), Centred(ref, 700, 40), Centred(ref, 240, 240), Centred(ref, 254, 60),
     Measured(ref, -90, 230, -40, 200)}

Callout(ref, anchor, y) == [visual |-> ref, anchor |-> anchor, y |-> y]

Callouts(v, others) ==
    {<<>>}
      \cup {<<Callout(v.ref, "bottom", y)>> : y \in {v.bottom, Least(v.bottom + 68, v.top), (v.bottom + v.top) \div 2, None}}
      \cup {<<Callout(v.ref, "top", v.top), Callout(v.ref, "bottom", v.bottom)>>}
      \cup {<<Callout(m.ref, anchor, IF anchor = "top" THEN m.top ELSE m.bottom)>> :
               m \in Range(others), anchor \in {"top", "bottom"}}

Groups ==
    {<<>>} \cup {<<b>> : b \in Companions("b")}
      \cup {<<b, c>> : b \in Companions("b"), c \in Companions("c")}
      \cup {<<Centred("b", 240, 240), c, Centred("d", w, 40)>> : c \in Companions("c"), w \in {120, 700}}

Answers == {<<>>, <<Centred(Answer, 260, 40)>>, <<Centred(Answer, 1500, 40)>>}

AllLessons ==
    UNION {{[visuals |-> <<v>> \o others \o answer, callouts |-> c] : c \in Callouts(v, others)} :
              v \in Pictures("a"), others \in Groups, answer \in Answers}
      \cup {[visuals |-> answer, callouts |-> <<>>] : answer \in Answers \ {<<>>}}
=============================================================================
