---------------------------- MODULE MCStoryboard ----------------------------
(* Values of the constants of Storyboard for model checking. *)
EXTENDS Storyboard, TLC

CONSTANTS q1, q2, q3,         \* problems
          halves, thirds,    \* params of the drawing template
          text,              \* params of the text card
          drawing, textCard, \* templates
          two, three         \* answers

MCOffered == (Candidate \X {drawing}) \union {<<q1, textCard>>}
MCDrawings == Candidate \X {drawing}
MCContent == {halves, thirds, text}
MCTemplate == {drawing, textCard}
MCChainable == {drawing}
MCAnswerStating == {drawing}
MCTemplateOf == [c \in Content |-> IF c = text THEN textCard ELSE drawing]
MCAnswer == {two, three}
MCAnswerOf == [c \in Content |-> CASE c = halves -> two [] c = thirds -> three
                                   [] OTHER -> NoAnswer]

\* Scene ids are interchangeable, and so are the two drawings together with
\* the answers they compute.
Swap == (halves :> thirds) @@ (thirds :> halves) @@ (two :> three) @@ (three :> two)
Symmetry ==
    Permutations(SceneId) \union {Swap} \union
    {Swap @@ p : p \in Permutations(SceneId)}

\* So are the problems, when all of them are offered the same templates.
BoardSymmetry == {p @@ q : p \in Symmetry, q \in Permutations(Candidate)}
=============================================================================
