------------------------------- MODULE Scenes -------------------------------
(***************************************************************************)
(* One storyboard scene: the fields of models/scene.py that the review     *)
(* and render handlers read, and the predicates those handlers share.      *)
(*                                                                         *)
(* A scene's params are a sequence of contents: one for a scene built from *)
(* one candidate, one per member for a combined (chained) scene.  A        *)
(* content stands for a value of the params model of one template, so it   *)
(* determines the template and the answer the params compute.              *)
(***************************************************************************)
EXTENDS Integers, Sequences

CONSTANTS
    Candidate,      \* problems discovered in the upload
    Content,        \* parameter values
    Template,       \* templates
    TextCard,       \* the template of fallback scenes
    Chainable,      \* templates that have a chained form
    AnswerStating,  \* static templates other than the text card: only for
                    \* their scenes a stated answer is extracted
    TemplateOf,     \* the template whose params a content is
    Answer,         \* answers a problem can have
    NoAnswer,       \* no stated answer / nothing computed
    AnswerOf        \* what compute_answer() returns for a content

ASSUME TemplatesAssumption ==
    /\ TextCard \in Template
    /\ Chainable \subseteq Template
    /\ AnswerStating \subseteq Template \ {TextCard}
    /\ TemplateOf \in [Content -> Template]

ASSUME AnswersAssumption ==
    /\ NoAnswer \notin Answer
    /\ AnswerOf \in [Content -> Answer \union {NoAnswer}]

-----------------------------------------------------------------------------

Status == {"pending_review", "approved", "rejected", "fallback"}

(***************************************************************************)
(* approvedRevision = 0 stands for approved_revision = None: an approval   *)
(* always pins a revision above 0.  rendered is the key of the clip at     *)
(* render_path (rendered_params_hash), empty before the first publication. *)
(* The last two fields are not in the code.  assembly numbers the runs of  *)
(* the assembly pipeline, so it tells a retried scene from the one it      *)
(* replaced, which carries the same scene_id and may carry the same        *)
(* revision; mixed says that a write landed on the scene whose request had *)
(* looked at an earlier assembly of it.                                    *)
(***************************************************************************)
Scene ==
    [sources : Seq(Candidate) \ {<<>>},
     items : Seq(Content) \ {<<>>},
     stated : Answer \union {NoAnswer},
     acknowledged : BOOLEAN,
     status : Status,
     revision : Nat,
     approvedRevision : Nat,
     rendered : Seq(Content),
     assembly : Nat,
     mixed : BOOLEAN]

\* candidate_ids is set instead of candidate_id.
IsChained(s) == Len(s.sources) > 1

\* scene.template
SceneTemplate(s) == TemplateOf[s.items[1]]

\* A scene as assemble_scene and chain_scenes construct it.
NewScene(sources, items, stated, status, assembly) ==
    [sources |-> sources, items |-> items, stated |-> stated,
     acknowledged |-> FALSE, status |-> status, revision |-> 0,
     approvedRevision |-> 0, rendered |-> <<>>,
     assembly |-> assembly, mixed |-> FALSE]

\* scene_mismatch: the stated answer differs from the computed one.  Only
\* scenes with a single source carry a stated answer.
Mismatch(s) ==
    /\ s.stated # NoAnswer
    /\ AnswerOf[s.items[1]] \notin {NoAnswer, s.stated}

\* The condition _guard_approval_mismatch lets through.
MismatchSettled(s) == Mismatch(s) => s.acknowledged

\* _is_render_ready
RenderReady(s) ==
    /\ s.status = "approved"
    /\ s.approvedRevision \in {0, s.revision}

(***************************************************************************)
(* What assemble_scene can return for a candidate and a template: a scene  *)
(* of that template awaiting review, with any params the model extracts    *)
(* and the answer the document states, if any, or a fallback text card.    *)
(* n numbers the run of the pipeline.                                      *)
(***************************************************************************)
Assembled(c, t, n) ==
    {NewScene(<<c>>, <<p>>, a, "pending_review", n) :
        p \in {q \in Content : TemplateOf[q] = t},
        a \in {NoAnswer} \union (IF t \in AnswerStating THEN Answer ELSE {})}
    \union
    {NewScene(<<c>>, <<p>>, NoAnswer, "fallback", n) :
        p \in {q \in Content : TemplateOf[q] = TextCard /\ t # TextCard}}
=============================================================================
