-------------------------- MODULE CandidateFixtures --------------------------
(***************************************************************************)
(* How a draft comes out of a model's proposals (meta/generation_pipeline  *)
(* .py): each proposal has its fixtures repaired (meta/fixture_mutation    *)
(* .py) and is then validated (meta/validation.py, validation_pipeline     *)
(* .py); a refusal is told to the model, which gets a bounded number of    *)
(* attempts.  The answers of the examples of the draft that is kept are    *)
(* recorded later (meta/fixture_answers.py).                               *)
(***************************************************************************)
EXTENDS Quantities, Lists

CONSTANTS
    Proposals,    \* a sequence of what the model may hand in, each of which is
                  \* named by its place: [document, guard, answer, fixtures]
    Reviewed,     \* the proposals a rejected draft may come from
    Observations, \* the problems the job was raised for
    Excerpt,      \* [Observations -> text]
    MaxAttempts   \* meta_draft_generation_max_attempts

\* What a template's documents say of values, in the language of the documents.
CONSTANTS
    GuardIsSound(_, _),     \* does the guard compile against the parameter document?
    AnswerIsSound(_, _),    \* does the answer?
    Accepts(_, _, _),       \* does the compiled class accept these params?
    Complete(_, _),         \* the values of the instance it then makes
    GroundedIn(_, _, _, _), \* are all of these values of the text?
    AnswerTo(_, _, _),      \* the value of the answer, or None if it raises
    Failing(_, _, _),       \* the predicates of the guard that values fail
    Violating(_, _),        \* params that violate a bound, or None
    WitnessAgainst(_, _, _, _) \* params that fail a predicate, or None

ASSUME AttemptsAssumption == MaxAttempts \in Nat \ {0}

\* The schema of a proposal, and the check that it names no unknown observation.
ASSUME ProposalsAssumption ==
    /\ Proposals \in Seq(Range(Proposals)) /\ Reviewed \subseteq DOMAIN Proposals
    /\ \A p \in Range(Proposals) :
          /\ p.guard \in Seq(Range(p.guard)) \ {<<>>}
          /\ p.fixtures \in Seq(Range(p.fixtures)) \ {<<>>}
          /\ \A f \in Range(p.fixtures) : f.observation \in Observations \cup {None}

\* A number below its minimum is not accepted.
ASSUME BoundsAssumption ==
    \A p \in Range(Proposals) : \A f \in Range(p.fixtures) :
        GuardIsSound(p.document, p.guard) /\ Violating(p.document, f.params) # None =>
            ~Accepts(p.document, p.guard, Violating(p.document, f.params))

\* What has an answer has one with its defaults filled in.
ASSUME CompletionAssumption ==
    \A p \in Range(Proposals) : \A f \in Range(p.fixtures) :
        /\ GuardIsSound(p.document, p.guard) /\ AnswerIsSound(p.document, p.answer)
        /\ Accepts(p.document, p.guard, f.params)
        /\ AnswerTo(p.document, p.answer, f.params) # None
        =>  AnswerTo(p.document, p.answer, Complete(p.document, f.params)) # None

VARIABLES
    attempts, \* how many proposals were asked for
    prior,    \* the last proposal that was refused: it is shown as repaired
    advice,   \* what the next proposal is to correct
    judged,   \* the proposal that was judged last
    phase,    \* "drafting", "persisted", "exhausted" or "failed"
    draft,    \* the proposal that was kept, as repaired
    answered  \* the fixtures of the draft whose answers are recorded

vars == <<attempts, prior, advice, judged, phase, draft, answered>>

-----------------------------------------------------------------------------
(* Repairs.                                                                 *)

Example(f) == f.kind = "positive" /\ f.expected = "accept"

HasBase(fixtures) == \E k \in DOMAIN fixtures : Example(fixtures[k])

IsBase(fixtures, k) ==
    Example(fixtures[k]) /\ \A j \in DOMAIN fixtures : j < k => ~Example(fixtures[j])

\* The first positive fixture that is expected to be accepted.
Base(fixtures) == fixtures[CHOOSE k \in DOMAIN fixtures : IsBase(fixtures, k)]

Rejecting(params) ==
    [kind |-> "negative", expected |-> "reject", method |-> "mutated",
     observation |-> None, params |-> params]

DocumentsCompile(p) == GuardIsSound(p.document, p.guard) /\ AnswerIsSound(p.document, p.answer)

\* An accepted positive whose numbers or words its problem does not have.
Speculative(p, f) ==
    /\ f.kind = "positive" /\ f.observation # None
    /\ Accepts(p.document, p.guard, f.params)
    /\ ~GroundedIn(p.document, p.guard, Complete(p.document, f.params), Excerpt[f.observation])

DropUngrounded(p, fixtures) ==
    IF ~GuardIsSound(p.document, p.guard) THEN fixtures
    ELSE Kept(fixtures, {k \in DOMAIN fixtures : ~Speculative(p, fixtures[k])})

\* Mutant: only a positive without an observation is dropped.
KeepDuplicates(fixtures) ==
    Kept(fixtures, {k \in DOMAIN fixtures :
                       fixtures[k].kind = "positive" => fixtures[k].observation # None})

Repeats(fixtures, k) ==
    \E j \in DOMAIN fixtures : /\ j < k /\ fixtures[j].kind = "positive"
                               /\ fixtures[j].observation = fixtures[k].observation

\* One positive for each observation is kept: the first one.
DropDuplicates(fixtures) ==
    Kept(fixtures, {k \in DOMAIN fixtures :
                       fixtures[k].kind = "positive" =>
                           fixtures[k].observation # None /\ ~Repeats(fixtures, k)})

\* Mutant: duplicates are dropped before what is not grounded.
DuplicatesFirst(p) == DropUngrounded(p, DropDuplicates(p.fixtures))

Dropped(p) == DropDuplicates(DropUngrounded(p, p.fixtures))

\* Mutant: a negative is added to those that are there.
AnotherNegative(fixtures) == HasBase(fixtures)

NeedsNegative(fixtures) ==
    (\A f \in Range(fixtures) : f.kind # "negative") /\ HasBase(fixtures)

\* No number is there to be put out of its bounds: a ValueError.
Raises(p) ==
    NeedsNegative(Dropped(p)) /\ Violating(p.document, Base(Dropped(p)).params) = None

EnsureNegative(document, fixtures) ==
    IF ~NeedsNegative(fixtures) THEN fixtures
    ELSE Append(fixtures, Rejecting(Violating(document, Base(fixtures).params)))

\* The predicates that the fixtures which are to be rejected fail.
Witnessed(p, fixtures) ==
    UNION {Failing(p.document, p.guard, f.params) :
              f \in {f \in Range(fixtures) : f.expected = "reject"}}

WithRejecting(fixtures, params) ==
    IF params = None THEN fixtures ELSE Append(fixtures, Rejecting(params))

WithWitness(p, fixtures, index) ==
    IF index \in Witnessed(p, fixtures) THEN fixtures
    ELSE WithRejecting(fixtures, WitnessAgainst(p.document, p.guard, index, Base(fixtures).params))

EnsureWitnesses(p, fixtures) ==
    LET witnessed[n \in 0..Len(p.guard)] ==
            IF n = 0 THEN fixtures ELSE WithWitness(p, witnessed[n - 1], n)
    IN  IF GuardIsSound(p.document, p.guard) /\ HasBase(fixtures)
        THEN witnessed[Len(p.guard)] ELSE fixtures

\* The repaired fixtures, where no repair raises.
Repair(p) == EnsureWitnesses(p, EnsureNegative(p.document, Dropped(p)))

-----------------------------------------------------------------------------
(* Validation.                                                              *)

FixturePasses(p, f) ==
    /\ Accepts(p.document, p.guard, f.params) <=> f.expected = "accept"
    /\ Example(f) /\ f.observation # None =>
          GroundedIn(p.document, p.guard, Complete(p.document, f.params), Excerpt[f.observation])

\* The preview of the first example is played on the values as they are: a field that
\* was left out has no value there.
PreviewVerdict(p) ==
    IF ~HasBase(p.fixtures) THEN "missing_preview_fixture"
    ELSE IF AnswerTo(p.document, p.answer, Base(p.fixtures).params) = None THEN "preview"
    ELSE "passed"

\* What validation says of the documents and the fixtures of a proposal, and of its preview.
Verdict(p) ==
    IF ~DocumentsCompile(p) THEN "documents"
    ELSE IF \E f \in Range(p.fixtures) : ~FixturePasses(p, f) THEN "fixture_validation_failed"
    ELSE IF ~(DOMAIN p.guard \subseteq Witnessed(p, p.fixtures))
    THEN "guard_predicate_coverage_incomplete"
    ELSE PreviewVerdict(p)

\* The plan is judged between the fixtures and the preview.
PlanIsReached(verdict) == verdict \in {"missing_preview_fixture", "preview", "passed"}

WithFixtures(p, fixtures) ==
    [document |-> p.document, guard |-> p.guard, answer |-> p.answer, fixtures |-> fixtures]

Judged(p) == [sent |-> p, verdict |-> Verdict(p)]

Outcome(p) ==
    IF Raises(p) THEN [sent |-> None, verdict |-> "raises"]
    ELSE Judged(WithFixtures(p, Repair(p)))

\* Each proposal with its fixtures repaired, and the verdict on it.  (It is a
\* sequence by concatenation for TLC to work it out once.)
Outcomes == <<>> \o [n \in DOMAIN Proposals |-> Outcome(Proposals[n])]

-----------------------------------------------------------------------------
\* A refinement starts from a rejected draft, without its fixtures, and its review.
Init ==
    /\ attempts = 0 /\ judged = None
    /\ \/ prior = None /\ advice = None
       \/ prior \in Reviewed /\ advice = "reviewer"
    /\ phase = "drafting"
    /\ draft = None /\ answered = {}

Attempting == phase = "drafting" /\ attempts < MaxAttempts

\* The answer of the model is not a proposal: only the advice changes.
OffSchema ==
    /\ Attempting
    /\ attempts' = attempts + 1
    /\ advice' = "draft_schema_invalid"
    /\ UNCHANGED <<prior, judged, phase, draft, answered>>

\* The loop is left: what it kept for the next attempt is gone.
Leave(outcome) == phase' = outcome /\ prior' = None /\ advice' = None

\* The call fails, or the proposal names an observation nobody made.
ModelFails ==
    /\ Attempting
    /\ attempts' = attempts + 1 /\ Leave("failed")
    /\ UNCHANGED <<judged, draft, answered>>

\* A repair that raises is not a refusal: the job fails.
RepairRaises(n) ==
    /\ Attempting /\ Outcomes[n].verdict = "raises"
    /\ attempts' = attempts + 1 /\ judged' = n /\ Leave("failed")
    /\ UNCHANGED <<draft, answered>>

Refused(n, failure) ==
    /\ attempts' = attempts + 1 /\ judged' = n
    /\ prior' = n /\ advice' = failure
    /\ UNCHANGED <<phase, draft, answered>>

Refuse(n) ==
    LET verdict == Outcomes[n].verdict
    IN  /\ Attempting /\ verdict \notin {"raises", "passed"}
        /\ Refused(n, verdict)

\* The plan does not compile, or its program does not pass the gates.
RefusePlan(n) ==
    /\ Attempting /\ PlanIsReached(Outcomes[n].verdict)
    /\ Refused(n, "plan")

Persist(n) ==
    /\ Attempting /\ Outcomes[n].verdict = "passed"
    /\ attempts' = attempts + 1 /\ judged' = n
    /\ draft' = n /\ Leave("persisted")
    /\ UNCHANGED answered

\* CandidateGenerationExhausted: the job needs a person.
Exhaust ==
    /\ phase = "drafting" /\ attempts = MaxAttempts
    /\ Leave("exhausted")
    /\ UNCHANGED <<attempts, judged, draft, answered>>

\* The answers that the draft's own expression determines.
ComputableOf(p) ==
    {k \in DOMAIN p.fixtures :
        /\ Example(p.fixtures[k]) /\ p.fixtures[k].observation # None
        /\ AnswerTo(p.document, p.answer, Complete(p.document, p.fixtures[k].params)) # None}

Computable == ComputableOf(Outcomes[draft].sent)

RecordComputedAnswers ==
    /\ phase = "persisted" /\ answered # Computable
    /\ answered' = answered \cup Computable
    /\ UNCHANGED <<attempts, prior, advice, judged, phase, draft>>

Propose ==
    \E n \in DOMAIN Proposals : RepairRaises(n) \/ Refuse(n) \/ RefusePlan(n) \/ Persist(n)

Next == OffSchema \/ ModelFails \/ Propose \/ Exhaust \/ RecordComputedAnswers

\* The worker goes on with the loop until it ends.
Spec == Init /\ [][Next]_vars /\ WF_vars(OffSchema \/ ModelFails \/ Propose) /\ WF_vars(Exhaust)

-----------------------------------------------------------------------------
(* Properties, of the proposal that was judged last.                        *)

Asked == Proposals[judged]

Sent == Outcomes[judged].sent

Legible == judged # None /\ DocumentsCompile(Asked)

Repaired == Legible /\ Outcomes[judged].verdict # "raises"

Sound(p, f) == Example(f) /\ f.observation # None /\ FixturePasses(p, f)

SoundIsAmong(o, p) ==
    \E f \in {g \in Range(p.fixtures) : g.observation = o} : Sound(p, f)

AllWellFormed(o, p) ==
    \A f \in {g \in Range(p.fixtures) : g.kind = "positive" /\ g.observation = o} :
        f.expected = "accept" /\ Accepts(p.document, p.guard, f.params)

\* An example that is sound for its observation is not lost to another one for the
\* same observation that speculates: if the model made a sound one, a sound one is
\* left, unless an ill-formed one stands beside it, which validation is to report
\* (the order of the two drops, generation_pipeline.py).
SoundSurvives ==
    Repaired =>
        \A o \in Observations :
            SoundIsAmong(o, Asked) /\ AllWellFormed(o, Asked) => SoundIsAmong(o, Sent)

\* There is a negative, or a number to make one of.
NegativeAtHand(p) ==
    \/ \E f \in Range(p.fixtures) : f.kind = "negative"
    \/ Violating(p.document, Base(p.fixtures).params) # None

\* Every positive is an example of an observation.
PositivesAreExamples(p) ==
    \A f \in Range(p.fixtures) :
        f.kind = "positive" => f.observation # None /\ f.expected = "accept"

\* The repairs only help: a proposal whose positives are all examples of
\* observations, and which would pass as the model made it, is not refused once it
\* is repaired, and does not fail the job where a negative can be made
\* (fixture_mutation.py).
RepairsOnlyHelp ==
    /\ Legible /\ Verdict(Asked) = "passed"
    /\ PositivesAreExamples(Asked) /\ NegativeAtHand(Asked)
    =>  Outcomes[judged].verdict = "passed"

KeepsItsExamples(p) ==
    LET positives == {k \in DOMAIN p.fixtures : p.fixtures[k].kind = "positive"}
        examples == {k \in positives : Example(p.fixtures[k])}
    IN  /\ \A j, k \in positives : p.fixtures[j].observation = p.fixtures[k].observation => j = k
        /\ \A k \in examples : Sound(p, p.fixtures[k])
        /\ examples \cap ComputableOf(p) # {}

\* A draft that is kept has an observation of its own for every positive, so that
\* what is verified counts once each; its examples are sound, and one of them has
\* its answer as soon as answers are recorded (fixture_answers.py).
ExamplesCountOnce == phase = "persisted" => KeepsItsExamples(Sent)
=============================================================================
