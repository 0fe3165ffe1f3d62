\* Two observations, two attempts, seven templates with up to three fixtures.
SPECIFICATION Spec
CONSTANTS
    None = None
    MaxDepth = 6
    MaxOperations = 20
    MaxMagnitude = 10000
    o1 = o1
    o2 = o2
    red = red
    kite = kite
    Observations = {o1, o2}
    Excerpt <- Texts
    Proposals <- AllProposals
    Reviewed = {5, 200}
    MaxAttempts = 2
    GuardIsSound <- CompiledGuard
    AnswerIsSound <- CompiledAnswer
    Accepts <- ParamsValid
    Complete <- Completed
    GroundedIn <- Grounded
    AnswerTo <- AnswerFrom
    Failing <- FailedPredicates
    Violating <- MutateToViolateBounds
    WitnessAgainst <- FindWitness
INVARIANTS
    SoundSurvives
    RepairsOnlyHelp
    TiesAreWitnessed
    ExamplesCountOnce
CHECK_DEADLOCK FALSE
