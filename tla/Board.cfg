\* Three scenes, of which two are combined beside the third, and a fourth id, against retries and a rebuild.
SPECIFICATION Spec
CONSTANTS
    q1 = q1
    q2 = q2
    q3 = q3
    halves = halves
    thirds = thirds
    text = text
    drawing = drawing
    textCard = textCard
    two = two
    three = three
    NoScene = NoScene
    NoTemplate = NoTemplate
    NoAnswer = NoAnswer
    Candidate = {q1, q2, q3}
    Offered <- MCDrawings
    Content <- MCContent
    Template <- MCTemplate
    TextCard = textCard
    Chainable <- MCChainable
    AnswerStating = {}
    TemplateOf <- MCTemplateOf
    Answer <- MCAnswer
    AnswerOf <- MCAnswerOf
    SceneId = {s1, s2, s3, s4}
    Request = {r1, r2}
    Builder = {r1}
    Kinds = {"build", "retry", "chain", "ungroup"}
    MaxPicks = 3
    MaxItems = 2
    MaxBatch = 2
    MaxRevision = 0
    MaxAssembly = 1
SYMMETRY BoardSymmetry
INVARIANT
    BoardWhole
PROPERTIES
    ChainOfCurrentScenes
    ProblemsKept
CHECK_DEADLOCK FALSE
