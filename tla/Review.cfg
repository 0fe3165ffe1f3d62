\* One scene under two requests of every kind that reviews, retries, builds or renders it.
SPECIFICATION Spec
CONSTANTS
    q1 = q1
    q2 = q2
    q3 = q3
    halves = halves
    thirds = thirds
    text = text
    drawing = drawing
    textCard = textCard
    two = two
    three = three
    NoScene = NoScene
    NoTemplate = NoTemplate
    NoAnswer = NoAnswer
    Candidate = {q1}
    Offered <- MCOffered
    Content <- MCContent
    Template <- MCTemplate
    TextCard = textCard
    Chainable <- MCChainable
    AnswerStating <- MCAnswerStating
    TemplateOf <- MCTemplateOf
    Answer <- MCAnswer
    AnswerOf <- MCAnswerOf
    SceneId = {s1}
    Request = {r1, r2}
    Builder = {r1}
    Kinds = {"build", "edit", "approve", "reject", "acknowledge", "retry", "render"}
    MaxPicks = 1
    MaxItems = 2
    MaxBatch = 1
    MaxRevision = 3
    MaxAssembly = 1
SYMMETRY Symmetry
INVARIANTS
    TypeOK
    ApprovalSound
    NoDoubleRender
    CacheHonest
PROPERTIES
    ServedClipApproved
CHECK_DEADLOCK FALSE
