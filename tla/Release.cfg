\* Batches of up to two scenes are claimed, rendered and given back.
SPECIFICATION Spec
CONSTANTS
    q1 = q1
    q2 = q2
    q3 = q3
    halves = halves
    thirds = thirds
    text = text
    drawing = drawing
    textCard = textCard
    two = two
    three = three
    NoScene = NoScene
    NoTemplate = NoTemplate
    NoAnswer = NoAnswer
    Candidate = {q1, q2}
    Offered <- MCDrawings
    Content = {halves, text}
    Template <- MCTemplate
    TextCard = textCard
    Chainable <- MCChainable
    AnswerStating = {}
    TemplateOf <- MCTemplateOf
    Answer <- MCAnswer
    AnswerOf <- MCAnswerOf
    SceneId = {s1, s2}
    Request = {r1, r2}
    Builder = {r1}
    Kinds = {"build", "approve", "edit", "render"}
    MaxPicks = 2
    MaxItems = 2
    MaxBatch = 2
    MaxRevision = 1
    MaxAssembly = 1
PROPERTIES
    ClaimsReleased
CHECK_DEADLOCK FALSE
