\* The boundary of an inequality never reaches the measurer.
CONSTANTS
    None = None
    Contract <- FieldsOfTemplate
    IsExpression <- WellFormed
    CompilesHere <- CompiledHere
    ValueOf <- EvaluatedHere
    MaxDepth = 6
    MaxOperations = 20
    MaxMagnitude = 10000
    MaxRegroupCells = 30
    MaxPercentSweepSegments = 30
    MaxEntries = 40
    TextWidth = 60
    TextHeight = 30
    SentenceWidth = 400
    Requests <- LessonsOnLines
    Fixtures <- FixturesOfTemplate
INIT Init
NEXT Next
CHECK_DEADLOCK FALSE
INVARIANT
    BoundaryExposed
