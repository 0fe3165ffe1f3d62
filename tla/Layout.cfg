\* Lessons of one to four visuals, with and without an answer and callouts.
SPECIFICATION LayoutSpec
CONSTANTS
    None = None
    Lessons <- AllLessons
INVARIANTS
    WellPlaced
    CalloutsClear
CHECK_DEADLOCK FALSE
