\* One session at a time and a second one that evicts it, two files of one of
\* them large, two requests, one slot.
SPECIFICATION FairSpec

CONSTANTS
    Session = {s1, s2}
    File = {v1, v2, t1}
    Video = {v1, v2}
    Large = {v2}
    Request = {r1, r2}
    None = None
    MaxSessions = 1
    MaxEntries = 2
    SessionBytes = 2
    MediaBytes = 2
    Slots = 1

INVARIANTS
    TypeOK
    RegisteredFilesExist
    ClipsAccounted

PROPERTIES
    BudgetKept
    RendersEnd
