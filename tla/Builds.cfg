\* One problem asked for twice, a cap of one call an hour and of one a day.
SPECIFICATION Spec
CONSTANTS
    c1 = c1
    t1 = t1
    a1 = a1
    k1 = k1
    k2 = k2
    None = None
    Client = {a1}
    Candidate = {c1}
    Teacher = {t1}
    TeacherOf <- Asked
    ClientOf <- Addressed
    Shape = {k1}
    IpCap = 1
    DayCap = 1
    HoursPerDay = 2
    MaxHour = 1
    MaxCount = 1
    TaggerAttempts = 2
    MaxRequests = 2
    MaxDrafts = 1
    MaxOthers = 1
INVARIANT
    CallsWithinCaps
PROPERTIES
    ClearHidesNothing
    NeverFiledForever
CHECK_DEADLOCK FALSE
