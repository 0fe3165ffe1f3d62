\* Every job in flight ends: workers die, rejections put jobs back, and failed
\* jobs get new evidence and a successor.
SPECIFICATION Spec

CONSTANTS
    Key = {k1}
    Teacher = {t1}
    Nobody = Nobody
    Filer = {f1}
    NoJob = NoJob
    Worker = {w1, w2}
    NoWorker = NoWorker
    Review = {v1}
    Threshold = 1
    MaxAttempts = 2
    MaxRefinements = 2
    MaxObserved = 2
    MaxJobs = 2
    MaxDrafts = 2
    MaxReviews = 1
    MaxCrashes = 1
    MaxOverruns = 0

PROPERTIES
    JobsEnd

\* Nothing happens when every job has ended and the bounds are used up.
CHECK_DEADLOCK FALSE
