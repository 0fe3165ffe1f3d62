\* One shape, one teacher, two workers: racing inserts, a lease that lapses under
\* a live worker, and two rejections, along either path, of what they read before.
SPECIFICATION Spec

CONSTANTS
    Key = {k1}
    Teacher = {t1}
    Nobody = Nobody
    Filer = {f1, f2}
    NoJob = NoJob
    Worker = {w1, w2}
    NoWorker = NoWorker
    Review = {v1, v2}
    Threshold = 1
    MaxAttempts = 2
    MaxRefinements = 2
    MaxObserved = 1
    MaxJobs = 2
    MaxDrafts = 3
    MaxReviews = 2
    MaxCrashes = 0
    MaxOverruns = 1

SYMMETRY JobSymmetry

INVARIANTS
    TypeOK
    OneActiveJob
    SucceededHasDraft
    RejectionAnswered
    RevisionChain

\* Nothing happens when every job has ended and the bounds are used up.
CHECK_DEADLOCK FALSE
