\* Two drafts of one or two kinds, of a teacher or of nobody, one or two verified
\* fixtures each, two requests at once, an edit or a rejection, a new release.
SPECIFICATION Spec

CONSTANTS
    Draft = {d1, d2}
    Fingerprint = {k1, k2}
    Session = {s1}
    Shared = Shared
    Name = {n1, n2}
    Fixture = {f1, f2}
    Request = {r1, r2}
    Configured = 2
    BuiltFrom = {1}
    MaxChanges = 1
    MaxRelease = 2
    NoVersion = NoVersion

SYMMETRY PublicationSymmetry

INVARIANTS
    TypeOK
    LoadsWhatWasApproved
    OneTemplateOffered
    SharedMeetsTheBar

PROPERTIES
    ImplementsLibrary

\* Every draft approved and every template loaded: nothing is left to do.
CHECK_DEADLOCK FALSE
