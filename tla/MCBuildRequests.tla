--------------------------- MODULE MCBuildRequests --------------------------
\* One problem of one teacher, asked for twice.
EXTENDS BuildRequests

CONSTANTS c1, t1, a1

Asked == [c \in {c1} |-> t1]
Addressed == [t \in {t1} |-> a1]
=============================================================================
