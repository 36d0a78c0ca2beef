--------------------------- MODULE MCLiveReports ---------------------------
EXTENDS LiveReports

CONSTANTS a, b, c

MCOccurrences == {a, b, c}
OnlyC == {c}
=============================================================================
