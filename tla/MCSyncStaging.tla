---------------------------- MODULE MCSyncStaging ----------------------------
EXTENDS SyncStaging, TLC

CONSTANTS a, b, c, p, q

MCFiles     == {a, b, c}
MCProducers == {p, q}
MCPlan      == p :> <<a, b>> @@ q :> <<c>>

\* One server with a chosen book and an automatic track that may turn out larger
\* than the whole budget, one with a track that is encoded here, so that its
\* download and its output share the budget.
MixedReservations == a :> {1} @@ b :> {1, 5} @@ c :> {2}
MixedHeadroom     == a :> 0 @@ b :> 0 @@ c :> 1

OnlyA   == {a}
OnlyB   == {b}
OnlyC   == {c}
=============================================================================
