-------------------------- MODULE MCRequestMetrics --------------------------
\* An instance of RequestMetrics: a scrape and the requests it races with.
EXTENDS RequestMetrics, TLC

CONSTANTS r1, r2

MCRequests == {r1, r2}
Symmetry == Permutations(MCRequests)
=============================================================================
