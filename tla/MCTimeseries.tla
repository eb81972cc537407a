----------------------------- MODULE MCTimeseries -----------------------------
EXTENDS Timeseries, TLC

CONSTANTS n1, n2, svc, a1, a2

Symmetry == Permutations({n1, n2}) \cup Permutations({a1, a2})
=============================================================================
