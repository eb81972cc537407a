----------------------------- MODULE MCDeployments -----------------------------
EXTENDS Deployments, TLC

CONSTANTS h1, h2, s1, s2, st1, i1, i2

Rep(n, i) == [stack |-> st1, replicas |-> n, force |-> 0, image |-> i]

MCInitSpecs == {Rep(2, i1), [Rep(2, i1) EXCEPT !.replicas = Global]}
MCBodySpecs == {Rep(3, i2)}
MCPushes    == {{}, {i1}}

Symmetry == Permutations({h1, h2}) \cup Permutations({s1, s2})
=============================================================================
