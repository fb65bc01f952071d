---- MODULE MCStateStore ----
\* Instances of StateStore for TLC.
EXTENDS StateStore, TLC

CONSTANTS f, g, s1, s2, h1, h2

MCSymmetry == Permutations(Sessions) \cup Permutations(Hosts)

MCFindingLists == {<<f, g>>}

\* One port found open on two addresses: two findings with one id.
MCSameId == {<<f, f>>}
====
