---- MODULE MCConfigStore ----
\* Instances of ConfigStore for TLC.
EXTENDS ConfigStore, TLC

CONSTANTS s1, s2, local, web, a1, p1, r1, r2

MCIds  == {local, web}
MCOne  == {a1}

\* No file yet, or one host with a policy assigned by hand, in a table of its own or not.
MCInventories ==
    {Missing} \cup {[hosts |-> [NoHosts EXCEPT ![web] = [addr |-> a1, policy |-> p1]], rest |-> r] : r \in {r1, r2}}

SessionSymmetry == Permutations({s1, s2})
====
