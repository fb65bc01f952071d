------------------------------ MODULE MCCronEdit ------------------------------
(* Instances of CronEdit for TLC. *)
EXTENDS CronEdit

CONSTANTS j1, j2, s1, s2

L(marks, job) == [marks |-> marks, job |-> job]

\* A header above a job, the same with a job switched off, a job written twice, a job
\* commented out twice above its disabled self, and no crontab.
SomeCrontabs ==
    {<<L(1, None), L(0, j1)>>,
     <<L(1, j1), L(0, j2)>>,
     <<L(0, j1), L(1, j1)>>,
     <<L(2, j1), L(1, j1)>>,
     <<>>}

OneCrontab == {<<L(0, j1)>>}
MarkedCrontab == {<<L(2, j1), L(1, j1)>>}

SessionSymmetry == Permutations({s1, s2})

===============================================================================
