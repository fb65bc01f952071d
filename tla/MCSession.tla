------------------------------- MODULE MCSession -------------------------------
(* Instances of Session for TLC. *)
EXTENDS Session

CONSTANTS s1, s2      \* slots
CONSTANTS box, pid, proc, job

R(name, state) == [name |-> name, state |-> state]

\* Two processes, one of them protected, in either order, or one of them gone; and a
\* container that is stopped or gone.
ScreenLists ==
    [processes |-> {<<R(proc, "on"), R(pid, "on")>>, <<R(pid, "on"), R(proc, "on")>>,
                    <<R(pid, "on")>>},
     docker    |-> {<<>>, <<R(box, "off")>>}]
ScreenPhrases == {EmptyText, [op |-> "Term", target |-> proc]}

\* The user's job, enabled or not, or a system job above it.
OfferLists ==
    [crons    |-> {<<R(job, "on")>>, <<R(job, "off")>>, <<R(proc, "system"), R(job, "off")>>},
     services |-> {<<R(box, "on")>>, <<>>},
     docker   |-> {<<>>}, network |-> {<<>>}]
OfferPhrases == {EmptyText, [op |-> "CronDelete", target |-> None],
                 [op |-> "CronEdit", target |-> None], [op |-> "Prune", target |-> None]}

LiveLists == [docker |-> {<<R(box, "off")>>}]
NoPhrases == {EmptyText}

SlotSymmetry == Permutations({s1, s2})

===============================================================================
