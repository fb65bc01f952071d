------------------------------ MODULE FleetReport ------------------------------
(***************************************************************************)
(* What is shown of a fleet review once it is over: the overview, sorted   *)
(* worst first, and the report built from it (report/src/fleet.rs,         *)
(* report/src/fleet_report.rs).                                            *)
(***************************************************************************)
EXTENDS FleetReview, Functions

CONSTANT IdOrder   \* the ids in the order in which they compare

ASSUME IdOrderIsOrder ==
    /\ IdOrder \in Seq(Ids) /\ \A i \in Ids : \E k \in DOMAIN IdOrder : IdOrder[k] = i
    /\ \A k, l \in DOMAIN IdOrder : IdOrder[k] = IdOrder[l] => k = l
ASSUME ReportsAreGraded == Reports \subseteq [health: 0 .. 100, urgent: Nat]

Before(i, j) == \E k, l \in DOMAIN IdOrder : IdOrder[k] = i /\ IdOrder[l] = j /\ k < l

Reviewed(row) == row.outcome.kind = "reviewed"

\* Mutant: rows that are equally bad stay as they are.
BadnessOnly(a, b) ==
    \/ ~Reviewed(a) /\ Reviewed(b)
    \/ /\ Reviewed(a) /\ Reviewed(b)
       /\ LET p == a.outcome.report
              q == b.outcome.report
          IN  p.health < q.health \/ (p.health = q.health /\ p.urgent > q.urgent)

\* worst_first: failed hosts, then by health, critical and high findings, and id.
WorseThan(a, b) ==
    \/ BadnessOnly(a, b)
    \/ ~BadnessOnly(a, b) /\ ~BadnessOnly(b, a) /\ Before(a.id, b.id)

\* sort_by is stable: in front of a row come the worse ones, and of those that are neither
\* worse nor better the ones that were in front of it.
InFrontOf(reviews, k) ==
    {j \in DOMAIN reviews : \/ WorseThan(reviews[j], reviews[k])
                            \/ j < k /\ ~WorseThan(reviews[k], reviews[j])}

Place(reviews, k) == 1 + Cardinality(InFrontOf(reviews, k))

Overview(reviews) ==
    [n \in DOMAIN reviews |-> reviews[CHOOSE k \in DOMAIN reviews : Place(reviews, k) = n]]

\* FleetReport::from_review looks every row of the overview up by its id, and takes the
\* first it finds.
FindRow(reviews, id) ==
    reviews[CHOOSE k \in DOMAIN reviews :
                reviews[k].id = id /\ \A j \in DOMAIN reviews : reviews[j].id = id => k <= j]

FromReview(reviews) ==
    LET overview == Overview(reviews) IN
    [hosts |-> [n \in DOMAIN overview |-> FindRow(reviews, overview[n].id)],
     reviewed |-> Cardinality({n \in DOMAIN overview : Reviewed(overview[n])})]

\* The same rows in the order the tasks might also have ended in.
Reordered(reviews, order) == [k \in DOMAIN reviews |-> reviews[order[k]]]

\* The overview and the report depend on what the tasks returned and not on the order
\* in which they ended ("total and deterministic", FleetOverview::build).
ReportReproducible ==
    main = "done" =>
        \A order \in Bijection(DOMAIN rows, DOMAIN rows) :
            FromReview(Reordered(rows, order)) = FromReview(rows)
================================================================================
