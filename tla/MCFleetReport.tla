---- MODULE MCFleetReport ----
\* Instances of FleetReport for TLC.
EXTENDS FleetReport, TLC

CONSTANTS db, local, web, prod

MCIdOrder == <<db, local, web>>

MCProfile(tags, favorite) == [tags |-> tags, favorite |-> favorite]

\* The local machine listed by the user, or not; nothing at all.
MCInventories ==
    {(db :> MCProfile({prod}, TRUE) @@ web :> MCProfile({}, FALSE) @@ local :> l) :
        l \in {None, MCProfile({}, FALSE)}}
      \cup {[i \in Ids |-> None]}

MCFilters == {[tags |-> {}, favoritesOnly |-> FALSE], [tags |-> {prod}, favoritesOnly |-> FALSE]}

MCReports == {[health |-> 1, urgent |-> u] : u \in {0, 1}}
====
