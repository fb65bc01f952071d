------------------------------ MODULE FleetReview ------------------------------
(***************************************************************************)
(* The review of a fleet (cli/src/main.rs): one task per selected host, at *)
(* most Permits of them connected at a time, each under a timeout; in a    *)
(* review the host is probed and then read by groups of collectors that    *)
(* run side by side, each under a timeout of its own                       *)
(* (report/src/gather.rs, report/src/collect.rs).  Hosts hang, fail or     *)
(* answer late, and a task may panic.                                      *)
(*                                                                         *)
(* Time is discrete; it passes only while everything in the process waits  *)
(* for a host or for a timer.                                              *)
(***************************************************************************)
EXTENDS Naturals, Sequences, FiniteSets

CONSTANTS Ids,          \* inventory ids
          Local,        \* the id of the local machine, HostId::LOCAL
          Tags,
          Inventories,  \* what config.toml may hold
          Filters,      \* what --tag and --favorites may ask for
          Groups,       \* the groups of collectors
          Required,     \* the group whose failure fails the review: the host report
          Permits,      \* FLEET_CONCURRENCY
          HostLimit,    \* FLEET_HOST_TIMEOUT
          GroupLimit,   \* COLLECTOR_TIMEOUT
          Reports,      \* what a review may find on a host
          None,
          MaxTime       \* bound: the time at which the model stops

Profile == [tags: SUBSET Tags, favorite: BOOLEAN]
Filter  == [tags: SUBSET Tags, favoritesOnly: BOOLEAN]

ASSUME IdsAreFinite     == IsFiniteSet(Ids) /\ Local \in Ids
ASSUME InventoriesHoldProfiles ==
    /\ None \notin Profile
    /\ Inventories \subseteq [Ids -> Profile \cup {None}]
    /\ Filters \subseteq Filter
ASSUME RequiredIsGroup  == Required \in Groups
ASSUME LimitsAreNat     == /\ Permits \in Nat \ {0} /\ MaxTime \in Nat
                           /\ GroupLimit \in Nat \ {0} /\ HostLimit \in Nat
                           /\ GroupLimit < HostLimit
ASSUME NoneIsNoReport  == None \notin Reports

VARIABLES
    selected,  \* the hosts of this review
    pc,        \* of each host's task: none, waiting, probing, gathering, ended, joined
    free,      \* permits of the semaphore
    started,   \* when the timeout of the host began to run
    gathered,  \* when its groups began to run
    group,     \* of each group: idle, running, data, empty
    outcome,   \* what the task returned: [kind, report]
    rows,      \* FleetReview::hosts, in the order in which the tasks were joined
    main,      \* of gather_fleet: joining, done
    now

vars == <<selected, pc, free, started, gathered, group, outcome, rows, main, now>>

Outcomes == [kind: {"reviewed"}, report: Reports]
                \cup [kind: {"pending", "failed", "timedOut", "panicked"}, report: {None}]
Result(kind) == [kind |-> kind, report |-> None]
Row      == [id: Ids, outcome: Outcomes]
Idle     == [g \in Groups |-> "idle"]

-------------------------------------------------------------------------------
(* The selection: FleetFilter::matches, select_fleet, selected_with_local. *)

Matches(profile, filter) ==
    /\ filter.favoritesOnly => profile.favorite
    /\ filter.tags # {} => filter.tags \cap profile.tags # {}

SelectFleet(inventory, filter) ==
    {i \in Ids : inventory[i] # None /\ Matches(inventory[i], filter)}

Unfiltered(filter) == filter.tags = {} /\ ~filter.favoritesOnly

\* Without a filter the local machine is reviewed whether or not it is listed.
SelectedWithLocal(inventory, filter) ==
    SelectFleet(inventory, filter) \cup (IF Unfiltered(filter) THEN {Local} ELSE {})

Init ==
    /\ \E inventory \in Inventories, filter \in Filters :
         selected = SelectedWithLocal(inventory, filter)
    /\ pc = [i \in Ids |-> IF i \in selected THEN "waiting" ELSE "none"]
    /\ free = Permits
    /\ started = [i \in Ids |-> 0] /\ gathered = [i \in Ids |-> 0]
    /\ group = [i \in Ids |-> Idle]
    /\ outcome = [i \in Ids |-> Result("pending")]
    /\ rows = <<>> /\ main = "joining" /\ now = 0

-------------------------------------------------------------------------------
(* One task: review_one_host, gather_report. *)

Connected(i) == pc[i] \in {"probing", "gathering"}
AllEnded(i)  == pc[i] = "gathering" /\ \A g \in Groups : group[i][g] \in {"data", "empty"}

\* Mutant: the permit is dropped as soon as it was granted.
TakePermitOnly(i) == free' = free

TakePermit(i) == free' = free - 1

\* A free permit goes to a task that waits for one; then the timeout starts.
Acquire(i) ==
    /\ pc[i] = "waiting" /\ free > 0
    /\ TakePermit(i)
    /\ pc' = [pc EXCEPT ![i] = "probing"]
    /\ started' = [started EXCEPT ![i] = now]
    /\ UNCHANGED <<selected, gathered, group, outcome, rows, main, now>>

\* probe_capabilities has no result that fails and no timeout of its own.
Probed(i) ==
    /\ pc[i] = "probing"
    /\ pc' = [pc EXCEPT ![i] = "gathering"]
    /\ gathered' = [gathered EXCEPT ![i] = now]
    /\ group' = [group EXCEPT ![i] = [g \in Groups |-> "running"]]
    /\ UNCHANGED <<selected, free, started, outcome, rows, main, now>>

\* Mutant: the groups have only the timeout of the host.
GroupDueWithHost(i) == pc[i] = "gathering" /\ now - started[i] >= HostLimit

GroupDue(i) == pc[i] = "gathering" /\ now - gathered[i] >= GroupLimit

\* A group answers, fails or is cut off by its timeout.  Empty means no data, and
\* for the required group an error.
GroupEnds(i, g) ==
    /\ pc[i] = "gathering" /\ group[i][g] = "running"
    /\ \E result \in {"data", "empty"} : group' = [group EXCEPT ![i][g] = result]
    /\ UNCHANGED <<selected, pc, free, started, gathered, outcome, rows, main, now>>

\* Mutant: the permit of a task that panicked is not given back.
EndLosingPermit(i, result) ==
    /\ pc' = [pc EXCEPT ![i] = "ended"]
    /\ outcome' = [outcome EXCEPT ![i] = result]
    /\ free' = IF result.kind = "panicked" THEN free ELSE free + 1
    /\ group' = [group EXCEPT ![i] = Idle]
    /\ started' = [started EXCEPT ![i] = 0] /\ gathered' = [gathered EXCEPT ![i] = 0]
    /\ UNCHANGED <<selected, rows, main, now>>

\* The task ends and drops its permit, its groups and their connections.
End(i, result) ==
    /\ pc' = [pc EXCEPT ![i] = "ended"]
    /\ outcome' = [outcome EXCEPT ![i] = result]
    /\ free' = free + 1
    /\ group' = [group EXCEPT ![i] = Idle]
    /\ started' = [started EXCEPT ![i] = 0] /\ gathered' = [gathered EXCEPT ![i] = 0]
    /\ UNCHANGED <<selected, rows, main, now>>

\* Once all groups ended (join!) the review is the host's report or its error.
ReviewEnds(i) ==
    /\ AllEnded(i)
    /\ \/ group[i][Required] = "empty" /\ End(i, Result("failed"))
       \/ /\ group[i][Required] = "data"
          /\ \E r \in Reports : End(i, [kind |-> "reviewed", report |-> r])

\* Mutant: the probe runs before the timeout.
HostDueGathering(i) == pc[i] = "gathering" /\ now - started[i] >= HostLimit

HostDue(i) == Connected(i) /\ now - started[i] >= HostLimit

HostTimesOut(i) == HostDue(i) /\ End(i, Result("timedOut"))

Panics(i) == Connected(i) /\ End(i, Result("panicked"))

-------------------------------------------------------------------------------
(* gather_fleet joins the tasks in whatever order they ended. *)

\* Mutant: the first task that panicked ends the loop.
PanickedEndsLoop(i) == main' = "done" /\ rows' = rows

\* A task that panicked gives no row; the loop goes on.
Panicked(i) == UNCHANGED <<rows, main>>

Join(i) ==
    /\ main = "joining" /\ pc[i] = "ended"
    /\ pc' = [pc EXCEPT ![i] = "joined"]
    /\ \/ outcome[i].kind = "panicked" /\ Panicked(i)
       \/ /\ outcome[i].kind # "panicked"
          /\ rows' = Append(rows, [id |-> i, outcome |-> outcome[i]])
          /\ UNCHANGED main
    /\ UNCHANGED <<selected, free, started, gathered, group, outcome, now>>

\* join_next finds no task left.
AllJoined == main = "joining" /\ \A i \in selected : pc[i] = "joined"

Finish ==
    /\ AllJoined
    /\ main' = "done"
    /\ UNCHANGED <<selected, pc, free, started, gathered, group, outcome, rows, now>>

-------------------------------------------------------------------------------
(* Time. *)

\* Something in the process is ready to run.
Ready ==
    \/ AllJoined
    \/ \E i \in selected : \/ pc[i] = "waiting" /\ free > 0
                           \/ pc[i] = "ended"
                           \/ AllEnded(i) \/ HostDue(i)
                           \/ GroupDue(i)

Tick ==
    /\ main = "joining" /\ ~Ready /\ now < MaxTime
    /\ now' = now + 1
    /\ UNCHANGED <<selected, pc, free, started, gathered, group, outcome, rows, main>>

-------------------------------------------------------------------------------
(* What the hosts do in their own time, and what the process does as soon  *)
(* as it can.                                                              *)

HostStep(i)    == Probed(i) \/ (\E g \in Groups : GroupEnds(i, g)) \/ Panics(i)
ProcessStep(i) == Acquire(i) \/ ReviewEnds(i) \/ HostTimesOut(i) \/ Join(i)

Next == Finish \/ Tick \/ \E i \in Ids : HostStep(i) \/ ProcessStep(i)

Spec == Init /\ [][Next]_vars

\* Timers fire and ready tasks are run; no host is assumed to answer.
Fairness ==
    /\ WF_vars(Tick) /\ WF_vars(Finish)
    /\ \A i \in Ids : WF_vars(ProcessStep(i))
    /\ \A i \in Ids, g \in Groups : WF_vars(GroupDue(i) /\ GroupEnds(i, g))

FairSpec == Spec /\ Fairness

-------------------------------------------------------------------------------
(* Properties. *)

TypeOK ==
    /\ selected \in SUBSET Ids
    /\ pc \in [Ids -> {"none", "waiting", "probing", "gathering", "ended", "joined"}]
    /\ free \in 0..Permits
    /\ started \in [Ids -> Nat] /\ gathered \in [Ids -> Nat]
    /\ group \in [Ids -> [Groups -> {"idle", "running", "data", "empty"}]]
    /\ outcome \in [Ids -> Outcomes]
    /\ rows \in Seq(Row)
    /\ main \in {"joining", "done"}
    /\ now \in Nat

\* However reviews hang, fail, end together or panic, at most Permits hosts are
\* connected at a time (the permit is held for the whole review).
AtMostPermits == Cardinality({i \in Ids : Connected(i)}) <= Permits

\* When the review is over every selected host has exactly one row, with what its own
\* task returned, and only a host whose task panicked has none.
EveryHostHasItsRow ==
    main = "done" =>
        /\ \A k, l \in DOMAIN rows : rows[k].id = rows[l].id => k = l
        /\ \A k \in DOMAIN rows : rows[k].outcome = outcome[rows[k].id]
        /\ {rows[k].id : k \in DOMAIN rows} = {i \in selected : outcome[i].kind # "panicked"}

\* A hung group of collectors degrades to missing data: a review is cut off as a whole
\* only if probing the host had left it less time than its groups may take
\* (COLLECTOR_TIMEOUT within FLEET_HOST_TIMEOUT).
TimeoutNeedsSlowProbe ==
    [][\A i \in Ids :
         (pc[i] = "gathering" /\ outcome'[i].kind = "timedOut" /\ pc'[i] = "ended")
             => gathered[i] - started[i] >= HostLimit - GroupLimit]_vars

\* The fleet is never stalled: n hosts take at most n / Permits rounds, rounded up, of
\* the time one host may take, however they hang.
Rounds == (Cardinality(selected) + Permits - 1) \div Permits
EndsInTime == main = "joining" => now <= Rounds * HostLimit

\* Every review ends, also if no host ever answers.
EveryReviewEnds == <>(main = "done")
================================================================================
