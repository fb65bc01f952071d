--------------------------- MODULE FleetReviewProofs ---------------------------
(***************************************************************************)
(* Theorems about FleetReview and FleetReport, for any number of hosts and *)
(* permits and any limits: the permits bound the connections, every host   *)
(* has its row, a review is cut off only after a slow probe, the whole     *)
(* review keeps its deadline, and its report does not depend on the order  *)
(* in which the hosts answered.                                            *)
(***************************************************************************)
EXTENDS FleetReport, TLAPS, FiniteSetTheorems, FunctionTheorems

-------------------------------------------------------------------------------
(* The inductive invariant. *)

Open == {i \in Ids : Connected(i)}

\* Only selected hosts have a task.
Scope == \A i \in Ids : pc[i] = "none" <=> i \notin selected

\* A permit is free or held by a task that is connected.
PermitsKept == free + Cardinality(Open) = Permits

\* A task has an outcome once it ended.
Returned == \A i \in Ids : pc[i] \in {"ended", "joined"} <=> outcome[i].kind # "pending"

\* The rows are those of the tasks that were joined and did not panic, once each.
RowsOfJoined ==
    /\ \A k \in DOMAIN rows : /\ pc[rows[k].id] = "joined"
                              /\ outcome[rows[k].id].kind # "panicked"
                              /\ rows[k].outcome = outcome[rows[k].id]
    /\ \A k, l \in DOMAIN rows : rows[k].id = rows[l].id => k = l
    /\ \A i \in Ids : (pc[i] = "joined" /\ outcome[i].kind # "panicked")
                          => \E k \in DOMAIN rows : rows[k].id = i
    /\ main = "done" => \A i \in selected : pc[i] = "joined"

\* No task is connected longer than HostLimit, none reads its host longer than GroupLimit.
Clocks ==
    \A i \in Ids :
        /\ started[i] <= now
        /\ Connected(i) => now <= started[i] + HostLimit
        /\ pc[i] = "gathering" => /\ started[i] <= gathered[i] /\ gathered[i] <= now
                                  /\ now <= gathered[i] + GroupLimit

IInv == TypeOK /\ Scope /\ PermitsKept /\ Returned /\ RowsOfJoined /\ Clocks

\* What a step of one task may be: the three ways to end are one.
Ends(i) == \E r \in Outcomes : r.kind # "pending" /\ Connected(i) /\ End(i, r)

\* The steps of a task that end it are one kind of step, Ends.
LEMMA Steps ==
    ASSUME Next
    PROVE  \/ Finish \/ Tick
           \/ \E i \in Ids : \/ Acquire(i) \/ Probed(i) \/ Ends(i) \/ Join(i)
                             \/ \E g \in Groups : GroupEnds(i, g)
<1>1. ASSUME NEW i \in Ids, ReviewEnds(i) PROVE Ends(i)
  <2>1. Connected(i)
    BY <1>1 DEF ReviewEnds, AllEnded, Connected
  <2>2. CASE End(i, Result("failed"))
    <3>1. Result("failed") \in Outcomes /\ Result("failed").kind # "pending"
      BY DEF Result, Outcomes
    <3> QED
      BY <2>1, <2>2, <3>1 DEF Ends
  <2>3. ASSUME NEW r \in Reports, End(i, [kind |-> "reviewed", report |-> r]) PROVE Ends(i)
    <3>1. /\ [kind |-> "reviewed", report |-> r] \in Outcomes
          /\ [kind |-> "reviewed", report |-> r].kind # "pending"
      BY DEF Outcomes
    <3> QED
      BY <2>1, <2>3, <3>1 DEF Ends
  <2> QED
    BY <1>1, <2>2, <2>3 DEF ReviewEnds
<1>2. ASSUME NEW i \in Ids, HostTimesOut(i) PROVE Ends(i)
  <2>1. Result("timedOut") \in Outcomes /\ Result("timedOut").kind # "pending"
    BY DEF Result, Outcomes
  <2> QED
    BY <1>2, <2>1 DEF HostTimesOut, HostDue, Ends
<1>3. ASSUME NEW i \in Ids, Panics(i) PROVE Ends(i)
  <2>1. Result("panicked") \in Outcomes /\ Result("panicked").kind # "pending"
    BY DEF Result, Outcomes
  <2> QED
    BY <1>3, <2>1 DEF Panics, Ends
<1> QED
  BY <1>1, <1>2, <1>3 DEF Next, HostStep, ProcessStep

-------------------------------------------------------------------------------
(* One lemma per part of the invariant. *)

\* The invariant holds before any task has begun.
LEMMA InitHolds == Init => IInv
<1> SUFFICES ASSUME Init PROVE IInv
  OBVIOUS
<1> USE LimitsAreNat DEF Init
<1>1. selected \in SUBSET Ids
  BY IdsAreFinite DEF SelectedWithLocal, SelectFleet
<1>2. TypeOK
  <2>1. Result("pending") \in Outcomes
    BY DEF Result, Outcomes
  <2> QED
    BY <1>1, <2>1 DEF TypeOK, Idle
<1>3. Scope
  BY DEF Scope
<1>4. \A i \in Ids : ~Connected(i)
  BY DEF Connected
<1>5. PermitsKept
  <2>1. Open = {}
    BY <1>4 DEF Open
  <2> QED
    BY <2>1, FS_EmptySet DEF PermitsKept
<1>6. Returned
  BY DEF Returned, Result
<1>7. RowsOfJoined
  BY DEF RowsOfJoined
<1>8. Clocks
  BY <1>4 DEF Clocks, Connected
<1> QED
  BY <1>2, <1>3, <1>5, <1>6, <1>7, <1>8 DEF IInv

\* Every row is about a host.
LEMMA RowIds ==
    ASSUME TypeOK
    PROVE  \A k \in DOMAIN rows : rows[k].id \in Ids
<1>1. \A k \in DOMAIN rows : rows[k] \in Row
  BY DEF TypeOK
<1> QED
  BY <1>1 DEF Row

\* A row more is still a list of rows.
LEMMA AppendType ==
    ASSUME NEW S, NEW q \in Seq(S), NEW e \in S
    PROVE  Append(q, e) \in Seq(S)
OBVIOUS

\* Every step keeps the types.
LEMMA TypeStep == IInv /\ [Next]_vars => TypeOK'
<1> SUFFICES ASSUME IInv, [Next]_vars PROVE TypeOK'
  OBVIOUS
<1> USE LimitsAreNat DEF IInv, TypeOK
<1>1. ASSUME NEW i \in Ids, Acquire(i) PROVE TypeOK'
  BY <1>1 DEF Acquire, TakePermit
<1>2. ASSUME NEW i \in Ids, Probed(i) PROVE TypeOK'
  BY <1>2 DEF Probed
<1>3. ASSUME NEW i \in Ids, NEW g \in Groups, GroupEnds(i, g) PROVE TypeOK'
  BY <1>3 DEF GroupEnds
<1>4. ASSUME NEW i \in Ids, Ends(i) PROVE TypeOK'
  <2>1. PICK r \in Outcomes : Connected(i) /\ End(i, r)
    BY <1>4 DEF Ends
  <2>2. free' \in 0..Permits
    <3>1. i \in Open /\ IsFiniteSet(Open)
      BY <2>1, IdsAreFinite, FS_Subset DEF Open
    <3>2. Cardinality(Open) \in Nat /\ Cardinality(Open) # 0
      BY <3>1, FS_EmptySet, FS_CardinalityType
    <3> QED
      BY <2>1, <3>2 DEF End, PermitsKept
  <2>3. /\ UNCHANGED <<selected, rows, main, now>>
        /\ pc' = [pc EXCEPT ![i] = "ended"] /\ outcome' = [outcome EXCEPT ![i] = r]
        /\ group' = [group EXCEPT ![i] = Idle]
        /\ started' = [started EXCEPT ![i] = 0] /\ gathered' = [gathered EXCEPT ![i] = 0]
    BY <2>1 DEF End
  <2> QED
    BY <2>2, <2>3 DEF Idle
<1>5. ASSUME NEW i \in Ids, Join(i) PROVE TypeOK'
  <2>1. [id |-> i, outcome |-> outcome[i]] \in Row
    BY DEF Row
  <2>2. rows' = rows \/ rows' = Append(rows, [id |-> i, outcome |-> outcome[i]])
    BY <1>5 DEF Join, Panicked
  <2>3. rows' \in Seq(Row)
    <3> HIDE DEF TypeOK
    <3> DEFINE row == [id |-> i, outcome |-> outcome[i]]
    <3>1. rows \in Seq(Row) /\ row \in Row
      BY <2>1 DEF TypeOK
    <3> HIDE DEF row
    <3>2. Append(rows, row) \in Seq(Row)
      BY <3>1, AppendType
    <3>3. rows' = rows \/ rows' = Append(rows, row)
      BY <2>2 DEF row
    <3> QED
      BY <3>1, <3>2, <3>3
  <2> QED
    BY <1>5, <2>3 DEF Join, Panicked
<1>6. CASE Finish
  BY <1>6 DEF Finish
<1>7. CASE Tick
  BY <1>7 DEF Tick
<1>8. CASE UNCHANGED vars
  BY <1>8 DEF vars
<1> QED
  BY <1>1, <1>2, <1>3, <1>4, <1>5, <1>6, <1>7, <1>8, Steps

\* No step makes a task for a host that was not selected.
LEMMA ScopeStep == IInv /\ [Next]_vars => Scope'
<1> SUFFICES ASSUME IInv, [Next]_vars PROVE Scope'
  OBVIOUS
<1> USE DEF IInv, TypeOK, Scope
<1>1. ASSUME NEW i \in Ids, Acquire(i) PROVE Scope'
  BY <1>1 DEF Acquire
<1>2. ASSUME NEW i \in Ids, Probed(i) PROVE Scope'
  BY <1>2 DEF Probed
<1>3. ASSUME NEW i \in Ids, NEW g \in Groups, GroupEnds(i, g) PROVE Scope'
  BY <1>3 DEF GroupEnds
<1>4. ASSUME NEW i \in Ids, Ends(i) PROVE Scope'
  BY <1>4 DEF Ends, End, Connected
<1>5. ASSUME NEW i \in Ids, Join(i) PROVE Scope'
  BY <1>5 DEF Join
<1>6. CASE Finish
  BY <1>6 DEF Finish
<1>7. CASE Tick
  BY <1>7 DEF Tick
<1>8. CASE UNCHANGED vars
  BY <1>8 DEF vars
<1> QED
  BY <1>1, <1>2, <1>3, <1>4, <1>5, <1>6, <1>7, <1>8, Steps

\* The open connections change by the one of the task that moves.
LEMMA PermitsStep == IInv /\ [Next]_vars => PermitsKept'
<1> SUFFICES ASSUME IInv, [Next]_vars PROVE PermitsKept'
  OBVIOUS
<1>0. IsFiniteSet(Open) /\ Cardinality(Open) \in Nat
  BY IdsAreFinite, FS_Subset, FS_CardinalityType DEF Open
<1> USE LimitsAreNat DEF IInv, TypeOK, PermitsKept
<1>1. ASSUME NEW i \in Ids, Acquire(i) PROVE PermitsKept'
  <2>1. Open' = Open \cup {i} /\ i \notin Open
    BY <1>1 DEF Acquire, Open, Connected
  <2>2. Cardinality(Open') = Cardinality(Open) + 1
    BY <1>0, <2>1, FS_AddElement
  <2> QED
    BY <1>0, <1>1, <2>2 DEF Acquire, TakePermit
<1>2. ASSUME NEW i \in Ids, Probed(i) PROVE PermitsKept'
  <2>1. Open' = Open
    BY <1>2 DEF Probed, Open, Connected
  <2> QED
    BY <1>2, <2>1 DEF Probed
<1>3. ASSUME NEW i \in Ids, NEW g \in Groups, GroupEnds(i, g) PROVE PermitsKept'
  BY <1>3 DEF GroupEnds, Open, Connected
<1>4. ASSUME NEW i \in Ids, Ends(i) PROVE PermitsKept'
  <2>1. Open' = Open \ {i} /\ i \in Open
    BY <1>4 DEF Ends, End, Open, Connected
  <2>2. Cardinality(Open') = Cardinality(Open) - 1
    BY <1>0, <2>1, FS_RemoveElement
  <2> QED
    BY <1>0, <1>4, <2>2 DEF Ends, End
<1>5. ASSUME NEW i \in Ids, Join(i) PROVE PermitsKept'
  <2>1. Open' = Open
    BY <1>5 DEF Join, Open, Connected
  <2> QED
    BY <1>5, <2>1 DEF Join
<1>6. CASE Finish
  BY <1>6 DEF Finish, Open, Connected
<1>7. CASE Tick
  BY <1>7 DEF Tick, Open, Connected
<1>8. CASE UNCHANGED vars
  BY <1>8 DEF vars, Open, Connected
<1> QED
  BY <1>1, <1>2, <1>3, <1>4, <1>5, <1>6, <1>7, <1>8, Steps

\* A task has an outcome once it has ended, and not before.
LEMMA ReturnedStep == IInv /\ [Next]_vars => Returned'
<1> SUFFICES ASSUME IInv, [Next]_vars PROVE Returned'
  OBVIOUS
<1> USE DEF IInv, TypeOK, Returned
<1>1. ASSUME NEW i \in Ids, Acquire(i) PROVE Returned'
  BY <1>1 DEF Acquire
<1>2. ASSUME NEW i \in Ids, Probed(i) PROVE Returned'
  BY <1>2 DEF Probed
<1>3. ASSUME NEW i \in Ids, NEW g \in Groups, GroupEnds(i, g) PROVE Returned'
  BY <1>3 DEF GroupEnds
<1>4. ASSUME NEW i \in Ids, Ends(i) PROVE Returned'
  BY <1>4 DEF Ends, End
<1>5. ASSUME NEW i \in Ids, Join(i) PROVE Returned'
  BY <1>5 DEF Join
<1>6. CASE Finish
  BY <1>6 DEF Finish
<1>7. CASE Tick
  BY <1>7 DEF Tick
<1>8. CASE UNCHANGED vars
  BY <1>8 DEF vars
<1> QED
  BY <1>1, <1>2, <1>3, <1>4, <1>5, <1>6, <1>7, <1>8, Steps

\* A task that is not joined has no row: its moves leave the rows' tasks alone.
LEMMA RowsStep == IInv /\ [Next]_vars => RowsOfJoined'
<1> SUFFICES ASSUME IInv, [Next]_vars PROVE RowsOfJoined'
  OBVIOUS
<1>0. \A k \in DOMAIN rows : rows[k].id \in Ids
  BY RowIds DEF IInv
<1>1. ASSUME NEW i \in Ids, NEW p \in {"probing", "gathering", "ended"}, pc[i] # "joined",
             pc' = [pc EXCEPT ![i] = p], i \in selected,
             \A j \in Ids \ {i} : outcome'[j] = outcome[j],
             UNCHANGED <<selected, rows, main>>
      PROVE  RowsOfJoined'
  BY <1>0, <1>1 DEF IInv, TypeOK, RowsOfJoined
<1>2. ASSUME NEW i \in Ids, Acquire(i) PROVE RowsOfJoined'
  BY <1>1, <1>2 DEF Acquire, IInv, Scope
<1>3. ASSUME NEW i \in Ids, Probed(i) PROVE RowsOfJoined'
  BY <1>1, <1>3 DEF Probed, IInv, Scope
<1>4. ASSUME NEW i \in Ids, NEW g \in Groups, GroupEnds(i, g) PROVE RowsOfJoined'
  BY <1>4 DEF GroupEnds, IInv, RowsOfJoined
<1>5. ASSUME NEW i \in Ids, Ends(i) PROVE RowsOfJoined'
  <2>1. i \in selected /\ pc[i] # "joined"
    BY <1>5 DEF Ends, Connected, IInv, Scope
  <2>2. \A j \in Ids \ {i} : outcome'[j] = outcome[j]
    BY <1>5 DEF Ends, End, IInv, TypeOK
  <2> QED
    BY <1>1, <1>5, <2>1, <2>2 DEF Ends, End
<1>6. ASSUME NEW i \in Ids, Join(i) PROVE RowsOfJoined'
  <2> USE DEF IInv, TypeOK, RowsOfJoined
  <2>1. pc' = [pc EXCEPT ![i] = "joined"] /\ pc[i] = "ended" /\ outcome' = outcome
    BY <1>6 DEF Join
  <2>2. \A k \in DOMAIN rows : rows[k].id # i
    BY <2>1
  <2>3. main = "joining" /\ main' = main
    BY <1>6 DEF Join, Panicked
  <2>4. CASE outcome[i].kind = "panicked"
    <3>1. rows' = rows
      BY <1>6, <2>4 DEF Join, Panicked
    <3> QED
      BY <1>0, <2>1, <2>2, <2>3, <2>4, <3>1
  <2>5. CASE outcome[i].kind # "panicked"
    <3> DEFINE row == [id |-> i, outcome |-> outcome[i]]
    <3>1. rows' = Append(rows, row)
      BY <1>6, <2>5 DEF Join
    <3>2. /\ DOMAIN rows' = DOMAIN rows \cup {Len(rows) + 1}
          /\ \A k \in DOMAIN rows : rows'[k] = rows[k] /\ k # Len(rows) + 1
          /\ rows'[Len(rows) + 1] = row
      BY <3>1
    <3>3. \A k \in DOMAIN rows' : /\ pc'[rows'[k].id] = "joined"
                                  /\ outcome'[rows'[k].id].kind # "panicked"
                                  /\ rows'[k].outcome = outcome'[rows'[k].id]
      BY <1>0, <2>1, <2>5, <3>2
    <3>4. \A k, l \in DOMAIN rows' : rows'[k].id = rows'[l].id => k = l
      BY <2>2, <3>2
    <3>5. ASSUME NEW j \in Ids, pc'[j] = "joined", outcome'[j].kind # "panicked"
          PROVE  \E k \in DOMAIN rows' : rows'[k].id = j
      BY <2>1, <3>2, <3>5
    <3> QED
      BY <2>3, <3>3, <3>4, <3>5
  <2> QED
    BY <2>4, <2>5
<1>7. CASE Finish
  BY <1>7 DEF Finish, AllJoined, IInv, RowsOfJoined
<1>8. CASE Tick
  BY <1>8 DEF Tick, IInv, RowsOfJoined
<1>9. CASE UNCHANGED vars
  BY <1>9 DEF vars, IInv, RowsOfJoined
<1> QED
  BY <1>2, <1>3, <1>4, <1>5, <1>6, <1>7, <1>8, <1>9, Steps

\* Time does not pass while a timer is due.
LEMMA ClocksStep == IInv /\ [Next]_vars => Clocks'
<1> SUFFICES ASSUME IInv, [Next]_vars PROVE Clocks'
  OBVIOUS
<1> USE LimitsAreNat DEF IInv, TypeOK, Clocks, Connected
<1>1. ASSUME NEW i \in Ids, Acquire(i) PROVE Clocks'
  BY <1>1 DEF Acquire
<1>2. ASSUME NEW i \in Ids, Probed(i) PROVE Clocks'
  BY <1>2 DEF Probed
<1>3. ASSUME NEW i \in Ids, NEW g \in Groups, GroupEnds(i, g) PROVE Clocks'
  BY <1>3 DEF GroupEnds
<1>4. ASSUME NEW i \in Ids, Ends(i) PROVE Clocks'
  BY <1>4 DEF Ends, End
<1>5. ASSUME NEW i \in Ids, Join(i) PROVE Clocks'
  BY <1>5 DEF Join
<1>6. CASE Finish
  BY <1>6 DEF Finish
<1>7. CASE Tick
  <2>1. ASSUME NEW i \in Ids, Connected(i) PROVE ~HostDue(i) /\ ~GroupDue(i)
    BY <1>7, <2>1 DEF Tick, Ready, Scope
  <2>2. ASSUME NEW i \in Ids, Connected(i) PROVE now < started[i] + HostLimit
    BY <2>1, <2>2 DEF HostDue
  <2>3. ASSUME NEW i \in Ids, pc[i] = "gathering" PROVE now < gathered[i] + GroupLimit
    BY <2>1, <2>3 DEF GroupDue
  <2> QED
    BY <1>7, <2>2, <2>3 DEF Tick
<1>8. CASE UNCHANGED vars
  BY <1>8 DEF vars
<1> QED
  BY <1>1, <1>2, <1>3, <1>4, <1>5, <1>6, <1>7, <1>8, Steps

-------------------------------------------------------------------------------
(* The theorems. *)

\* IInv holds in every reachable state: permits, rows and clocks are as described.
THEOREM Invariant == Spec => []IInv
<1>1. IInv /\ [Next]_vars => IInv'
  BY TypeStep, ScopeStep, PermitsStep, ReturnedStep, RowsStep, ClocksStep DEF IInv
<1> QED
  BY <1>1, InitHolds, PTL DEF Spec

\* Every variable keeps its type, however the tasks interleave.
THEOREM TypeCorrect == Spec => []TypeOK
<1>1. IInv => TypeOK
  BY DEF IInv
<1> QED
  BY <1>1, Invariant, PTL

\* No more than FLEET_CONCURRENCY hosts are connected at a time.
THEOREM PermitsCorrect == Spec => []AtMostPermits
<1>1. IInv => AtMostPermits
  <2> SUFFICES ASSUME IInv PROVE AtMostPermits
    OBVIOUS
  <2>1. Cardinality(Open) \in Nat
    BY IdsAreFinite, FS_Subset, FS_CardinalityType DEF Open
  <2> QED
    BY <2>1, LimitsAreNat DEF IInv, TypeOK, PermitsKept, AtMostPermits, Open
<1> QED
  BY <1>1, Invariant, PTL

\* When gather_fleet returns, every selected host whose task did not panic has its row.
THEOREM RowsCorrect == Spec => []EveryHostHasItsRow
<1>1. IInv => EveryHostHasItsRow
  <2> SUFFICES ASSUME IInv, main = "done" PROVE EveryHostHasItsRow
    BY DEF EveryHostHasItsRow
  <2> USE DEF IInv, TypeOK, RowsOfJoined, Scope
  <2>1. \A k \in DOMAIN rows : rows[k].id \in Ids
    BY RowIds
  <2>2. \A k \in DOMAIN rows : rows[k].id \in selected /\ outcome[rows[k].id].kind # "panicked"
    BY <2>1
  <2>3. \A i \in selected : outcome[i].kind # "panicked" => \E k \in DOMAIN rows : rows[k].id = i
    OBVIOUS
  <2> QED
    BY <2>2, <2>3 DEF EveryHostHasItsRow
<1> QED
  BY <1>1, Invariant, PTL

\* Only a slow probe lets the timeout of the host cut off its groups.
THEOREM TimeoutCorrect == Spec => TimeoutNeedsSlowProbe
<1>1. ASSUME IInv, [Next]_vars, NEW i \in Ids,
             pc[i] = "gathering", outcome'[i].kind = "timedOut", pc'[i] = "ended"
      PROVE  gathered[i] - started[i] >= HostLimit - GroupLimit
  <2> USE <1>1, LimitsAreNat DEF IInv, TypeOK
  <2>1. HostTimesOut(i)
    <3>1. ASSUME NEW j \in Ids, ReviewEnds(j) PROVE FALSE
      <4>1. CASE End(j, Result("failed"))
        BY <4>1 DEF End, Result
      <4>2. ASSUME NEW r \in Reports, End(j, [kind |-> "reviewed", report |-> r]) PROVE FALSE
        BY <4>2 DEF End
      <4> QED
        BY <3>1, <4>1, <4>2 DEF ReviewEnds
    <3>2. ASSUME NEW j \in Ids, Panics(j) PROVE FALSE
      BY <3>2 DEF Panics, End, Result
    <3>3. ASSUME NEW j \in Ids, Acquire(j) \/ Probed(j) \/ Join(j) PROVE FALSE
      BY <3>3 DEF Acquire, Probed, Join
    <3>4. ASSUME NEW j \in Ids, NEW g \in Groups, GroupEnds(j, g) PROVE FALSE
      BY <3>4 DEF GroupEnds
    <3>5. ASSUME NEW j \in Ids, HostTimesOut(j) PROVE j = i
      BY <3>5 DEF HostTimesOut, End
    <3>6. ~Finish /\ ~Tick /\ ~(UNCHANGED vars)
      BY DEF Finish, Tick, vars
    <3> QED
      BY <3>1, <3>2, <3>3, <3>4, <3>5, <3>6 DEF Next, HostStep, ProcessStep
  <2>2. now - started[i] >= HostLimit
    BY <2>1 DEF HostTimesOut, HostDue
  <2>3. gathered[i] <= now /\ now <= gathered[i] + GroupLimit
    BY DEF Clocks
  <2> QED
    BY <2>2, <2>3
<1>2. IInv /\ [Next]_vars
        => [\A i \in Ids :
              (pc[i] = "gathering" /\ outcome'[i].kind = "timedOut" /\ pc'[i] = "ended")
                  => gathered[i] - started[i] >= HostLimit - GroupLimit]_vars
  BY <1>1
<1> QED
  BY <1>2, Invariant, PTL DEF Spec, TimeoutNeedsSlowProbe

-------------------------------------------------------------------------------
(* The deadline of the whole review.  A round is the time one host may     *)
(* take: by the end of round m all of the first m times Permits tasks have *)
(* ended, so that as many again were started, or no task waits any more.   *)

Acquired == {i \in selected : pc[i] # "waiting"}
Early(m) == {i \in Acquired : started[i] <= m * HostLimit}

RoundStarted(m) ==
    now > m * HostLimit => \/ Early(m) = selected
                           \/ Cardinality(Early(m)) >= (m + 1) * Permits

Rounded == \A m \in Nat : RoundStarted(m)

\* The tasks are finite in number, so they can be counted against permits.
LEMMA SelectedIsFinite ==
    ASSUME TypeOK
    PROVE  /\ IsFiniteSet(selected) /\ Cardinality(selected) \in Nat
           /\ \A m : /\ Early(m) \subseteq selected
                     /\ IsFiniteSet(Early(m)) /\ Cardinality(Early(m)) \in Nat
           /\ IsFiniteSet(Open) /\ Cardinality(Open) \in Nat
<1>1. IsFiniteSet(selected)
  BY IdsAreFinite, FS_Subset DEF TypeOK
<1>2. ASSUME NEW m PROVE Early(m) \subseteq selected /\ IsFiniteSet(Early(m))
  BY <1>1, FS_Subset DEF Early, Acquired
<1>3. IsFiniteSet(Open)
  BY IdsAreFinite, FS_Subset DEF Open
<1> QED
  BY <1>1, <1>2, <1>3, FS_CardinalityType

\* Division rounds down by less than the divisor.
LEMMA QuotientBound ==
    ASSUME NEW a \in Nat, NEW p \in Nat \ {0}
    PROVE  a \div p \in Nat /\ a < p * (a \div p) + p
OBVIOUS

\* Rounds is the quotient rounded up.
LEMMA RoundsCover ==
    ASSUME NEW n \in Nat, NEW p \in Nat \ {0}
    PROVE  /\ (n + p - 1) \div p \in Nat
           /\ ((n + p - 1) \div p) * p >= n
<1> DEFINE q == (n + p - 1) \div p
<1>1. n + p - 1 \in Nat
  OBVIOUS
<1>2. q \in Nat /\ n + p - 1 < p * q + p
  BY <1>1, QuotientBound
<1> HIDE DEF q
<1>3. q * p \in Nat /\ p * q = q * p
  BY <1>2
<1>4. q * p >= n
  BY <1>2, <1>3
<1> QED
  BY <1>2, <1>4 DEF q

\* A step at which no time passes starts tasks and never takes one back.
LEMMA RoundedMonotone ==
    ASSUME TypeOK, TypeOK', Rounded, now' = now, selected' = selected,
           \A i \in Acquired : pc'[i] # "waiting" /\ started'[i] <= started[i]
    PROVE  Rounded'
<1> SUFFICES ASSUME NEW m \in Nat, now > m * HostLimit
             PROVE  \/ Early(m)' = selected'
                    \/ Cardinality(Early(m)') >= (m + 1) * Permits
  BY DEF Rounded, RoundStarted
<1> USE LimitsAreNat
<1>1. Early(m) \subseteq Early(m)'
  <2>1. ASSUME NEW i \in Early(m) PROVE i \in Early(m)'
    <3>1. /\ i \in selected /\ i \in Acquired /\ started[i] <= m * HostLimit
          /\ started[i] \in Nat /\ started'[i] \in Nat /\ m * HostLimit \in Nat
      BY <2>1 DEF Early, Acquired, TypeOK
    <3>2. started'[i] <= m * HostLimit
      BY <3>1
    <3> QED
      BY <3>1, <3>2 DEF Early, Acquired
  <2> QED
    BY <2>1
<1>2. Early(m)' \subseteq selected'
  BY DEF Early, Acquired
<1>3. CASE Early(m) = selected
  BY <1>1, <1>2, <1>3
<1>4. CASE Cardinality(Early(m)) >= (m + 1) * Permits
  <2>1. IsFiniteSet(Early(m)') /\ Cardinality(Early(m)') \in Nat
    BY <1>2, SelectedIsFinite, FS_Subset, FS_CardinalityType
  <2>2. Cardinality(Early(m)) <= Cardinality(Early(m)') /\ Cardinality(Early(m)) \in Nat
    BY <1>1, <2>1, SelectedIsFinite, FS_Subset
  <2>3. (m + 1) * Permits \in Nat
    OBVIOUS
  <2> QED
    BY <1>4, <2>1, <2>2, <2>3
<1> QED
  BY <1>3, <1>4 DEF Rounded, RoundStarted

\* When time passes nothing is ready: the permits are out, or no task waits.
LEMMA NothingReady ==
    ASSUME IInv, Tick
    PROVE  /\ Acquired = selected \/ Cardinality(Open) = Permits
           /\ \A i \in Open : i \in Acquired /\ now < started[i] + HostLimit
           /\ \E i \in selected : pc[i] # "joined" /\ pc[i] # "ended"
<1> USE LimitsAreNat DEF IInv, TypeOK
<1>1. \A i \in selected : ~(pc[i] = "waiting" /\ free > 0) /\ pc[i] # "ended" /\ ~HostDue(i)
  BY DEF Tick, Ready
<1>2. Acquired = selected \/ Cardinality(Open) = Permits
  <2>1. free = 0 \/ \A i \in selected : pc[i] # "waiting"
    BY <1>1
  <2> QED
    BY <2>1, SelectedIsFinite DEF Acquired, PermitsKept
<1>3. \A i \in Open : i \in Acquired /\ now < started[i] + HostLimit
  BY <1>1 DEF Open, Connected, Acquired, HostDue, Scope
<1>4. \E i \in selected : pc[i] # "joined"
  BY DEF Tick, Ready, AllJoined
<1> QED
  BY <1>1, <1>2, <1>3, <1>4

\* The passing of time keeps the count of started tasks: a round is over only when its
\* timers have run out, and the permits they gave back were taken.
LEMMA RoundedTick ==
    ASSUME IInv, Rounded, Tick
    PROVE  Rounded'
<1> SUFFICES ASSUME NEW m \in Nat, now + 1 > m * HostLimit
             PROVE  \/ Early(m) = selected
                    \/ Cardinality(Early(m)) >= (m + 1) * Permits
  BY DEF Rounded, RoundStarted, Tick, Early, Acquired
<1> USE LimitsAreNat
<1>1. now \in Nat /\ m * HostLimit \in Nat /\ (m + 1) * Permits = m * Permits + Permits
  BY DEF IInv, TypeOK
<1>2. CASE now > m * HostLimit
  BY <1>2 DEF Rounded, RoundStarted
<1>3. CASE now = m * HostLimit
  <2>1. Early(m) = Acquired
    BY <1>1, <1>3 DEF Early, Acquired, IInv, TypeOK, Clocks
  <2>2. CASE Acquired = selected
    BY <2>1, <2>2
  <2>3. CASE Cardinality(Open) = Permits
    <3>1. Open \subseteq Early(m)
      BY <2>1, NothingReady
    <3>2. CASE m = 0
      <4>1. Cardinality(Open) <= Cardinality(Early(m))
        BY <3>1, SelectedIsFinite, FS_Subset DEF IInv
      <4> QED
        BY <2>3, <3>2, <4>1
    <3>3. CASE m # 0
      <4> DEFINE l == m - 1
      <4>1. l \in Nat /\ l * HostLimit = m * HostLimit - HostLimit /\ (l + 1) * Permits = m * Permits
        BY <3>3
      <4>2. now > l * HostLimit
        BY <1>1, <1>3, <4>1
      <4>3. Early(l) = selected \/ Cardinality(Early(l)) >= m * Permits
        BY <4>1, <4>2 DEF Rounded, RoundStarted
      <4>4. Early(l) \cap Open = {}
        <5>1. ASSUME NEW i \in Open, i \in Early(l) PROVE FALSE
          <6>1. started[i] <= l * HostLimit /\ started[i] \in Nat
            BY <5>1 DEF Early, Acquired, IInv, TypeOK
          <6>2. now < started[i] + HostLimit
            BY NothingReady
          <6> QED
            BY <1>1, <1>3, <4>1, <6>1, <6>2
        <5> QED
          BY <5>1
      <4>5. Early(l) # selected
        <5>1. Open # {}
          BY <2>3, FS_EmptySet
        <5> QED
          BY <4>4, <5>1, NothingReady DEF Acquired
      <4>6. Early(l) \cup Open \subseteq Early(m)
        <5>1. Early(l) \subseteq Acquired
          BY DEF Early
        <5> QED
          BY <2>1, <3>1, <5>1
      <4>7. Cardinality(Early(l) \cup Open) = Cardinality(Early(l)) + Cardinality(Open)
        <5>1. /\ IsFiniteSet(Early(l)) /\ Cardinality(Early(l)) \in Nat
              /\ IsFiniteSet(Open) /\ Cardinality(Open) \in Nat
          BY SelectedIsFinite DEF IInv
        <5>2. Cardinality(Early(l) \cup Open)
                = Cardinality(Early(l)) + Cardinality(Open) - Cardinality(Early(l) \cap Open)
          BY <5>1, FS_Union
        <5>3. Cardinality(Early(l) \cap Open) = 0
          BY <4>4, FS_EmptySet
        <5> HIDE DEF l
        <5> QED
          BY <5>1, <5>2, <5>3
      <4>8. Cardinality(Early(l) \cup Open) <= Cardinality(Early(m))
        BY <4>6, SelectedIsFinite, FS_Subset DEF IInv
      <4>9. /\ Cardinality(Early(l)) \in Nat /\ Cardinality(Early(m)) \in Nat
            /\ m * Permits \in Nat
        BY SelectedIsFinite DEF IInv
      <4> QED
        BY <1>1, <2>3, <4>3, <4>5, <4>7, <4>8, <4>9
    <3> QED
      BY <3>2, <3>3
  <2> QED
    BY <2>2, <2>3, NothingReady
<1> QED
  BY <1>1, <1>2, <1>3

\* Time does not pass the deadline with a task still under way.
LEMMA DeadlineTick ==
    ASSUME IInv, Rounded, EndsInTime, Tick
    PROVE  EndsInTime'
<1> USE LimitsAreNat
<1> DEFINE n == Cardinality(selected)
<1>1. n \in Nat /\ now \in Nat
  BY SelectedIsFinite DEF IInv, TypeOK
<1>2. Rounds \in Nat /\ Rounds * Permits >= n /\ Rounds * HostLimit \in Nat
  BY <1>1, RoundsCover DEF Rounds
<1>3. main = "joining" /\ now' = now + 1 /\ Rounds' = Rounds
  BY DEF Tick, Rounds
<1>4. now <= Rounds * HostLimit
  BY <1>3 DEF EndsInTime
<1>5. now # Rounds * HostLimit
  <2> SUFFICES ASSUME now = Rounds * HostLimit PROVE FALSE
    OBVIOUS
  <2>1. PICK i \in selected : pc[i] # "joined" /\ pc[i] # "ended"
    BY NothingReady
  <2>2. Rounds # 0
    <3>1. n # 0
      BY <2>1, SelectedIsFinite, FS_EmptySet DEF IInv
    <3> QED
      BY <1>1, <1>2, <3>1
  <2> DEFINE l == Rounds - 1
  <2>3. /\ l \in Nat /\ l * HostLimit = Rounds * HostLimit - HostLimit
        /\ (l + 1) * Permits = Rounds * Permits
    BY <1>2, <2>2
  <2>4. Early(l) = selected
    <3>1. Early(l) = selected \/ Cardinality(Early(l)) >= Rounds * Permits
      BY <1>2, <2>3 DEF Rounded, RoundStarted
    <3>2. ASSUME Cardinality(Early(l)) >= Rounds * Permits PROVE Early(l) = selected
      <4>1. /\ Early(l) \in SUBSET selected /\ IsFiniteSet(selected)
            /\ Cardinality(Early(l)) \in Nat
        BY SelectedIsFinite DEF IInv
      <4>2. Cardinality(Early(l)) <= n
        BY <4>1, FS_Subset
      <4>3. Cardinality(Early(l)) = n
        BY <1>1, <1>2, <3>2, <4>1, <4>2
      <4> QED
        BY <4>1, <4>3, FS_Subset
    <3> QED
      BY <3>1, <3>2
  <2>5. pc[i] # "waiting" /\ started[i] <= l * HostLimit /\ started[i] \in Nat
    BY <2>4 DEF Early, Acquired, IInv, TypeOK
  <2>6. i \in Open
    BY <2>1, <2>5 DEF IInv, TypeOK, Scope, Open, Connected
  <2>7. now < started[i] + HostLimit
    BY <2>6, NothingReady
  <2> QED
    BY <1>1, <1>2, <2>3, <2>5, <2>7
<1> QED
  BY <1>1, <1>2, <1>3, <1>4, <1>5 DEF EndsInTime

\* A review of n hosts ends within as many rounds of HostLimit as n hosts need permits.
THEOREM DeadlineKept == Spec => []EndsInTime
<1>1. Init => Rounded /\ EndsInTime
  <2> SUFFICES ASSUME Init PROVE Rounded /\ EndsInTime
    OBVIOUS
  <2>1. IInv /\ now = 0
    BY InitHolds DEF Init
  <2>2. Rounds * HostLimit \in Nat
    BY <2>1, SelectedIsFinite, RoundsCover, LimitsAreNat DEF Rounds, IInv
  <2>3. \A m \in Nat : m * HostLimit \in Nat
    BY LimitsAreNat
  <2> QED
    BY <2>1, <2>2, <2>3 DEF Rounded, RoundStarted, EndsInTime
<1>2. IInv /\ IInv' /\ Rounded /\ EndsInTime /\ [Next]_vars => Rounded' /\ EndsInTime'
  <2> SUFFICES ASSUME IInv, IInv', Rounded, EndsInTime, [Next]_vars
               PROVE  Rounded' /\ EndsInTime'
    OBVIOUS
  <2>1. CASE Tick
    BY <2>1, RoundedTick, DeadlineTick
  <2>2. ASSUME now' = now, selected' = selected, main' = "joining" => main = "joining",
               \A i \in Acquired : pc'[i] # "waiting" /\ started'[i] <= started[i]
        PROVE  Rounded' /\ EndsInTime'
    <3>1. Rounded'
      BY <2>2, RoundedMonotone DEF IInv
    <3> QED
      BY <2>2, <3>1 DEF EndsInTime, Rounds
  <2>3. \A i \in Acquired : i \in Ids /\ pc[i] # "waiting" /\ started[i] \in Nat
    BY DEF Acquired, IInv, TypeOK
  <2> USE DEF IInv, TypeOK
  <2>4. ASSUME NEW i \in Ids, Acquire(i) PROVE Rounded' /\ EndsInTime'
    BY <2>2, <2>3, <2>4 DEF Acquire
  <2>5. ASSUME NEW i \in Ids, Probed(i) PROVE Rounded' /\ EndsInTime'
    BY <2>2, <2>3, <2>5 DEF Probed
  <2>6. ASSUME NEW i \in Ids, NEW g \in Groups, GroupEnds(i, g) PROVE Rounded' /\ EndsInTime'
    BY <2>2, <2>3, <2>6 DEF GroupEnds
  <2>7. ASSUME NEW i \in Ids, Ends(i) PROVE Rounded' /\ EndsInTime'
    BY <2>2, <2>3, <2>7 DEF Ends, End
  <2>8. ASSUME NEW i \in Ids, Join(i) PROVE Rounded' /\ EndsInTime'
    BY <2>2, <2>3, <2>8 DEF Join, Panicked
  <2>9. CASE Finish
    BY <2>2, <2>3, <2>9 DEF Finish
  <2>10. CASE UNCHANGED vars
    BY <2>2, <2>3, <2>10 DEF vars
  <2> QED
    BY <2>1, <2>4, <2>5, <2>6, <2>7, <2>8, <2>9, <2>10, Steps
<1> QED
  BY <1>1, <1>2, Invariant, PTL DEF Spec
-------------------------------------------------------------------------------
(* The report of a finished review. *)

\* Rows of different hosts, as EveryHostHasItsRow says of those of a finished review.
Distinct(reviews) == \A k, l \in DOMAIN reviews : reviews[k].id = reviews[l].id => k = l

\* The ids compare in a total order.
LEMMA BeforeIsOrder ==
    /\ \A i \in Ids : ~Before(i, i)
    /\ \A i, j \in Ids : i = j \/ Before(i, j) \/ Before(j, i)
    /\ \A i, j \in Ids : Before(i, j) => ~Before(j, i)
    /\ \A i, j, k \in Ids : Before(i, j) /\ Before(j, k) => Before(i, k)
<1> USE IdOrderIsOrder
<1>0. DOMAIN IdOrder \subseteq Int
  OBVIOUS
<1>1. \A i \in Ids : ~Before(i, i)
  BY <1>0 DEF Before
<1>2. \A i, j \in Ids : i = j \/ Before(i, j) \/ Before(j, i)
  BY <1>0 DEF Before
<1>3. \A i, j, k \in Ids : Before(i, j) /\ Before(j, k) => Before(i, k)
  BY <1>0 DEF Before
<1> QED
  BY <1>1, <1>2, <1>3

\* Health and findings of a report are numbers.
LEMMA ReviewedIsGraded ==
    ASSUME NEW row \in Row, Reviewed(row)
    PROVE  row.outcome.report.health \in Int /\ row.outcome.report.urgent \in Int
<1>1. row.outcome.report \in Reports
  BY DEF Row, Outcomes, Reviewed
<1> QED
  BY <1>1, ReportsAreGraded

\* Being worse, the id aside, is a strict weak order.
LEMMA BadnessIsOrder ==
    ASSUME NEW a \in Row, NEW b \in Row, NEW c \in Row
    PROVE  /\ ~BadnessOnly(a, a)
           /\ BadnessOnly(a, b) => ~BadnessOnly(b, a)
           /\ BadnessOnly(a, b) => BadnessOnly(a, c) \/ BadnessOnly(c, b)
BY ReviewedIsGraded DEF BadnessOnly

\* worst_first is a strict total order on rows of different hosts.
LEMMA WorseIsOrder ==
    ASSUME NEW a \in Row, NEW b \in Row, NEW c \in Row
    PROVE  /\ ~WorseThan(a, a)
           /\ a.id # b.id => WorseThan(a, b) \/ WorseThan(b, a)
           /\ WorseThan(a, b) => ~WorseThan(b, a)
           /\ WorseThan(a, b) /\ WorseThan(b, c) => WorseThan(a, c)
<1>1. a.id \in Ids /\ b.id \in Ids /\ c.id \in Ids
  BY DEF Row
<1>2. \A x, y, z \in {a, b, c} : /\ ~BadnessOnly(x, x)
                                 /\ BadnessOnly(x, y) => ~BadnessOnly(y, x)
                                 /\ BadnessOnly(x, y) => BadnessOnly(x, z) \/ BadnessOnly(z, y)
  BY BadnessIsOrder
<1>3. \A x, y, z \in {a.id, b.id, c.id} :
        /\ ~Before(x, x)
        /\ x = y \/ Before(x, y) \/ Before(y, x)
        /\ Before(x, y) => ~Before(y, x)
        /\ Before(x, y) /\ Before(y, z) => Before(x, z)
  BY <1>1, BeforeIsOrder
<1> QED
  BY <1>2, <1>3 DEF WorseThan

\* With different hosts no row is in front because it was: only because it is worse.
LEMMA InFrontIsWorse ==
    ASSUME NEW reviews \in Seq(Row), Distinct(reviews), NEW k \in DOMAIN reviews
    PROVE  InFrontOf(reviews, k) = {j \in DOMAIN reviews : WorseThan(reviews[j], reviews[k])}
<1>1. \A j \in DOMAIN reviews : reviews[j] \in Row /\ j \in Int
  OBVIOUS
<1>2. ASSUME NEW j \in DOMAIN reviews, j < k PROVE WorseThan(reviews[j], reviews[k]) \/ WorseThan(reviews[k], reviews[j])
  <2>1. reviews[j].id # reviews[k].id
    BY <1>1, <1>2 DEF Distinct
  <2> QED
    BY <1>1, <2>1, WorseIsOrder
<1> QED
  BY <1>2 DEF InFrontOf

\* The places are those of the sequence, each taken by one row, and the worse row has the
\* smaller one.
LEMMA PlacesAreRanks ==
    ASSUME NEW reviews \in Seq(Row), Distinct(reviews)
    PROVE  /\ \A j, k \in DOMAIN reviews :
                 WorseThan(reviews[j], reviews[k]) => Place(reviews, j) < Place(reviews, k)
           /\ \A j, k \in DOMAIN reviews : Place(reviews, j) = Place(reviews, k) => j = k
           /\ \A k \in DOMAIN reviews : Place(reviews, k) \in DOMAIN reviews
           /\ \A n \in DOMAIN reviews : \E k \in DOMAIN reviews : Place(reviews, k) = n
<1> DEFINE D == DOMAIN reviews
<1>0. /\ D = 1 .. Len(reviews) /\ Len(reviews) \in Nat /\ IsFiniteSet(D) /\ Cardinality(D) = Len(reviews)
      /\ \A k \in D : reviews[k] \in Row
  <2>1. Len(reviews) \in Nat /\ D = 1 .. Len(reviews) /\ \A k \in D : reviews[k] \in Row
    OBVIOUS
  <2>2. IsFiniteSet(1 .. Len(reviews)) /\ Cardinality(1 .. Len(reviews)) = Len(reviews)
    BY <2>1, FS_Interval
  <2> QED
    BY <2>1, <2>2
<1>1. \A k \in D : IsFiniteSet(InFrontOf(reviews, k)) /\ Cardinality(InFrontOf(reviews, k)) \in Nat
  BY <1>0, FS_Subset, FS_CardinalityType DEF InFrontOf
<1>2. ASSUME NEW j \in D, NEW k \in D, WorseThan(reviews[j], reviews[k])
      PROVE  Place(reviews, j) < Place(reviews, k)
  <2>1. InFrontOf(reviews, j) \subseteq InFrontOf(reviews, k)
    BY <1>0, <1>2, InFrontIsWorse, WorseIsOrder
  <2>2. j \in InFrontOf(reviews, k) /\ j \notin InFrontOf(reviews, j)
    BY <1>0, <1>2, InFrontIsWorse, WorseIsOrder
  <2>3. /\ Cardinality(InFrontOf(reviews, j)) <= Cardinality(InFrontOf(reviews, k))
        /\ Cardinality(InFrontOf(reviews, j)) # Cardinality(InFrontOf(reviews, k))
    BY <1>1, <2>1, <2>2, FS_Subset
  <2> QED
    BY <1>1, <2>3 DEF Place
<1>3. ASSUME NEW j \in D, NEW k \in D, Place(reviews, j) = Place(reviews, k)
      PROVE  j = k
  <2> SUFFICES ASSUME j # k PROVE FALSE
    OBVIOUS
  <2>1. WorseThan(reviews[j], reviews[k]) \/ WorseThan(reviews[k], reviews[j])
    BY <1>0, WorseIsOrder DEF Distinct
  <2>2. Place(reviews, j) \in Int /\ Place(reviews, k) \in Int
    BY <1>1 DEF Place
  <2> QED
    BY <1>2, <1>3, <2>1, <2>2
<1>4. ASSUME NEW k \in D PROVE Place(reviews, k) \in D
  <2>1. k \notin InFrontOf(reviews, k) /\ InFrontOf(reviews, k) \subseteq D
    BY <1>0, InFrontIsWorse, WorseIsOrder
  <2>2. Cardinality(InFrontOf(reviews, k)) <= Len(reviews) /\ Cardinality(InFrontOf(reviews, k)) # Len(reviews)
    BY <1>0, <1>1, <2>1, FS_Subset
  <2> QED
    BY <1>0, <1>1, <2>2 DEF Place
<1>5. ASSUME NEW n \in D PROVE \E k \in D : Place(reviews, k) = n
  <2> DEFINE place == [k \in D |-> Place(reviews, k)]
  <2>1. place \in [D -> D] /\ \A j, k \in D : place[j] = place[k] => j = k
    BY <1>3, <1>4
  <2> HIDE DEF place
  <2>2. place \in Injection(D, D)
    BY <2>1, Fun_IsInj
  <2>3. place \in Surjection(D, D)
    BY <1>0, <2>2, FS_Injection
  <2>4. \E k \in D : place[k] = n
    BY <2>3 DEF Surjection
  <2> QED
    BY <2>4 DEF place
<1> QED
  BY <1>2, <1>3, <1>4, <1>5

\* What stands at each place of the overview.
LEMMA OverviewAtPlace ==
    ASSUME NEW reviews \in Seq(Row), Distinct(reviews), NEW k \in DOMAIN reviews
    PROVE  /\ Place(reviews, k) \in DOMAIN Overview(reviews)
           /\ Overview(reviews)[Place(reviews, k)] = reviews[k]
<1>1. Place(reviews, k) \in DOMAIN reviews
  BY PlacesAreRanks
<1>2. (CHOOSE j \in DOMAIN reviews : Place(reviews, j) = Place(reviews, k)) = k
  BY PlacesAreRanks
<1> QED
  BY <1>1, <1>2 DEF Overview

\* FleetOverview::build: the overview shows every row, the worst first.
THEOREM OverviewIsWorstFirst ==
    ASSUME NEW reviews \in Seq(Row), Distinct(reviews)
    PROVE  /\ DOMAIN Overview(reviews) = DOMAIN reviews
           /\ {Overview(reviews)[n] : n \in DOMAIN reviews} = {reviews[k] : k \in DOMAIN reviews}
           /\ \A m, n \in DOMAIN reviews : m < n => WorseThan(Overview(reviews)[m], Overview(reviews)[n])
<1>0. \A k \in DOMAIN reviews : reviews[k] \in Row /\ k \in Int
  OBVIOUS
<1>1. \A n \in DOMAIN reviews : \E k \in DOMAIN reviews : Place(reviews, k) = n /\ Overview(reviews)[n] = reviews[k]
  BY PlacesAreRanks, OverviewAtPlace
<1>2. {Overview(reviews)[n] : n \in DOMAIN reviews} = {reviews[k] : k \in DOMAIN reviews}
  BY <1>1, PlacesAreRanks, OverviewAtPlace
<1>3. ASSUME NEW m \in DOMAIN reviews, NEW n \in DOMAIN reviews, m < n
      PROVE  WorseThan(Overview(reviews)[m], Overview(reviews)[n])
  <2>1. PICK j \in DOMAIN reviews : Place(reviews, j) = m /\ Overview(reviews)[m] = reviews[j]
    BY <1>1
  <2>2. PICK k \in DOMAIN reviews : Place(reviews, k) = n /\ Overview(reviews)[n] = reviews[k]
    BY <1>1
  <2>3. j # k /\ ~(n < m)
    BY <1>0, <1>3, <2>1, <2>2
  <2>4. WorseThan(reviews[j], reviews[k]) \/ WorseThan(reviews[k], reviews[j])
    BY <1>0, <2>3, WorseIsOrder DEF Distinct
  <2>5. ~WorseThan(reviews[k], reviews[j])
    BY <2>1, <2>2, <2>3, PlacesAreRanks
  <2> QED
    BY <2>1, <2>2, <2>4, <2>5
<1> QED
  BY <1>2, <1>3 DEF Overview

\* A reordering takes each place to a place of its own.
LEMMA OrderIsOneToOne ==
    ASSUME NEW D, NEW order \in Bijection(D, D)
    PROVE  /\ order \in [D -> D]
           /\ \A i, j \in D : order[i] = order[j] => i = j
           /\ \A j \in D : \E i \in D : order[i] = j
<1>1. order \in [D -> D] /\ \A i, j \in D : order[i] = order[j] => i = j
  BY Fun_BijectionProperties, Zenon
<1>2. \A j \in D : \E i \in D : order[i] = j
  BY DEF Bijection, Surjection
<1> QED
  BY <1>1, <1>2

\* Reordered rows are rows, with ids that differ.
LEMMA ReorderedRows ==
    ASSUME NEW reviews \in Seq(Row), Distinct(reviews),
           NEW order \in Bijection(DOMAIN reviews, DOMAIN reviews)
    PROVE  /\ Reordered(reviews, order) \in Seq(Row)
           /\ DOMAIN Reordered(reviews, order) = DOMAIN reviews
           /\ Distinct(Reordered(reviews, order))
<1>1. order \in [DOMAIN reviews -> DOMAIN reviews] /\ \A k, l \in DOMAIN reviews : order[k] = order[l] => k = l
  BY OrderIsOneToOne
<1>2. Reordered(reviews, order) \in Seq(Row)
  BY <1>1 DEF Reordered
<1> QED
  BY <1>1, <1>2 DEF Reordered, Distinct

\* A row keeps its place, wherever it was before.
LEMMA PlaceKept ==
    ASSUME NEW reviews \in Seq(Row), Distinct(reviews),
           NEW order \in Bijection(DOMAIN reviews, DOMAIN reviews), NEW k \in DOMAIN reviews
    PROVE  Place(Reordered(reviews, order), k) = Place(reviews, order[k])
<1> DEFINE other == Reordered(reviews, order)
           A     == InFrontOf(other, k)
           B     == InFrontOf(reviews, order[k])
           f     == [j \in A |-> order[j]]
<1>1. /\ order \in [DOMAIN reviews -> DOMAIN reviews]
      /\ \A i, j \in DOMAIN reviews : order[i] = order[j] => i = j
      /\ \A j \in DOMAIN reviews : \E i \in DOMAIN reviews : order[i] = j
  BY OrderIsOneToOne
<1>2. A = {j \in DOMAIN reviews : WorseThan(reviews[order[j]], reviews[order[k]])}
  <2>1. A = {j \in DOMAIN other : WorseThan(other[j], other[k])}
    BY ReorderedRows, InFrontIsWorse
  <2> QED
    BY <2>1 DEF Reordered
<1>3. B = {j \in DOMAIN reviews : WorseThan(reviews[j], reviews[order[k]])}
  BY <1>1, InFrontIsWorse
<1> HIDE DEF A, B
<1>4. f \in [A -> B]
  BY <1>1, <1>2, <1>3
<1>5. \A i, j \in A : f[i] = f[j] => i = j
  BY <1>1, <1>2
<1>6. \A j \in B : \E i \in A : f[i] = j
  BY <1>1, <1>2, <1>3
<1> HIDE DEF f
<1>7. ExistsBijection(A, B)
  <2>1. f \in Bijection(A, B)
    BY <1>4, <1>5, <1>6, Fun_IsBij
  <2> QED
    BY <2>1 DEF ExistsBijection
<1>8. IsFiniteSet(A)
  <2>1. IsFiniteSet(DOMAIN reviews)
    BY FS_Interval
  <2> QED
    BY <1>2, <2>1, FS_Subset
<1>9. Cardinality(A) = Cardinality(B)
  BY <1>7, <1>8, FS_Bijection
<1> QED
  BY <1>9 DEF Place, A, B

\* The overview does not depend on the order in which the rows came.
LEMMA OverviewKept ==
    ASSUME NEW reviews \in Seq(Row), Distinct(reviews),
           NEW order \in Bijection(DOMAIN reviews, DOMAIN reviews)
    PROVE  Overview(Reordered(reviews, order)) = Overview(reviews)
<1> DEFINE other == Reordered(reviews, order)
<1>1. other \in Seq(Row) /\ DOMAIN other = DOMAIN reviews /\ Distinct(other)
  BY ReorderedRows
<1>2. \A k \in DOMAIN reviews : order[k] \in DOMAIN reviews /\ other[k] = reviews[order[k]]
  BY DEF Bijection, Injection, Reordered
<1>3. ASSUME NEW n \in DOMAIN reviews PROVE Overview(other)[n] = Overview(reviews)[n]
  <2>1. PICK k \in DOMAIN reviews : Place(other, k) = n
    BY <1>1, PlacesAreRanks
  <2>2. Overview(other)[n] = other[k]
    BY <1>1, <2>1, OverviewAtPlace
  <2>3. Place(reviews, order[k]) = n
    BY <2>1, PlaceKept
  <2>4. Overview(reviews)[n] = reviews[order[k]]
    BY <1>2, <2>3, OverviewAtPlace
  <2> QED
    BY <1>2, <2>2, <2>4
<1> HIDE DEF other
<1>4. /\ Overview(other) = [n \in DOMAIN reviews |-> Overview(other)[n]]
      /\ Overview(reviews) = [n \in DOMAIN reviews |-> Overview(reviews)[n]]
  BY <1>1 DEF Overview
<1> QED
  BY <1>3, <1>4 DEF other

\* from_review finds the row it looks for.
LEMMA FindRowFinds ==
    ASSUME NEW reviews \in Seq(Row), Distinct(reviews), NEW k \in DOMAIN reviews
    PROVE  FindRow(reviews, reviews[k].id) = reviews[k]
<1>1. \A j \in DOMAIN reviews : j \in Int /\ (reviews[j].id = reviews[k].id => j = k)
  BY DEF Distinct
<1>2. (CHOOSE j \in DOMAIN reviews :
          reviews[j].id = reviews[k].id /\ \A i \in DOMAIN reviews : reviews[i].id = reviews[k].id => j <= i) = k
  BY <1>1
<1> QED
  BY <1>2 DEF FindRow

\* Looked up by its id, each row of the overview is found again, so the report is the
\* overview and its count.
LEMMA ReportOfOverview ==
    ASSUME NEW reviews \in Seq(Row), Distinct(reviews)
    PROVE  FromReview(reviews) =
             [hosts |-> Overview(reviews),
              reviewed |-> Cardinality({n \in DOMAIN Overview(reviews) : Reviewed(Overview(reviews)[n])})]
<1>1. \A n \in DOMAIN Overview(reviews) : FindRow(reviews, Overview(reviews)[n].id) = Overview(reviews)[n]
  <2>1. \A n \in DOMAIN reviews : \E k \in DOMAIN reviews : Overview(reviews)[n] = reviews[k]
    BY PlacesAreRanks, OverviewAtPlace
  <2> QED
    BY <2>1, FindRowFinds DEF Overview
<1>2. Overview(reviews) = [n \in DOMAIN Overview(reviews) |-> Overview(reviews)[n]]
  BY DEF Overview
<1>3. [n \in DOMAIN Overview(reviews) |-> FindRow(reviews, Overview(reviews)[n].id)] = Overview(reviews)
  BY <1>1, <1>2
<1> QED
  BY <1>3 DEF FromReview

\* The report of a fleet is the same in whatever order its hosts answered.
THEOREM ReportIsReproducible == Spec => []ReportReproducible
<1>1. IInv => ReportReproducible
  <2> SUFFICES ASSUME IInv, NEW order \in Bijection(DOMAIN rows, DOMAIN rows)
               PROVE  FromReview(Reordered(rows, order)) = FromReview(rows)
    BY DEF ReportReproducible
  <2>1. rows \in Seq(Row) /\ Distinct(rows)
    BY DEF IInv, TypeOK, RowsOfJoined, Distinct
  <2>2. Reordered(rows, order) \in Seq(Row) /\ Distinct(Reordered(rows, order))
    BY <2>1, ReorderedRows
  <2>3. Overview(Reordered(rows, order)) = Overview(rows)
    BY <2>1, OverviewKept
  <2> QED
    BY <2>1, <2>2, <2>3, ReportOfOverview
<1> QED
  BY <1>1, Invariant, PTL
================================================================================
