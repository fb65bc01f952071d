---------------------------- MODULE StateStoreProofs ----------------------------
(***************************************************************************)
(* Theorems about StateStore, for any number of sessions, hosts and days   *)
(* and any caps: samples stay in order, the cap on them never moves the    *)
(* baseline, a session changes only its own records, and what it shows and *)
(* counts is what is stored.                                               *)
(***************************************************************************)
EXTENDS StateStore, TLAPS, FiniteSetTheorems, SequenceTheorems, WellFoundedInduction

-------------------------------------------------------------------------------
(* Samples.  Days are distinct, so samples n places apart are n days apart *)
(* at least.                                                               *)

Spread(series) ==
    \A k, l \in DOMAIN series : k < l => series[l].day - series[k].day >= l - k

Until(series, day) == \A k \in DOMAIN series : series[k].day <= day

\* What Newest returns.
LEMMA NewestFacts ==
    ASSUME NEW S, NEW seq \in Seq(S), NEW n \in Nat
    PROVE  LET skip == IF Len(seq) > n THEN Len(seq) - n ELSE 0 IN
           /\ Newest(seq, n) \in Seq(S)
           /\ Len(Newest(seq, n)) = Len(seq) - skip
           /\ Len(Newest(seq, n)) <= n
           /\ \A k \in 1..(Len(seq) - skip) : Newest(seq, n)[k] = seq[skip + k]
<1>1. CASE Len(seq) > n
  BY <1>1 DEF Newest
<1>2. CASE ~(Len(seq) > n)
  BY <1>2 DEF Newest
<1> QED
  BY <1>1, <1>2

\* A sample taken no earlier than all others comes last and keeps their order.
LEMMA PutFacts ==
    ASSUME NEW series \in Seq(Snapshot), NEW snap \in Snapshot,
           Spread(series), Until(series, snap.day)
    PROVE  /\ Put(series, snap) \in Seq(Snapshot)
           /\ Spread(Put(series, snap)) /\ Until(Put(series, snap), snap.day)
           /\ Len(Put(series, snap)) >= 1
           /\ Put(series, snap)[Len(Put(series, snap))] = snap
           /\ series # <<>> /\ series[Len(series)].day = snap.day
                => /\ Len(Put(series, snap)) = Len(series)
                   /\ \A k \in 1..(Len(series) - 1) : Put(series, snap)[k] = series[k]
           /\ ~(series # <<>> /\ series[Len(series)].day = snap.day)
                => Put(series, snap) = Append(series, snap)
<1> DEFINE put == Put(series, snap)
<1>0. \A any \in Snapshot : any.day \in Int
  BY CapsAreNat DEF Snapshot
<1>1. \A k \in 1..Len(series) : series[k] \in Snapshot /\ series[k].day \in Int
  BY <1>0
<1>2. snap.day \in Int
  BY <1>0
<1>3. \A k \in 1..Len(series) : series[k].day = snap.day => k = Len(series)
  <2> SUFFICES ASSUME NEW k \in 1..Len(series), series[k].day = snap.day, k # Len(series)
               PROVE  FALSE
    OBVIOUS
  <2>1. k \in DOMAIN series /\ Len(series) \in DOMAIN series /\ k < Len(series)
    OBVIOUS
  <2>2. series[Len(series)].day - series[k].day >= Len(series) - k
    BY <2>1 DEF Spread
  <2>3. series[Len(series)].day =< snap.day
    BY <2>1 DEF Until
  <2>4. series[Len(series)].day \in Int /\ Len(series) - k > 0
    BY <1>1, <2>1
  <2> QED
    BY <1>2, <2>2, <2>3, <2>4
<1>4. CASE series # <<>> /\ series[Len(series)].day = snap.day
  <2>1. Len(series) \in 1..Len(series)
    BY <1>4
  <2>2. put = [k \in DOMAIN series |-> IF series[k].day = snap.day THEN snap ELSE series[k]]
    BY <1>4, <2>1 DEF Put
  <2>3. put = [k \in 1..Len(series) |-> IF k = Len(series) THEN snap ELSE series[k]]
    BY <1>3, <1>4, <2>2
  <2>4. put \in Seq(Snapshot) /\ Len(put) = Len(series)
    BY <2>3
  <2>5. \A k \in 1..Len(series) : put[k].day = series[k].day
    BY <1>4, <2>3
  <2>6. Spread(put) /\ Until(put, snap.day)
    BY <1>1, <1>2, <2>3, <2>4, <2>5 DEF Spread, Until
  <2> QED
    BY <1>4, <2>1, <2>3, <2>4, <2>6
<1>5. CASE ~(series # <<>> /\ series[Len(series)].day = snap.day)
  <2>1. ~\E k \in DOMAIN series : series[k].day = snap.day
    BY <1>3, <1>5
  <2>2. put = Append(series, snap)
    BY <2>1 DEF Put
  <2>3. /\ put \in Seq(Snapshot) /\ Len(put) = Len(series) + 1
        /\ put[Len(series) + 1] = snap
        /\ \A k \in 1..Len(series) : put[k] = series[k]
    BY <2>2
  <2>4. \A k \in 1..Len(series) : snap.day - series[k].day >= Len(series) + 1 - k
    <3>1. SUFFICES ASSUME NEW k \in 1..Len(series)
                   PROVE  snap.day - series[k].day >= Len(series) + 1 - k
      OBVIOUS
    <3>2. series[Len(series)].day < snap.day
      BY <1>1, <1>2, <1>3, <1>5, <3>1 DEF Until
    <3>3. CASE k = Len(series)
      BY <1>1, <1>2, <3>2, <3>3
    <3>4. CASE k < Len(series)
      <4>1. series[Len(series)].day - series[k].day >= Len(series) - k
        BY <3>1, <3>4 DEF Spread
      <4> QED
        BY <1>1, <1>2, <3>2, <4>1
    <3> QED
      BY <3>3, <3>4
  <2>5. Spread(put)
    <3>1. SUFFICES ASSUME NEW k \in DOMAIN put, NEW l \in DOMAIN put, k < l
                   PROVE  put[l].day - put[k].day >= l - k
      BY DEF Spread
    <3>2. CASE l = Len(series) + 1
      BY <2>3, <2>4, <3>1, <3>2
    <3>3. CASE l # Len(series) + 1
      BY <2>3, <3>1, <3>3 DEF Spread
    <3> QED
      BY <3>2, <3>3
  <2>6. Until(put, snap.day)
    BY <2>3, <1>2 DEF Until
  <2> QED
    BY <1>5, <2>2, <2>3, <2>5, <2>6
<1> QED
  BY <1>4, <1>5

\* Sequences that are long enough and agree on their last n entries.
LEMMA SameNewest ==
    ASSUME NEW S, NEW a \in Seq(S), NEW b \in Seq(S), NEW n \in Nat,
           Len(a) >= n, Len(b) >= n,
           \A k \in 1..n : a[Len(a) - n + k] = b[Len(b) - n + k]
    PROVE  Newest(a, n) = Newest(b, n)
<1>1. /\ Newest(a, n) \in Seq(S) /\ Len(Newest(a, n)) = n
      /\ \A k \in 1..n : Newest(a, n)[k] = a[Len(a) - n + k]
  BY NewestFacts
<1>2. /\ Newest(b, n) \in Seq(S) /\ Len(Newest(b, n)) = n
      /\ \A k \in 1..n : Newest(b, n)[k] = b[Len(b) - n + k]
  BY NewestFacts
<1>3. \A k \in 1..n : Newest(a, n)[k] = Newest(b, n)[k]
  BY <1>1, <1>2
<1> QED
  BY <1>1, <1>2, <1>3, SeqEqual

\* Capping the samples before a new one is put among them makes no difference after.
LEMMA NewestPut ==
    ASSUME NEW series \in Seq(Snapshot), NEW snap \in Snapshot,
           Spread(series), Until(series, snap.day)
    PROVE  Newest(Put(Newest(series, MaxSnapshots), snap), MaxSnapshots)
             = Newest(Put(series, snap), MaxSnapshots)
<1>0. MaxSnapshots \in Nat /\ MaxSnapshots >= 1
  BY CapsAreNat
<1>1. CASE Len(series) <= MaxSnapshots
  BY <1>0, <1>1 DEF Newest
<1>2. CASE Len(series) > MaxSnapshots
  <2> SUFFICES ASSUME NEW kept, kept = Newest(series, MaxSnapshots),
                      NEW M \in Nat, M = MaxSnapshots, NEW n \in Nat, n = Len(series)
               PROVE  Newest(Put(kept, snap), M) = Newest(Put(series, snap), M)
    BY <1>0
  <2>1. /\ kept \in Seq(Snapshot) /\ Len(kept) = M /\ M >= 1 /\ n > M
        /\ \A k \in 1..M : kept[k] = series[n - M + k]
    BY <1>0, <1>2, NewestFacts
  <2>2. \A any \in Snapshot : any.day \in Int
    BY CapsAreNat DEF Snapshot
  <2>3. \A k \in 1..n : series[k] \in Snapshot /\ series[k].day \in Int
    BY <2>2
  <2>4. \A k \in 1..M : n - M + k \in 1..n /\ kept[k].day = series[n - M + k].day
    BY <2>1
  <2>5. Spread(kept)
    <3>1. SUFFICES ASSUME NEW k \in 1..M, NEW l \in 1..M, k < l
                   PROVE  kept[l].day - kept[k].day >= l - k
      BY <2>1 DEF Spread
    <3>2. series[n - M + l].day - series[n - M + k].day >= (n - M + l) - (n - M + k)
      <4>1. /\ n - M + k \in DOMAIN series /\ n - M + l \in DOMAIN series
            /\ n - M + k < n - M + l
        BY <2>1, <2>4, <3>1
      <4> QED
        BY <4>1 DEF Spread
    <3> QED
      BY <2>1, <2>4, <3>2
  <2>6. Until(kept, snap.day)
    <3>1. \A k \in 1..n : series[k].day <= snap.day
      BY DEF Until
    <3>2. \A k \in 1..M : kept[k].day <= snap.day
      BY <2>4, <3>1
    <3>3. DOMAIN kept = 1..M
      BY <2>1
    <3> QED
      BY <3>2, <3>3 DEF Until
  <2>7. /\ Put(series, snap) \in Seq(Snapshot) /\ Put(kept, snap) \in Seq(Snapshot)
        /\ Put(series, snap)[Len(Put(series, snap))] = snap
        /\ Put(kept, snap)[Len(Put(kept, snap))] = snap
    BY <2>1, <2>5, <2>6, PutFacts
  <2>8. kept[M] = series[n] /\ series # <<>> /\ kept # <<>>
    BY <2>1
  <2>9. CASE series[n].day = snap.day
    <3>1. Len(Put(series, snap)) = n /\ \A k \in 1..(n - 1) : Put(series, snap)[k] = series[k]
      BY <2>8, <2>9, PutFacts
    <3>2. Len(Put(kept, snap)) = M /\ \A k \in 1..(M - 1) : Put(kept, snap)[k] = kept[k]
      <4>1. Len(kept) = M /\ kept # <<>> /\ kept[Len(kept)].day = snap.day
        BY <2>1, <2>8, <2>9
      <4>2. /\ Len(Put(kept, snap)) = Len(kept)
            /\ \A k \in 1..(Len(kept) - 1) : Put(kept, snap)[k] = kept[k]
        BY <4>1, <2>1, <2>5, <2>6, PutFacts
      <4> QED
        BY <2>1, <4>2
    <3>3. \A k \in 1..M : Put(kept, snap)[M - M + k] = Put(series, snap)[n - M + k]
      <4> SUFFICES ASSUME NEW k \in 1..M
                   PROVE  Put(kept, snap)[k] = Put(series, snap)[n - M + k]
        BY <2>1
      <4>1. CASE k = M
        BY <2>1, <2>7, <3>1, <3>2, <4>1
      <4>2. CASE k < M
        BY <2>1, <3>1, <3>2, <4>2
      <4> QED
        BY <4>1, <4>2
    <3>4. /\ Len(Put(kept, snap)) >= M /\ Len(Put(series, snap)) >= M
          /\ \A k \in 1..M : Put(kept, snap)[Len(Put(kept, snap)) - M + k]
                                = Put(series, snap)[Len(Put(series, snap)) - M + k]
      BY <2>1, <3>1, <3>2, <3>3
    <3> QED
      BY <2>7, <3>4, SameNewest
  <2>10. CASE series[n].day # snap.day
    <3>1. Put(series, snap) = Append(series, snap)
      BY <2>10, PutFacts
    <3>2. Put(kept, snap) = Append(kept, snap)
      <4>1. kept[Len(kept)].day # snap.day
        BY <2>1, <2>8, <2>10
      <4> QED
        BY <4>1, <2>1, <2>5, <2>6, PutFacts
    <3>3. /\ Len(Put(series, snap)) = n + 1 /\ Len(Put(kept, snap)) = M + 1
          /\ \A k \in 1..n : Put(series, snap)[k] = series[k]
          /\ \A k \in 1..M : Put(kept, snap)[k] = kept[k]
      BY <2>1, <3>1, <3>2
    <3>4. \A k \in 1..M : Put(kept, snap)[M + 1 - M + k] = Put(series, snap)[n + 1 - M + k]
      <4> SUFFICES ASSUME NEW k \in 1..M
                   PROVE  Put(kept, snap)[k + 1] = Put(series, snap)[n - M + (k + 1)]
        BY <2>1
      <4>1. CASE k = M
        BY <2>1, <2>7, <3>3, <4>1
      <4>2. CASE k < M
        BY <2>1, <3>3, <4>2
      <4> QED
        BY <4>1, <4>2
    <3>5. /\ Len(Put(kept, snap)) >= M /\ Len(Put(series, snap)) >= M
          /\ \A k \in 1..M : Put(kept, snap)[Len(Put(kept, snap)) - M + k]
                                = Put(series, snap)[Len(Put(series, snap)) - M + k]
      BY <2>1, <3>3, <3>4
    <3> QED
      BY <2>7, <3>5, SameNewest
  <2> QED
    BY <2>9, <2>10
<1> QED
  BY <1>0, <1>1, <1>2

-------------------------------------------------------------------------------
(* The baseline. *)

Far(series, day, k) == Distance(series[k].day, day - BaselineDays)
Past(series, day) == {k \in DOMAIN series : series[k].day < day}

\* The sample at k is the one Baseline looks for.
IsNearest(series, day, k) ==
    /\ k \in Past(series, day)
    /\ \A l \in Past(series, day) :
         \/ Far(series, day, k) < Far(series, day, l)
         \/ Far(series, day, k) = Far(series, day, l) /\ k <= l

\* A set of natural numbers has a least element.
LEMMA LeastExists ==
    ASSUME NEW S, S \subseteq Nat, S # {}
    PROVE  \E i \in S : \A k \in S : i <= k
<1>1. \E i \in S : \A k \in S : <<k, i>> \notin OpToRel(<, Nat)
  BY NatLessThanWellFounded, WFMin, Zenon
<1>2. \A i, k \in Nat : k < i => <<k, i>> \in OpToRel(<, Nat)
  BY Zenon DEF OpToRel
<1>3. \E i \in S : \A k \in S : ~ (k < i)
  BY <1>1, <1>2, Zenon
<1> QED
  BY <1>3

\* The day of a sample is a number.
LEMMA DayIsInt == \A snap \in Snapshot : snap.day \in Int
  BY CapsAreNat DEF Snapshot

\* So is its distance from the day looked for.
LEMMA FarIsNat ==
    ASSUME NEW series \in Seq(Snapshot), NEW day \in Int, NEW k \in DOMAIN series
    PROVE  Far(series, day, k) \in Nat
<1>1. series[k].day \in Int
  BY DayIsInt
<1>2. BaselineDays \in Nat
  BY CapsAreNat
<1> QED
  BY <1>1, <1>2 DEF Far, Distance

\* With a sample before the day there is a nearest one.
LEMMA NearestExists ==
    ASSUME NEW series \in Seq(Snapshot), NEW day \in Int, Past(series, day) # {}
    PROVE  \E k \in Past(series, day) : IsNearest(series, day, k)
<1> DEFINE P == Past(series, day)
<1>1. P \subseteq DOMAIN series /\ P \subseteq Nat
  BY DEF Past
<1>2. \A k \in P : Far(series, day, k) \in Nat
  BY <1>1, FarIsNat
<1>3. PICK m \in {Far(series, day, k) : k \in P} :
                \A f \in {Far(series, day, k) : k \in P} : m <= f
  <2>1. {Far(series, day, k) : k \in P} \subseteq Nat
    BY <1>2
  <2>2. {Far(series, day, k) : k \in P} # {}
    OBVIOUS
  <2> QED
    BY <2>1, <2>2, LeastExists
<1>4. PICK k \in {j \in P : Far(series, day, j) = m} :
                \A l \in {j \in P : Far(series, day, j) = m} : k <= l
  <2>1. {j \in P : Far(series, day, j) = m} # {}
    BY <1>3
  <2> QED
    BY <1>1, <2>1, LeastExists
<1>5. \A l \in P : \/ Far(series, day, k) < Far(series, day, l)
                   \/ Far(series, day, k) = Far(series, day, l) /\ k <= l
  <2> TAKE l \in P
  <2>1. m <= Far(series, day, l) /\ m \in Nat /\ Far(series, day, l) \in Nat
    BY <1>2, <1>3
  <2>2. CASE Far(series, day, l) = m
    BY <1>4, <2>2
  <2>3. CASE Far(series, day, l) # m
    BY <1>4, <2>1, <2>3
  <2> QED
    BY <2>2, <2>3
<1> QED
  BY <1>4, <1>5 DEF IsNearest

\* baseline_snapshot returns the nearest sample, the first of two that are equally near.
LEMMA NearestIsBaseline ==
    ASSUME NEW series \in Seq(Snapshot), NEW day \in Int, NEW k, IsNearest(series, day, k)
    PROVE  Baseline(series, day) = series[k]
<1> DEFINE Best(j) == \A l \in Past(series, day) :
                         \/ Far(series, day, j) < Far(series, day, l)
                         \/ Far(series, day, j) = Far(series, day, l) /\ j <= l
<1>1. Past(series, day) # {} /\ k \in Past(series, day) /\ Best(k)
  BY DEF IsNearest
<1>2. ASSUME NEW j \in Past(series, day), Best(j) PROVE j = k
  <2>1. j \in Nat /\ k \in Nat
    BY <1>1 DEF Past
  <2>2. Far(series, day, j) \in Nat /\ Far(series, day, k) \in Nat
    BY <1>1, FarIsNat DEF Past
  <2> QED
    BY <1>1, <1>2, <2>1, <2>2
<1>3. (CHOOSE j \in Past(series, day) : Best(j)) = k
  BY <1>1, <1>2
<1>4. Baseline(series, day) = series[CHOOSE j \in Past(series, day) : Best(j)]
  BY <1>1 DEF Baseline, Past, Far
<1> QED
  BY <1>3, <1>4

\* The cap keeps the sample that is the baseline of the last day.
LEMMA CapKeepsBaseline ==
    ASSUME NEW series \in Seq(Snapshot), series # <<>>, Spread(series)
    PROVE  Baseline(Newest(series, MaxSnapshots), series[Len(series)].day)
             = Baseline(series, series[Len(series)].day)
<1>0. MaxSnapshots \in Nat /\ BaselineDays \in Nat /\ BaselineDays >= 1
      /\ MaxSnapshots >= BaselineDays + 1
  BY CapsAreNat
<1>1. CASE Len(series) <= MaxSnapshots
  BY <1>0, <1>1 DEF Newest
<1>2. CASE Len(series) > MaxSnapshots
  <2> SUFFICES ASSUME NEW kept, kept = Newest(series, MaxSnapshots),
                      NEW M \in Nat, M = MaxSnapshots, NEW n \in Nat, n = Len(series),
                      NEW skip \in Nat, skip = n - M,
                      NEW day, day = series[n].day
               PROVE  Baseline(kept, day) = Baseline(series, day)
    BY <1>0, <1>2
  <2>1. /\ kept \in Seq(Snapshot) /\ Len(kept) = M /\ M >= 2 /\ n = skip + M /\ skip >= 1
        /\ \A k \in 1..M : kept[k] = series[skip + k]
    <3>1. n > M /\ M >= 2 /\ n - (n - M) = M
      BY <1>0, <1>2
    <3>2. /\ kept \in Seq(Snapshot) /\ Len(kept) = n - (n - M)
          /\ \A k \in 1..(n - (n - M)) : kept[k] = series[(n - M) + k]
      BY <3>1, NewestFacts
    <3> QED
      BY <3>1, <3>2
  <2>2. \A k \in 1..n : series[k] \in Snapshot /\ series[k].day \in Int
    BY DayIsInt
  <2>3. day \in Int
    BY <2>1, <2>2
  <2>4. \A k \in 1..n : k < n => day - series[k].day >= n - k
    <3> TAKE k \in 1..n
    <3>1. k \in DOMAIN series /\ n \in DOMAIN series
      BY <2>1
    <3> QED
      BY <3>1 DEF Spread
  <2>5. \A k \in 1..M : /\ skip + k \in 1..n
                        /\ Far(kept, day, k) = Far(series, day, skip + k)
                        /\ k \in Past(kept, day) <=> skip + k \in Past(series, day)
    BY <2>1 DEF Far, Past
  <2>6. 1 \in Past(kept, day)
    <3>0. skip + 1 \in 1..n /\ skip + 1 < n /\ n - (skip + 1) = M - 1 /\ 1 \in 1..M
      BY <2>1
    <3>1. day - series[skip + 1].day >= M - 1
      <4>1. day - series[skip + 1].day >= n - (skip + 1)
        BY <2>4, <3>0
      <4> QED
        BY <3>0, <4>1
    <3>2. series[skip + 1].day < day
      <4>1. series[skip + 1].day \in Int
        BY <2>1, <2>2
      <4> QED
        BY <2>1, <2>3, <3>1, <4>1
    <3>3. skip + 1 \in Past(series, day)
      <4>1. skip + 1 \in DOMAIN series
        BY <3>0
      <4> QED
        BY <3>2, <4>1 DEF Past
    <3> QED
      BY <2>5, <3>0, <3>3
  <2>7. PICK k \in Past(kept, day) : IsNearest(kept, day, k)
    BY <2>1, <2>3, <2>6, NearestExists
  <2>8. k \in 1..M
    BY <2>1, <2>7 DEF Past
  <2>9. IsNearest(series, day, skip + k)
    <3>1. skip + k \in Past(series, day)
      BY <2>5, <2>7, <2>8
    <3>2. ASSUME NEW l \in Past(series, day)
          PROVE  \/ Far(series, day, skip + k) < Far(series, day, l)
                 \/ Far(series, day, skip + k) = Far(series, day, l) /\ skip + k <= l
      <4>1. l \in 1..n
        BY DEF Past
      <4>2. CASE l > skip
        <5>1. l - skip \in 1..M /\ skip + (l - skip) = l
          BY <2>1, <4>1, <4>2
        <5>2. l - skip \in Past(kept, day) /\ Far(kept, day, l - skip) = Far(series, day, l)
          BY <2>5, <5>1
        <5>3. \/ Far(kept, day, k) < Far(kept, day, l - skip)
              \/ Far(kept, day, k) = Far(kept, day, l - skip) /\ k <= l - skip
          BY <2>7, <5>2 DEF IsNearest
        <5> QED
          BY <2>5, <2>8, <4>1, <5>1, <5>2, <5>3
      <4>3. CASE l <= skip
        <5>1. \/ Far(kept, day, k) < Far(kept, day, 1)
              \/ Far(kept, day, k) = Far(kept, day, 1)
          BY <2>6, <2>7 DEF IsNearest
        <5>2. 1 \in 1..M /\ skip + 1 \in 1..n /\ l < skip + 1 /\ l < n /\ skip + 1 < n
          BY <2>1, <4>1, <4>3
        <5>3. series[skip + 1].day - series[l].day >= 1
          <6>1. /\ l \in DOMAIN series /\ skip + 1 \in DOMAIN series
                /\ series[skip + 1].day \in Int /\ series[l].day \in Int
            BY <2>2, <4>1, <5>2
          <6>2. series[skip + 1].day - series[l].day >= (skip + 1) - l
            BY <5>2, <6>1 DEF Spread
          <6> QED
            BY <4>1, <5>2, <6>1, <6>2
        <5>4. day - series[skip + 1].day >= M - 1
          BY <2>1, <2>4, <5>2
        <5>5. day - BaselineDays >= series[skip + 1].day
          BY <1>0, <2>2, <2>3, <5>2, <5>4
        <5>6. /\ Far(series, day, skip + 1) = day - BaselineDays - series[skip + 1].day
              /\ Far(series, day, l) = day - BaselineDays - series[l].day
          <6>1. series[skip + 1].day \in Int /\ series[l].day \in Int
            BY <2>2, <4>1, <5>2
          <6>2. ~(series[skip + 1].day > day - BaselineDays) /\ ~(series[l].day > day - BaselineDays)
            BY <1>0, <2>3, <5>3, <5>5, <6>1
          <6> QED
            BY <6>2 DEF Far, Distance
        <5>7. Far(series, day, skip + 1) < Far(series, day, l)
          <6>1. series[skip + 1].day \in Int /\ series[l].day \in Int
            BY <2>2, <4>1, <5>2
          <6> QED
            BY <1>0, <2>3, <5>3, <5>6, <6>1
        <5>8. /\ Far(series, day, skip + k) \in Nat /\ Far(series, day, l) \in Nat
              /\ Far(series, day, skip + 1) \in Nat
          <6>1. /\ skip + k \in DOMAIN series /\ l \in DOMAIN series
                /\ skip + 1 \in DOMAIN series
            BY <2>1, <2>8, <4>1, <5>2
          <6> QED
            BY <2>3, <6>1, FarIsNat
        <5>9. /\ Far(kept, day, k) = Far(series, day, skip + k)
              /\ Far(kept, day, 1) = Far(series, day, skip + 1)
          BY <2>5, <2>8, <5>2
        <5> QED
          BY <5>1, <5>7, <5>8, <5>9
      <4> QED
        BY <4>1, <4>2, <4>3
    <3> QED
      BY <3>1, <3>2 DEF IsNearest
  <2>10. Baseline(kept, day) = kept[k] /\ Baseline(series, day) = series[skip + k]
    BY <2>1, <2>3, <2>7, <2>9, NearestIsBaseline
  <2> QED
    BY <2>1, <2>8, <2>10
<1> QED
  BY <1>0, <1>1, <1>2

-------------------------------------------------------------------------------
(* Documents. *)

Distinct(queries) == \A k, l \in DOMAIN queries : queries[k] = queries[l] => k = l

SoundDoc(doc) ==
    /\ doc \in Document
    /\ \A h \in Hosts : /\ Spread(doc.ever[h])
                        /\ doc.snapshots[h] = Newest(doc.ever[h], MaxSnapshots)
                        /\ Len(doc.notes[h]) <= MaxNotes
    /\ Len(doc.searches) <= MaxSearches /\ Distinct(doc.searches)

DocUntil(doc, day) == \A h \in Hosts : Until(doc.ever[h], day)

\* The default document is sound.
LEMMA DefaultSound == SoundDoc(Default) /\ \A day : DocUntil(Default, day)
<1>1. Default \in Document
  BY OpenIsStatus DEF Default, Document
<1>2. Newest(<<>>, MaxSnapshots) = <<>>
  BY CapsAreNat DEF Newest
<1>3. \A h \in Hosts : /\ Default.ever[h] = <<>> /\ Default.snapshots[h] = <<>>
                       /\ Default.notes[h] = <<>>
  BY DEF Default
<1>4. Default.searches = <<>>
  BY DEF Default
<1>5. \A day : Spread(<<>>) /\ Until(<<>>, day) /\ Distinct(<<>>) /\ Len(<<>>) = 0
  BY DEF Spread, Until, Distinct
<1>6. MaxNotes \in Nat /\ MaxSearches \in Nat
  BY CapsAreNat
<1> QED
  BY <1>1, <1>2, <1>3, <1>4, <1>5, <1>6 DEF SoundDoc, DocUntil

\* record_snapshot keeps a document sound and the samples of other hosts as they are.
LEMMA SnapshotSound ==
    ASSUME NEW doc, SoundDoc(doc), NEW h \in Hosts, NEW snap \in Snapshot,
           Until(doc.ever[h], snap.day)
    PROVE  LET new == RecordSnapshot(doc, h, snap) IN
           /\ SoundDoc(new)
           /\ Until(new.ever[h], snap.day)
           /\ \A g \in Hosts \ {h} : /\ new.ever[g] = doc.ever[g]
                                     /\ new.snapshots[g] = doc.snapshots[g]
           /\ new.notes = doc.notes /\ new.searches = doc.searches /\ new.states = doc.states
           /\ new.snapshots[h][Len(new.snapshots[h])] = snap
<1> DEFINE new == RecordSnapshot(doc, h, snap)
           all == Put(doc.ever[h], snap)
<1>1. doc \in Document /\ doc.ever[h] \in Seq(Snapshot) /\ Spread(doc.ever[h])
  BY DEF SoundDoc, Document
<1>2. /\ all \in Seq(Snapshot) /\ Spread(all) /\ Until(all, snap.day)
      /\ Len(all) >= 1 /\ all[Len(all)] = snap
  BY <1>1, PutFacts
<1>3. Newest(Put(doc.snapshots[h], snap), MaxSnapshots) = Newest(all, MaxSnapshots)
  BY <1>1, NewestPut DEF SoundDoc
<1>4. MaxSnapshots \in Nat /\ MaxSnapshots >= 1
  BY CapsAreNat
<1>5. /\ Newest(all, MaxSnapshots) \in Seq(Snapshot)
      /\ Newest(all, MaxSnapshots)[Len(Newest(all, MaxSnapshots))] = snap
  <2>1. CASE Len(all) > MaxSnapshots
    <3>1. /\ Newest(all, MaxSnapshots) \in Seq(Snapshot)
          /\ Len(Newest(all, MaxSnapshots)) = MaxSnapshots
          /\ \A k \in 1..MaxSnapshots :
               Newest(all, MaxSnapshots)[k] = all[Len(all) - MaxSnapshots + k]
      <4>1. Len(all) - (Len(all) - MaxSnapshots) = MaxSnapshots
        BY <1>2, <1>4, <2>1
      <4> HIDE DEF all
      <4> QED
        BY <1>2, <1>4, <2>1, <4>1, NewestFacts
    <3>2. Len(all) - MaxSnapshots + MaxSnapshots = Len(all) /\ MaxSnapshots \in 1..MaxSnapshots
      BY <1>2, <1>4
    <3> QED
      BY <1>2, <3>1, <3>2
  <2>2. CASE ~(Len(all) > MaxSnapshots)
    BY <1>2, <2>2 DEF Newest
  <2> QED
    BY <2>1, <2>2
<1>6. new = [doc EXCEPT !.snapshots[h] = Newest(all, MaxSnapshots), !.ever[h] = all]
  BY <1>1, <1>3 DEF RecordSnapshot
<1> HIDE DEF all, new
<1>7. /\ new.ever = [doc.ever EXCEPT ![h] = all]
      /\ new.snapshots = [doc.snapshots EXCEPT ![h] = Newest(all, MaxSnapshots)]
      /\ new.notes = doc.notes /\ new.searches = doc.searches /\ new.states = doc.states
  BY <1>1, <1>6 DEF Document
<1>8. new \in Document
  BY <1>1, <1>2, <1>5, <1>6 DEF Document
<1>9. /\ new.ever[h] = all /\ new.snapshots[h] = Newest(all, MaxSnapshots)
      /\ \A g \in Hosts \ {h} : /\ new.ever[g] = doc.ever[g]
                                /\ new.snapshots[g] = doc.snapshots[g]
  BY <1>1, <1>7 DEF Document
<1>10. SoundDoc(new)
  BY <1>2, <1>7, <1>8, <1>9 DEF SoundDoc
<1> QED
  BY <1>2, <1>5, <1>7, <1>9, <1>10 DEF new

\* add_note changes the notes of its host and nothing else.
LEMMA NoteSound ==
    ASSUME NEW doc, SoundDoc(doc), NEW h \in Hosts, NEW note \in Notes
    PROVE  LET new == AddNote(doc, h, note) IN
           /\ SoundDoc(new)
           /\ new.ever = doc.ever /\ new.snapshots = doc.snapshots
           /\ new.searches = doc.searches /\ new.states = doc.states
           /\ \A g \in Hosts \ {h} : new.notes[g] = doc.notes[g]
<1> DEFINE new == AddNote(doc, h, note)
<1>1. doc \in Document /\ doc.notes[h] \in Seq(Notes)
  BY DEF SoundDoc, Document
<1>2. Append(doc.notes[h], note) \in Seq(Notes) /\ MaxNotes \in Nat
  BY <1>1, CapsAreNat
<1>3. PICK all \in Seq(Notes) : all = Newest(Append(doc.notes[h], note), MaxNotes)
                                /\ Len(all) <= MaxNotes
  BY <1>2, NewestFacts
<1>4. new = [doc EXCEPT !.notes[h] = all]
  BY <1>1, <1>3 DEF AddNote
<1> HIDE DEF new
<1>5. /\ new.ever = doc.ever /\ new.snapshots = doc.snapshots
      /\ new.searches = doc.searches /\ new.states = doc.states
      /\ new.notes = [doc.notes EXCEPT ![h] = all]
      /\ new \in Document
  BY <1>1, <1>3, <1>4 DEF Document
<1>6. new.notes[h] = all /\ \A g \in Hosts \ {h} : new.notes[g] = doc.notes[g]
  BY <1>1, <1>5 DEF Document
<1>7. SoundDoc(new)
  BY <1>3, <1>5, <1>6 DEF SoundDoc
<1> QED
  BY <1>5, <1>6, <1>7 DEF new

\* Without its entry the list of searches has no other that is the same.
LEMMA WithoutFacts ==
    ASSUME NEW queries \in Seq(Queries), NEW query \in Queries, Distinct(queries)
    PROVE  /\ Without(queries, query) \in Seq(Queries)
           /\ Distinct(Without(queries, query))
           /\ \A k \in DOMAIN Without(queries, query) : Without(queries, query)[k] # query
<1>1. CASE ~\E k \in DOMAIN queries : queries[k] = query
  BY <1>1 DEF Without
<1>2. CASE \E k \in DOMAIN queries : queries[k] = query
  <2>1. PICK at \in 1..Len(queries) :
               at = CHOOSE k \in DOMAIN queries : queries[k] = query
    BY <1>2
  <2>2. queries[at] = query
    BY <1>2, <2>1
  <2> DEFINE n     == Len(queries)
             front == SubSeq(queries, 1, at - 1)
             rest  == SubSeq(queries, at + 1, n)
             both  == front \o rest
             Of(k) == IF k < at THEN k ELSE k + 1
  <2>3. Without(queries, query) = both
    BY <1>2, <2>1 DEF Without
  <2>4. n \in Nat /\ at \in Nat /\ 1 <= at /\ at <= n /\ \A k \in 1..n : queries[k] \in Queries
    BY <2>1
  <2>5. /\ front \in Seq(Queries) /\ Len(front) = at - 1
        /\ \A k \in 1..(at - 1) : front[k] = queries[k]
    <3>1. 1 \in Int /\ at - 1 \in Int /\ \A k \in 1..(at - 1) : queries[k] \in Queries
      BY <2>4
    <3>2. /\ front \in Seq(Queries)
          /\ Len(front) = IF 1 <= at - 1 THEN (at - 1) - 1 + 1 ELSE 0
          /\ \A k \in 1..((at - 1) - 1 + 1) : front[k] = queries[1 + k - 1]
      BY <3>1, SubSeqProperties
    <3> HIDE DEF front
    <3> QED
      BY <2>4, <3>2
  <2>6. /\ rest \in Seq(Queries) /\ Len(rest) = n - at
        /\ \A k \in 1..(n - at) : rest[k] = queries[at + k]
    <3>1. at + 1 \in Int /\ n \in Int /\ \A k \in (at + 1)..n : queries[k] \in Queries
      BY <2>4
    <3>2. /\ rest \in Seq(Queries)
          /\ Len(rest) = IF at + 1 <= n THEN n - (at + 1) + 1 ELSE 0
          /\ \A k \in 1..(n - (at + 1) + 1) : rest[k] = queries[(at + 1) + k - 1]
      BY <3>1, SubSeqProperties
    <3> HIDE DEF rest, n
    <3> QED
      BY <2>4, <3>2
  <2> HIDE DEF front, rest, n
  <2>7. /\ both \in Seq(Queries) /\ Len(both) = Len(front) + Len(rest)
        /\ \A k \in 1..(Len(front) + Len(rest)) :
             both[k] = IF k <= Len(front) THEN front[k] ELSE rest[k - Len(front)]
    BY <2>5, <2>6, ConcatProperties
  <2> HIDE DEF both
  <2>8. Len(both) = n - 1 /\ \A k \in 1..(n - 1) : both[k] = queries[Of(k)]
    <3>1. (at - 1) + (n - at) = n - 1
      BY <2>4
    <3>2. ASSUME NEW k \in 1..(n - 1), k < at PROVE both[k] = queries[k]
      BY <2>4, <2>5, <2>6, <2>7, <3>2
    <3>3. ASSUME NEW k \in 1..(n - 1), ~(k < at) PROVE both[k] = queries[k + 1]
      <4>1. k - (at - 1) \in 1..(n - at) /\ at + (k - (at - 1)) = k + 1 /\ ~(k <= at - 1)
        BY <2>4, <3>3
      <4>2. both[k] = rest[k - (at - 1)]
        BY <2>4, <2>5, <2>6, <2>7, <3>1, <3>3, <4>1
      <4> QED
        BY <2>6, <4>1, <4>2
    <3> QED
      BY <2>5, <2>6, <2>7, <3>1, <3>2, <3>3
  <2>9. \A k \in 1..(n - 1) : Of(k) \in 1..n /\ Of(k) # at
    BY <2>4
  <2>10. \A k, l \in 1..(n - 1) : Of(k) = Of(l) => k = l
    BY <2>4
  <2> HIDE DEF Of
  <2>11. DOMAIN both = 1..(n - 1) /\ DOMAIN queries = 1..n
    BY <2>7, <2>8 DEF n
  <2>12. Distinct(both)
    BY <2>8, <2>9, <2>10, <2>11 DEF Distinct
  <2>13. \A k \in DOMAIN both : both[k] # query
    BY <2>1, <2>2, <2>8, <2>9, <2>11 DEF Distinct
  <2> QED
    BY <2>3, <2>7, <2>12, <2>13
<1> QED
  BY <1>1, <1>2

\* add_saved_search changes the searches and nothing else.
LEMMA SearchSound ==
    ASSUME NEW doc, SoundDoc(doc), NEW query \in Queries
    PROVE  LET new == AddSearch(doc, query) IN
           /\ SoundDoc(new)
           /\ new.ever = doc.ever /\ new.snapshots = doc.snapshots
           /\ new.notes = doc.notes /\ new.states = doc.states
<1> DEFINE new == AddSearch(doc, query)
           all == <<query>> \o Without(doc.searches, query)
           n   == IF Len(all) > MaxSearches THEN MaxSearches ELSE Len(all)
           kept == SubSeq(all, 1, n)
<1>1. doc \in Document /\ doc.searches \in Seq(Queries) /\ Distinct(doc.searches)
  BY DEF SoundDoc, Document
<1>2. PICK others \in Seq(Queries) : /\ others = Without(doc.searches, query)
                                     /\ Distinct(others)
                                     /\ \A k \in DOMAIN others : others[k] # query
  BY <1>1, WithoutFacts
<1>3. /\ all \in Seq(Queries) /\ Len(all) = Len(others) + 1 /\ all[1] = query
      /\ \A k \in 1..Len(others) : all[k + 1] = others[k]
  BY <1>2
<1>4. Distinct(all)
  <2>1. SUFFICES ASSUME NEW k \in 1..Len(all), NEW l \in 1..Len(all), all[k] = all[l]
                 PROVE  k = l
    BY <1>3 DEF Distinct
  <2>2. \A j \in 1..Len(all) : j # 1 => j - 1 \in 1..Len(others) /\ all[j] = others[j - 1]
    <3> TAKE j \in 1..Len(all)
    <3>1. CASE j # 1
      <4>1. j - 1 \in 1..Len(others) /\ (j - 1) + 1 = j
        BY <1>3, <3>1
      <4> QED
        BY <1>3, <4>1
    <3> QED
      BY <3>1
  <2> QED
    BY <1>2, <1>3, <2>1, <2>2 DEF Distinct
<1> HIDE DEF all
<1>5. n \in 0..Len(all) /\ n <= MaxSearches
  BY <1>3, CapsAreNat
<1> HIDE DEF n
<1>6. /\ kept \in Seq(Queries) /\ Len(kept) = n
      /\ \A k \in 1..n : kept[k] = all[k]
  BY <1>3, <1>5
<1>7. new = [doc EXCEPT !.searches = kept]
  BY DEF AddSearch, all, n
<1> HIDE DEF new, kept
<1>8. Distinct(kept) /\ Len(kept) <= MaxSearches
  BY <1>3, <1>4, <1>5, <1>6 DEF Distinct
<1>9. /\ new.ever = doc.ever /\ new.snapshots = doc.snapshots
      /\ new.searches = kept /\ new.states = doc.states /\ new.notes = doc.notes
      /\ new \in Document
  BY <1>1, <1>6, <1>7 DEF Document
<1>10. SoundDoc(new)
  BY <1>8, <1>9 DEF SoundDoc
<1> QED
  BY <1>9, <1>10 DEF new

\* set_finding_status changes the states of its host and nothing else.
LEMMA StatusSound ==
    ASSUME NEW doc, SoundDoc(doc), NEW h \in Hosts, NEW id \in Ids, NEW status \in Statuses
    PROVE  LET new == SetFindingStatus(doc, h, id, status) IN
           /\ SoundDoc(new)
           /\ new.ever = doc.ever /\ new.snapshots = doc.snapshots
           /\ new.notes = doc.notes /\ new.searches = doc.searches
           /\ \A g \in Hosts \ {h} : new.states[g] = doc.states[g]
           /\ new.states[h][id] = status
           /\ \A i \in Ids \ {id} : new.states[h][i] = doc.states[h][i]
<1> DEFINE new == SetFindingStatus(doc, h, id, status)
<1>1. doc \in Document
  BY DEF SoundDoc
<1>2. new = [doc EXCEPT !.states[h][id] = status]
  BY DEF SetFindingStatus
<1> HIDE DEF new
<1>3. /\ new.ever = doc.ever /\ new.snapshots = doc.snapshots
      /\ new.notes = doc.notes /\ new.searches = doc.searches
      /\ new.states = [doc.states EXCEPT ![h][id] = status]
      /\ new \in Document
  BY <1>1, <1>2 DEF Document
<1>4. /\ \A g \in Hosts \ {h} : new.states[g] = doc.states[g]
      /\ new.states[h][id] = status
      /\ \A i \in Ids \ {id} : new.states[h][i] = doc.states[h][i]
  BY <1>1, <1>3 DEF Document
<1>5. SoundDoc(new)
  BY <1>3 DEF SoundDoc
<1> QED
  BY <1>3, <1>4, <1>5 DEF new

-------------------------------------------------------------------------------
(* What the Security tab shows. *)

IsOnly(list, k) == \A l \in DOMAIN list : list[l].id = list[k].id => l = k

Agrees(list, doc, h) ==
    \A k \in DOMAIN list : IsOnly(list, k) => list[k].status = doc.states[h][list[k].id]

\* Applying the stored states makes the list agree with them, if what the document
\* holds no override for is open already.
LEMMA AppliedAgrees ==
    ASSUME NEW doc \in Document, NEW h \in Hosts, NEW list \in Seq(Finding),
           \A k \in DOMAIN list :
              IsOnly(list, k) /\ doc.states[h][list[k].id] = Open => list[k].status = Open
    PROVE  LET new == ApplyFindingStates(doc, h, list) IN
           /\ new \in Seq(Finding) /\ DOMAIN new = DOMAIN list
           /\ \A k \in DOMAIN list :
                /\ new[k].id = list[k].id
                /\ list[k].status = Open => new[k].status = doc.states[h][list[k].id]
           /\ Agrees(new, doc, h)
<1> DEFINE new == ApplyFindingStates(doc, h, list)
<1>1. \A k \in DOMAIN list : /\ list[k].id \in Ids /\ list[k].status \in Statuses
                             /\ list[k] \in Finding
  <2>1. \A k \in DOMAIN list : list[k] \in Finding
    OBVIOUS
  <2> QED
    BY <2>1 DEF Finding
<1>2. \A i \in Ids : doc.states[h][i] \in Statuses
  BY DEF Document
<1>3. DOMAIN new = DOMAIN list
  BY DEF ApplyFindingStates
<1>4. ASSUME NEW k \in DOMAIN list
      PROVE  /\ new[k] \in Finding /\ new[k].id = list[k].id
             /\ new[k].status = IF doc.states[h][list[k].id] # Open
                                THEN doc.states[h][list[k].id] ELSE list[k].status
  <2>1. new[k] = IF doc.states[h][list[k].id] # Open
                 THEN [list[k] EXCEPT !.status = doc.states[h][list[k].id]] ELSE list[k]
    BY DEF ApplyFindingStates
  <2> QED
    BY <1>1, <1>2, <2>1 DEF Finding
<1> HIDE DEF new
<1>5. new \in Seq(Finding)
  <2>1. DOMAIN list = 1..Len(list) /\ Len(list) \in Nat
    OBVIOUS
  <2>2. new = [k \in 1..Len(list) |-> new[k]]
    BY <2>1 DEF new, ApplyFindingStates
  <2>3. \A k \in 1..Len(list) : new[k] \in Finding
    BY <1>4, <2>1
  <2>4. new \in [1..Len(list) -> Finding]
    BY <2>2, <2>3
  <2> QED
    BY <2>1, <2>4
<1>6. Agrees(new, doc, h)
  BY <1>3, <1>4 DEF Agrees, IsOnly
<1> QED
  BY <1>3, <1>4, <1>5, <1>6 DEF new

\* Marking the first finding of an id changes no id, no finding of another id, and
\* the finding itself if it is the only one.
LEMMA MarkFacts ==
    ASSUME NEW list \in Seq(Finding), NEW at \in DOMAIN list, NEW status \in Statuses
    PROVE  LET new == MarkFirst(list, list[at].id, status) IN
           /\ new \in Seq(Finding) /\ DOMAIN new = DOMAIN list
           /\ \A k \in DOMAIN list : new[k].id = list[k].id
           /\ \A k \in DOMAIN list : list[k].id # list[at].id => new[k] = list[k]
           /\ IsOnly(list, at) => new[at].status = status
<1> DEFINE id    == list[at].id
           Is(k) == list[k].id = id /\ \A l \in 1..(k - 1) : list[l].id # id
           first == CHOOSE k \in DOMAIN list : Is(k)
           new   == MarkFirst(list, id, status)
<1>1. \E k \in DOMAIN list : Is(k)
  <2>1. PICK k \in {j \in DOMAIN list : list[j].id = id} :
                \A l \in {j \in DOMAIN list : list[j].id = id} : k <= l
    <3>1. {j \in DOMAIN list : list[j].id = id} # {}
      OBVIOUS
    <3>2. {j \in DOMAIN list : list[j].id = id} \subseteq Nat
      OBVIOUS
    <3> QED
      BY <3>1, <3>2, LeastExists
  <2>2. ASSUME NEW l \in 1..(k - 1), list[l].id = id PROVE FALSE
    <3>1. l \in DOMAIN list /\ l < k
      BY <2>1
    <3> QED
      BY <2>1, <2>2, <3>1
  <2> QED
    BY <2>1, <2>2
<1>2. first \in DOMAIN list /\ Is(first)
  BY <1>1
<1> HIDE DEF first
<1>3. new = [list EXCEPT ![first].status = status]
  BY DEF MarkFirst, first
<1>4. /\ [list[first] EXCEPT !.status = status] \in Finding
      /\ [list[first] EXCEPT !.status = status].id = id
      /\ [list[first] EXCEPT !.status = status].status = status
  <2>1. list[first] \in Finding /\ list[first].id = id
    BY <1>2
  <2> QED
    BY <2>1 DEF Finding
<1>5. new \in Seq(Finding) /\ DOMAIN new = DOMAIN list
  BY <1>2, <1>3, <1>4
<1>6. /\ new[first].id = id /\ new[first].status = status
      /\ \A k \in DOMAIN list : k # first => new[k] = list[k]
  BY <1>2, <1>3, <1>4
<1>7. IsOnly(list, at) => first = at
  BY <1>2 DEF IsOnly
<1> HIDE DEF new
<1> QED
  BY <1>2, <1>5, <1>6, <1>7 DEF new

-------------------------------------------------------------------------------
(* The inductive invariant. *)

Types ==
    /\ pc \in [Sessions -> {"off", "on", "saving", "writing"}]
    /\ host \in [Sessions -> Hosts]
    /\ mem \in [Sessions -> Document]
    /\ dirty \in [Sessions -> BOOLEAN]
    /\ shown \in [Sessions -> Seq(Finding)]
    /\ posted \in [Sessions -> [day : 0..MaxDay, ids : FindingLists] \cup {None}]
    /\ today \in 0..MaxDay
    /\ alone \in SUBSET Sessions
    /\ touched \in [Sessions -> SUBSET Ids]
    /\ crossed \in BOOLEAN
    /\ starts \in 0..MaxStarts /\ changes \in 0..MaxChanges

Sound ==
    /\ \A s \in Sessions : SoundDoc(mem[s])
    /\ file \in {None, Empty, Torn} \/ SoundDoc(file)

\* No sample is from the future, nor younger than a gather still to be folded in.
Dated ==
    /\ \A s \in Sessions : DocUntil(mem[s], today)
    /\ file \in {None, Empty, Torn} \/ DocUntil(file, today)
    /\ \A s \in Sessions : posted[s] # None =>
          /\ posted[s].day <= today
          /\ Until(mem[s].ever[host[s]], posted[s].day)

\* A session that is over holds nothing, one that ends gathers no more.
Closed ==
    \A s \in Sessions :
        /\ pc[s] # "on" => posted[s] = None
        /\ pc[s] = "off" => shown[s] = <<>> /\ ~dirty[s] /\ touched[s] = {}

\* Without crossing there is one writer, and the file is empty exactly while it writes.
Writers ==
    ~crossed =>
        /\ \A s, t \in Sessions : pc[s] = "writing" /\ pc[t] = "writing" => s = t
        /\ \A s \in Sessions : pc[s] = "writing" => file = Empty
        /\ file \in {Empty, Torn} => \E s \in Sessions : pc[s] = "writing"

Shows == \A s \in Sessions : Agrees(shown[s], mem[s], host[s])

IInv == Types /\ Sound /\ Dated /\ Closed /\ Writers /\ Shows /\ ChangesOnlyItsOwn

\* Samples up to a day are samples up to every later day.
LEMMA UntilLater ==
    ASSUME NEW doc \in Document, NEW day \in Int, NEW later \in Int, day <= later
    PROVE  /\ \A h \in Hosts : Until(doc.ever[h], day) => Until(doc.ever[h], later)
           /\ DocUntil(doc, day) => DocUntil(doc, later)
<1>1. \A h \in Hosts : \A k \in DOMAIN doc.ever[h] : doc.ever[h][k].day \in Int
  <2>1. \A h \in Hosts : doc.ever[h] \in Seq(Snapshot)
    BY DEF Document
  <2> QED
    BY <2>1, DayIsInt
<1> QED
  BY <1>1 DEF Until, DocUntil

\* What load makes of the file is sound: the document in it, or the default.
LEMMA LoadSound ==
    ASSUME IInv
    PROVE  SoundDoc(Load(file)) /\ DocUntil(Load(file), today)
BY DefaultSound DEF IInv, Sound, Dated, Load

\* The invariant holds while every session is off.
LEMMA InitIInv == ASSUME Init PROVE IInv
<1> USE DEF Init
<1>1. /\ \A s \in Sessions : mem[s] = Default /\ shown[s] = <<>> /\ posted[s] = None
                             /\ pc[s] = "off" /\ touched[s] = {} /\ ~dirty[s]
      /\ file = None /\ ~crossed /\ today = 0
  OBVIOUS
<1>2. Default \in Document
  BY DefaultSound DEF SoundDoc
<1>3. Types
  <2>1. <<>> \in Seq(Finding) /\ 0 \in 0..MaxDay /\ 0 \in 0..MaxStarts /\ 0 \in 0..MaxChanges
    BY CapsAreNat
  <2>2. mem \in [Sessions -> Document] /\ shown \in [Sessions -> Seq(Finding)]
    BY <1>2, <2>1
  <2> QED
    BY <2>1, <2>2 DEF Types
<1>4. Sound
  BY <1>1, DefaultSound DEF Sound
<1>5. Dated
  BY <1>1, DefaultSound DEF Dated
<1>6. Closed
  BY <1>1 DEF Closed
<1>7. Writers
  BY <1>1, DamageIsNoDocument DEF Writers
<1>8. Shows
  BY <1>1 DEF Shows, Agrees
<1>9. ChangesOnlyItsOwn
  BY DEF ChangesOnlyItsOwn
<1> QED
  BY <1>3, <1>4, <1>5, <1>6, <1>7, <1>8, <1>9 DEF IInv

\* A session that runs changes its document to `new`, its list to `list` and the ids
\* it has set to `more`.
Edited(s, new, list, more) ==
    /\ pc[s] = "on"
    /\ mem' = [mem EXCEPT ![s] = new]
    /\ shown' = [shown EXCEPT ![s] = list]
    /\ touched' = [touched EXCEPT ![s] = more]
    /\ dirty' = [dirty EXCEPT ![s] = TRUE]
    /\ changes' \in 0..MaxChanges
    /\ UNCHANGED <<file, pc, host, today, alone, crossed, starts>>
    /\ SoundDoc(new) /\ DocUntil(new, today)
    /\ \A h \in Hosts \ {host[s]} : /\ new.snapshots[h] = mem[s].snapshots[h]
                                    /\ new.notes[h] = mem[s].notes[h]
                                    /\ new.states[h] = mem[s].states[h]
    /\ \A i \in Ids \ more : new.states[host[s]][i] = mem[s].states[host[s]][i]
    /\ touched[s] \subseteq more /\ more \subseteq Ids
    /\ list \in Seq(Finding) /\ Agrees(list, new, host[s])
    /\ \/ posted' = [posted EXCEPT ![s] = None]
       \/ posted' = posted /\ new.ever = mem[s].ever

\* A session that changes its document soundly, and nothing that is shared, keeps the
\* invariant.
LEMMA EditKeeps ==
    ASSUME IInv, NEW s \in Sessions, NEW new, NEW list, NEW more, Edited(s, new, list, more)
    PROVE  IInv'
<1>0. /\ Types /\ Sound /\ Dated /\ Closed /\ Writers /\ Shows /\ ChangesOnlyItsOwn
      /\ new \in Document
  BY DEF IInv, Edited, SoundDoc
<1>1. /\ mem'[s] = new /\ shown'[s] = list /\ touched'[s] = more /\ dirty'[s] = TRUE
      /\ \A t \in Sessions \ {s} : /\ mem'[t] = mem[t] /\ shown'[t] = shown[t]
                                   /\ touched'[t] = touched[t] /\ dirty'[t] = dirty[t]
                                   /\ posted'[t] = posted[t]
      /\ posted'[s] = None \/ (posted'[s] = posted[s] /\ new.ever = mem[s].ever)
  <2>1. /\ mem' = [mem EXCEPT ![s] = new] /\ shown' = [shown EXCEPT ![s] = list]
        /\ touched' = [touched EXCEPT ![s] = more] /\ dirty' = [dirty EXCEPT ![s] = TRUE]
    BY DEF Edited
  <2>2. /\ DOMAIN mem = Sessions /\ DOMAIN shown = Sessions /\ DOMAIN touched = Sessions
        /\ DOMAIN dirty = Sessions /\ DOMAIN posted = Sessions
    BY <1>0 DEF Types
  <2>3. \/ posted' = [posted EXCEPT ![s] = None]
        \/ posted' = posted /\ new.ever = mem[s].ever
    BY DEF Edited
  <2>4. /\ mem'[s] = new /\ shown'[s] = list /\ touched'[s] = more /\ dirty'[s] = TRUE
        /\ \A t \in Sessions \ {s} : /\ mem'[t] = mem[t] /\ shown'[t] = shown[t]
                                     /\ touched'[t] = touched[t] /\ dirty'[t] = dirty[t]
    BY <2>1, <2>2
  <2>5. /\ \A t \in Sessions \ {s} : posted'[t] = posted[t]
        /\ posted'[s] = None \/ (posted'[s] = posted[s] /\ new.ever = mem[s].ever)
    <3>1. CASE posted' = [posted EXCEPT ![s] = None]
      <4>1. \A t \in Sessions : posted'[t] = IF t = s THEN None ELSE posted[t]
        BY <2>2, <3>1
      <4> QED
        BY <4>1
    <3>2. CASE posted' = posted /\ new.ever = mem[s].ever
      BY <3>2
    <3> QED
      BY <2>3, <3>1, <3>2
  <2> QED
    BY <2>4, <2>5
<1>2. UNCHANGED <<file, pc, host, today, alone, crossed, starts>> /\ pc[s] = "on"
  BY DEF Edited
<1>3. Types'
  BY <1>0, <1>2 DEF Types, Edited
<1>4. Sound'
  BY <1>0, <1>1, <1>2 DEF Sound, Edited
<1>5. Dated'
  BY <1>0, <1>1, <1>2 DEF Dated, Edited
<1>6. Closed'
  BY <1>0, <1>1, <1>2 DEF Closed
<1>7. Writers'
  BY <1>0, <1>2 DEF Writers
<1>8. Shows'
  <2>1. Agrees(list, new, host[s])
    BY DEF Edited
  <2> QED
    BY <1>0, <1>1, <1>2, <2>1 DEF Shows
<1>9. ChangesOnlyItsOwn'
  <2>1. SUFFICES ASSUME NEW t \in alone, pc[t] \in {"on", "saving"}, NEW was, was = Load(file)
                 PROVE  /\ \A h \in Hosts \ {host[t]} :
                             /\ mem'[t].snapshots[h] = was.snapshots[h]
                             /\ mem'[t].notes[h] = was.notes[h]
                             /\ mem'[t].states[h] = was.states[h]
                        /\ \A i \in Ids \ touched'[t] :
                             mem'[t].states[host[t]][i] = was.states[host[t]][i]
                        /\ ~dirty'[t] => mem'[t] = was
    BY <1>2 DEF ChangesOnlyItsOwn, Load
  <2>2. t \in Sessions
    BY <1>0, <2>1 DEF Types
  <2>3. /\ \A h \in Hosts \ {host[t]} : /\ mem[t].snapshots[h] = was.snapshots[h]
                                        /\ mem[t].notes[h] = was.notes[h]
                                        /\ mem[t].states[h] = was.states[h]
        /\ \A i \in Ids \ touched[t] : mem[t].states[host[t]][i] = was.states[host[t]][i]
        /\ ~dirty[t] => mem[t] = was
    BY <1>0, <2>1 DEF ChangesOnlyItsOwn
  <2>4. CASE t # s
    BY <1>1, <2>2, <2>3, <2>4
  <2>5. CASE t = s
    BY <1>1, <2>3, <2>5 DEF Edited
  <2> QED
    BY <2>4, <2>5
<1> QED
  BY <1>3, <1>4, <1>5, <1>6, <1>7, <1>8, <1>9 DEF IInv

\* What a refresh shows and the sample it takes.
LEMMA RefreshFacts ==
    ASSUME IInv, NEW s \in Sessions, ApplyRefresh(s)
    PROVE  \E list \in Seq(Finding), snap \in Snapshot :
             /\ \A k \in DOMAIN list : list[k].status = mem[s].states[host[s]][list[k].id]
             /\ snap.day = posted[s].day /\ snap.findings = Active(list)
             /\ mem' = [mem EXCEPT ![s] = RecordSnapshot(mem[s], host[s], snap)]
             /\ shown' = [shown EXCEPT ![s] = list]
<1> DEFINE ids   == posted[s].ids
           fresh == [k \in DOMAIN ids |-> [id |-> ids[k], status |-> Open]]
           list  == ApplyFindingStates(mem[s], host[s], fresh)
           snap  == [day |-> posted[s].day, findings |-> Active(list)]
<1>1. /\ mem[s] \in Document /\ host[s] \in Hosts
      /\ posted[s].day \in 0..MaxDay /\ ids \in Seq(Ids)
  BY ListsAreOfIds DEF IInv, Types, ApplyRefresh
<1>2. /\ fresh \in Seq(Finding)
      /\ \A k \in DOMAIN fresh : fresh[k].status = Open
  <2>1. ids \in [1..Len(ids) -> Ids] /\ Len(ids) \in Nat
    BY <1>1
  <2>2. fresh = [k \in 1..Len(ids) |-> [id |-> ids[k], status |-> Open]]
    BY <2>1
  <2> HIDE DEF fresh
  <2>3. /\ fresh \in [1..Len(ids) -> Finding]
        /\ \A k \in 1..Len(ids) : fresh[k].status = Open
    BY <2>1, <2>2, OpenIsStatus DEF Finding
  <2>4. DOMAIN fresh = 1..Len(ids)
    BY <2>2
  <2> QED
    BY <2>1, <2>3, <2>4
<1> HIDE DEF fresh
<1>3. /\ list \in Seq(Finding) /\ DOMAIN list = DOMAIN fresh
      /\ \A k \in DOMAIN fresh : /\ list[k].id = fresh[k].id
                                 /\ list[k].status = mem[s].states[host[s]][fresh[k].id]
  BY <1>1, <1>2, AppliedAgrees
<1>4. Active(list) \in Nat
  <2>1. Len(list) \in Nat /\ DOMAIN list = 1..Len(list)
    BY <1>3
  <2>2. IsFiniteSet(1..Len(list))
    BY <2>1, FS_Interval
  <2>3. {k \in DOMAIN list : list[k].status = Open} \subseteq 1..Len(list)
    BY <2>1
  <2>4. IsFiniteSet({k \in DOMAIN list : list[k].status = Open})
    BY <2>2, <2>3, FS_Subset
  <2> QED
    BY <2>4, FS_CardinalityType DEF Active
<1>5. snap \in Snapshot /\ snap.day = posted[s].day /\ snap.findings = Active(list)
  BY <1>1, <1>4 DEF Snapshot
<1>6. /\ mem' = [mem EXCEPT ![s] = RecordSnapshot(mem[s], host[s], snap)]
      /\ shown' = [shown EXCEPT ![s] = list]
  BY DEF ApplyRefresh, Refreshed, fresh
<1>7. \A k \in DOMAIN list : list[k].status = mem[s].states[host[s]][list[k].id]
  BY <1>3
<1> HIDE DEF list, snap
<1> QED
  BY <1>3, <1>5, <1>6, <1>7

\* apply_refresh is such a change: it records a sample and applies the stored states.
LEMMA ApplyRefreshEdits ==
    ASSUME IInv, NEW s \in Sessions, ApplyRefresh(s)
    PROVE  \E new, list, more : Edited(s, new, list, more)
<1>1. PICK list \in Seq(Finding), snap \in Snapshot :
             /\ \A k \in DOMAIN list : list[k].status = mem[s].states[host[s]][list[k].id]
             /\ snap.day = posted[s].day /\ snap.findings = Active(list)
             /\ mem' = [mem EXCEPT ![s] = RecordSnapshot(mem[s], host[s], snap)]
             /\ shown' = [shown EXCEPT ![s] = list]
  BY RefreshFacts
<1> DEFINE new == RecordSnapshot(mem[s], host[s], snap)
<1>2. /\ Types /\ SoundDoc(mem[s]) /\ host[s] \in Hosts /\ DocUntil(mem[s], today)
      /\ pc[s] = "on" /\ posted[s].day <= today /\ today \in 0..MaxDay
      /\ Until(mem[s].ever[host[s]], snap.day)
  BY <1>1 DEF IInv, Types, Sound, Dated, ApplyRefresh
<1>3. /\ SoundDoc(new)
      /\ Until(new.ever[host[s]], snap.day)
      /\ \A g \in Hosts \ {host[s]} : /\ new.ever[g] = mem[s].ever[g]
                                      /\ new.snapshots[g] = mem[s].snapshots[g]
      /\ new.notes = mem[s].notes /\ new.searches = mem[s].searches
      /\ new.states = mem[s].states
  BY <1>2, SnapshotSound
<1>4. DocUntil(new, today)
  <2>1. new \in Document /\ today \in Int /\ snap.day \in Int /\ snap.day <= today
    BY <1>1, <1>2, <1>3, DayIsInt, CapsAreNat DEF SoundDoc
  <2>2. Until(new.ever[host[s]], today)
    BY <1>2, <1>3, <2>1, UntilLater
  <2> QED
    BY <1>2, <1>3, <2>2 DEF DocUntil
<1>5. mem' = [mem EXCEPT ![s] = new]
  BY <1>1
<1> HIDE DEF new
<1>6. /\ dirty' = [dirty EXCEPT ![s] = TRUE] /\ posted' = [posted EXCEPT ![s] = None]
      /\ UNCHANGED <<file, pc, host, today, alone, touched, crossed, starts, changes>>
  BY DEF ApplyRefresh
<1>7. /\ touched' = [touched EXCEPT ![s] = touched[s]] /\ touched[s] \subseteq Ids
      /\ changes' \in 0..MaxChanges
  BY <1>2, <1>6 DEF Types
<1>8. Agrees(list, new, host[s])
  BY <1>1, <1>3 DEF Agrees
<1>9. Edited(s, new, list, touched[s])
  BY <1>1, <1>2, <1>3, <1>4, <1>5, <1>6, <1>7, <1>8 DEF Edited
<1> QED
  BY <1>9

\* What the three changes by a key have in common.
LEMMA ChangeFacts ==
    ASSUME IInv, NEW s \in Sessions, Change(s)
    PROVE  /\ pc[s] = "on" /\ changes' \in 0..MaxChanges
           /\ dirty' = [dirty EXCEPT ![s] = TRUE]
           /\ UNCHANGED <<file, pc, host, posted, today, alone, crossed, starts>>
           /\ SoundDoc(mem[s]) /\ mem[s] \in Document /\ DocUntil(mem[s], today)
           /\ host[s] \in Hosts /\ touched[s] \subseteq Ids
           /\ shown[s] \in Seq(Finding) /\ Agrees(shown[s], mem[s], host[s])
           /\ mem = [mem EXCEPT ![s] = mem[s]] /\ shown = [shown EXCEPT ![s] = shown[s]]
           /\ touched = [touched EXCEPT ![s] = touched[s]]
<1>1. Types /\ Sound /\ Dated /\ Shows
  BY DEF IInv
<1>2. changes' \in 0..MaxChanges
  BY <1>1, CapsAreNat DEF Types, Change
<1> QED
  BY <1>1, <1>2 DEF Types, Sound, Dated, Shows, SoundDoc, Change

\* The status key is such a change.
LEMMA SetStatusEdits ==
    ASSUME IInv, NEW s \in Sessions, SetStatus(s)
    PROVE  \E new, list, more : Edited(s, new, list, more)
<1>1. PICK k \in DOMAIN shown[s], status \in Statuses : SetSelected(s, k, status)
  BY DEF SetStatus
<1> DEFINE id     == shown[s][k].id
           new    == SetFindingStatus(mem[s], host[s], id, status)
           marked == MarkFirst(shown[s], id, status)
           list   == ApplyFindingStates(new, host[s], marked)
<1>2. Change(s)
  BY DEF SetStatus
<1>3. /\ pc[s] = "on" /\ changes' \in 0..MaxChanges
      /\ dirty' = [dirty EXCEPT ![s] = TRUE]
      /\ UNCHANGED <<file, pc, host, posted, today, alone, crossed, starts>>
      /\ SoundDoc(mem[s]) /\ mem[s] \in Document /\ DocUntil(mem[s], today)
      /\ host[s] \in Hosts /\ touched[s] \subseteq Ids
      /\ shown[s] \in Seq(Finding) /\ Agrees(shown[s], mem[s], host[s])
  BY <1>2, ChangeFacts
<1>4. id \in Ids
  <2>1. shown[s][k] \in Finding
    BY <1>3
  <2> QED
    BY <2>1 DEF Finding
<1>5. /\ mem' = [mem EXCEPT ![s] = new] /\ shown' = [shown EXCEPT ![s] = list]
      /\ touched' = [touched EXCEPT ![s] = touched[s] \cup {id}]
  BY <1>1 DEF SetSelected
<1>6. /\ SoundDoc(new)
      /\ new.ever = mem[s].ever /\ new.snapshots = mem[s].snapshots
      /\ new.notes = mem[s].notes
      /\ \A g \in Hosts \ {host[s]} : new.states[g] = mem[s].states[g]
      /\ new.states[host[s]][id] = status
      /\ \A i \in Ids \ {id} : new.states[host[s]][i] = mem[s].states[host[s]][i]
  BY <1>3, <1>4, StatusSound
<1>7. /\ marked \in Seq(Finding) /\ DOMAIN marked = DOMAIN shown[s]
      /\ \A l \in DOMAIN shown[s] : marked[l].id = shown[s][l].id
      /\ \A l \in DOMAIN shown[s] : shown[s][l].id # id => marked[l] = shown[s][l]
      /\ IsOnly(shown[s], k) => marked[k].status = status
  BY <1>3, MarkFacts
<1> HIDE DEF marked, new
<1>8. ASSUME NEW l \in DOMAIN marked, IsOnly(marked, l),
             new.states[host[s]][marked[l].id] = Open
      PROVE  marked[l].status = Open
  <2>1. IsOnly(shown[s], l) /\ l \in DOMAIN shown[s]
    BY <1>7, <1>8 DEF IsOnly
  <2>2. CASE shown[s][l].id = id
    <3>1. l = k
      BY <2>1, <2>2 DEF IsOnly
    <3> QED
      BY <1>6, <1>7, <1>8, <2>1, <2>2, <3>1
  <2>3. CASE shown[s][l].id # id
    <3>1. shown[s][l] \in Finding
      BY <1>3, <2>1
    <3>2. shown[s][l].id \in Ids \ {id}
      BY <2>3, <3>1 DEF Finding
    <3>3. new.states[host[s]][shown[s][l].id] = mem[s].states[host[s]][shown[s][l].id]
      BY <1>6, <3>2
    <3>4. shown[s][l].status = mem[s].states[host[s]][shown[s][l].id]
      BY <1>3, <2>1 DEF Agrees
    <3>5. marked[l] = shown[s][l]
      BY <1>7, <2>1, <2>3
    <3> QED
      BY <1>8, <3>3, <3>4, <3>5
  <2> QED
    BY <2>2, <2>3
<1>9. list \in Seq(Finding) /\ Agrees(list, new, host[s])
  <2>1. new \in Document
    BY <1>6 DEF SoundDoc
  <2> QED
    BY <1>3, <1>7, <1>8, <2>1, AppliedAgrees
<1> HIDE DEF list, id
<1>10. DocUntil(new, today)
  BY <1>3, <1>6 DEF DocUntil
<1>11. Edited(s, new, list, touched[s] \cup {id})
  BY <1>3, <1>4, <1>5, <1>6, <1>9, <1>10 DEF Edited
<1> QED
  BY <1>11

\* So is a note.
LEMMA SubmitNoteEdits ==
    ASSUME IInv, NEW s \in Sessions, SubmitNote(s)
    PROVE  \E new, list, more : Edited(s, new, list, more)
<1>1. PICK note \in Notes : mem' = [mem EXCEPT ![s] = AddNote(mem[s], host[s], note)]
  BY DEF SubmitNote
<1> DEFINE new == AddNote(mem[s], host[s], note)
<1>2. Change(s) /\ shown' = shown /\ touched' = touched
  BY DEF SubmitNote
<1>3. /\ pc[s] = "on" /\ changes' \in 0..MaxChanges
      /\ dirty' = [dirty EXCEPT ![s] = TRUE]
      /\ UNCHANGED <<file, pc, host, posted, today, alone, crossed, starts>>
      /\ SoundDoc(mem[s]) /\ DocUntil(mem[s], today)
      /\ host[s] \in Hosts /\ touched[s] \subseteq Ids
      /\ shown[s] \in Seq(Finding) /\ Agrees(shown[s], mem[s], host[s])
      /\ shown = [shown EXCEPT ![s] = shown[s]] /\ touched = [touched EXCEPT ![s] = touched[s]]
  BY <1>2, ChangeFacts
<1>4. /\ SoundDoc(new)
      /\ new.ever = mem[s].ever /\ new.snapshots = mem[s].snapshots
      /\ new.states = mem[s].states
      /\ \A g \in Hosts \ {host[s]} : new.notes[g] = mem[s].notes[g]
  BY <1>3, NoteSound
<1>5. mem' = [mem EXCEPT ![s] = new]
  BY <1>1
<1> HIDE DEF new
<1>6. DocUntil(new, today) /\ Agrees(shown[s], new, host[s])
  BY <1>3, <1>4 DEF DocUntil, Agrees
<1>7. Edited(s, new, shown[s], touched[s])
  BY <1>2, <1>3, <1>4, <1>5, <1>6 DEF Edited
<1> QED
  BY <1>7

\* So is a saved search.
LEMMA SaveSearchEdits ==
    ASSUME IInv, NEW s \in Sessions, SaveSearch(s)
    PROVE  \E new, list, more : Edited(s, new, list, more)
<1>1. PICK query \in Queries : mem' = [mem EXCEPT ![s] = AddSearch(mem[s], query)]
  BY DEF SaveSearch
<1> DEFINE new == AddSearch(mem[s], query)
<1>2. Change(s) /\ shown' = shown /\ touched' = touched
  BY DEF SaveSearch
<1>3. /\ pc[s] = "on" /\ changes' \in 0..MaxChanges
      /\ dirty' = [dirty EXCEPT ![s] = TRUE]
      /\ UNCHANGED <<file, pc, host, posted, today, alone, crossed, starts>>
      /\ SoundDoc(mem[s]) /\ DocUntil(mem[s], today)
      /\ host[s] \in Hosts /\ touched[s] \subseteq Ids
      /\ shown[s] \in Seq(Finding) /\ Agrees(shown[s], mem[s], host[s])
      /\ shown = [shown EXCEPT ![s] = shown[s]] /\ touched = [touched EXCEPT ![s] = touched[s]]
  BY <1>2, ChangeFacts
<1>4. /\ SoundDoc(new)
      /\ new.ever = mem[s].ever /\ new.snapshots = mem[s].snapshots
      /\ new.notes = mem[s].notes /\ new.states = mem[s].states
  BY <1>3, SearchSound
<1>5. mem' = [mem EXCEPT ![s] = new]
  BY <1>1
<1> HIDE DEF new
<1>6. DocUntil(new, today) /\ Agrees(shown[s], new, host[s])
  BY <1>3, <1>4 DEF DocUntil, Agrees
<1>7. Edited(s, new, shown[s], touched[s])
  BY <1>2, <1>3, <1>4, <1>5, <1>6 DEF Edited
<1> QED
  BY <1>7

\* The end of a session, whatever became of the file.
LEMMA GoneKeeps ==
    ASSUME IInv, NEW s \in Sessions, Gone(s),
           alone' \subseteq alone \ {s}, file' = file \/ alone' = {},
           file' \in {file, mem[s], Torn}, crossed' \in BOOLEAN, Writers'
    PROVE  IInv'
<1>0. Types /\ Sound /\ Dated /\ Closed /\ Writers /\ Shows /\ ChangesOnlyItsOwn
  BY DEF IInv
<1>1. /\ mem'[s] = Default /\ shown'[s] = <<>> /\ posted'[s] = None /\ pc'[s] = "off"
      /\ ~dirty'[s] /\ touched'[s] = {}
      /\ \A t \in Sessions \ {s} : /\ mem'[t] = mem[t] /\ shown'[t] = shown[t]
                                   /\ touched'[t] = touched[t] /\ dirty'[t] = dirty[t]
                                   /\ posted'[t] = posted[t] /\ pc'[t] = pc[t]
      /\ UNCHANGED <<host, today, starts, changes>>
  BY <1>0 DEF Types, Gone
<1>2. Types'
  <2>1. Default \in Document /\ <<>> \in Seq(Finding)
    BY DefaultSound DEF SoundDoc
  <2> QED
    BY <1>0, <2>1 DEF Types, Gone
<1>3. Sound'
  BY <1>0, <1>1, DefaultSound DEF Sound
<1>4. Dated'
  BY <1>0, <1>1, DefaultSound DEF Dated
<1>5. Closed'
  BY <1>0, <1>1 DEF Closed
<1>6. Shows'
  BY <1>0, <1>1 DEF Shows, Agrees
<1>7. ChangesOnlyItsOwn'
  <2>1. SUFFICES ASSUME NEW t \in alone', pc'[t] \in {"on", "saving"}, NEW was, was = Load(file)
                 PROVE  /\ \A h \in Hosts \ {host[t]} :
                             /\ mem'[t].snapshots[h] = was.snapshots[h]
                             /\ mem'[t].notes[h] = was.notes[h]
                             /\ mem'[t].states[h] = was.states[h]
                        /\ \A i \in Ids \ touched'[t] :
                             mem'[t].states[host[t]][i] = was.states[host[t]][i]
                        /\ ~dirty'[t] => mem'[t] = was
    BY <1>1 DEF ChangesOnlyItsOwn, Load
  <2>2. t \in alone /\ t # s /\ t \in Sessions
    BY <1>0, <2>1 DEF Types
  <2> QED
    BY <1>0, <1>1, <2>1, <2>2 DEF ChangesOnlyItsOwn
<1> QED
  BY <1>2, <1>3, <1>4, <1>5, <1>6, <1>7 DEF IInv

\* A session that starts loads a sound document.
LEMMA StartKeeps == ASSUME IInv, NEW s \in Sessions, Start(s) PROVE IInv'
<1>0. /\ Types /\ Sound /\ Dated /\ Closed /\ Writers /\ Shows /\ ChangesOnlyItsOwn
      /\ SoundDoc(Load(file)) /\ DocUntil(Load(file), today) /\ Load(file) \in Document
  BY LoadSound DEF IInv, SoundDoc
<1>1. /\ pc[s] = "off" /\ pc'[s] = "on" /\ mem'[s] = Load(file) /\ host'[s] \in Hosts
      /\ \A t \in Sessions \ {s} : pc'[t] = pc[t] /\ mem'[t] = mem[t] /\ host'[t] = host[t]
      /\ alone' = alone \cup {s}
      /\ UNCHANGED <<file, dirty, shown, posted, today, touched, crossed, changes>>
      /\ shown[s] = <<>> /\ posted[s] = None /\ ~dirty[s] /\ touched[s] = {}
  BY <1>0 DEF Types, Closed, Start
<1>2. Types'
  BY <1>0, CapsAreNat DEF Types, Start
<1>3. Sound'
  BY <1>0, <1>1 DEF Sound
<1>4. Dated'
  BY <1>0, <1>1 DEF Dated
<1>5. Closed'
  BY <1>0, <1>1 DEF Closed
<1>6. Writers'
  BY <1>0, <1>1 DEF Writers
<1>7. Shows'
  BY <1>0, <1>1 DEF Shows, Agrees
<1>8. ChangesOnlyItsOwn'
  <2>1. SUFFICES ASSUME NEW t \in alone', pc'[t] \in {"on", "saving"}, NEW was, was = Load(file)
                 PROVE  /\ \A h \in Hosts \ {host'[t]} :
                             /\ mem'[t].snapshots[h] = was.snapshots[h]
                             /\ mem'[t].notes[h] = was.notes[h]
                             /\ mem'[t].states[h] = was.states[h]
                        /\ \A i \in Ids \ touched[t] :
                             mem'[t].states[host'[t]][i] = was.states[host'[t]][i]
                        /\ ~dirty[t] => mem'[t] = was
    BY <1>1 DEF ChangesOnlyItsOwn, Load
  <2>2. CASE t = s
    BY <1>1, <2>1, <2>2
  <2>3. CASE t # s
    <3>1. t \in alone /\ t \in Sessions
      BY <1>0, <1>1, <2>3 DEF Types
    <3> QED
      BY <1>0, <1>1, <2>1, <2>3, <3>1 DEF ChangesOnlyItsOwn
  <2> QED
    BY <2>2, <2>3
<1> QED
  BY <1>2, <1>3, <1>4, <1>5, <1>6, <1>7, <1>8 DEF IInv

\* The sample of a gather that ends is of today.
LEMMA GatherEndsKeeps == ASSUME IInv, NEW s \in Sessions, GatherEnds(s) PROVE IInv'
<1>0. Types /\ Sound /\ Dated /\ Closed /\ Writers /\ Shows /\ ChangesOnlyItsOwn
  BY DEF IInv
<1>1. PICK found \in FindingLists :
        posted' = [posted EXCEPT ![s] = [day |-> today, ids |-> found]]
  BY DEF GatherEnds
<1>2. /\ pc[s] = "on" /\ posted'[s].day = today
      /\ \A t \in Sessions \ {s} : posted'[t] = posted[t]
      /\ UNCHANGED <<file, pc, host, mem, dirty, shown, today, alone, touched, crossed,
                     starts, changes>>
  BY <1>0, <1>1 DEF Types, GatherEnds
<1>3. Types'
  BY <1>0, <1>1, <1>2 DEF Types
<1>4. Sound'
  BY <1>0, <1>2 DEF Sound
<1>5. Dated'
  <2>1. today \in Int /\ Until(mem[s].ever[host[s]], today)
    BY <1>0, CapsAreNat DEF Types, Dated, DocUntil
  <2> QED
    BY <1>0, <1>2, <2>1 DEF Dated
<1>6. Closed' /\ Writers' /\ Shows'
  BY <1>0, <1>2 DEF Closed, Writers, Shows
<1>7. ChangesOnlyItsOwn'
  BY <1>0, <1>2 DEF ChangesOnlyItsOwn, Load
<1> QED
  BY <1>3, <1>4, <1>5, <1>6, <1>7 DEF IInv

\* A session that quits has its document to save, or nothing to save.
LEMMA QuitKeeps == ASSUME IInv, NEW s \in Sessions, Quit(s) PROVE IInv'
<1>0. Types /\ Sound /\ Dated /\ Closed /\ Writers /\ Shows /\ ChangesOnlyItsOwn
  BY DEF IInv
<1>1. CASE Gone(s) /\ alone' = alone \ {s}
  <2>1. pc[s] = "on" /\ UNCHANGED <<file, crossed>>
    BY DEF Quit
  <2>2. Writers'
    BY <1>0, <1>1, <2>1 DEF Writers, Types, Gone
  <2> QED
    BY <1>0, <1>1, <2>1, <2>2, GoneKeeps DEF Types
<1>2. CASE /\ pc' = [pc EXCEPT ![s] = "saving"] /\ posted' = [posted EXCEPT ![s] = None]
           /\ UNCHANGED <<host, mem, dirty, shown, today, alone, touched, starts, changes>>
  <2>1. /\ pc[s] = "on" /\ pc'[s] = "saving" /\ posted'[s] = None
        /\ \A t \in Sessions \ {s} : pc'[t] = pc[t] /\ posted'[t] = posted[t]
        /\ UNCHANGED <<file, crossed, host, mem, dirty, shown, today, alone, touched,
                       starts, changes>>
    BY <1>0, <1>2 DEF Quit, Types
  <2>2. Types'
    BY <1>0, <1>2, <2>1 DEF Types
  <2>3. Sound' /\ Dated' /\ Closed' /\ Shows'
    BY <1>0, <2>1 DEF Sound, Dated, Closed, Shows
  <2>4. Writers'
    BY <1>0, <2>1 DEF Writers
  <2>5. ChangesOnlyItsOwn'
    BY <1>0, <2>1 DEF ChangesOnlyItsOwn, Load, Types
  <2> QED
    BY <2>2, <2>3, <2>4, <2>5 DEF IInv
<1> QED
  BY <1>1, <1>2 DEF Quit

\* A session that is killed leaves the file as it is.
LEMMA StopsKeeps == ASSUME IInv, NEW s \in Sessions, Stops(s) PROVE IInv'
<1>0. Types /\ Writers
  BY DEF IInv
<1>1. /\ Gone(s) /\ alone' = alone \ {s} /\ pc[s] \in {"on", "saving"}
      /\ UNCHANGED <<file, crossed>>
  BY DEF Stops
<1>2. Writers'
  BY <1>0, <1>1 DEF Writers, Types, Gone
<1> QED
  BY <1>0, <1>1, <1>2, GoneKeeps DEF Types

\* fs::write truncates: the file is empty until it is written.
LEMMA OpenFileKeeps == ASSUME IInv, NEW s \in Sessions, OpenFile(s) PROVE IInv'
<1>0. Types /\ Sound /\ Dated /\ Closed /\ Writers /\ Shows /\ ChangesOnlyItsOwn
  BY DEF IInv
<1>1. /\ pc[s] = "saving" /\ pc'[s] = "writing" /\ file' = Empty
      /\ \A t \in Sessions \ {s} : pc'[t] = pc[t]
      /\ alone' = alone \cap {s} /\ crossed' = (crossed \/ OthersWrite(s))
      /\ UNCHANGED <<host, mem, dirty, shown, posted, today, touched, starts, changes>>
  BY <1>0 DEF Types, OpenFile, Opened
<1>2. Types'
  BY <1>0, <1>1 DEF Types, OpenFile, OthersWrite
<1>3. Sound' /\ Dated' /\ Closed' /\ Shows'
  BY <1>0, <1>1 DEF Sound, Dated, Closed, Shows
<1>4. Writers'
  BY <1>0, <1>1 DEF Writers, OthersWrite
<1>5. ChangesOnlyItsOwn'
  BY <1>1 DEF ChangesOnlyItsOwn
<1> QED
  BY <1>2, <1>3, <1>4, <1>5 DEF IInv

\* What fs::write puts there is a sound document, unless writes crossed.
LEMMA WriteFileKeeps == ASSUME IInv, NEW s \in Sessions, WriteFile(s) PROVE IInv'
<1>0. /\ Types /\ Writers /\ mem[s] \in Document
  BY DEF IInv, Types
<1>1. /\ Gone(s) /\ alone' = {} /\ pc[s] = "writing" /\ crossed' = crossed
      /\ file' \in IF file = Empty THEN {mem[s]} ELSE {mem[s], Torn}
  BY DEF WriteFile
<1>2. mem[s] \notin {Empty, Torn}
  BY <1>0, DamageIsNoDocument
<1>3. Writers'
  BY <1>0, <1>1, <1>2 DEF Writers, Types, Gone
<1> QED
  BY <1>0, <1>1, <1>3, GoneKeeps DEF Types

\* A write that is cut off may leave a torn file; it counts as one that crossed.
LEMMA WriteStopsKeeps == ASSUME IInv, NEW s \in Sessions, WriteStops(s) PROVE IInv'
<1>1. Gone(s) /\ alone' = {} /\ crossed' = TRUE /\ file' \in {file, Torn}
  BY DEF WriteStops
<1>2. Writers'
  BY <1>1 DEF Writers
<1> QED
  BY <1>1, <1>2, GoneKeeps

\* Time goes on.
LEMMA NextDayKeeps == ASSUME IInv, NextDay PROVE IInv'
<1>0. Types /\ Sound /\ Dated /\ Closed /\ Writers /\ Shows /\ ChangesOnlyItsOwn
  BY DEF IInv
<1>1. /\ today' \in 0..MaxDay /\ today <= today' /\ today \in Int /\ today' \in Int
      /\ UNCHANGED <<file, pc, host, mem, dirty, shown, posted, alone, touched, crossed,
                     starts, changes>>
  BY <1>0, CapsAreNat DEF Types, NextDay
<1>2. Types'
  BY <1>0, <1>1 DEF Types
<1>3. Sound' /\ Closed' /\ Writers' /\ Shows'
  BY <1>0, <1>1 DEF Sound, Closed, Writers, Shows
<1>4. Dated'
  <2>1. \A s \in Sessions : mem[s] \in Document
    BY <1>0 DEF Types
  <2>2. \A s \in Sessions : DocUntil(mem[s], today')
    BY <1>0, <1>1, <2>1, UntilLater DEF Dated
  <2>3. file \in {None, Empty, Torn} \/ DocUntil(file, today')
    BY <1>0, <1>1, UntilLater DEF Dated, Sound, SoundDoc
  <2>4. \A s \in Sessions : posted[s] # None => posted[s].day <= today'
    <3> SUFFICES ASSUME NEW s \in Sessions, posted[s] # None PROVE posted[s].day <= today'
      OBVIOUS
    <3>1. posted[s].day \in 0..MaxDay /\ posted[s].day <= today
      BY <1>0 DEF Types, Dated
    <3> QED
      BY <1>1, <3>1, CapsAreNat
  <2> QED
    BY <1>0, <1>1, <2>2, <2>3, <2>4 DEF Dated
<1>5. ChangesOnlyItsOwn'
  BY <1>0, <1>1 DEF ChangesOnlyItsOwn, Load
<1> QED
  BY <1>2, <1>3, <1>4, <1>5 DEF IInv

\* Every step keeps the invariant.
LEMMA NextKeeps == ASSUME IInv, [Next]_vars PROVE IInv'
<1>1. CASE NextDay
  BY <1>1, NextDayKeeps
<1>2. ASSUME NEW s \in Sessions, Use(s) PROVE IInv'
  <2>1. CASE Start(s)
    BY <2>1, StartKeeps
  <2>2. CASE GatherEnds(s)
    BY <2>2, GatherEndsKeeps
  <2>3. CASE ApplyRefresh(s)
    BY <2>3, ApplyRefreshEdits, EditKeeps
  <2>4. CASE SetStatus(s)
    BY <2>4, SetStatusEdits, EditKeeps
  <2>5. CASE SubmitNote(s)
    BY <2>5, SubmitNoteEdits, EditKeeps
  <2>6. CASE SaveSearch(s)
    BY <2>6, SaveSearchEdits, EditKeeps
  <2> QED
    BY <1>2, <2>1, <2>2, <2>3, <2>4, <2>5, <2>6 DEF Use
<1>3. ASSUME NEW s \in Sessions, End(s) PROVE IInv'
  <2>1. CASE Quit(s)
    BY <2>1, QuitKeeps
  <2>2. CASE Stops(s)
    BY <2>2, StopsKeeps
  <2>3. CASE OpenFile(s)
    BY <2>3, OpenFileKeeps
  <2>4. CASE WriteFile(s)
    BY <2>4, WriteFileKeeps
  <2>5. CASE WriteStops(s)
    BY <2>5, WriteStopsKeeps
  <2> QED
    BY <1>3, <2>1, <2>2, <2>3, <2>4, <2>5 DEF End
<1>4. CASE UNCHANGED vars
  <2>1. UNCHANGED <<file, pc, host, mem, dirty, shown, posted, today, alone, touched,
                    crossed, starts, changes>>
    BY <1>4 DEF vars
  <2> QED
    BY <2>1 DEF IInv, Types, Sound, Dated, Closed, Writers, Shows, ChangesOnlyItsOwn, Load
<1> QED
  BY <1>1, <1>2, <1>3, <1>4 DEF Next

\* The invariant holds always.
THEOREM SpecIInv == Spec => []IInv
<1>1. Init => IInv
  BY InitIInv
<1>2. IInv /\ [Next]_vars => IInv'
  BY NextKeeps
<1> QED
  BY <1>1, <1>2, PTL DEF Spec

-------------------------------------------------------------------------------
(* What follows from it. *)

\* Every document there is, in memory or in the file, is sound.
LEMMA DocumentsAreSound ==
    ASSUME IInv, NEW doc \in Documents
    PROVE  SoundDoc(doc) /\ DocUntil(doc, today)
<1>1. CASE doc \in {mem[s] : s \in Sessions}
  BY <1>1 DEF IInv, Sound, Dated
<1>2. CASE doc \in {file} \ {None, Empty, Torn}
  BY <1>2 DEF IInv, Sound, Dated
<1> QED
  BY <1>1, <1>2 DEF Documents

\* Every variable keeps its type, no list outgrows its cap, and a saved search is
\* never saved twice, for any caps.
THEOREM TypeCorrect == Spec => []TypeOK
<1>1. IInv => TypeOK
  <2> SUFFICES ASSUME IInv PROVE TypeOK
    OBVIOUS
  <2>1. \A doc \in Documents, h \in Hosts :
           /\ Len(doc.snapshots[h]) <= MaxSnapshots
           /\ Len(doc.notes[h]) <= MaxNotes /\ Len(doc.searches) <= MaxSearches
    <3> TAKE doc \in Documents, h \in Hosts
    <3>1. /\ SoundDoc(doc) /\ doc \in Document /\ doc.ever[h] \in Seq(Snapshot)
          /\ MaxSnapshots \in Nat
      BY DocumentsAreSound, CapsAreNat DEF SoundDoc, Document
    <3>2. Len(Newest(doc.ever[h], MaxSnapshots)) <= MaxSnapshots
      BY <3>1, NewestFacts
    <3> QED
      BY <3>1, <3>2 DEF SoundDoc
  <2>2. \A doc \in Documents : \A k, l \in DOMAIN doc.searches :
           doc.searches[k] = doc.searches[l] => k = l
    BY DocumentsAreSound DEF SoundDoc, Distinct
  <2>3. file \in Document \cup {None, Empty, Torn}
    BY DEF IInv, Sound, SoundDoc
  <2> QED
    BY <2>1, <2>2, <2>3 DEF IInv, Types, TypeOK
<1> QED
  BY <1>1, SpecIInv, PTL

\* A host has one sample a day at most, oldest first, whichever sessions took them.
THEOREM SamplesInOrder == Spec => []SeriesInOrder
<1>1. IInv => SeriesInOrder
  <2> SUFFICES ASSUME IInv, NEW doc \in Documents, NEW h \in Hosts
               PROVE  OldestFirst(doc.snapshots[h])
    BY DEF SeriesInOrder
  <2> DEFINE ever == doc.ever[h]
             all  == doc.snapshots[h]
             skip == IF Len(ever) > MaxSnapshots THEN Len(ever) - MaxSnapshots ELSE 0
  <2>1. /\ ever \in Seq(Snapshot) /\ Spread(ever) /\ MaxSnapshots \in Nat
        /\ all = Newest(ever, MaxSnapshots)
    BY DocumentsAreSound, CapsAreNat DEF SoundDoc, Document
  <2>2. /\ all \in Seq(Snapshot) /\ Len(all) = Len(ever) - skip
        /\ \A k \in 1..(Len(ever) - skip) : all[k] = ever[skip + k]
    BY <2>1, NewestFacts
  <2>3. Len(ever) \in Nat /\ skip \in Nat
    BY <2>1
  <2> HIDE DEF skip, all, ever
  <2>4. SUFFICES ASSUME NEW k \in 1..Len(all), NEW l \in 1..Len(all), k < l
                 PROVE  all[k].day < all[l].day
    BY <2>2 DEF OldestFirst, all
  <2>5. /\ skip + k \in DOMAIN ever /\ skip + l \in DOMAIN ever /\ skip + k < skip + l
        /\ all[k] = ever[skip + k] /\ all[l] = ever[skip + l]
    <3>1. /\ k \in 1..(Len(ever) - skip) /\ l \in 1..(Len(ever) - skip)
          /\ DOMAIN ever = 1..Len(ever)
      BY <2>1, <2>2
    <3> QED
      BY <2>2, <2>3, <2>4, <3>1
  <2>6. ever[skip + l].day - ever[skip + k].day >= (skip + l) - (skip + k)
    BY <2>1, <2>5 DEF Spread
  <2>7. ever[skip + l].day \in Int /\ ever[skip + k].day \in Int
    BY <2>1, <2>5, DayIsInt
  <2> QED
    BY <2>3, <2>5, <2>6, <2>7
<1> QED
  BY <1>1, SpecIInv, PTL

\* The cap on samples never moves the baseline of the trend, for any cap above the
\* days the baseline lies back.
THEOREM TrendKept == Spec => []BaselineKept
<1>1. IInv => BaselineKept
  <2> SUFFICES ASSUME IInv, NEW doc \in Documents, NEW h \in Hosts, doc.ever[h] # <<>>
               PROVE  LET day == doc.ever[h][Len(doc.ever[h])].day
                      IN  Baseline(doc.snapshots[h], day) = Baseline(doc.ever[h], day)
    BY DEF BaselineKept
  <2>1. /\ doc.ever[h] \in Seq(Snapshot) /\ Spread(doc.ever[h])
        /\ doc.snapshots[h] = Newest(doc.ever[h], MaxSnapshots)
    BY DocumentsAreSound DEF SoundDoc, Document
  <2> QED
    BY <2>1, CapKeepsBaseline
<1> QED
  BY <1>1, SpecIInv, PTL

\* What a session that no other save met will write differs from what it loaded in its
\* own records only.
THEOREM OwnRecordsOnly == Spec => []ChangesOnlyItsOwn
BY SpecIInv, PTL DEF IInv

\* The file is whole unless it is just being written, or a write was cut off or crossed.
THEOREM FileWhole == Spec => []WholeUnlessCrossed
<1>1. IInv => WholeUnlessCrossed
  BY DEF IInv, Writers, WholeUnlessCrossed
<1> QED
  BY <1>1, SpecIInv, PTL

\* A finding whose id no other one has is shown with its stored state.
THEOREM StoredStatusShown == Spec => []StatusShown
<1>1. IInv => StatusShown
  BY DEF IInv, Shows, StatusShown, Agrees, IsOnly
<1> QED
  BY <1>1, SpecIInv, PTL

\* The sample of a refresh counts exactly the findings shown that are open.
THEOREM OnlyOpenCounted == Spec => HandledNotCounted
<1> DEFINE series(s) == mem'[s].snapshots[host[s]]
           open(s)   == {k \in DOMAIN shown'[s] :
                           mem[s].states[host[s]][shown'[s][k].id] = Open}
<1>1. ASSUME IInv, NEW s \in Sessions, ApplyRefresh(s)
      PROVE  series(s)[Len(series(s))].findings = Cardinality(open(s))
  <2>1. PICK list \in Seq(Finding), snap \in Snapshot :
             /\ \A k \in DOMAIN list : list[k].status = mem[s].states[host[s]][list[k].id]
             /\ snap.day = posted[s].day /\ snap.findings = Active(list)
             /\ mem' = [mem EXCEPT ![s] = RecordSnapshot(mem[s], host[s], snap)]
             /\ shown' = [shown EXCEPT ![s] = list]
    BY <1>1, RefreshFacts
  <2>2. /\ SoundDoc(mem[s]) /\ host[s] \in Hosts
        /\ Until(mem[s].ever[host[s]], snap.day)
        /\ mem'[s] = RecordSnapshot(mem[s], host[s], snap) /\ shown'[s] = list
    BY <1>1, <2>1 DEF IInv, Types, Sound, Dated, ApplyRefresh
  <2>3. series(s)[Len(series(s))] = snap
    BY <2>2, SnapshotSound
  <2>4. open(s) = {k \in DOMAIN list : list[k].status = Open}
    BY <2>1, <2>2
  <2> QED
    BY <2>1, <2>3, <2>4 DEF Active
<1>2. IInv => [\A s \in Sessions : ApplyRefresh(s) =>
                  series(s)[Len(series(s))].findings = Cardinality(open(s))]_vars
  BY <1>1
<1>3. []IInv => HandledNotCounted
  BY <1>2, PTL DEF HandledNotCounted
<1> QED
  BY <1>3, SpecIInv, PTL
================================================================================
