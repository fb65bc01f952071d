----------------------------- MODULE CronViewProofs -----------------------------
(***************************************************************************)
(* Theorems about CronSchedule and CronView, for any length of the hour,   *)
(* the day and the search window, any calendar and any crontab: what the   *)
(* parser makes of a line fires when its text says so, next_after finds    *)
(* the first run, the preview lists the next runs and no others, the words *)
(* of the table tell them, and the next run on the screen stays right      *)
(* until it has passed.                                                    *)
(***************************************************************************)
EXTENDS CronView, TLAPS, WellFoundedInduction, FiniteSetTheorems

-------------------------------------------------------------------------------
(* Induction over times and positions, as facts about sets. *)

\* A set of times that is not empty has a first one.
LEMMA FirstTime ==
    ASSUME NEW T, T \subseteq Nat, T # {}
    PROVE  \E t \in T : \A u \in T : t <= u
<1>1. \E t \in T : \A u \in T : <<u, t>> \notin OpToRel(<, Nat)
  BY NatLessThanWellFounded, WFMin, Zenon
<1>2. \A t, u \in Nat : u < t => <<u, t>> \in OpToRel(<, Nat)
  BY Zenon DEF OpToRel
<1>3. \E t \in T : \A u \in T : ~ (u < t)
  BY <1>1, <1>2, Zenon
<1> QED
  BY <1>3

\* Induction: a set that holds 0 and the successor of each of its numbers holds them all.
LEMMA NatInSet ==
    ASSUME NEW T, 0 \in T, \A n \in Nat : n \in T => n + 1 \in T
    PROVE  Nat \subseteq T
<1> SUFFICES ASSUME Nat \ T # {} PROVE FALSE
  OBVIOUS
<1>1. PICK n \in Nat \ T : \A m \in Nat \ T : n <= m
  BY FirstTime
<1>2. n # 0 /\ n - 1 \in Nat /\ n - 1 \in T
  BY <1>1
<1>3. (n - 1) + 1 \in T
  BY <1>2
<1> QED
  BY <1>1, <1>3

\* g holds what a number of applications of f makes of a.
Iterates(g, S, a, f) == g \in [Nat -> S] /\ g[0] = a /\ \A n \in Nat : g[n + 1] = f[g[n]]

\* A function on a set can be iterated: what a recursive definition over Nat stands for.
LEMMA IteratesExist ==
    ASSUME NEW S, NEW a \in S, NEW f \in [S -> S]
    PROVE  \E g : Iterates(g, S, a, f)
<1> DEFINE Upto(n) == {h \in [0 .. n -> S] : h[0] = a /\ \A i \in 0 .. n - 1 : h[i + 1] = f[h[i]]}
           T == {n \in Nat : Upto(n) # {}}
           U == {i \in Nat : \A m, n \in Nat : i <= m /\ i <= n =>
                                \A h \in Upto(m), k \in Upto(n) : h[i] = k[i]}
<1>1. Nat \subseteq T
  <2>1. 0 \in T
    <3>1. [i \in 0 .. 0 |-> a] \in Upto(0)
      OBVIOUS
    <3> QED
      BY <3>1
  <2>2. ASSUME NEW n \in Nat, n \in T PROVE n + 1 \in T
    <3>1. PICK h \in Upto(n) : TRUE
      BY <2>2
    <3> DEFINE k == [i \in 0 .. n + 1 |-> IF i = n + 1 THEN f[h[n]] ELSE h[i]]
    <3>2. h \in [0 .. n -> S] /\ h[0] = a /\ \A i \in 0 .. n - 1 : h[i + 1] = f[h[i]]
      BY <3>1
    <3>3. k \in [0 .. n + 1 -> S]
      BY <3>2
    <3>4. k[0] = a
      BY <3>2
    <3>5. ASSUME NEW i \in 0 .. (n + 1) - 1 PROVE k[i + 1] = f[k[i]]
      BY <3>2
    <3>6. k \in Upto(n + 1)
      BY <3>3, <3>4, <3>5
    <3> HIDE DEF Upto
    <3> QED
      BY <3>6
  <2> HIDE DEF T
  <2> QED
    BY <2>1, <2>2, NatInSet
<1>2. Nat \subseteq U
  <2>1. 0 \in U
    OBVIOUS
  <2>2. ASSUME NEW i \in Nat, i \in U PROVE i + 1 \in U
    <3>1. ASSUME NEW m \in Nat, NEW n \in Nat, i + 1 <= m, i + 1 <= n, NEW h \in Upto(m), NEW k \in Upto(n)
          PROVE  h[i + 1] = k[i + 1]
      <4>1. h[i] = k[i]
        <5>1. i <= m /\ i <= n
          BY <3>1
        <5> HIDE DEF Upto
        <5> QED
          BY <2>2, <3>1, <5>1
      <4>2. h[i + 1] = f[h[i]] /\ k[i + 1] = f[k[i]]
        BY <3>1
      <4> QED
        BY <4>1, <4>2
    <3> HIDE DEF Upto
    <3> QED
      BY <3>1
  <2> HIDE DEF U
  <2> QED
    BY <2>1, <2>2, NatInSet
<1> DEFINE upto == [n \in Nat |-> CHOOSE h \in Upto(n) : TRUE]
           g == [n \in Nat |-> upto[n][n]]
<1>3. \A n \in Nat : upto[n] \in Upto(n)
  BY <1>1
<1> HIDE DEF upto
<1>4. g \in [Nat -> S]
  BY <1>3
<1>5. g[0] = a
  BY <1>3
<1>6. ASSUME NEW n \in Nat PROVE g[n + 1] = f[g[n]]
  <2>1. upto[n + 1] \in Upto(n + 1) /\ upto[n] \in Upto(n)
    BY <1>3
  <2>2. upto[n + 1][n + 1] = f[upto[n + 1][n]]
    BY <2>1
  <2>3. upto[n + 1][n] = upto[n][n]
    <3>1. n \in U /\ n + 1 \in Nat /\ n <= n + 1 /\ n <= n
      <4> HIDE DEF U
      <4> QED
        BY <1>2
    <3> HIDE DEF Upto
    <3> QED
      BY <2>1, <3>1
  <2> QED
    BY <2>2, <2>3
<1> QED
  BY <1>4, <1>5, <1>6 DEF Iterates

-------------------------------------------------------------------------------
(* Division *)

\* What \div and % make of a number.
LEMMA DivMod ==
    ASSUME NEW a \in Nat, NEW b \in Nat \ {0}
    PROVE  a = b * (a \div b) + (a % b) /\ a \div b \in Nat /\ a % b \in 0 .. b - 1
OBVIOUS

\* Quotient and remainder are the only ones.
LEMMA DivUnique ==
    ASSUME NEW b \in Nat \ {0}, NEW q \in Nat, NEW r \in 0 .. b - 1
    PROVE  (b * q + r) \div b = q /\ (b * q + r) % b = r
<1> DEFINE a == b * q + r
           p == a \div b
           s == a % b
<1>1. a = b * p + s /\ p \in Nat /\ s \in 0 .. b - 1 /\ a \in Nat
  BY DivMod
<1> HIDE DEF p, s
<1>2. b * (q - p) = s - r /\ b * (p - q) = r - s
  BY <1>1
<1>3. \A x \in Int : x >= 1 => b * x >= b
  OBVIOUS
<1>4. ~(q - p >= 1) /\ ~(p - q >= 1)
  BY <1>1, <1>2, <1>3
<1>5. p = q
  BY <1>1, <1>4
<1>6. s = r
  BY <1>1, <1>5
<1> QED
  BY <1>5, <1>6 DEF p, s

\* One step more leaves the remainder.
LEMMA ModStep ==
    ASSUME NEW x \in Nat, NEW s \in Nat \ {0}
    PROVE  (x + s) % s = x % s
<1> DEFINE q == x \div s
           r == x % s
<1>1. x = s * q + r /\ q \in Nat /\ r \in 0 .. s - 1
  BY DivMod
<1> HIDE DEF q, r
<1>2. x + s = s * (q + 1) + r /\ q + 1 \in Nat
  BY <1>1
<1>3. (x + s) % s = r
  BY <1>1, <1>2, DivUnique
<1> QED
  BY <1>3 DEF r

-------------------------------------------------------------------------------
(* What parse_schedule makes of a line. *)

\* The values of a part: from its first one on, step by step.
LEMMA PartIsProgression ==
    ASSUME NEW part \in Part, NEW min \in Nat, NEW max \in Nat, Fits(part, min, max),
           max + part.step < Word
    PROVE  LET lo == IF part.range = "star" THEN min ELSE part.lo
               hi == IF part.range = "star" THEN max ELSE part.hi
           IN  PartValues(part, min, max) = {v \in lo .. hi : (v - lo) % part.step = 0}
<1> DEFINE lo == IF part.range = "star" THEN min ELSE part.lo
           hi == IF part.range = "star" THEN max ELSE part.hi
           s  == part.step
           body(f) == [v \in 0 .. hi |->
                         LET next == (v + s) % Word IN {v} \cup (IF next <= hi THEN f[next] ELSE {})]
           from == CHOOSE f : f = body(f)
           row(v) == {w \in v .. hi : (w - v) % s = 0}
           g == [v \in 0 .. hi |-> row(v)]
<1>1. PartValues(part, min, max) = from[lo]
  BY Zenon DEF PartValues
<1>2. lo \in Nat /\ hi \in Nat /\ s \in Nat \ {0} /\ lo <= hi /\ hi + s < Word /\ Word \in Nat \ {0}
  BY SearchAssumption DEF Fits, Part
<1> HIDE DEF lo, hi, s
<1>3. \A v \in 0 .. hi : (v + s) % Word = v + s
  BY <1>2
<1>4. ASSUME NEW v \in 0 .. hi
      PROVE  row(v) = {v} \cup (IF v + s <= hi THEN row(v + s) ELSE {})
  <2>1. 0 % s = 0
    BY <1>2
  <2>2. \A w \in v .. hi : w < v + s /\ w # v => (w - v) % s # 0
    BY <1>2
  <2>3. ASSUME NEW w \in v + s .. hi PROVE (w - v) % s = (w - (v + s)) % s
    <3>1. w - (v + s) \in Nat /\ w - v = (w - (v + s)) + s
      BY <1>2, <2>3
    <3> HIDE DEF row
    <3> QED
      BY <1>2, <3>1, ModStep
  <2>4. v - v = 0
    BY <1>2
  <2>5. ASSUME NEW w \in row(v) PROVE w \in {v} \cup (IF v + s <= hi THEN row(v + s) ELSE {})
    <3>1. CASE w < v + s
      BY <2>2, <3>1
    <3>2. CASE w >= v + s
      <4>1. w \in v + s .. hi /\ v + s <= hi
        BY <1>2, <3>2
      <4>2. (w - (v + s)) % s = 0
        BY <2>3, <4>1
      <4> QED
        BY <4>1, <4>2
    <3> QED
      BY <1>2, <3>1, <3>2
  <2>6. ASSUME NEW w \in {v} \cup (IF v + s <= hi THEN row(v + s) ELSE {}) PROVE w \in row(v)
    <3>1. CASE w = v
      BY <1>2, <2>1, <2>4, <3>1
    <3>2. CASE v + s <= hi /\ w \in row(v + s)
      <4>1. w \in v + s .. hi /\ (w - (v + s)) % s = 0 /\ w \in v .. hi
        BY <1>2, <3>2
      <4> QED
        BY <2>3, <4>1
    <3> QED
      BY <2>6, <3>1, <3>2
  <2> HIDE DEF row
  <2> QED
    BY <2>5, <2>6
<1>5. g = body(g)
  <2> SUFFICES ASSUME NEW v \in 0 .. hi
               PROVE  g[v] = LET next == (v + s) % Word IN {v} \cup (IF next <= hi THEN g[next] ELSE {})
    BY Zenon
  <2>1. g[v] = row(v) /\ (v + s <= hi => v + s \in 0 .. hi /\ g[v + s] = row(v + s))
    BY <1>2
  <2> HIDE DEF row, g
  <2> QED
    BY <1>3, <1>4, <2>1
<1>6. from = body(from)
  <2> HIDE DEF body, g
  <2> QED
    BY <1>5, Zenon
<1> HIDE DEF from, g, row
<1>7. ASSUME NEW v \in 0 .. hi
      PROVE  from[v] = {v} \cup (IF v + s <= hi THEN from[v + s] ELSE {})
  <2>1. from[v] = body(from)[v]
    BY <1>6, Zenon
  <2> QED
    BY <1>3, <2>1
<1> DEFINE T == {n \in Nat : \A v \in 0 .. hi : hi - v <= n => from[v] = row(v)}
<1>8. Nat \subseteq T
  <2>1. 0 \in T
    <3>1. ASSUME NEW v \in 0 .. hi, hi - v <= 0 PROVE from[v] = row(v)
      <4>1. ~(v + s <= hi)
        BY <1>2, <3>1
      <4> QED
        BY <1>4, <1>7, <4>1
    <3> QED
      BY <3>1
  <2>2. ASSUME NEW n \in Nat, n \in T PROVE n + 1 \in T
    <3>1. ASSUME NEW v \in 0 .. hi, hi - v <= n + 1 PROVE from[v] = row(v)
      <4>1. v + s <= hi => v + s \in 0 .. hi /\ hi - (v + s) <= n
        BY <1>2, <3>1
      <4>2. v + s <= hi => from[v + s] = row(v + s)
        BY <2>2, <4>1
      <4> QED
        BY <1>4, <1>7, <4>2
    <3> QED
      BY <3>1
  <2> HIDE DEF T
  <2> QED
    BY <2>1, <2>2, NatInSet
<1>9. from[lo] = row(lo)
  <2>1. hi - lo \in T /\ lo \in 0 .. hi
    BY <1>2, <1>8
  <2> QED
    BY <2>1
<1> QED
  BY <1>1, <1>9 DEF lo, hi, s, row

\* The values of a field are those its text allows.
LEMMA FieldIsAllowed ==
    ASSUME NEW field \in Seq(Part) \ {<<>>}, NEW min \in Nat, NEW max \in Nat,
           FieldFits(field, min, max), \A i \in DOMAIN field : max + field[i].step < Word
    PROVE  \A v \in Int : v \in FieldValues(field, min, max) <=> Allows(field, v, min, max)
<1> DEFINE lo(p) == IF p.range = "star" THEN min ELSE p.lo
           hi(p) == IF p.range = "star" THEN max ELSE p.hi
<1>1. ASSUME NEW i \in DOMAIN field
      PROVE  PartValues(field[i], min, max) = {v \in lo(field[i]) .. hi(field[i]) : (v - lo(field[i])) % field[i].step = 0}
  <2>1. field[i] \in Part /\ Fits(field[i], min, max) /\ max + field[i].step < Word
    BY DEF FieldFits
  <2> QED
    BY <2>1, PartIsProgression, Zenon
<1>2. \A i \in DOMAIN field : lo(field[i]) \in Nat /\ hi(field[i]) \in Nat
  <2>1. \A i \in DOMAIN field : field[i] \in Part
    OBVIOUS
  <2> QED
    BY <2>1 DEF Part
<1>3. ASSUME NEW v \in Int, NEW i \in DOMAIN field
      PROVE  v \in PartValues(field[i], min, max)
                <=> lo(field[i]) <= v /\ v <= hi(field[i]) /\ (v - lo(field[i])) % field[i].step = 0
  BY <1>1, <1>2
<1>4. \A v \in Int : v \in FieldValues(field, min, max) <=>
         \E i \in DOMAIN field : v \in PartValues(field[i], min, max)
  BY DEF FieldValues
<1> QED
  BY <1>3, <1>4 DEF Allows

\* Values stay in the range of their field, and there is one.
LEMMA FieldInRange ==
    ASSUME NEW field \in Seq(Part) \ {<<>>}, NEW min \in Nat, NEW max \in Nat,
           FieldFits(field, min, max), \A i \in DOMAIN field : max + field[i].step < Word
    PROVE  FieldValues(field, min, max) \subseteq min .. max /\ FieldValues(field, min, max) # {}
<1> DEFINE lo(p) == IF p.range = "star" THEN min ELSE p.lo
           hi(p) == IF p.range = "star" THEN max ELSE p.hi
<1>1. ASSUME NEW i \in DOMAIN field
      PROVE  /\ PartValues(field[i], min, max) = {v \in lo(field[i]) .. hi(field[i]) : (v - lo(field[i])) % field[i].step = 0}
             /\ field[i].step \in Nat \ {0} /\ min <= lo(field[i]) /\ hi(field[i]) <= max /\ lo(field[i]) <= hi(field[i])
             /\ lo(field[i]) \in Nat /\ hi(field[i]) \in Nat
  <2>1. field[i] \in Part /\ Fits(field[i], min, max) /\ max + field[i].step < Word
    BY DEF FieldFits
  <2>2. PartValues(field[i], min, max) = {v \in lo(field[i]) .. hi(field[i]) : (v - lo(field[i])) % field[i].step = 0}
    BY <2>1, PartIsProgression, Zenon
  <2> QED
    BY <2>1, <2>2 DEF Fits, Part
<1>2. ASSUME NEW i \in DOMAIN field PROVE PartValues(field[i], min, max) \subseteq min .. max
  BY <1>1
<1>3. 1 \in DOMAIN field
  OBVIOUS
<1>4. lo(field[1]) \in PartValues(field[1], min, max)
  <2> DEFINE l == lo(field[1])
  <2>1. l \in l .. hi(field[1]) /\ (l - l) % field[1].step = 0
    BY <1>1, <1>3
  <2> QED
    BY <1>1, <1>3, <2>1
<1> QED
  BY <1>2, <1>3, <1>4 DEF FieldValues

\* The fields of a line that is no mistake.
LEMMA FieldsOfLine ==
    ASSUME StepsFit, NEW raw \in Schedules, Valid(raw), raw.macro # "@reboot"
    PROVE  LET f == Expanded(raw) IN
           /\ \A i \in 1 .. 5 : f[i] \in Seq(Part) \ {<<>>}
           /\ \A i \in 1 .. 5 : \A k \in DOMAIN f[i] : FieldMax[i] + f[i][k].step < Word
           /\ FieldFits(f[1], 0, MinutesPerHour - 1) /\ FieldFits(f[2], 0, HoursPerDay - 1)
           /\ FieldFits(f[3], 1, 31) /\ FieldFits(f[4], 1, 12) /\ FieldFits(f[5], 0, 7)
<1> DEFINE f == Expanded(raw)
           Field == Seq(Part) \ {<<>>}
<1>1. raw \in Written
  BY ViewAssumption
<1>2. /\ Len(f) = 5
      /\ FieldFits(f[1], 0, MinutesPerHour - 1) /\ FieldFits(f[2], 0, HoursPerDay - 1)
      /\ FieldFits(f[3], 1, 31) /\ FieldFits(f[4], 1, 12) /\ FieldFits(f[5], 0, 7)
  BY DEF Valid
<1>3. \A i \in 1 .. 5 : \A k \in DOMAIN f[i] : FieldMax[i] + f[i][k].step < Word
  BY DEF StepsFit
<1>4. \A i \in 1 .. 5 : f[i] \in Field
  <2>1. \A part \in Part : <<part>> \in Field
    OBVIOUS
  <2>2. Star \in Field
    <3>1. Every \in Part
      BY SearchAssumption DEF Every, Part
    <3> QED
      BY <2>1, <3>1 DEF Star
  <2>3. \A v \in Nat : At(v) \in Field
    <3>1. \A v \in Nat : Span(v, v) \in Part
      BY SearchAssumption DEF Span, Part
    <3> QED
      BY <2>1, <3>1 DEF At
  <2> HIDE DEF Field
  <2>4. raw.fields \in Seq(Field)
    BY <1>1 DEF Written, Field
  <2>5. CASE f = raw.fields
    BY <1>2, <2>4, <2>5
  <2>6. CASE f # raw.fields
    BY <2>2, <2>3, <2>6 DEF Expanded
  <2> QED
    BY <2>5, <2>6
<1> QED
  BY <1>2, <1>3, <1>4

\* A line fires when the schedule parse_schedule makes of it says so.
LEMMA FiresIsMatches ==
    ASSUME StepsFit, CalendarDates, NEW raw \in Schedules, NEW t \in Nat
    PROVE  Fires(raw, t) <=> Matches(ParseSchedule(raw), t)
<1> DEFINE f == Expanded(raw)
           s == ParseSchedule(raw)
<1>1. CASE ~Valid(raw)
  <2>1. s = Invalid
    BY <1>1, Zenon DEF ParseSchedule
  <2> QED
    BY <1>1, <2>1 DEF Fires, Matches, Invalid
<1>2. CASE Valid(raw) /\ raw.macro = "@reboot"
  <2>1. s = Reboot
    BY <1>2, Zenon DEF ParseSchedule
  <2> QED
    BY <1>2, <2>1 DEF Fires, Matches, Reboot
<1>3. CASE Valid(raw) /\ raw.macro # "@reboot"
  <2> DEFINE values(i, min) == FieldValues(f[i], min, FieldMax[i])
             allows(i, v, min) == Allows(f[i], v, min, FieldMax[i])
  <2>0. /\ MinutesPerHour \in Nat \ {0} /\ HoursPerDay \in Nat \ {0}
        /\ FieldMax[1] = MinutesPerHour - 1 /\ FieldMax[2] = HoursPerDay - 1
        /\ FieldMax[3] = 31 /\ FieldMax[4] = 12 /\ FieldMax[5] = 7
    BY CalendarAssumption DEF FieldMax
  <2>1. /\ s.kind = "calendar"
        /\ s.minutes = values(1, 0) /\ s.hours = values(2, 0) /\ s.doms = values(3, 1) /\ s.months = values(4, 1)
        /\ s.dows = {d % 7 : d \in values(5, 0)}
        /\ s.domStar = (f[3] = Star) /\ s.dowStar = (f[5] = Star)
    <3> HIDE DEF f
    <3>1. s = [kind    |-> "calendar",
              minutes |-> FieldValues(f[1], 0, MinutesPerHour - 1),
              hours   |-> FieldValues(f[2], 0, HoursPerDay - 1),
              doms    |-> FieldValues(f[3], 1, 31),
              months  |-> FieldValues(f[4], 1, 12),
              dows    |-> {d % 7 : d \in FieldValues(f[5], 0, 7)},
              domStar |-> f[3] = Star,
              dowStar |-> f[5] = Star]
      BY <1>3, Zenon DEF ParseSchedule, f
    <3> HIDE DEF s
    <3> QED
      BY <2>0, <3>1
  <2>2. /\ \A i \in 1 .. 5 : f[i] \in Seq(Part) \ {<<>>}
        /\ \A i \in 1 .. 5 : \A k \in DOMAIN f[i] : FieldMax[i] + f[i][k].step < Word
        /\ FieldFits(f[1], 0, FieldMax[1]) /\ FieldFits(f[2], 0, FieldMax[2])
        /\ FieldFits(f[3], 1, FieldMax[3]) /\ FieldFits(f[4], 1, FieldMax[4]) /\ FieldFits(f[5], 0, FieldMax[5])
    <3> HIDE DEF f
    <3> QED
      BY <1>3, <2>0, FieldsOfLine DEF f
  <2>3. \A i \in 1 .. 5 : FieldMax[i] \in Nat
    BY <2>0
  <2> HIDE DEF f
  <2>4. ASSUME NEW v \in Int
        PROVE  /\ v \in values(1, 0) <=> allows(1, v, 0)
               /\ v \in values(2, 0) <=> allows(2, v, 0)
               /\ v \in values(3, 1) <=> allows(3, v, 1)
               /\ v \in values(4, 1) <=> allows(4, v, 1)
               /\ v \in values(5, 0) <=> allows(5, v, 0)
    <3>1. ASSUME NEW i \in 1 .. 5, NEW min \in Nat, FieldFits(f[i], min, FieldMax[i])
          PROVE  v \in values(i, min) <=> allows(i, v, min)
      <4> DEFINE field == f[i]
                 max   == FieldMax[i]
      <4>1. /\ field \in Seq(Part) \ {<<>>} /\ max \in Nat
            /\ \A k \in DOMAIN field : max + field[k].step < Word
            /\ FieldFits(field, min, max)
        BY <2>2, <2>3, <3>1
      <4> HIDE DEF field, max
      <4>2. v \in FieldValues(field, min, max) <=> Allows(field, v, min, max)
        BY <4>1, FieldIsAllowed, Zenon
      <4> QED
        BY <4>2 DEF field, max
    <3> HIDE DEF values, allows
    <3> QED
      BY <2>2, <3>1
  <2>5. values(5, 0) \subseteq 0 .. 7
    <3> DEFINE field == f[5]
    <3>1. /\ field \in Seq(Part) \ {<<>>} /\ \A k \in DOMAIN field : 7 + field[k].step < Word
          /\ FieldFits(field, 0, 7)
      BY <2>0, <2>2
    <3> HIDE DEF field
    <3>2. FieldValues(field, 0, 7) \subseteq 0 .. 7
      BY <3>1, FieldInRange
    <3> QED
      BY <2>0, <3>2 DEF field
  <2> DEFINE day == t \div DayLength
  <2>6. /\ MinuteOf(t) \in Int /\ HourOf(t) \in Int
        /\ DayOf(t) \in 1 .. 31 /\ MonthOf(t) \in 1 .. 12 /\ WeekdayOf(t) \in 0 .. 6
    <3>1. DayLength \in Nat \ {0}
      BY <2>0 DEF DayLength
    <3>2. day \in Nat
      BY <3>1, DivMod
    <3>3. DateOf(day) \in Date
      BY <3>2 DEF CalendarDates
    <3>4. MinuteOf(t) \in Int
      BY <2>0 DEF MinuteOf
    <3>5. HourOf(t) \in Int
      <4>1. t \div MinutesPerHour \in Nat
        BY <2>0, DivMod
      <4> QED
        BY <2>0, <4>1 DEF HourOf
    <3> QED
      BY <3>3, <3>4, <3>5 DEF DayOf, MonthOf, WeekdayOf, Date
  <2> DEFINE w == WeekdayOf(t)
  <2>7. w \in s.dows <=> allows(5, w, 0) \/ (w = 0 /\ allows(5, 7, 0))
    <3>1. w \in s.dows <=> \E d \in values(5, 0) : d % 7 = w
      BY <2>1
    <3>2. \A d \in 0 .. 7 : d % 7 = w <=> d = w \/ (d = 7 /\ w = 0)
      BY <2>6
    <3>3. w \in s.dows <=> w \in values(5, 0) \/ (w = 0 /\ 7 \in values(5, 0))
      <4> HIDE DEF values
      <4> QED
        BY <2>5, <2>6, <3>1, <3>2
    <3>4. w \in values(5, 0) <=> allows(5, w, 0)
      BY <2>4, <2>6
    <3>5. 7 \in values(5, 0) <=> allows(5, 7, 0)
      BY <2>4
    <3> QED
      BY <3>3, <3>4, <3>5
  <2>8. f[3] = Star => allows(3, DayOf(t), 1)
    <3>1. DOMAIN Star = {1} /\ Star[1] = Every /\ Every.range = "star" /\ Every.step = 1
      BY DEF Star, Every
    <3> QED
      BY <2>0, <2>6, <3>1 DEF Allows
  <2>9. f[5] = Star => allows(5, w, 0)
    <3>1. DOMAIN Star = {1} /\ Star[1] = Every /\ Every.range = "star" /\ Every.step = 1
      BY DEF Star, Every
    <3> QED
      BY <2>0, <2>6, <3>1 DEF Allows
  <2> DEFINE onDay == allows(3, DayOf(t), 1)
             onWeekday == allows(5, w, 0) \/ (w = 0 /\ allows(5, 7, 0))
  <2>10. Fires(raw, t) <=>
            /\ allows(1, MinuteOf(t), 0) /\ allows(2, HourOf(t), 0) /\ allows(4, MonthOf(t), 1)
            /\ IF f[3] = Star \/ f[5] = Star THEN onDay /\ onWeekday ELSE onDay \/ onWeekday
    BY <1>3, <2>0, Zenon DEF Fires, f
  <2>11. Matches(s, t) <=>
            /\ MinuteOf(t) \in values(1, 0) /\ HourOf(t) \in values(2, 0) /\ MonthOf(t) \in values(4, 1)
            /\ \/ f[3] = Star /\ f[5] = Star
               \/ f[3] # Star /\ DayOf(t) \in values(3, 1)
               \/ f[5] # Star /\ w \in s.dows
    <3> HIDE DEF s, values, w
    <3> QED
      BY <2>1 DEF Matches, DayMatches, w
  <2>12. /\ MinuteOf(t) \in values(1, 0) <=> allows(1, MinuteOf(t), 0)
         /\ HourOf(t) \in values(2, 0) <=> allows(2, HourOf(t), 0)
         /\ MonthOf(t) \in values(4, 1) <=> allows(4, MonthOf(t), 1)
         /\ DayOf(t) \in values(3, 1) <=> onDay
    <3> HIDE DEF values, allows
    <3> QED
      BY <2>4, <2>6 DEF values, allows
  <2> HIDE DEF s, values, allows, w
  <2> QED
    BY <2>7, <2>8, <2>9, <2>10, <2>11, <2>12, Zenon DEF s
<1> QED
  BY <1>1, <1>2, <1>3

-------------------------------------------------------------------------------
(* What next_after finds. *)

\* The window is as long wherever it begins.
LEMMA WindowOfTimes == \E width \in Nat : \A after \in Nat : Window(after) = after + 1 .. after + width
<1>1. MinutesPerHour \in Nat /\ HoursPerDay \in Nat /\ SearchDays \in Nat
  BY CalendarAssumption, SearchAssumption
<1>2. DayLength \in Nat
  BY <1>1 DEF DayLength
<1>3. SearchDays * DayLength \in Nat
  BY <1>1, <1>2
<1> WITNESS SearchDays * DayLength \in Nat
<1> QED
  BY DEF Window

\* next_after: the first run in the window, or none.  Its loop over minutes returns no
\* run that is skipped, repeated or outside the window.
THEOREM NextIsFirst ==
    ASSUME NEW s, NEW after \in Nat
    PROVE  \/ /\ NextAfter(s, after) = Never
              /\ \A t \in Window(after) : ~Matches(s, t)
           \/ /\ NextAfter(s, after) \in Window(after)
              /\ Matches(s, NextAfter(s, after))
              /\ \A t \in Window(after) : Matches(s, t) => NextAfter(s, after) <= t
<1> DEFINE runs == {t \in Window(after) : Matches(s, t)}
           IsFirst(t) == Matches(s, t) /\ \A u \in Window(after) : Matches(s, u) => t <= u
<1>1. CASE runs = {}
  BY <1>1 DEF NextAfter
<1>2. CASE runs # {}
  <2>1. \E t \in Window(after) : IsFirst(t)
    <3>0. PICK width \in Nat : Window(after) = after + 1 .. after + width
      BY WindowOfTimes, Zenon
    <3>1. runs \subseteq Nat
      BY <3>0
    <3>2. PICK t \in runs : \A u \in runs : t <= u
      BY <1>2, <3>1, FirstTime
    <3> QED
      BY <3>2
  <2>2. NextAfter(s, after) = CHOOSE t \in Window(after) : IsFirst(t)
    BY <1>2 DEF NextAfter
  <2>3. NextAfter(s, after) \in Window(after) /\ IsFirst(NextAfter(s, after))
    <3> HIDE DEF IsFirst
    <3> QED
      BY <2>1, <2>2
  <2> QED
    BY <2>3
<1> QED
  BY <1>1, <1>2

\* A later search finds the same run as long as it has not passed.
LEMMA NextKept ==
    ASSUME NEW s, NEW after \in Nat, NEW later \in Nat, after <= later,
           NextAfter(s, after) # Never, later < NextAfter(s, after)
    PROVE  NextAfter(s, later) = NextAfter(s, after)
<1> DEFINE next == NextAfter(s, after)
<1>0. PICK width \in Nat : /\ Window(after) = after + 1 .. after + width
                           /\ Window(later) = later + 1 .. later + width
  BY WindowOfTimes, Zenon
<1>1. next \in Window(after) /\ Matches(s, next) /\ \A t \in Window(after) : Matches(s, t) => next <= t
  BY NextIsFirst, Zenon
<1> HIDE DEF next
<1>2. next \in Window(later)
  <2>1. later < next
    BY DEF next
  <2> QED
    BY <1>0, <1>1, <2>1
<1>3. /\ NextAfter(s, later) \in Window(later) /\ Matches(s, NextAfter(s, later))
      /\ NextAfter(s, later) <= next
  BY <1>1, <1>2, NextIsFirst, Zenon
<1>4. NextAfter(s, later) \in Window(after)
  BY <1>0, <1>1, <1>3
<1>5. next <= NextAfter(s, later)
  BY <1>1, <1>3, <1>4
<1>6. next \in Int /\ NextAfter(s, later) \in Int
  BY <1>0, <1>2, <1>3
<1> QED
  BY <1>3, <1>5, <1>6 DEF next

-------------------------------------------------------------------------------
(* What the preview lists. *)

\* upcoming: each run is the next one after the run before it.
LEMMA UpcomingRuns ==
    ASSUME NEW s, NEW after \in Nat
    PROVE  LET run == Upcoming(s, after) IN
           /\ run[0] = after
           /\ \A k \in Nat : /\ run[k] \in Nat \cup {Never}
                             /\ run[k + 1] = IF run[k] = Never THEN Never ELSE NextAfter(s, run[k])
<1> DEFINE S == Nat \cup {Never}
           f == [x \in S |-> IF x = Never THEN Never ELSE NextAfter(s, x)]
           body(h) == [k \in Nat |-> IF k = 0 THEN after
                                     ELSE IF h[k - 1] = Never THEN Never
                                     ELSE NextAfter(s, h[k - 1])]
           run == CHOOSE h : h = body(h)
<1>1. Upcoming(s, after) = run
  BY Zenon DEF Upcoming
<1>2. f \in [S -> S]
  <2>1. ASSUME NEW x \in Nat PROVE NextAfter(s, x) \in S
    <3>1. PICK width \in Nat : Window(x) = x + 1 .. x + width
      BY WindowOfTimes, Zenon
    <3>2. NextAfter(s, x) = Never \/ NextAfter(s, x) \in Window(x)
      BY NextIsFirst, Zenon
    <3> QED
      BY <3>1, <3>2
  <2> QED
    BY <2>1
<1>3. PICK g : Iterates(g, S, after, f)
  <2>1. after \in S
    OBVIOUS
  <2> HIDE DEF f, S
  <2> QED
    BY <1>2, <2>1, IteratesExist, Zenon
<1>31. g \in [Nat -> S] /\ g[0] = after /\ \A n \in Nat : g[n + 1] = f[g[n]]
  BY <1>3 DEF Iterates
<1>4. g = body(g)
  <2>1. ASSUME NEW k \in Nat
        PROVE  g[k] = IF k = 0 THEN after ELSE IF g[k - 1] = Never THEN Never ELSE NextAfter(s, g[k - 1])
    <3>1. CASE k = 0
      BY <1>31, <3>1
    <3>2. CASE k # 0
      <4>1. k - 1 \in Nat /\ (k - 1) + 1 = k
        BY <3>2
      <4>2. g[(k - 1) + 1] = f[g[k - 1]] /\ g[k - 1] \in S
        <5> HIDE DEF f, S
        <5> QED
          BY <1>31, <4>1
      <4> QED
        BY <3>2, <4>1, <4>2
    <3> QED
      BY <3>1, <3>2
  <2> QED
    BY <1>31, <2>1, Zenon
<1>5. run = body(run)
  <2> HIDE DEF body
  <2> QED
    BY <1>4, Zenon
<1> HIDE DEF run
<1>6. run[0] = after
  <2>1. run[0] = body(run)[0]
    BY <1>5, Zenon
  <2> QED
    BY <2>1
<1>7. ASSUME NEW k \in Nat
      PROVE  run[k + 1] = IF run[k] = Never THEN Never ELSE NextAfter(s, run[k])
  <2>1. run[k + 1] = body(run)[k + 1] /\ k + 1 \in Nat /\ k + 1 # 0 /\ (k + 1) - 1 = k
    BY <1>5
  <2> QED
    BY <2>1
<1> DEFINE T == {k \in Nat : run[k] \in S}
<1>8. Nat \subseteq T
  <2>1. 0 \in T
    BY <1>6
  <2>2. ASSUME NEW k \in Nat, k \in T PROVE k + 1 \in T
    <3>1. run[k] \in S /\ f[run[k]] \in S
      BY <1>2, <2>2
    <3> QED
      BY <1>7, <3>1
  <2> HIDE DEF T
  <2> QED
    BY <2>1, <2>2, NatInSet
<1> QED
  BY <1>1, <1>6, <1>7, <1>8

\* cron_next_runs lists the first n runs: n is Shown, unless there is none after the last.
LEMMA NextRunsAre ==
    ASSUME NEW raw, NEW from \in Nat
    PROVE  LET s == ParseSchedule(raw) IN
           \E n \in 0 .. Shown : \E run \in [0 .. n -> Nat] :
              /\ NextRuns(raw, from) = [k \in 1 .. n |-> run[k]]
              /\ run[0] = from
              /\ \A k \in 0 .. n - 1 : run[k + 1] = NextAfter(s, run[k])
              /\ n < Shown => NextAfter(s, run[n]) = Never
<1> DEFINE s == ParseSchedule(raw)
           all == Upcoming(s, from)
<1>0. Shown \in Nat
  BY ViewAssumption
<1>1. CASE s = Invalid
  <2>1. NextAfter(s, from) = Never
    BY <1>1 DEF NextAfter, Matches, Invalid
  <2>2. NextRuns(raw, from) = <<>>
    BY <1>1, Zenon DEF NextRuns
  <2> DEFINE run == [k \in 0 .. 0 |-> from]
  <2>3. /\ run \in [0 .. 0 -> Nat] /\ run[0] = from /\ 0 \in 0 .. Shown
        /\ <<>> = [k \in 1 .. 0 |-> run[k]]
    BY <1>0
  <2>4. \A k \in 0 .. 0 - 1 : run[k + 1] = NextAfter(s, run[k])
    OBVIOUS
  <2> HIDE DEF s, run
  <2> QED
    BY <2>1, <2>2, <2>3, <2>4 DEF s
<1>2. CASE s # Invalid
  <2>1. /\ all[0] = from
        /\ \A k \in Nat : /\ all[k] \in Nat \cup {Never}
                          /\ all[k + 1] = IF all[k] = Never THEN Never ELSE NextAfter(s, all[k])
    BY UpcomingRuns
  <2>2. NextRuns(raw, from) = [k \in {n \in 1 .. Shown : all[n] # Never} |-> all[k]]
    BY <1>2, Zenon DEF NextRuns
  <2> HIDE DEF s, all
  <2> DEFINE none == {k \in 0 .. Shown : all[k] = Never}
  <2>3. from # Never
    BY DEF Never
  <2>4. \E n \in 0 .. Shown :
           /\ \A k \in 0 .. n : all[k] # Never
           /\ n < Shown => all[n + 1] = Never
           /\ \A k \in n + 1 .. Shown : all[k] = Never
    <3>1. CASE none = {}
      BY <1>0, <3>1
    <3>2. CASE none # {}
      <4>1. none \subseteq Nat
        OBVIOUS
      <4>2. PICK m \in none : \A k \in none : m <= k
        <5> HIDE DEF none
        <5> QED
          BY <3>2, <4>1, FirstTime
      <4>3. m \in 0 .. Shown /\ all[m] = Never /\ m # 0
        BY <2>1, <2>3, <4>2
      <4> DEFINE T == {i \in Nat : all[m + i] = Never}
      <4>4. Nat \subseteq T
        <5>1. 0 \in T
          BY <4>3
        <5>2. ASSUME NEW i \in Nat, i \in T PROVE i + 1 \in T
          <6>1. m + i \in Nat /\ all[(m + i) + 1] = Never
            BY <2>1, <4>3, <5>2
          <6>2. (m + i) + 1 = m + (i + 1)
            BY <4>3
          <6> QED
            BY <6>1, <6>2
        <5> HIDE DEF T
        <5> QED
          BY <5>1, <5>2, NatInSet
      <4>5. ASSUME NEW k \in m .. Shown PROVE all[k] = Never
        <5>1. k - m \in T /\ m + (k - m) = k
          BY <4>3, <4>4
        <5> QED
          BY <5>1
      <4>6. \A k \in 0 .. m - 1 : all[k] # Never
        BY <1>0, <4>2, <4>3
      <4>7. m - 1 \in 0 .. Shown /\ (m - 1) + 1 = m
        BY <1>0, <4>3
      <4> QED
        BY <4>3, <4>5, <4>6, <4>7
    <3> QED
      BY <3>1, <3>2
  <2>5. PICK n \in 0 .. Shown :
           /\ \A k \in 0 .. n : all[k] # Never
           /\ n < Shown => all[n + 1] = Never
           /\ \A k \in n + 1 .. Shown : all[k] = Never
    BY <2>4, Zenon
  <2> HIDE DEF none
  <2> DEFINE run == [k \in 0 .. n |-> all[k]]
  <2>6. {k \in 1 .. Shown : all[k] # Never} = 1 .. n
    BY <1>0, <2>5
  <2>7. NextRuns(raw, from) = [k \in 1 .. n |-> all[k]]
    BY <2>2, <2>6, Zenon
  <2>8. [k \in 1 .. n |-> all[k]] = [k \in 1 .. n |-> run[k]]
    OBVIOUS
  <2>9. run \in [0 .. n -> Nat] /\ run[0] = from
    BY <2>1, <2>5
  <2>10. ASSUME NEW k \in 0 .. n - 1 PROVE run[k + 1] = NextAfter(s, run[k])
    <3>1. k \in 0 .. n /\ k + 1 \in 0 .. n /\ all[k] # Never
      BY <2>5
    <3> QED
      BY <2>1, <3>1
  <2>11. n < Shown => NextAfter(s, run[n]) = Never
    <3>1. n \in 0 .. n /\ all[n] # Never
      BY <2>5
    <3> QED
      BY <2>1, <2>5, <3>1
  <2> HIDE DEF run
  <2> QED
    BY <2>7, <2>8, <2>9, <2>10, <2>11 DEF s
<1> QED
  BY <1>1, <1>2

\* A row of times, each the next run after the time before it.
Successive(s, n, run) ==
    /\ n \in Nat /\ run \in [0 .. n -> Nat]
    /\ \A k \in 0 .. n - 1 : run[k + 1] = NextAfter(s, run[k])

\* They are in order, and all the times of the schedule from the first to the last.
AllInOrder(s, n, run) ==
    /\ \A k \in 0 .. n - 1 : run[k] < run[k + 1]
    /\ {t \in run[0] + 1 .. run[n] : Matches(s, t)} = {run[k] : k \in 1 .. n}

\* As many next runs as there are, in a row, leave none out.
LEMMA RunsInOrder ==
    ASSUME NEW s, NEW n, NEW run, Successive(s, n, run)
    PROVE  AllInOrder(s, n, run)
<1>0. /\ n \in Nat /\ run \in [0 .. n -> Nat]
      /\ \A k \in 0 .. n - 1 : run[k + 1] = NextAfter(s, run[k])
  BY DEF Successive
<1>1. ASSUME NEW k \in 0 .. n - 1
      PROVE  run[k] < run[k + 1] /\ \A t \in run[k] + 1 .. run[k + 1] : Matches(s, t) <=> t = run[k + 1]
  <2> DEFINE a == run[k]
             b == run[k + 1]
  <2>1. a \in Nat /\ b \in Nat /\ b = NextAfter(s, a)
    BY <1>0
  <2> HIDE DEF a, b
  <2>2. PICK width \in Nat : Window(a) = a + 1 .. a + width
    BY <2>1, WindowOfTimes, Zenon
  <2>3. b # Never
    BY <2>1 DEF Never
  <2>4. b \in Window(a) /\ Matches(s, b) /\ \A t \in Window(a) : Matches(s, t) => b <= t
    BY <2>1, <2>3, NextIsFirst, Zenon
  <2>5. a < b /\ \A t \in a + 1 .. b : Matches(s, t) <=> t = b
    BY <2>1, <2>2, <2>4
  <2> QED
    BY <2>5 DEF a, b
<1> DEFINE times(k) == {t \in run[0] + 1 .. run[k] : Matches(s, t)}
           T == {k \in Nat : k <= n => run[0] <= run[k] /\ times(k) = {run[i] : i \in 1 .. k}}
<1>2. Nat \subseteq T
  <2>1. 0 \in T
    <3>1. run[0] \in Nat
      BY <1>0
    <3>2. run[0] + 1 .. run[0] = {} /\ 1 .. 0 = {}
      BY <3>1
    <3>3. times(0) = {} /\ {run[i] : i \in 1 .. 0} = {}
      BY <3>2
    <3> HIDE DEF times
    <3> QED
      BY <3>1, <3>3
  <2>2. ASSUME NEW k \in Nat, k \in T PROVE k + 1 \in T
    <3>1. SUFFICES ASSUME k + 1 <= n
                   PROVE  run[0] <= run[k + 1] /\ times(k + 1) = {run[i] : i \in 1 .. k + 1}
      <4> HIDE DEF times
      <4> QED
        OBVIOUS
    <3>2. k \in 0 .. n - 1 /\ run[0] <= run[k] /\ times(k) = {run[i] : i \in 1 .. k}
      BY <1>0, <2>2, <3>1
    <3>3. run[0] \in Nat /\ run[k] \in Nat /\ run[k + 1] \in Nat
      BY <1>0, <3>1
    <3>4. run[k] < run[k + 1] /\ \A t \in run[k] + 1 .. run[k + 1] : Matches(s, t) <=> t = run[k + 1]
      BY <1>1, <3>2
    <3>5. times(k + 1) = times(k) \cup {run[k + 1]}
      <4>1. \A t \in times(k + 1) : t \in times(k) \cup {run[k + 1]}
        BY <3>2, <3>3, <3>4
      <4>2. \A t \in times(k) \cup {run[k + 1]} : t \in times(k + 1)
        BY <3>2, <3>3, <3>4
      <4> QED
        BY <4>1, <4>2
    <3>6. {run[i] : i \in 1 .. k + 1} = {run[i] : i \in 1 .. k} \cup {run[k + 1]}
      BY <3>2
    <3> HIDE DEF times
    <3> QED
      BY <3>2, <3>3, <3>4, <3>5, <3>6
  <2> HIDE DEF T
  <2> QED
    BY <2>1, <2>2, NatInSet
<1>3. times(n) = {run[i] : i \in 1 .. n}
  <2>1. n \in T /\ n <= n
    BY <1>0, <1>2
  <2> HIDE DEF times
  <2> QED
    BY <2>1
<1> QED
  BY <1>1, <1>3 DEF AllInOrder

\* The times are those of clocks, and the schedule is one of the crontab.
LEMMA TypeCorrect == Spec => []TypeOK
<1>1. Init => TypeOK
  BY DEF Init, TypeOK
<1>2. TypeOK /\ [Next]_vars => TypeOK'
  BY DEF TypeOK, Next, Tick, ApplyRefresh, Select, vars
<1> QED
  BY <1>1, <1>2, PTL DEF Spec

\* The preview of cron_next_runs shows the times at which the crontab line, read off its
\* text, fires next: none skipped, repeated or out of order, and fewer than Shown only if
\* the line does not fire in the window that next_after searches after the last of them.
\* This is so for every schedule whose steps do not wrap around, on every calendar.
THEOREM ShownRunsCorrect ==
    ASSUME StepsFit, CalendarDates PROVE Spec => []ShownRunsAreNext
<1>1. ASSUME TypeOK PROVE ShownRunsAreNext
  <2> DEFINE s == ParseSchedule(job)
             runs == NextRuns(job, now)
  <2>0. now \in Nat /\ job \in Schedules /\ Shown \in Nat
    BY <1>1, ViewAssumption DEF TypeOK
  <2>1. PICK n \in 0 .. Shown : \E run \in [0 .. n -> Nat] :
              /\ runs = [k \in 1 .. n |-> run[k]]
              /\ run[0] = now
              /\ \A k \in 0 .. n - 1 : run[k + 1] = NextAfter(s, run[k])
              /\ n < Shown => NextAfter(s, run[n]) = Never
    BY <2>0, NextRunsAre, Zenon
  <2>2. PICK run \in [0 .. n -> Nat] :
              /\ runs = [k \in 1 .. n |-> run[k]]
              /\ run[0] = now
              /\ \A k \in 0 .. n - 1 : run[k + 1] = NextAfter(s, run[k])
              /\ n < Shown => NextAfter(s, run[n]) = Never
    BY <2>1, Zenon
  <2> HIDE DEF s, runs
  <2>3. n \in Nat /\ Len(runs) = n /\ DOMAIN runs = 1 .. n
    BY <2>0, <2>2
  <2>4. /\ \A k \in 0 .. n - 1 : run[k] < run[k + 1]
        /\ {t \in run[0] + 1 .. run[n] : Matches(s, t)} = {run[k] : k \in 1 .. n}
    <3>1. Successive(s, n, run)
      BY <2>2, <2>3 DEF Successive
    <3>2. AllInOrder(s, n, run)
      BY <3>1, RunsInOrder, Zenon
    <3> QED
      BY <3>2, Zenon DEF AllInOrder
  <2> DEFINE from == IF runs = <<>> THEN now ELSE runs[Len(runs)]
  <2>5. from = run[n] /\ from \in Nat
    <3>1. CASE n = 0
      <4>1. runs = <<>>
        BY <2>2, <3>1
      <4> QED
        BY <2>2, <2>3, <3>1, <4>1
    <3>2. CASE n # 0
      <4>1. runs # <<>>
        BY <2>3, <3>2
      <4>2. n \in 1 .. n /\ from = runs[n]
        BY <2>3, <3>2, <4>1
      <4> QED
        BY <2>2, <2>3, <4>2
    <3> QED
      BY <3>1, <3>2
  <2> HIDE DEF from
  <2>6. \A t \in Nat : Fires(job, t) <=> Matches(s, t)
    BY <1>1, <2>0, FiresIsMatches DEF s
  <2>7. {t \in now + 1 .. from : Fires(job, t)} = {runs[i] : i \in DOMAIN runs}
    <3>1. {t \in now + 1 .. from : Fires(job, t)} = {t \in now + 1 .. from : Matches(s, t)}
      BY <2>0, <2>5, <2>6
    <3>2. {runs[i] : i \in DOMAIN runs} = {run[k] : k \in 1 .. n}
      BY <2>2, <2>3
    <3> QED
      BY <2>2, <2>4, <2>5, <3>1, <3>2
  <2>8. \A i \in 1 .. Len(runs) - 1 : runs[i] < runs[i + 1]
    BY <2>2, <2>3, <2>4
  <2>9. Len(runs) < Shown => \A t \in Window(from) : ~Fires(job, t)
    <3>1. SUFFICES ASSUME Len(runs) < Shown PROVE \A t \in Window(from) : ~Fires(job, t)
      OBVIOUS
    <3>2. NextAfter(s, from) = Never
      BY <2>2, <2>3, <2>5, <3>1
    <3>3. PICK width \in Nat : Window(from) = from + 1 .. from + width
      BY <2>5, WindowOfTimes, Zenon
    <3>4. Never \notin Window(from)
      BY <2>5, <3>3 DEF Never
    <3>5. \A t \in Window(from) : ~Matches(s, t)
      BY <2>5, <3>2, <3>4, NextIsFirst, Zenon
    <3> QED
      BY <2>5, <2>6, <3>3, <3>5
  <2> QED
    BY <2>7, <2>8, <2>9, Zenon DEF ShownRunsAreNext, runs, from
<1>2. TypeOK => ShownRunsAreNext
  BY <1>1
<1> QED
  BY <1>2, TypeCorrect, PTL

-------------------------------------------------------------------------------
(* What the words of the table say. *)

\* describe compares lengths: a list as long as its range holds all of it.
LEMMA FullIsAll ==
    ASSUME NEW min \in Nat, NEW max \in Nat, min <= max, NEW values, values \subseteq min .. max
    PROVE  IsFull(values, min, max) <=> values = min .. max
<1>1. IsFiniteSet(min .. max) /\ Cardinality(min .. max) = max - min + 1
  BY FS_Interval
<1>2. Cardinality(values) = Cardinality(min .. max) <=> values = min .. max
  BY <1>1, FS_Subset
<1> QED
  BY <1>1, <1>2 DEF IsFull

\* The parsed lists of a line that is no mistake: each a part of the range of its field, and
\* never empty.
LEMMA ParsedLists ==
    ASSUME StepsFit, NEW raw \in Schedules, Valid(raw), raw.macro # "@reboot"
    PROVE  LET s == ParseSchedule(raw) IN
           /\ s.kind = "calendar" /\ s.domStar \in BOOLEAN /\ s.dowStar \in BOOLEAN
           /\ s.minutes \subseteq 0 .. MinutesPerHour - 1 /\ s.minutes # {}
           /\ s.hours \subseteq 0 .. HoursPerDay - 1 /\ s.hours # {}
           /\ s.doms \subseteq 1 .. 31 /\ s.doms # {}
           /\ s.months \subseteq 1 .. 12 /\ s.months # {}
           /\ s.dows # {}
<1> DEFINE f == Expanded(raw)
           s == ParseSchedule(raw)
<1>1. /\ MinutesPerHour \in Nat \ {0} /\ HoursPerDay \in Nat \ {0}
      /\ FieldMax[1] = MinutesPerHour - 1 /\ FieldMax[2] = HoursPerDay - 1
      /\ FieldMax[3] = 31 /\ FieldMax[4] = 12 /\ FieldMax[5] = 7
  BY CalendarAssumption DEF FieldMax
<1>2. s = [kind    |-> "calendar",
           minutes |-> FieldValues(f[1], 0, MinutesPerHour - 1),
           hours   |-> FieldValues(f[2], 0, HoursPerDay - 1),
           doms    |-> FieldValues(f[3], 1, 31),
           months  |-> FieldValues(f[4], 1, 12),
           dows    |-> {d % 7 : d \in FieldValues(f[5], 0, 7)},
           domStar |-> f[3] = Star,
           dowStar |-> f[5] = Star]
  BY Zenon DEF ParseSchedule
<1>3. /\ \A i \in 1 .. 5 : f[i] \in Seq(Part) \ {<<>>}
      /\ \A i \in 1 .. 5 : \A k \in DOMAIN f[i] : FieldMax[i] + f[i][k].step < Word
      /\ FieldFits(f[1], 0, MinutesPerHour - 1) /\ FieldFits(f[2], 0, HoursPerDay - 1)
      /\ FieldFits(f[3], 1, 31) /\ FieldFits(f[4], 1, 12) /\ FieldFits(f[5], 0, 7)
  BY FieldsOfLine
<1> HIDE DEF f, s
<1>4. \A i \in 1 .. 5 : FieldMax[i] \in Nat
  BY <1>1
<1> DEFINE values(i, min) == FieldValues(f[i], min, FieldMax[i])
<1>5. ASSUME NEW i \in 1 .. 5, NEW min \in Nat, FieldFits(f[i], min, FieldMax[i])
      PROVE  values(i, min) \subseteq min .. FieldMax[i] /\ values(i, min) # {}
  <2> DEFINE field == f[i]
             max   == FieldMax[i]
  <2>1. /\ field \in Seq(Part) \ {<<>>} /\ max \in Nat
        /\ \A k \in DOMAIN field : max + field[k].step < Word
        /\ FieldFits(field, min, max)
    BY <1>3, <1>4, <1>5
  <2> HIDE DEF field, max
  <2>2. FieldValues(field, min, max) \subseteq min .. max /\ FieldValues(field, min, max) # {}
    BY <2>1, FieldInRange
  <2> QED
    BY <2>2 DEF field, max
<1>6. /\ FieldFits(f[1], 0, FieldMax[1]) /\ FieldFits(f[2], 0, FieldMax[2])
      /\ FieldFits(f[3], 1, FieldMax[3]) /\ FieldFits(f[4], 1, FieldMax[4]) /\ FieldFits(f[5], 0, FieldMax[5])
  BY <1>1, <1>3
<1>7. /\ values(1, 0) \subseteq 0 .. FieldMax[1] /\ values(1, 0) # {}
      /\ values(2, 0) \subseteq 0 .. FieldMax[2] /\ values(2, 0) # {}
      /\ values(3, 1) \subseteq 1 .. FieldMax[3] /\ values(3, 1) # {}
      /\ values(4, 1) \subseteq 1 .. FieldMax[4] /\ values(4, 1) # {}
      /\ values(5, 0) # {}
  <2> HIDE DEF values
  <2> QED
    BY <1>5, <1>6
<1> QED
  BY <1>1, <1>2, <1>7 DEF s

\* The times the words of describe speak of; a text that is empty leaves nothing out.
Meant(w, t) ==
    LET in(v, text) == text = {} \/ v \in text
    IN  \/ w[1] = "every minute"
        \/ w[1] = "every n minutes" /\ MinuteOf(t) % w[2] = 0
        \/ w[1] = "every day" /\ HourOf(t) \in w[2] /\ MinuteOf(t) \in w[3]
        \/ w[1] = "on weekdays" /\ WeekdayOf(t) \in w[2] /\ HourOf(t) \in w[3] /\ MinuteOf(t) \in w[4]
        \/ /\ w[1] = "at"
           /\ in(MinuteOf(t), w[2]) /\ in(HourOf(t), w[3]) /\ in(MonthOf(t), w[5])
           /\ \/ w[4] = {} /\ w[6] = {}
              \/ w[4] # {} /\ DayOf(t) \in w[4]
              \/ w[6] # {} /\ WeekdayOf(t) \in w[6]

\* The accessors of chrono stay in their ranges.
LEMMA Accessors ==
    ASSUME CalendarDates, NEW t \in Nat
    PROVE  /\ MinuteOf(t) \in 0 .. MinutesPerHour - 1 /\ HourOf(t) \in 0 .. HoursPerDay - 1
           /\ DayOf(t) \in 1 .. 31 /\ MonthOf(t) \in 1 .. 12 /\ WeekdayOf(t) \in 0 .. 6
<1>0. MinutesPerHour \in Nat \ {0} /\ HoursPerDay \in Nat \ {0}
  BY CalendarAssumption
<1> DEFINE day == t \div DayLength
<1>1. DayLength \in Nat \ {0}
  BY <1>0 DEF DayLength
<1>2. day \in Nat
  BY <1>1, DivMod
<1>3. DateOf(day) \in Date
  BY <1>2 DEF CalendarDates
<1>4. MinuteOf(t) \in 0 .. MinutesPerHour - 1
  BY <1>0, DivMod DEF MinuteOf
<1>5. HourOf(t) \in 0 .. HoursPerDay - 1
  <2>1. t \div MinutesPerHour \in Nat
    BY <1>0, DivMod
  <2> QED
    BY <1>0, <2>1, DivMod DEF HourOf
<1> QED
  BY <1>3, <1>4, <1>5 DEF DayOf, MonthOf, WeekdayOf, Date

\* The words of the table say when a job runs, and leave nothing out that matters: a reader
\* who takes describe at its word knows every run.
THEOREM WordsTellRuns ==
    ASSUME StepsFit, CalendarDates, NEW raw \in Schedules, NEW t \in Nat
    PROVE  Matches(ParseSchedule(raw), t) <=> Meant(Words(raw), t)
<1> DEFINE s == ParseSchedule(raw)
<1>1. CASE ~Valid(raw)
  <2>1. s = Invalid
    BY <1>1, Zenon DEF ParseSchedule
  <2>2. Words(raw) = <<"invalid">>
    BY <2>1, Zenon DEF Words
  <2>3. ~Matches(s, t)
    BY <2>1 DEF Matches, Invalid
  <2>4. Words(raw)[1] = "invalid"
    BY <2>2
  <2> QED
    BY <2>3, <2>4 DEF Meant
<1>2. CASE Valid(raw) /\ raw.macro = "@reboot"
  <2>1. s = Reboot
    BY <1>2, Zenon DEF ParseSchedule
  <2>2. Words(raw) = <<"at startup">>
    <3>1. Reboot # Invalid /\ Reboot.kind = "reboot"
      BY DEF Reboot, Invalid
    <3> QED
      BY <2>1, <3>1, Zenon DEF Words, Describe
  <2>3. ~Matches(s, t)
    BY <2>1 DEF Matches, Reboot
  <2> HIDE DEF s
  <2>4. Words(raw)[1] = "at startup"
    <3>1. \A x : <<x>>[1] = x
      OBVIOUS
    <3> QED
      BY <2>2, <3>1, Zenon
  <2> QED
    BY <2>3, <2>4 DEF Meant, s
<1>3. CASE Valid(raw) /\ raw.macro # "@reboot"
  <2>1. /\ s.kind = "calendar" /\ s.domStar \in BOOLEAN /\ s.dowStar \in BOOLEAN
        /\ s.minutes \subseteq 0 .. MinutesPerHour - 1 /\ s.minutes # {}
        /\ s.hours \subseteq 0 .. HoursPerDay - 1 /\ s.hours # {}
        /\ s.doms \subseteq 1 .. 31 /\ s.doms # {}
        /\ s.months \subseteq 1 .. 12 /\ s.months # {}
        /\ s.dows # {}
    BY <1>3, ParsedLists, Zenon
  <2> DEFINE everyMinute == IsFull(s.minutes, 0, MinutesPerHour - 1)
             everyHour   == IsFull(s.hours, 0, HoursPerDay - 1)
             allMonths   == IsFull(s.months, 1, 12)
             step        == StepFromZero(s.minutes, MinutesPerHour - 1)
             oneTime     == Cardinality(s.minutes) = 1 /\ Cardinality(s.hours) = 1 /\ allMonths
             allDays     == s.domStar /\ s.dowStar /\ allMonths
             minute == MinuteOf(t)
             hour   == HourOf(t)
             month  == MonthOf(t)
             w == Words(raw)
  <2>0. MinutesPerHour \in Nat \ {0} /\ HoursPerDay \in Nat \ {0}
    BY CalendarAssumption
  <2>2. /\ minute \in 0 .. MinutesPerHour - 1 /\ hour \in 0 .. HoursPerDay - 1 /\ month \in 1 .. 12
    BY Accessors
  <2>3. Matches(s, t) <=> minute \in s.minutes /\ hour \in s.hours /\ month \in s.months /\ DayMatches(s, t)
    BY <2>1 DEF Matches
  <2>4. /\ everyMinute => minute \in s.minutes
        /\ everyHour => hour \in s.hours
        /\ allMonths => month \in s.months
    <3>1. everyMinute => s.minutes = 0 .. MinutesPerHour - 1
      BY <2>0, <2>1, FullIsAll
    <3>2. everyHour => s.hours = 0 .. HoursPerDay - 1
      BY <2>0, <2>1, FullIsAll
    <3>3. allMonths => s.months = 1 .. 12
      BY <2>1, FullIsAll
    <3> QED
      BY <2>2, <3>1, <3>2, <3>3
  <2>5. w = Describe(s) /\ s.kind # "reboot"
    <3>1. s # Invalid
      BY <2>1 DEF Invalid
    <3> HIDE DEF s
    <3> QED
      BY <2>1, <3>1 DEF Words, s
  <2> HIDE DEF s
  <2>6. w = IF everyMinute /\ everyHour /\ allDays THEN <<"every minute">>
            ELSE IF step # 0 /\ everyHour /\ allDays THEN <<"every n minutes", step>>
            ELSE IF oneTime /\ s.domStar /\ s.dowStar THEN <<"every day", s.hours, s.minutes>>
            ELSE IF oneTime /\ s.domStar THEN <<"on weekdays", s.dows, s.hours, s.minutes>>
            ELSE <<"at", FieldText(s.minutes, 0, MinutesPerHour - 1),
                   FieldText(s.hours, 0, HoursPerDay - 1),
                   IF s.domStar THEN {} ELSE s.doms, FieldText(s.months, 1, 12),
                   IF s.dowStar THEN {} ELSE s.dows>>
    BY <2>5, Zenon DEF Describe
  <2> HIDE DEF w, everyMinute, everyHour, allMonths, minute, hour, month
  <2>7. CASE everyMinute /\ everyHour /\ allDays
    <3>1. w[1] = "every minute"
      BY <2>6, <2>7
    <3> QED
      BY <2>3, <2>4, <2>7, <3>1 DEF DayMatches, Meant, s, w
  <2>8. CASE ~(everyMinute /\ everyHour /\ allDays) /\ step # 0 /\ everyHour /\ allDays
    <3>1. w[1] = "every n minutes" /\ w[2] = step
      <4> HIDE DEF step
      <4> QED
        BY <2>6, <2>8
    <3>2. minute \in s.minutes <=> minute % step = 0
      <4> DEFINE max == MinutesPerHour - 1
                 steps == {n \in 1 .. max : s.minutes = {v \in 0 .. max : v % n = 0}}
      <4>1. step \in steps
        <5>1. steps # {} /\ step = CHOOSE n \in steps : TRUE
          BY <2>8, Zenon DEF StepFromZero
        <5> HIDE DEF steps, step
        <5> QED
          BY <5>1
      <4> HIDE DEF step
      <4> QED
        BY <2>2, <4>1
    <3> HIDE DEF step
    <3>3. Matches(s, t) <=> minute % step = 0
      BY <2>3, <2>4, <2>8, <3>2 DEF DayMatches
    <3>4. Meant(w, t) <=> minute % step = 0
      BY <3>1 DEF Meant, minute
    <3> QED
      BY <3>3, <3>4 DEF s, w
  <2>9. CASE /\ ~(everyMinute /\ everyHour /\ allDays) /\ ~(step # 0 /\ everyHour /\ allDays)
             /\ oneTime /\ s.domStar /\ s.dowStar
    <3> HIDE DEF step
    <3>1. w[1] = "every day" /\ w[2] = s.hours /\ w[3] = s.minutes
      BY <2>6, <2>9
    <3>2. Matches(s, t) <=> hour \in s.hours /\ minute \in s.minutes
      BY <2>3, <2>4, <2>9 DEF DayMatches
    <3>3. Meant(w, t) <=> hour \in s.hours /\ minute \in s.minutes
      BY <3>1 DEF Meant, minute, hour
    <3> QED
      BY <3>2, <3>3 DEF s, w
  <2>10. CASE /\ ~(everyMinute /\ everyHour /\ allDays) /\ ~(step # 0 /\ everyHour /\ allDays)
              /\ oneTime /\ s.domStar /\ ~s.dowStar
    <3> HIDE DEF step
    <3>1. w[1] = "on weekdays" /\ w[2] = s.dows /\ w[3] = s.hours /\ w[4] = s.minutes
      BY <2>6, <2>10
    <3>2. Matches(s, t) <=> WeekdayOf(t) \in s.dows /\ hour \in s.hours /\ minute \in s.minutes
      BY <2>3, <2>4, <2>10 DEF DayMatches
    <3>3. Meant(w, t) <=> WeekdayOf(t) \in s.dows /\ hour \in s.hours /\ minute \in s.minutes
      BY <3>1 DEF Meant, minute, hour
    <3> QED
      BY <3>2, <3>3 DEF s, w
  <2>11. CASE /\ ~(everyMinute /\ everyHour /\ allDays) /\ ~(step # 0 /\ everyHour /\ allDays)
              /\ ~(oneTime /\ s.domStar)
    <3> HIDE DEF step
    <3> DEFINE minutes == FieldText(s.minutes, 0, MinutesPerHour - 1)
               hours   == FieldText(s.hours, 0, HoursPerDay - 1)
               months  == FieldText(s.months, 1, 12)
               doms    == IF s.domStar THEN {} ELSE s.doms
               dows    == IF s.dowStar THEN {} ELSE s.dows
    <3>1. w = <<"at", minutes, hours, doms, months, dows>>
      <4> HIDE DEF oneTime, minutes, hours, months
      <4> QED
        BY <2>6, <2>11, Zenon DEF oneTime, minutes, hours, months
    <3>2. /\ minute \in s.minutes <=> minutes = {} \/ minute \in minutes
          /\ hour \in s.hours <=> hours = {} \/ hour \in hours
          /\ month \in s.months <=> months = {} \/ month \in months
      BY <2>1, <2>4 DEF FieldText, everyMinute, everyHour, allMonths
    <3>3. DayMatches(s, t) <=> \/ doms = {} /\ dows = {}
                               \/ doms # {} /\ DayOf(t) \in doms
                               \/ dows # {} /\ WeekdayOf(t) \in dows
      BY <2>1 DEF DayMatches
    <3> HIDE DEF minutes, hours, months, doms, dows
    <3>4. /\ w[1] = "at" /\ w[2] = minutes /\ w[3] = hours /\ w[4] = doms /\ w[5] = months /\ w[6] = dows
      BY <3>1
    <3>5. Meant(w, t) <=> /\ minutes = {} \/ minute \in minutes
                          /\ hours = {} \/ hour \in hours
                          /\ months = {} \/ month \in months
                          /\ \/ doms = {} /\ dows = {}
                             \/ doms # {} /\ DayOf(t) \in doms
                             \/ dows # {} /\ WeekdayOf(t) \in dows
      BY <3>4 DEF Meant, minute, hour, month
    <3>6. Matches(s, t) <=> Meant(w, t)
      BY <2>3, <3>2, <3>3, <3>5
    <3> QED
      BY <3>6 DEF s, w
  <2> QED
    BY <2>1, <2>7, <2>8, <2>9, <2>10, <2>11
<1> QED
  BY <1>1, <1>2, <1>3

\* What next_after finds depends on nothing but the times that match.
LEMMA SameMatchesSameNext ==
    ASSUME NEW r, NEW s, NEW after \in Nat, \A t \in Nat : Matches(r, t) <=> Matches(s, t)
    PROVE  NextAfter(r, after) = NextAfter(s, after)
<1> DEFINE a == NextAfter(r, after)
           b == NextAfter(s, after)
<1>1. PICK width \in Nat : Window(after) = after + 1 .. after + width
  BY WindowOfTimes, Zenon
<1>2. \A t \in Window(after) : Matches(r, t) <=> Matches(s, t)
  BY <1>1
<1>3. \/ a = Never /\ \A t \in Window(after) : ~Matches(r, t)
      \/ a \in Window(after) /\ Matches(r, a) /\ \A t \in Window(after) : Matches(r, t) => a <= t
  BY NextIsFirst, Zenon
<1>4. \/ b = Never /\ \A t \in Window(after) : ~Matches(s, t)
      \/ b \in Window(after) /\ Matches(s, b) /\ \A t \in Window(after) : Matches(s, t) => b <= t
  BY NextIsFirst, Zenon
<1> HIDE DEF a, b
<1>5. a = b
  BY <1>1, <1>2, <1>3, <1>4
<1> QED
  BY <1>5 DEF a, b

\* Two jobs the table describes in the same words have the same next run, whatever the text
\* of their schedules: describe merges no two schedules that run at different times.
THEOREM SameWordsSameTimes ==
    ASSUME StepsFit, CalendarDates PROVE Spec => []SameWordsSameRuns
<1>1. ASSUME TypeOK PROVE SameWordsSameRuns
  <2>0. now \in Nat /\ job \in Schedules
    BY <1>1, ViewAssumption DEF TypeOK
  <2>1. ASSUME NEW raw \in Schedules PROVE NextRun(raw, now) = NextAfter(ParseSchedule(raw), now)
    <3>1. \A t : ~Matches(Invalid, t)
      BY DEF Matches, Invalid
    <3>2. NextAfter(Invalid, now) = Never
      BY <3>1 DEF NextAfter
    <3> QED
      BY <3>2, Zenon DEF NextRun
  <2>2. ASSUME NEW raw \in Schedules, Words(raw) = Words(job)
        PROVE  NextAfter(ParseSchedule(raw), now) = NextAfter(ParseSchedule(job), now)
    <3>1. \A t \in Nat : Matches(ParseSchedule(raw), t) <=> Matches(ParseSchedule(job), t)
      BY <2>0, <2>2, WordsTellRuns
    <3> QED
      BY <2>0, <3>1, SameMatchesSameNext
  <2> QED
    BY <2>0, <2>1, <2>2 DEF SameWordsSameRuns
<1>2. TypeOK => SameWordsSameRuns
  BY <1>1
<1> QED
  BY <1>2, TypeCorrect, PTL

-------------------------------------------------------------------------------
(* A year of the calendar against the search window. *)

\* A point in time is a day and a time of the day, and the accessors read them off.
LEMMA DayAndTime ==
    /\ DayLength \in Nat \ {0}
    /\ \A e \in Nat : \A r \in 0 .. DayLength - 1 :
          LET t == DayLength * e + r
          IN  /\ t \in Nat /\ t \div DayLength = e /\ t % DayLength = r
              /\ MinuteOf(t) = r % MinutesPerHour /\ HourOf(t) = r \div MinutesPerHour
<1>0. MinutesPerHour \in Nat \ {0} /\ HoursPerDay \in Nat \ {0}
  BY CalendarAssumption
<1>1. DayLength \in Nat \ {0} /\ DayLength = MinutesPerHour * HoursPerDay
  BY <1>0 DEF DayLength
<1>2. ASSUME NEW e \in Nat, NEW r \in 0 .. DayLength - 1
      PROVE  LET t == DayLength * e + r
             IN  /\ t \in Nat /\ t \div DayLength = e /\ t % DayLength = r
                 /\ MinuteOf(t) = r % MinutesPerHour /\ HourOf(t) = r \div MinutesPerHour
  <2> DEFINE t == DayLength * e + r
             h == r \div MinutesPerHour
             m == r % MinutesPerHour
  <2>1. t \in Nat /\ t \div DayLength = e /\ t % DayLength = r
    <3>1. DayLength * e \in Nat
      BY <1>1
    <3>2. t \in Nat
      BY <3>1, <1>1
    <3>3. t \div DayLength = e /\ t % DayLength = r
      <4> HIDE DEF t
      <4> QED
        BY <1>1, DivUnique DEF t
    <3> QED
      BY <3>2, <3>3
  <2>2. r = MinutesPerHour * h + m /\ h \in Nat /\ m \in 0 .. MinutesPerHour - 1
    BY <1>0, <1>1, DivMod
  <2> HIDE DEF h, m
  <2>3. h \in 0 .. HoursPerDay - 1
    <3>1. SUFFICES ASSUME h >= HoursPerDay PROVE FALSE
      BY <1>0, <2>2
    <3>2. MinutesPerHour * h >= MinutesPerHour * HoursPerDay
      BY <1>0, <2>2, <3>1
    <3> QED
      BY <1>0, <1>1, <2>2, <3>2
  <2> DEFINE q == HoursPerDay * e + h
  <2>4. t = MinutesPerHour * q + m /\ q \in Nat
    <3>1. q \in Nat
      BY <1>0, <2>2
    <3>2. MinutesPerHour * q = (MinutesPerHour * HoursPerDay) * e + MinutesPerHour * h
      BY <1>0, <2>2
    <3>3. DayLength * e = (MinutesPerHour * HoursPerDay) * e
      BY <1>1
    <3> DEFINE a == DayLength * e
               b == MinutesPerHour * h
    <3>4. a \in Nat /\ b \in Nat /\ t = a + r /\ MinutesPerHour * q = a + b /\ r = b + m
      BY <1>0, <1>1, <2>2, <3>2, <3>3
    <3> HIDE DEF a, b, t, q
    <3> QED
      BY <2>2, <3>1, <3>4
  <2>5. q % HoursPerDay = h
    BY <1>0, <2>3, DivUnique
  <2> HIDE DEF q, t
  <2>6. t \div MinutesPerHour = q /\ t % MinutesPerHour = m
    BY <1>0, <2>2, <2>4, DivUnique
  <2>7. MinuteOf(t) = m /\ HourOf(t) = h
    BY <2>5, <2>6 DEF MinuteOf, HourOf
  <2> QED
    BY <2>1, <2>7 DEF t, h, m
<1> QED
  BY <1>1, <1>2, Zenon

\* One of SearchDays days, counted from today or, when the time of the day has passed, from
\* tomorrow, has a minute of that time in the window.
LEMMA TimeInWindow ==
    ASSUME NEW after \in Nat, NEW r \in 0 .. DayLength - 1
    PROVE  \E first \in {after \div DayLength, (after \div DayLength) + 1} :
              \A e \in first .. first + SearchDays - 1 : e \in Nat /\ DayLength * e + r \in Window(after)
<1> DEFINE q == after \div DayLength
           p == after % DayLength
           D == DayLength
<1>1. D \in Nat \ {0}
  BY DayAndTime
<1>2. after = D * q + p /\ q \in Nat /\ p \in 0 .. D - 1
  BY <1>1, DivMod
<1>3. SearchDays \in Nat
  BY SearchAssumption
<1>4. Window(after) = after + 1 .. after + SearchDays * D
  BY DEF Window
<1> DEFINE W == Window(after)
<1>5. r \in 0 .. D - 1
  OBVIOUS
<1> HIDE DEF q, p, D, W
<1>6. ASSUME NEW e \in Nat, NEW n \in Nat, e = q + n PROVE D * e = D * q + D * n /\ D * n \in Nat
  BY <1>1, <1>2, <1>6
<1>7. \A n \in 0 .. SearchDays : D * n <= SearchDays * D
  BY <1>1, <1>3
<1>8. \A n \in Nat \ {0} : D * n >= D
  BY <1>1
<1>9. \A n \in 0 .. SearchDays - 1 : D * n + D <= SearchDays * D
  <2> SUFFICES ASSUME NEW n \in 0 .. SearchDays - 1 PROVE D * n + D <= SearchDays * D
    OBVIOUS
  <2>1. n + 1 \in 0 .. SearchDays /\ D * (n + 1) = D * n + D
    BY <1>1, <1>3
  <2> QED
    BY <1>7, <2>1
<1>10. CASE r > p
  <2>1. ASSUME NEW e \in q .. q + SearchDays - 1 PROVE e \in Nat /\ D * e + r \in W
    <3> DEFINE n == e - q
    <3>1. n \in 0 .. SearchDays - 1 /\ e = q + n /\ e \in Nat /\ n \in Nat
      BY <1>2, <1>3
    <3> HIDE DEF n
    <3>2. D * e = D * q + D * n /\ D * n \in Nat /\ D * n + D <= SearchDays * D
      BY <1>6, <1>9, <3>1
    <3>3. D * q \in Nat /\ SearchDays * D \in Nat /\ D * e \in Nat
      BY <1>1, <1>2, <1>3, <3>1
    <3> QED
      BY <1>1, <1>2, <1>4, <1>5, <1>10, <3>1, <3>2, <3>3 DEF W
  <2> QED
    BY <2>1 DEF q, D, W
<1>11. CASE r <= p
  <2>1. ASSUME NEW e \in q + 1 .. (q + 1) + SearchDays - 1 PROVE e \in Nat /\ D * e + r \in W
    <3> DEFINE n == e - q
    <3>1. n \in 1 .. SearchDays /\ e = q + n /\ e \in Nat /\ n \in Nat \ {0}
      BY <1>2, <1>3
    <3> HIDE DEF n
    <3>2. D * e = D * q + D * n /\ D * n \in Nat /\ D * n >= D /\ D * n <= SearchDays * D
      BY <1>6, <1>7, <1>8, <3>1
    <3>3. D * q \in Nat /\ SearchDays * D \in Nat /\ D * e \in Nat
      BY <1>1, <1>2, <1>3, <3>1
    <3> QED
      BY <1>1, <1>2, <1>4, <1>5, <1>11, <3>1, <3>2, <3>3 DEF W
  <2> QED
    BY <2>1 DEF q, D, W
<1> QED
  BY <1>1, <1>2, <1>5, <1>10, <1>11

\* On a calendar where every date of some year and every weekday of its months come again
\* within SearchDays days of each moment, a job that fires every year always has a next run
\* on the screen.
THEOREM YearlyJobsRunAgain ==
    ASSUME StepsFit, CalendarDates, CalendarRepeats PROVE Spec => []YearlyJobsHaveNextRun
<1>1. ASSUME TypeOK PROVE YearlyJobsHaveNextRun
  <2> DEFINE s == ParseSchedule(job)
  <2>0. now \in Moments /\ now \in Nat /\ job \in Schedules
    BY <1>1, ViewAssumption DEF TypeOK
  <2>1. SUFFICES ASSUME job \in YearlyJobs PROVE NextRun(job, now) # Never
    BY DEF YearlyJobsHaveNextRun
  <2>2. PICK y \in Years : \A m \in Moments : \A first \in {m \div DayLength, (m \div DayLength) + 1} :
            /\ DatesOf({t \div DayLength : t \in y}) \subseteq DatesOf(first .. first + SearchDays - 1)
            /\ WeekdaysOf({t \div DayLength : t \in y}) \subseteq WeekdaysOf(first .. first + SearchDays - 1)
    BY Zenon DEF CalendarRepeats
  <2>3. PICK t0 \in y : Fires(job, t0)
    BY <2>1 DEF YearlyJobs
  <2>4. t0 \in Nat /\ Matches(s, t0)
    <3>1. t0 \in Nat
      BY ViewAssumption
    <3> QED
      BY <2>0, <2>3, <3>1, FiresIsMatches
  <2> HIDE DEF s
  <2> DEFINE d == t0 \div DayLength
             r == t0 % DayLength
  <2>5. DayLength \in Nat \ {0} /\ t0 = DayLength * d + r /\ d \in Nat /\ r \in 0 .. DayLength - 1
    BY <2>4, DayAndTime, DivMod
  <2>6. d \in {t \div DayLength : t \in y}
    OBVIOUS
  <2> HIDE DEF d, r
  <2>7. PICK first \in {now \div DayLength, (now \div DayLength) + 1} :
            \A e \in first .. first + SearchDays - 1 : e \in Nat /\ DayLength * e + r \in Window(now)
    BY <2>0, <2>5, TimeInWindow
  <2> DEFINE days == first .. first + SearchDays - 1
  <2>8. ASSUME NEW e \in days, DateOf(e).month = DateOf(d).month,
               \/ DateOf(e).day = DateOf(d).day /\ ~s.domStar /\ DayOf(t0) \in s.doms
               \/ DateOf(e).weekday = DateOf(d).weekday /\ ~s.dowStar /\ WeekdayOf(t0) \in s.dows
               \/ s.domStar /\ s.dowStar
        PROVE  Matches(s, DayLength * e + r) /\ DayLength * e + r \in Window(now)
    <3> DEFINE t == DayLength * e + r
    <3>1. e \in Nat /\ t \in Window(now)
      BY <2>7
    <3>2. /\ t \div DayLength = e /\ t0 \div DayLength = d
          /\ MinuteOf(t) = MinuteOf(t0) /\ HourOf(t) = HourOf(t0)
      BY <2>5, <3>1, DayAndTime
    <3> HIDE DEF t
    <3>3. DayOf(t) = DateOf(e).day /\ MonthOf(t) = DateOf(e).month /\ WeekdayOf(t) = DateOf(e).weekday
      BY <3>2 DEF DayOf, MonthOf, WeekdayOf
    <3>4. DayOf(t0) = DateOf(d).day /\ MonthOf(t0) = DateOf(d).month /\ WeekdayOf(t0) = DateOf(d).weekday
      BY <3>2 DEF DayOf, MonthOf, WeekdayOf
    <3>5. Matches(s, t)
      BY <2>4, <2>8, <3>2, <3>3, <3>4 DEF Matches, DayMatches
    <3> QED
      BY <3>1, <3>5 DEF t
  <2>9. \E t \in Window(now) : Matches(s, t)
    <3>1. \E e \in days : DateOf(e).month = DateOf(d).month /\ DateOf(e).day = DateOf(d).day
      <4>1. <<DateOf(d).month, DateOf(d).day>> \in DatesOf(days)
        BY <2>0, <2>2, <2>6 DEF DatesOf
      <4> QED
        BY <4>1 DEF DatesOf
    <3>2. \E e \in days : DateOf(e).month = DateOf(d).month /\ DateOf(e).weekday = DateOf(d).weekday
      <4>1. <<DateOf(d).month, DateOf(d).weekday>> \in WeekdaysOf(days)
        BY <2>0, <2>2, <2>6 DEF WeekdaysOf
      <4> QED
        BY <4>1 DEF WeekdaysOf
    <3>3. DayMatches(s, t0)
      BY <2>4 DEF Matches
    <3> HIDE DEF days
    <3>4. CASE s.domStar /\ s.dowStar
      BY <2>8, <3>1, <3>4
    <3>5. CASE ~s.domStar /\ DayOf(t0) \in s.doms
      BY <2>8, <3>1, <3>5
    <3>6. CASE ~s.dowStar /\ WeekdayOf(t0) \in s.dows
      BY <2>8, <3>2, <3>6
    <3> QED
      BY <3>3, <3>4, <3>5, <3>6 DEF DayMatches
  <2>10. NextAfter(s, now) # Never
    <3>1. PICK width \in Nat : Window(now) = now + 1 .. now + width
      BY <2>0, WindowOfTimes, Zenon
    <3>2. Never \notin Window(now)
      BY <2>0, <3>1 DEF Never
    <3> QED
      BY <2>0, <2>9, <3>2, NextIsFirst, Zenon
  <2>11. s # Invalid
    BY <2>4 DEF Matches, Invalid
  <2> QED
    BY <2>10, <2>11, Zenon DEF NextRun, s
<1>2. TypeOK => YearlyJobsHaveNextRun
  BY <1>1
<1> QED
  BY <1>2, TypeCorrect, PTL

-------------------------------------------------------------------------------
\* The screen never shows a time that is ahead of the clock.
NowIsPast == clock \in Nat /\ now \in Nat /\ now <= clock

\* It stays so: time only passes, and a gather takes the time of the clock.
LEMMA NowStaysPast == Spec => []NowIsPast
<1>1. Init => NowIsPast
  BY ViewAssumption DEF Init, NowIsPast
<1>2. NowIsPast /\ [Next]_vars => NowIsPast'
  BY ViewAssumption DEF NowIsPast, Next, Tick, ApplyRefresh, Select, vars
<1> QED
  BY <1>1, <1>2, PTL DEF Spec

\* The table and the preview use the time of the last gather and not the clock
\* (cron_schedule_cells); until the run they show has passed this makes no difference.
THEOREM StaleNextIsRight == Spec => []StaleIsStillNext
<1>1. NowIsPast => StaleIsStillNext
  BY NextKept DEF NowIsPast, StaleIsStillNext
<1> QED
  BY <1>1, NowStaysPast, PTL
===============================================================================
