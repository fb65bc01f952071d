------------------------------ MODULE CronSchedule ------------------------------
(***************************************************************************)
(* Cron schedules, as crates/systui-collectors/src/cron.rs reads, runs     *)
(* forward and describes them.                                             *)
(*                                                                         *)
(* A schedule as written is a macro or a sequence of fields; a field is a  *)
(* sequence of parts (what the commas separate) and a part a range with a  *)
(* step.  Time is counted in minutes from the first day of the calendar;   *)
(* the seconds next_after cuts off change no answer, because a schedule    *)
(* fires on whole minutes.  The hour and the day are as long as the        *)
(* constants say, and DateOf stands for chrono's calendar.                 *)
(***************************************************************************)
EXTENDS Integers, FiniteSets, Sequences

CONSTANTS MinutesPerHour,   \* 60
          HoursPerDay,      \* 24
          DateOf(_),        \* chrono: [month, day, weekday] of the n-th day
          Word,             \* 2^32: a step is a u32 and wraps around
          SearchDays        \* 366: how far next_after looks

ASSUME CalendarAssumption ==
    /\ MinutesPerHour \in Nat \ {0} /\ HoursPerDay \in Nat \ {0}
ASSUME SearchAssumption == Word \in Nat \ {0, 1} /\ SearchDays \in Nat

DayLength == MinutesPerHour * HoursPerDay
\* Time no clock shows: no next run.
Never     == -1

\* chrono's accessors on a point in time.
MinuteOf(t)  == t % MinutesPerHour
HourOf(t)    == (t \div MinutesPerHour) % HoursPerDay
DayOf(t)     == DateOf(t \div DayLength).day
MonthOf(t)   == DateOf(t \div DayLength).month
WeekdayOf(t) == DateOf(t \div DayLength).weekday

-------------------------------------------------------------------------------
(* What a crontab line may hold in the place of its schedule. *)

Every        == [range |-> "star", lo |-> 0, hi |-> 0, step |-> 1, stepped |-> FALSE]
Span(a, b)   == [range |-> "span", lo |-> a, hi |-> b, step |-> 1, stepped |-> FALSE]
By(part, n)  == [part EXCEPT !.step = n, !.stepped = TRUE]
\* Text that is no number where one belongs: a name such as MON, a sign.
Garbled      == [range |-> "garbled", lo |-> 0, hi |-> 0, step |-> 1, stepped |-> FALSE]

Star         == <<Every>>
At(v)        == <<Span(v, v)>>
Fields(s)    == [macro |-> "none", fields |-> s]
Macro(name)  == [macro |-> name, fields |-> <<>>]

\* Any text: a part between commas is never missing, a number is a u32.
Part    == [range: {"star", "span", "garbled"}, lo: Nat, hi: Nat, step: 0 .. Word - 1, stepped: BOOLEAN]
Written == [macro: STRING, fields: Seq(Seq(Part) \ {<<>>})]

-------------------------------------------------------------------------------
(* parse_schedule *)

\* A part parse_field accepts for a field over min..max.
Fits(part, min, max) ==
    LET lo == IF part.range = "star" THEN min ELSE part.lo
        hi == IF part.range = "star" THEN max ELSE part.hi
    IN  part.range # "garbled" /\ part.step # 0 /\ min <= lo /\ hi <= max /\ lo <= hi

\* The values of one part: lo, lo + step, ... in a machine word while they are not
\* above hi.
PartValues(part, min, max) ==
    LET lo == IF part.range = "star" THEN min ELSE part.lo
        hi == IF part.range = "star" THEN max ELSE part.hi
        from[v \in 0 .. hi] ==
            LET next == (v + part.step) % Word
            IN  {v} \cup (IF next <= hi THEN from[next] ELSE {})
    IN  from[lo]

FieldFits(field, min, max)   == \A i \in DOMAIN field : Fits(field[i], min, max)
FieldValues(field, min, max) == UNION {PartValues(field[i], min, max) : i \in DOMAIN field}

Reboot  == [kind |-> "reboot"]
Invalid == [kind |-> "invalid"]

Expanded(raw) ==
    CASE raw.macro \in {"@yearly", "@annually"} -> <<At(0), At(0), At(1), At(1), Star>>
      [] raw.macro = "@monthly"                 -> <<At(0), At(0), At(1), Star, Star>>
      [] raw.macro = "@weekly"                  -> <<At(0), At(0), Star, Star, At(0)>>
      [] raw.macro \in {"@daily", "@midnight"}  -> <<At(0), At(0), Star, Star, Star>>
      [] raw.macro = "@hourly"                  -> <<At(0), Star, Star, Star, Star>>
      [] OTHER                                  -> raw.fields

\* An unknown macro has no fields, and is refused like any other text without five.
Valid(raw) ==
    LET f == Expanded(raw)
    IN  \/ raw.macro = "@reboot"
        \/ /\ Len(f) = 5
           /\ FieldFits(f[1], 0, MinutesPerHour - 1) /\ FieldFits(f[2], 0, HoursPerDay - 1)
           /\ FieldFits(f[3], 1, 31) /\ FieldFits(f[4], 1, 12) /\ FieldFits(f[5], 0, 7)

ParseSchedule(raw) ==
    LET f == Expanded(raw)
    IN  IF ~Valid(raw) THEN Invalid
        ELSE IF raw.macro = "@reboot" THEN Reboot
        ELSE [kind    |-> "calendar",
              minutes |-> FieldValues(f[1], 0, MinutesPerHour - 1),
              hours   |-> FieldValues(f[2], 0, HoursPerDay - 1),
              doms    |-> FieldValues(f[3], 1, 31),
              months  |-> FieldValues(f[4], 1, 12),
              \* 7 is Sunday too
              dows    |-> {d % 7 : d \in FieldValues(f[5], 0, 7)},
              domStar |-> f[3] = Star,
              dowStar |-> f[5] = Star]

-------------------------------------------------------------------------------
(* matches and next_after *)

\* Two restricted day fields are joined by "or", as in classic cron.
DayMatches(s, t) ==
    \/ s.domStar /\ s.dowStar
    \/ ~s.domStar /\ DayOf(t) \in s.doms
    \/ ~s.dowStar /\ WeekdayOf(t) \in s.dows

Matches(s, t) ==
    /\ s.kind = "calendar"
    /\ MinuteOf(t) \in s.minutes /\ HourOf(t) \in s.hours /\ MonthOf(t) \in s.months
    /\ DayMatches(s, t)

\* Mutants: the search starts at the minute it was called with; it looks 365 days ahead.
WindowFromNow(after) == after .. after + SearchDays * DayLength
WindowOfAYear(after) == after + 1 .. after + (SearchDays - 1) * DayLength

\* The minutes next_after tries, in their order.
Window(after) == after + 1 .. after + SearchDays * DayLength

NextAfter(s, after) ==
    IF \E t \in Window(after) : Matches(s, t)
    THEN CHOOSE t \in Window(after) :
            Matches(s, t) /\ \A u \in Window(after) : Matches(s, u) => t <= u
    ELSE Never

\* upcoming: runs[k] is the k-th next run, Never from the first one that is missing.
Upcoming(s, after) ==
    LET run[k \in Nat] == IF k = 0 THEN after
                          ELSE IF run[k - 1] = Never THEN Never
                          ELSE NextAfter(s, run[k - 1])
    IN  run

-------------------------------------------------------------------------------
(* describe: the words of a schedule, as a tuple of the texts that vary. *)

IsFull(values, min, max) == Cardinality(values) = max - min + 1

FieldText(values, min, max) == IF IsFull(values, min, max) THEN {} ELSE values

\* Mutant: the second value is taken for the step, whatever comes after it.
SecondValue(values, max) ==
    IF 0 \in values /\ Cardinality(values) >= 2
    THEN CHOOSE v \in values \ {0} : \A w \in values \ {0} : v <= w ELSE 0

\* The step of 0, step, 2 * step, ... up to max, or 0 when the values are no such row.
StepFromZero(values, max) ==
    LET steps == {n \in 1 .. max : values = {v \in 0 .. max : v % n = 0}}
    IN  IF Cardinality(values) < 2 \/ steps = {} THEN 0 ELSE CHOOSE n \in steps : TRUE

Describe(s) ==
    IF s.kind = "reboot" THEN <<"at startup">>
    ELSE
    LET everyHour == IsFull(s.hours, 0, HoursPerDay - 1)
        allMonths == IsFull(s.months, 1, 12)
        allDays   == s.domStar /\ s.dowStar /\ allMonths
        step      == StepFromZero(s.minutes, MinutesPerHour - 1)
        oneTime   == Cardinality(s.minutes) = 1 /\ Cardinality(s.hours) = 1 /\ allMonths
    IN  IF IsFull(s.minutes, 0, MinutesPerHour - 1) /\ everyHour /\ allDays
            THEN <<"every minute">>
        ELSE IF step # 0 /\ everyHour /\ allDays
            THEN <<"every n minutes", step>>
        ELSE IF oneTime /\ s.domStar /\ s.dowStar
            THEN <<"every day", s.hours, s.minutes>>
        ELSE IF oneTime /\ s.domStar
            THEN <<"on weekdays", s.dows, s.hours, s.minutes>>
        ELSE <<"at", FieldText(s.minutes, 0, MinutesPerHour - 1),
               FieldText(s.hours, 0, HoursPerDay - 1),
               IF s.domStar THEN {} ELSE s.doms, FieldText(s.months, 1, 12),
               IF s.dowStar THEN {} ELSE s.dows>>
===============================================================================
