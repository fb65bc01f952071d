-------------------------------- MODULE CronView --------------------------------
(***************************************************************************)
(* The Crons view of the TUI (crates/systui-ui/src/ui.rs): for the         *)
(* selected job it draws the schedule in words and the next runs, from     *)
(* what the last gather left in the session.                               *)
(***************************************************************************)
EXTENDS CronSchedule

CONSTANTS Schedules,    \* schedules a crontab line may hold, as written
          Moments,      \* points in time the clock is looked at (bound)
          Years,        \* the years of the calendar, each the set of its minutes
          Shown         \* runs the preview lists: 3

ASSUME ViewAssumption ==
    /\ Moments \subseteq Nat /\ Shown \in Nat /\ Schedules \subseteq Written
    /\ \A y \in Years : y \subseteq Nat

VARIABLES clock,        \* the time of day where SysTUI runs
          now,          \* App.now: the clock when the last gather ended
          job           \* the schedule of the selected job of App.crons

vars == <<clock, now, job>>

-------------------------------------------------------------------------------
\* cron_next_runs: the runs listed for the job, as many as there are up to Shown.
NextRuns(raw, from) ==
    LET s == ParseSchedule(raw)
        run == Upcoming(s, from)
    IN  IF s = Invalid THEN <<>>
        ELSE [k \in {n \in 1 .. Shown : run[n] # Never} |-> run[k]]

\* cron_schedule_cells: the words and the next run in the table.
Words(raw) ==
    LET s == ParseSchedule(raw) IN IF s = Invalid THEN <<"invalid">> ELSE Describe(s)

NextRun(raw, from) ==
    LET s == ParseSchedule(raw) IN IF s = Invalid THEN Never ELSE NextAfter(s, from)

-------------------------------------------------------------------------------
Init == clock \in Moments /\ now = clock /\ job \in Schedules

\* Time passes; the screen keeps the time of its last gather.
Tick ==
    /\ \E m \in Moments : m > clock /\ clock' = m
    /\ UNCHANGED <<now, job>>

\* apply_refresh: the job is what the gather found in its place.
ApplyRefresh ==
    /\ now' = clock /\ job' \in Schedules
    /\ UNCHANGED clock

\* select_down, select_up: another job of the list.
Select ==
    /\ job' \in Schedules
    /\ UNCHANGED <<clock, now>>

Next == Tick \/ ApplyRefresh \/ Select

Spec == Init /\ [][Next]_vars

-------------------------------------------------------------------------------
(* What a crontab means, read off the text and not off the parsed lists. *)

Allows(field, v, min, max) ==
    \E i \in DOMAIN field :
        LET p == field[i]
            lo == IF p.range = "star" THEN min ELSE p.lo
            hi == IF p.range = "star" THEN max ELSE p.hi
        IN  lo <= v /\ v <= hi /\ (v - lo) % p.step = 0

Fires(raw, t) ==
    LET f == Expanded(raw)
        day     == Allows(f[3], DayOf(t), 1, 31)
        weekday == Allows(f[5], WeekdayOf(t), 0, 7) \/ (WeekdayOf(t) = 0 /\ Allows(f[5], 7, 0, 7))
    IN  /\ Valid(raw) /\ raw.macro # "@reboot"
        /\ Allows(f[1], MinuteOf(t), 0, MinutesPerHour - 1)
        /\ Allows(f[2], HourOf(t), 0, HoursPerDay - 1)
        /\ Allows(f[4], MonthOf(t), 1, 12)
        /\ IF f[3] = Star \/ f[5] = Star THEN day /\ weekday ELSE day \/ weekday

-------------------------------------------------------------------------------
(* What the theorems of CronViewProofs suppose of schedules and calendar. *)

FieldMax == <<MinutesPerHour - 1, HoursPerDay - 1, 31, 12, 7>>

\* No schedule has a step so large that parse_field wraps around when it adds it: a debug
\* build stops there, a release build goes on from the bottom of the range.
StepsFit ==
    \A raw \in Schedules : Valid(raw) /\ raw.macro # "@reboot" =>
        \A i \in 1 .. 5 : \A k \in DOMAIN Expanded(raw)[i] : FieldMax[i] + Expanded(raw)[i][k].step < Word

Date          == [month: 1 .. 12, day: 1 .. 31, weekday: 0 .. 6]
CalendarDates == \A d \in Nat : DateOf(d) \in Date

\* Some year has no day that the next SearchDays days leave out, from any moment on: each of
\* its dates comes again, and each of its weekdays in the same month.
DatesOf(days)    == {<<DateOf(d).month, DateOf(d).day>> : d \in days}
WeekdaysOf(days) == {<<DateOf(d).month, DateOf(d).weekday>> : d \in days}
CalendarRepeats ==
    \E y \in Years : \A m \in Moments : \A first \in {m \div DayLength, (m \div DayLength) + 1} :
        LET days == {t \div DayLength : t \in y}
            next == first .. first + SearchDays - 1
        IN  DatesOf(days) \subseteq DatesOf(next) /\ WeekdaysOf(days) \subseteq WeekdaysOf(next)

-------------------------------------------------------------------------------
TypeOK ==
    clock \in Moments /\ now \in Moments /\ job \in Schedules

\* The runs the preview lists are the next ones: each of them is a time at which the
\* crontab line fires, in order, and the line fires at no other time before the last
\* of them; fewer than Shown are listed only if the line does not fire again in the
\* search window (next_after over month ends, leap days and the two day fields).
ShownRunsAreNext ==
    LET runs == NextRuns(job, now)
        from == IF runs = <<>> THEN now ELSE runs[Len(runs)]
    IN  /\ {t \in now + 1 .. from : Fires(job, t)} = {runs[i] : i \in DOMAIN runs}
        /\ \A i \in 1 .. Len(runs) - 1 : runs[i] < runs[i + 1]
        /\ Len(runs) < Shown => \A t \in Window(from) : ~Fires(job, t)

YearlyJobs == {raw \in Schedules : \A y \in Years : \E t \in y : Fires(raw, t)}

\* A job that fires in every year always has a next run on the screen, also when a leap
\* day lies in between: 366 days is just enough for a job that fires once a year.
YearlyJobsHaveNextRun == job \in YearlyJobs => NextRun(job, now) # Never

\* The view runs schedules forward from the time of the last gather.  A next run it shows
\* that has not passed is the one it would show with the time of the clock.
StaleIsStillNext ==
    LET s == ParseSchedule(job)
        shown == NextAfter(s, now)
    IN  shown # Never /\ clock < shown => NextAfter(s, clock) = shown

\* Two jobs the table describes in the same words have the same next run: the words
\* lose nothing that matters.
SameWordsSameRuns ==
    \A raw \in Schedules : Words(raw) = Words(job) => NextRun(raw, now) = NextRun(job, now)
===============================================================================
