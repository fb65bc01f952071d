------------------------------- MODULE MCCronView -------------------------------
(***************************************************************************)
(* The Crons view on a short day (2 hours of 4 minutes) in the real years  *)
(* 2023 to 2028, two of them leap years, at the turns of months and years  *)
(* and around the leap day.                                                *)
(***************************************************************************)
EXTENDS CronView

MCYears == 2023 .. 2028

\* The day each month begins with, counted from 2023-01-01, which is a Sunday.
DaysBefore == <<0, 31, 59, 90, 120, 151, 181, 212, 243, 273, 304, 334>>
FirstDay(y, m) == 365 * (y - 2023) + (y - 2021) \div 4 + DaysBefore[m]
                  + IF y % 4 = 0 /\ m > 2 THEN 1 ELSE 0

MCDates == [d \in 0 .. FirstDay(2029, 1) - 1 |->
    LET y == CHOOSE y \in MCYears : FirstDay(y, 1) <= d /\ d < FirstDay(y + 1, 1)
        m == CHOOSE m \in 1 .. 12 : FirstDay(y, m) <= d /\ (m = 12 \/ d < FirstDay(y, m + 1))
    IN  [month |-> m, day |-> d - FirstDay(y, m) + 1, weekday |-> d % 7]]
MCDateOf(d) == MCDates[d]

On(y, m, d) == (FirstDay(y, m) + d - 1) * DayLength
MCMoments == {On(2023, 12, 31) + DayLength - 1, On(2024, 1, 31) + 5, On(2024, 2, 28),
              On(2024, 2, 28) + DayLength - 1, On(2024, 2, 29) + 2, On(2024, 3, 1),
              On(2025, 1, 1), On(2025, 2, 28) + 7}
MCAllYears == {On(y, 1, 1) .. On(y, 12, 31) + DayLength - 1 : y \in MCYears}

MCSchedules ==
    {Macro(name) : name \in {"@reboot", "@yearly", "@monthly", "@weekly", "@daily", "@hourly", "@every"}}
    \cup {Fields(s) : s \in {
        <<Star, Star, Star, Star, Star>>,
        <<<<By(Every, 2)>>, Star, Star, Star, Star>>,
        <<<<Span(0, 0), Span(2, 3)>>, Star, Star, Star, Star>>,
        <<<<By(Every, 2)>>, Star, Star, Star, At(1)>>,
        <<At(3), At(1), Star, Star, Star>>,
        <<At(3), At(1), Star, At(2), Star>>,
        <<At(3), At(1), Star, Star, <<Span(1, 5)>>>>,
        <<At(3), At(1), Star, Star, <<Span(0, 0), Span(7, 7)>>>>,
        <<At(0), At(0), At(28), At(2), Star>>,
        <<At(0), At(0), At(29), At(2), Star>>,
        <<At(0), At(0), At(30), At(2), Star>>,
        <<At(0), At(0), At(31), Star, Star>>,
        <<At(0), At(0), At(31), Star, At(1)>>,
        <<At(0), At(0), At(1), At(3), At(5)>>,
        <<At(0), At(1), <<By(Span(10, 31), 7)>>, <<Span(2, 4)>>, Star>>,
        <<At(4), Star, Star, Star, Star>>,
        <<<<By(Every, 0)>>, Star, Star, Star, Star>>,
        <<Star, Star, Star, Star, <<Garbled>>>>,
        <<Star, Star, Star, Star>>}}

\* What the theorems suppose holds here.
ASSUME StepsFitHere       == StepsFit
ASSUME DatesHere          == \A d \in DOMAIN MCDates : MCDates[d] \in Date
ASSUME CalendarRepeatsHere == CalendarRepeats
=================================================================================
