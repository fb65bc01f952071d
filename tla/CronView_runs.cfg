SPECIFICATION Spec
CONSTANTS
    MinutesPerHour = 4
    HoursPerDay = 2
    DateOf <- MCDateOf
    Word = 64
    SearchDays = 366
    Schedules <- MCSchedules
    Moments <- MCMoments
    Years <- MCAllYears
    Shown = 3
INVARIANTS
    ShownRunsAreNext
    YearlyJobsHaveNextRun
    SameWordsSameRuns
