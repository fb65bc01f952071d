-------------------------------- MODULE CronJobs --------------------------------
(***************************************************************************)
(* The scheduled jobs of a host: how crates/systui-collectors/src/cron.rs  *)
(* reads them and crates/systui-security/src/cron.rs judges them.          *)
(*                                                                         *)
(* A line is told apart as far as the parser does: blank, an assignment,   *)
(* too short for a job, or a job, with or without a comment mark.  Fields  *)
(* of the schedule are values of CronSchedule; of a command matter the     *)
(* script it starts, if any, and whether it redirects its output.          *)
(***************************************************************************)
EXTENDS CronSchedule, Findings

CONSTANTS TempScripts,              \* script paths below /tmp, /var/tmp or /dev/shm
          HighFrequencyPerHour      \* 12

NoOne    == "none"
NoScript == "none"

Command(script, logs) == [script |-> script, logs |-> logs]

\* The lines of a crontab.  looks: the first tokens look like a schedule, as far as
\* looks_like_cron_schedule can tell.
JobLine(schedule, user, command) ==
    [form |-> "job", marked |-> FALSE, looks |-> TRUE, schedule |-> schedule, user |-> user, command |-> command]
Marked(line)   == [line EXCEPT !.marked = TRUE]
\* Six words or more that are no job, as in a comment.
Prose(line)    == [line EXCEPT !.looks = FALSE]
Other(form)    == [JobLine(Macro("none"), NoOne, Command(NoScript, FALSE)) EXCEPT !.form = form]

\* place: the line the entry was read from, so that equal lines are two entries.
Entry(line, source, place, enabled) ==
    [schedule |-> line.schedule, user |-> line.user, command |-> line.command,
     source |-> source, place |-> place, enabled |-> enabled]

-------------------------------------------------------------------------------
(* Collecting *)

\* parse_line: a marked line is a disabled job only if it looks like one.
IsJob(line) == line.form = "job" /\ (line.marked => line.looks)

\* parse_crontab: disabled jobs are kept in the user's own crontab only.
ParseCrontab(lines, source) ==
    {Entry(lines[i], source, i, ~lines[i].marked) :
        i \in {j \in DOMAIN lines : IsJob(lines[j]) /\ (lines[j].marked => source = "user")}}

\* A line of anacrontab has a period, in days or a macro, where a crontab has a schedule.
AnacronLine(period, command) == [form |-> "job", marked |-> FALSE, period |-> period, command |-> command]

\* anacron_period_to_macro: a period without a macro stays as it is, a single word.
PeriodToMacro(period) ==
    CASE period = "1"             -> Macro("@daily")
      [] period = "7"             -> Macro("@weekly")
      [] period \in {"30", "31"}  -> Macro("@monthly")
      [] period \in {"3", "14"}   -> Fields(<<At(0)>>)
      [] OTHER                    -> Macro(period)

\* parse_anacrontab
ParseAnacrontab(lines) ==
    {Entry(JobLine(PeriodToMacro(lines[i].period), "root", lines[i].command), "anacron", i, TRUE) :
        i \in {j \in DOMAIN lines : lines[j].form = "job" /\ ~lines[j].marked}}

\* PERIODIC_DIRS
PeriodicDirs == [d \in {"hourly", "daily", "weekly", "monthly"} |->
    CASE d = "hourly" -> "@hourly" [] d = "daily" -> "@daily"
      [] d = "weekly" -> "@weekly" [] d = "monthly" -> "@monthly"]

\* Names run-parts takes: those of a directory without the placeholders.
IsRunnableName(name) == name \notin {".placeholder", "README", "backup.bak"}

\* The script of a periodic directory.
PeriodicScript(name) == Command(name, FALSE)

RunnableIn(names) == {n \in names : IsRunnableName(n)}

\* collect_cron_entries: every source that cannot be read contributes nothing.  The files
\* of /etc/cron.d are read one by one, the periodic directories are only listed.
CollectCronEntries(a) ==
    ParseCrontab(OrElse(a["crontab -l"], <<>>), "user")
    \cup ParseCrontab(OrElse(a["/etc/crontab"], <<>>), "system")
    \cup (UNION {ParseCrontab(OrElse(a["/etc/cron.d/*"], [n \in {name} |-> <<>>])[name], "cron-d") :
                name \in RunnableIn(OrElse(a["/etc/cron.d"], {}))})
    \cup ParseAnacrontab(OrElse(a["/etc/anacrontab"], <<>>))
    \cup UNION {{Entry(JobLine(Macro(PeriodicDirs[d]), "root", PeriodicScript(n)), "periodic", 0, TRUE) :
                    n \in RunnableIn(OrElse(a["/etc/cron.periodic"], [e \in {d} |-> {}])[d])} :
                d \in DOMAIN PeriodicDirs}

-------------------------------------------------------------------------------
(* Judging *)

\* script_paths, of the jobs that are active.
ScriptPaths(entries) == {e.command.script : e \in {f \in entries : f.enabled}} \ {NoScript}

\* Mutant: a stat that leaves with an error is not believed at all.
StatIfAll(a, paths) ==
    LET found == OrElse(a["stat scripts"], <<>>)
    IN  IF paths \subseteq DOMAIN found THEN [p \in paths |-> found[p]] ELSE <<>>

\* stat_scripts: stat prints the files it finds and leaves with an error for the others;
\* the output is used either way, and is empty when the transport failed.
StatScripts(a, paths) ==
    LET found == OrElse(a["stat scripts"], <<>>) IN [p \in paths \cap DOMAIN found |-> found[p]]

\* high_frequency, at every hour and every five minutes or more often.
HighFrequency(s) ==
    s.kind = "calendar" /\ Cardinality(s.hours) = HoursPerDay /\ Cardinality(s.minutes) >= HighFrequencyPerHour

CheckSchedule(e, s) ==
    When(s = Invalid, {Finding("cron.invalid-schedule", e.command.script, "low")})
    \cup When(HighFrequency(s), {Finding("cron.high-frequency", e.command.script, "low")})

CheckScript(e, stats) ==
    LET path == e.command.script
        root == e.user = "root"
    IN  IF path = NoScript THEN {}
        ELSE When(path \notin DOMAIN stats, {Finding("cron.missing-script", path, "medium")})
             \cup When(path \in DOMAIN stats /\ ~stats[path].executable,
                       {Finding("cron.not-executable", path, "medium")})
             \cup When(root /\ path \in DOMAIN stats /\ stats[path].worldWritable,
                       {Finding("cron.world-writable-script", path, "high")})
             \cup When(root /\ path \in TempScripts, {Finding("cron.root-temp-script", path, "high")})

\* check_entry
CheckEntry(e, stats) ==
    IF ~e.enabled THEN {}
    ELSE CheckSchedule(e, ParseSchedule(e.schedule)) \cup CheckScript(e, stats)
         \cup When(e.source # "periodic" /\ ~e.command.logs,
                   {Finding("cron.no-logging", e.command.script, "info")})

\* duplicate_findings: the same schedule and command from two sources.
Duplicates(entries) ==
    {Finding("cron.duplicate", e.command.script, "low") :
        e \in {f \in entries : f.enabled /\ \E g \in entries :
                    g # f /\ g.enabled /\ g.schedule = f.schedule /\ g.command = f.command}}

\* cron_findings and check_crons
CronFindings(a, entries) ==
    LET stats == StatScripts(a, ScriptPaths(entries))
    IN  (UNION {CheckEntry(e, stats) : e \in entries}) \cup Duplicates(entries)
===============================================================================
