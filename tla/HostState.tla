------------------------------- MODULE HostState -------------------------------
(***************************************************************************)
(* A host at one moment: system.rs, process.rs, service.rs and logs.rs of  *)
(* crates/systui-collectors read it, host_report.rs puts it together and   *)
(* health.rs scores it.                                                    *)
(*                                                                         *)
(* Loads are in hundredths.                                                *)
(***************************************************************************)
EXTENDS Findings, Integers, FiniteSetsExt

CONSTANTS DiskWarning, DiskCritical,    \* config.rs Thresholds: percent of a disk
          RamWarning,                   \* percent of the memory
          LoadPerCore,                  \* load_warning_multiplier, in hundredths
          ManyErrors,                   \* 20: recent errors that weigh more
          PseudoFs                      \* file systems that are no storage

ASSUME ThresholdsAssumption ==
    {DiskWarning, DiskCritical, RamWarning, LoadPerCore, ManyErrors} \subseteq Nat

-------------------------------------------------------------------------------
(* system.rs *)

\* The answer to the reading of /proc/stat: the times of the line cpu, and the lines cpuN.
Percent(part, whole) == IF whole = 0 THEN 0 ELSE (part * 100) \div whole
Less(a, b)           == IF a >= b THEN a - b ELSE 0

\* cpu_usage: of two samples; a counter that went back counts as no time.
CpuUsage(prev, cur) ==
    LET total == Less(cur.total, prev.total)
        idle  == Less(cur.idle, prev.idle)
    IN  [busy |-> IF total = 0 THEN 0 ELSE 100 - Min({100, Percent(idle, total)}), cores |-> cur.cores]

\* parse_meminfo: without MemAvailable the free memory stands for it.
ParseMeminfo(text) ==
    [total |-> text.total,
     available |-> IF text.available # Absent THEN text.available
                   ELSE IF text.free # Absent THEN text.free ELSE 0,
     swapTotal |-> text.swapTotal, swapFree |-> text.swapFree]

\* parse_df
ParseDf(rows) ==
    {[mount |-> r.mount, use |-> r.use] : r \in {x \in rows : x.filesystem \notin PseudoFs}}

\* read_proc_batch: the four files in one command, or else one by one.
ProcFiles == {"/proc/uptime", "/proc/loadavg", "/proc/meminfo", "/proc/stat"}

ReadProc(a) == IF a["tail /proc"] # Failed THEN a["tail /proc"] ELSE [f \in ProcFiles |-> a[f]]

\* HostStatics, with the reads the snapshot cannot do without.
ReadIdentity(a) ==
    IF Failed \in {a["uname -n"], a["uname -r"]} THEN Failed
    ELSE [hostname |-> a["uname -n"], kernel |-> a["uname -r"], os |-> OrElse(a["/etc/os-release"], Absent)]

\* SystemCollector::collect: Failed as soon as one of the required reads is, or holds no
\* number where one belongs.  The second sample of /proc/stat is a read of its own.
CollectSystem(a, cached) ==
    LET identity == IF cached # Absent THEN cached ELSE ReadIdentity(a)
        proc     == ReadProc(a)
    IN  IF identity = Failed \/ a["/proc/stat"] = Failed \/ \E f \in ProcFiles : proc[f] = Failed
        THEN Failed
        ELSE [identity |-> identity, uptime |-> proc["/proc/uptime"], load |-> proc["/proc/loadavg"],
              memory   |-> ParseMeminfo(proc["/proc/meminfo"]),
              cpu      |-> CpuUsage(proc["/proc/stat"], a["/proc/stat"]),
              disks    |-> ParseDf(OrElse(a["df -P"], {})),
              users    |-> OrElse(a["who"], {})]

-------------------------------------------------------------------------------
(* service.rs, logs.rs, process.rs *)

\* parse_unit_line: a bullet before the name is dropped when enough words follow it.  The
\* place of a unit is its row.
ParseUnits(rows) ==
    {[place |-> i, name |-> rows[i].name, active |-> rows[i].active, sub |-> rows[i].sub,
      description |-> rows[i].description] : i \in {j \in DOMAIN rows : rows[j].words >= 4}}

IsFailed(unit) == unit.active = "failed" \/ unit.sub = "failed"

\* ServiceCollector and FailedUnitsCollector; a command that fails is an error of its own.
CollectServices(a)    == IF a["systemctl list-units"] = Failed THEN Failed ELSE ParseUnits(a["systemctl list-units"])
CollectFailedUnits(a) == IF a["systemctl --failed"] = Failed THEN Failed ELSE ParseUnits(a["systemctl --failed"])

\* UnitFilesCollector; parse_unit_files
CollectUnitFiles(a) ==
    IF a["systemctl list-unit-files"] = Failed THEN Failed
    ELSE {r \in a["systemctl list-unit-files"] : r.dotted}

\* parse_journal_line: an entry without a priority is one of information.
ParseJournal(lines) ==
    [i \in DOMAIN lines |-> IF lines[i].priority = Absent THEN [lines[i] EXCEPT !.priority = 6] ELSE lines[i]]

IsError(entry) == entry.priority <= 3

\* LogsCollector; the query asks the journal for errors of the last lines.
CollectLogs(answer) == IF answer = Failed THEN Failed ELSE ParseJournal(answer)

\* ProcessCollector, parse_ps_line: a process whose parent is no number has none.
CollectProcesses(a) ==
    IF a["ps -eo"] = Failed THEN Failed
    ELSE {[pid |-> p.pid, ppid |-> IF p.ppid = Absent THEN 0 ELSE p.ppid, command |-> p.command] : p \in a["ps -eo"]}

-------------------------------------------------------------------------------
(* health.rs *)

DiskPoints(disk) == IF disk.use >= DiskCritical THEN 15 ELSE IF disk.use >= DiskWarning THEN 8 ELSE 0

\* Memory::used_percent is at or above a limit; of no memory at all 0 percent are used.
UsedAtLeast(total, free, limit) ==
    IF total = 0 THEN limit = 0 ELSE Less(total, free) * 100 >= limit * total

RamPoints(memory) == IF UsedAtLeast(memory.total, memory.available, RamWarning) THEN 6 ELSE 0

SwapPoints(memory) ==
    IF memory.swapTotal = 0 THEN 0
    ELSE IF UsedAtLeast(memory.swapTotal, memory.swapFree, 80) THEN 6
    ELSE IF UsedAtLeast(memory.swapTotal, memory.swapFree, 50) THEN 3 ELSE 0

\* Load above the limit of the cores, one core at least.
Overloaded(load, cores, perCore) == load > Max({cores, 1}) * perCore

LoadPoints(load, cores) == IF Overloaded(load, cores, LoadPerCore) THEN 6 ELSE 0

FailedPoints(n) == Min({n * 4, 255, 16})

ErrorPoints(n) == IF n >= ManyErrors THEN 5 ELSE IF n > 0 THEN 2 ELSE 0

\* evaluate_health: what each failing check takes off the score.
EvaluateHealth(system, failedUnits, errors) ==
    Less(100, MapThenSumSet(DiskPoints, system.disks)
              + RamPoints(system.memory) + SwapPoints(system.memory)
              + LoadPoints(system.load, system.cpu.cores)
              + FailedPoints(failedUnits) + ErrorPoints(errors))

\* collect_host_report: the system is required, the rest are empty where they fail.
CollectHostReport(a, cached) ==
    LET system == CollectSystem(a, cached)
        down   == OrElse(CollectFailedUnits(a), {})
        logs   == OrElse(CollectLogs(a["journalctl -p 3"]), <<>>)
    IN  IF system = Failed THEN Failed
        ELSE [system    |-> system,
              failed    |-> down,
              processes |-> OrElse(CollectProcesses(a), {}),
              logs      |-> logs,
              score     |-> EvaluateHealth(system, Cardinality(down),
                                           Cardinality({i \in DOMAIN logs : IsError(logs[i])}))]
===============================================================================
