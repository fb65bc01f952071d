# SysTUI in TLA+

SysTUI is an agentless terminal UI for administering Linux servers, local or over SSH.
This directory holds TLA+ modules of its core logic, TLC configurations that check them on
small instances, and proofs that TLAPS checks for every value of the constants. Every
definition is translated from the Rust source under `src/crates/`; `PROJECT.json` maps each
to its lines and lists the components, runs, mutants, findings, hazards and theorems.

## 1. The system

| Part | Where | State | Operations |
|---|---|---|---|
| Interactive session | `systui-ui` `lib.rs` `app.rs` `input.rs` | `App`: lists and cursors per tab, modal, pending action, cron form, request flags, in-flight flags | the event loop: drain, draw, one key, plan or execute, spawn |
| Background gather | `systui-ui/data.rs`, `systui-report/collect.rs` | one task and a message in a channel | `spawn_refresh`, `gather`, `apply_refresh` |
| Connectivity probes | `systui-ui/lib.rs`, `systui-collectors/connectivity.rs` | one task and a message | `spawn_connectivity`, `run_connectivity` |
| Action engine | `systui-actions/engine.rs`, `systui-core/{mode,action,audit}.rs` | none (the mode) | `plan`, `execute`, `run` |
| Action catalogue | `systui-actions/{service,process,docker,cron}.rs` | none | risk, guardrail, preview, execute |
| User crontab edits | `systui-actions/cron.rs` | the crontab and its backup file on the host | Add, Edit, Delete, Enable, Disable, RunNow |
| Capability probe | `systui-collectors/capabilities.rs` | none | `probe_capabilities`, `effective_mode` |
| Audit log | `systui-storage/audit.rs` | an append-only file | `append` |
| Configuration store | `systui-storage/config.rs`, `systui-core/config.rs` | the host inventory file | load, save host, remove host, policy resolution |
| State store | `systui-storage/store.rs` | trends, notes, searches, finding states | load at start, save at exit, capped inserts |
| Fleet view and review | `systui-ui/fleet.rs`, `systui-cli/main.rs` | host list and forms; one review task per host | select, add, edit, delete, drill in, gather |
| Review of a host | `systui-ui/data.rs`, `systui-report/{collect,gather}.rs` | the results of eight groups of reads, then the screen | read the groups side by side, cut off a group that hangs, merge findings, apply |
| Collectors | `systui-collectors` | none | run commands, take their output apart, fall back where one fails |
| Health and exposure | `systui-collectors/{health,exposure}.rs` | none | classify a snapshot and its listeners |
| Security checks, policies | `systui-security`, `systui-core/config.rs` | none | turn what was collected into findings; resolve and evaluate a policy |
| Cron schedules | `systui-collectors/cron.rs`, `ui.rs` | none | parse, match, find the next runs, describe |
| Transports | `systui-transport` | none | run a command locally or through ssh |
| Reports, rendering | `systui-report`, `ui.rs` | none | format what was collected |

How they interact. The UI thread runs `event_loop`. It starts a gather on the tokio runtime
(a multi-threaded one, `Runtime::new`, although the comment at `lib.rs:38` calls it
current-thread) and goes on; the outcome comes back through a channel that the loop drains
before it draws. A key sets fields and request flags of `App` only; the loop then plans or
executes the pending action with `block_on`, so the UI waits for an action while gathers go
on beside it. A crontab action is up to three commands on the host. All commands go through a
`Transport`, which may fail before or after the command was carried out. Files under the
user's configuration and state directories are shared with other SysTUI processes.

What is hard. Data is chosen, confirmed and used in different turns of the loop, with
refreshes in between; refresh requests are folded together; a filter is captured when a
gather starts; in-flight flags must go off on every path; an error of the transport does not
say whether the command took effect; a crontab is read, backed up and replaced by separate
commands, with other writers between them; files are rewritten as a whole without locks.
`PROJECT.json` lists these hazards line by line, with the properties that cover them.

What makes each part correct:

- session: nothing runs on the host but what the open modal shows; keys act on the row the
  user saw; what is on screen never goes back in time and follows what was done; indicators
  go off;
- engine: mode, guardrail and confirmation hold at the moment a command is sent;
- crontab edits: one line of the right job changes, and what is replaced was backed up;
- inventory: a save changes its own host and nothing else, and the file always parses;
- state: samples stay in order and the trend keeps its baseline, a session changes its own
  records only, and a finding that was dealt with is shown and counted as such;
- review: what is said of a host is what it was while it was read, what it was all along is
  said, and what could not be read is not shown as compliant;
- cron schedules: the runs and words on the screen are those the crontab line stands for;
- fleet: every selected host is in the report, whatever happens to the others.

## 2. Modules

| Module | Models | Used by |
|---|---|---|
| `ActionEngine` | modes, risks, guardrail, phrases, `plan`, the checks of `execute`, the audit status of `run` | all session modules |
| `ActionGate` | abstract: what may reach a host at all | refined by `Session` |
| `Session` | the event loop with keyboard, modal, gathers, probes, engine and host | `MCSession`, proofs |
| `SessionProofs`, `SessionGateProofs` | theorems about `Session` | |
| `CronEdit` | the crontab actions of several sessions on one crontab | `MCCronEdit`, proofs |
| `CronEditProofs` | theorems about `CronEdit` | |
| `ConfigStore` | the inventory file, the Hosts grid that edits it and the writer of the file, in several processes | `MCConfigStore`, proofs |
| `ConfigStoreProofs` | theorems about `ConfigStore` | |
| `FleetReview` | the concurrent review of a fleet, with permits, timeouts and panics | `FleetReport`, proofs |
| `FleetReport` | the overview and the report made of a review | `MCFleetReport`, proofs |
| `FleetReviewProofs` | theorems about `FleetReview` and `FleetReport` | |
| `StateStore` | the state file with its samples, notes, searches and finding states, in several processes | `MCStateStore`, proofs |
| `StateStoreProofs` | theorems about `StateStore` | |
| `CronSchedule` | parsing, matching, `next_after`, `upcoming`, `describe` | `CronJobs`, `CronView` |
| `CronView` | the Crons tab over time: clock, last gather, selected job | `MCCronView`, proofs |
| `CronViewProofs` | theorems about `CronSchedule` and `CronView` | |
| `Findings` | answers of a transport, findings and their severity | the modules below |
| `CronJobs` | the sources of cron jobs and the checks on them | `HostReview` |
| `Network` | interfaces, listeners with their units, connections, exposures | `HostChecks`, `Containers`, `Databases` |
| `HostChecks` | ssh, sudo, firewall, file, SUID and certificate checks | `HostReview` |
| `Containers` | list, inspection, images, and the checks on containers | `Policy` |
| `HostState` | system, services, logs, processes, and the health score | `Databases`, `Policy` |
| `Databases` | detection of database instances, what they say, and the checks on it | `HostReview` |
| `Policy` | resolution of a host's policy and its evaluation | `HostReview` |
| `Inventory` | firewall view, package manager and updates, timers | `HostReview` |
| `HostReview` | a gather: groups, steps, failures, timeouts, and the screen | `MCHostReview`, proofs |
| `HostReviewProofs` | theorems about `HostReview` | |
| `MCSession`, `MCCronEdit`, `MCConfigStore`, `MCFleetReport`, `MCStateStore`, `MCCronView`, `MCHostReview` | instances for TLC | the `.cfg` files |

### Session

`pc` is the place of the UI thread in one turn of the loop (drain, key, act, running, spawn,
probe, exited); one action stands for one step of that turn, with everything it changes.
`Next` lets the gathers, the connectivity run, the refresh timer, the host and other people
move between any two of those steps, which is what the threads may do.

| Model | Code |
|---|---|
| `modal`, `pending`, `planReq`, `execReq`, `cronForm` | `app.action`, `app.pending`, `action_plan_requested`, `action_exec_requested`, `cron_form` |
| `rows[t]`, `cursor[t]` | the visible list of a tab and its `*_selected` index |
| `drawn` | the row under the cursor in the last frame (`terminal.draw`) |
| `gather[s]`, `refreshing` | the spawned task and its message, the in-flight flag |
| `shownVer`, `shownLogs` | the version of the host, and the log filter, the data on screen was read with |
| `host`, `runs` | version of the host; every call of `ActionEngine::run` with its effect and audit status |
| `ApplyResult`, `ApplyError`, `ApplyProbe`, `Draw` | the head of the loop, `apply_refresh`, `clamp_selections` |
| `Key...`, `Modal...`, `Form...` | the branches of `handle_key` and the `App` methods they call |
| `PlanAction`, `Execute`, `ExecuteRefused`, `CommandReturns` | `plan_action`, `execute_action` |
| `RefreshStep`, `ReloadLogs`, `ProbeStep` | the tail of the loop |

Abstracted: a list is a sequence of rows with a name and a state; which rows a gather brings
is chosen among the lists of the instance. A host version counts the changes made to the
host. A gather reads the host at one instant, which stands for the first command it runs: what
it reads later is no older. A phrase is a record, compared up to blanks and case as the engine
does. Left out: notes, search text, saved searches as such, finding states, the state flush
at exit, the reuse of slow-changing data, failures of the audit append (ignored by the code)
and of the terminal (they end the loop), and a panic of a gather.

### ActionGate and the refinement

`ActionGate` says what SysTUI promises of changes to a host: an action is offered only in a
mode that allows it; it is sent only when the phrase typed for it passes the engine's checks;
it takes effect at most once; what was refused never does. `Session` implements it with
`offer` = the pending action once planned, `typed` = the input of the modal, and `ledger` =
the attempts with their fate (`GateSpec` in `Session`).

### CronEdit

A crontab is a sequence of lines; a line is a job with the number of comment marks before it,
or something else. A session executes an action in steps: `Read` (`crontab -l` and the pure
transform), `Backup` (`tee`), `Install` (`crontab -`). Each command may end well, fail, or be
given up by the transport, in which case its write is in `lost` and may still happen
(`LostWrite`). A session may be killed between steps (`Crash`); other sessions and
`EditByHand` act in between. `alone` is a history variable: the session read the crontab well
and nobody wrote the crontab or the backup since. Job text is one value: that the parser
collapses the blanks of a command is below this level. How a crontab changes is stated by the
places of its lines (`OtherPlaces`, `Others`): beside the job the same lines follow each other.

### ConfigStore

`conf` and `tmp` are `config.toml` and `config.toml.tmp`, a document each (hosts by id, and the
rest of the file as one value), or torn, or missing. A session (`pc`) is at the grid, in the
session of a host, or in one of the steps of a save: the temporary file is opened with
truncation, written, renamed. `overlay` is the modal of `fleet.rs`, `mem` the loaded inventory,
`doc` the document in memory, `fd` what an unfinished write goes to: a writer that has the
temporary file open goes on writing to it after another session renamed it over `config.toml`.
Every step may fail (the form then stays open), a session may be killed anywhere, and a person
may edit the file. The history variables `alone` and `synced` say that nobody else changed the
file since the session read it to save, or loaded it; `overlapped` that a save opened the
temporary file while another was under way. A host is its address and its policy: the address
stands for the fields the form shows, the policy for the one it does not. The
rests of files in `Inline` hold the hosts as an inline table (`hosts = { ... }`), which the code can
load but not edit: a form stays open with an error, and Delete succeeds without a change of the file
and takes the host off the grid, which `InStep` allows for. A single host written inline inside a
table of hosts, the forms' field-by-field editing and the cursor are left out.

### FleetReview and FleetReport

| Model | Code |
|---|---|
| `SelectedWithLocal`, `SelectFleet`, `Matches` | the functions of these names in `cli/main.rs` and `core/fleet.rs` |
| `pc[i]` | how far the task of host `i` is in `review_one_host` and `gather_report` |
| `free` | the permits of the semaphore in `gather_fleet` |
| `started[i]`, `gathered[i]`, `now` | when the timers of the host and of its groups began to run, and the time |
| `group[i]` | the groups of collectors that `gather_report` joins |
| `outcome[i]`, `rows` | the result of the task, `FleetReview::hosts` |
| `Acquire`, `Probed`, `GroupEnds`, `ReviewEnds`, `HostTimesOut`, `Panics` | the steps of a task |
| `Join`, `Finish` | the `join_next` loop |
| `WorseThan`, `Overview`, `FromReview` | `worst_first`, `FleetOverview::build`, `FleetReport::from_review` |

All tasks are there from the start and compete for the permits in any order. `Tick` lets time
pass, only while everything in the process waits for a host or a timer: the work of the process
itself takes no time beside timeouts of seconds. A timer that is due may still lose to an answer that
arrives at that moment. A task that ends drops its permit, its groups and its timers in one
step (`End`). `Reports` is what the order of the overview looks at, health and the number of
urgent findings. The overview is written as what a stable sort does, without one: a row comes
after the rows that are worse and the equal ones it followed, and their number is its place
(`InFrontOf`, `Place`).

### StateStore

| Model | Code |
|---|---|
| `file` | `state.json`: a document, missing (`None`), just truncated (`Empty`), or not parseable (`Torn`) |
| `pc[s]` | a session is off, on, about to save, or between the two halves of `fs::write` |
| `mem[s]`, `dirty[s]`, `shown[s]` | `App::state`, `state_dirty`, `findings` |
| `posted[s]` | a gather that ended and was not yet folded in, with the day it was made |
| `Start`, `ApplyRefresh`, `SetStatus`, `SubmitNote`, `SaveSearch`, `Quit` | `run_session`, `apply_refresh`, the keys of the Security, Timeline and Logs tabs, the flush after the loop |
| `RecordSnapshot`, `Baseline`, `AddNote`, `AddSearch`, `SetFindingStatus`, `ApplyFindingStates` | the methods of `PersistentState` |
| `OpenFile`, `WriteFile`, `WriteStops`, `Stops` | `StateStore::save`, a failed write, a kill |

A session loads the file at its start and writes its whole copy at its end, so of two that
overlap the later one wins; `alone` is the history variable that says no other save met the
session since. `fs::write` truncates and then writes from the start: where two writes cross,
the tail of one may stay behind the other, hence `Torn`. `crossed` records that this happened
or that a write was cut off. `ever`, in each document, is the series of samples as it would be
without a cap. There is one clock and it does not go back. The five statuses of a finding are
`Open`, which is stored as no override, and one other, as the code treats the four alike.
Time stamps, texts and the levels of a sample are left out: nothing depends on them.

### CronSchedule and CronView

A schedule as written is a macro or a sequence of fields, a field a sequence of parts (range and
step). `ParseSchedule` gives the lists the code keeps, a step wraps around in a machine word
(`Word`), and `NextAfter` is the first minute of the search window that matches, as the loop of
`next_after` finds it. `Describe` gives the words as a tuple of the texts that vary. `CronView`
has the clock, `App.now` (the time of the last gather, which the code uses for the next runs) and
the schedule of the selected job. The reference the run compares with, `Fires`, is read off the
text of the crontab line and shares nothing with the parsed lists.

### HostReview and the collectors

| Model | Code |
|---|---|
| `Contents[w][r]` | what read `r` (a command or file) says when the host is in state `w` |
| `Answer` | what the transport makes of it: a failure, or over ssh an exit code 127 |
| `Groups`, `Details`, `seen[g]` | the groups joined in `gather`, and the reads a group makes with the results of the first ones |
| `faults`, `stuck`, `late` | reads that fail in this gather, the group that hangs, the groups cut off |
| `Reads` | which reads each step of a group makes |
| `Collect...`, `Parse...` | the collectors and their parsers, from answers to what they keep |
| `Check...`, `...Findings` | the checks, from what was collected to findings |
| `Results`, `Merged`, `Judged` | `gather`, `merge_findings`, `policy_findings` |
| `Start`, `Read`, `Timeout`, `Apply` | `spawn_refresh`, the awaits, `within_timeout`, `apply_refresh` and `apply_error` |
| `screen`, `view` | what `App` shows; `worlds`, and the other fields of `screen`, are history variables |

The collectors and checks are pure operators on the answers: a text is a record or sequence of the
parts the parser tells apart, and lists whose order nothing depends on are sets. `HostReview` makes
them into a process: groups advance in any order, the host may change between any two steps, reads
fail, a group may hang until its timeout. The tags a policy asks for are a set (the code counts one listed
twice as two). A group reads in one step what nothing joins with what
it reads later, in two what the code reads with the results of the first (inspections, scripts,
what is asked of a database). The network group is one step as no finding joins its listing of
sockets with later reads. `gather_report` of the CLI is the first gather of a session.

Findings are compared with those of an undisturbed review of each state the host was in
(`CleanFindings`). `NothingInvented` lets the screen say more than those in three cases only, which
`ForWantOfAnAnswer` names, in which a check goes on with less than it asked for:

| Case | Why the code says it |
|---|---|
| `policy.partial` | it is the note that something could not be checked |
| `Opposed(id)`: a read failed that would have denied the finding | no firewall tool answered; failed logins are then counted in `auth.log`; `ss` is empty, so an expected port is missing; without an inspection the image is read off the list; a Redis whose credentials are not known is said to have none; `stat` said nothing of a script; memory and load are then read by other commands |
| `Gone`: what the finding is about was there when it was listed and not when it was looked at | a script whose job was removed in between, an image of a container that is gone, a database asked at the port or in the journal of another |

## 3. Runs

| Run | What it shows |
|---|---|
| `session_lists` | processes in two orders, one protected, and a container that comes and goes; two slots for gathers, keys to move, sort, act and refresh, one confirmation. Types, offers, cursors, the single gather, keys act on the drawn row, the screen never goes back, and the gate is implemented |
| `session_offers` | all three modes and every way of picking an action: default, cron keys, cron form, prune; with a user's and a system's job; connectivity runs, with nothing to ping as well |
| `session_live` | fairness, automatic refresh, an action, two log filters, quit: effects are shown, the refresh indicator goes off, entries of an old filter do not stay |
| `cron_sessions` | two sessions, two actions, an edit by hand, five crontabs (header, disabled job, a job twice, doubly commented, empty) |
| `cron_unread` | violation: an unread crontab is replaced without backup |
| `config_sessions` | two sessions (read-only or not), two saves, an edit by hand, a kill; no file yet or one host with a policy, in a table of its own or inline, and the local machine that is shown without being in it |
| `fleet_review` | three hosts and two permits: hosts hang while they are probed or read, fail, answer at the last moment, panic; with and without a filter, the local machine listed or not, nothing listed. Permits, one row per host, the deadline, when a review may be cut off, the order of the report, and that every review ends |
| `store_sessions` | two sessions in two starts, two hosts, three days, two changes (status, note, search); kills, failed and crossing writes. Caps, order of samples, the baseline under the cap, what a session changes, damage only by crossing, what is shown and counted |
| `cron_view` | the Crons tab in the years 2023 to 2028, two of them leap years, for macros, steps, lists, both day fields, month ends, leap days, schedules that never fire and invalid ones: listed runs are the next ones, jobs of every year have a next run, equal words mean equal runs |
| `host_review` | two gathers of four hosts (plain, after a deployment, an old machine, the same over ssh) and one trouble: the host changes between any two steps, one of nine sets of reads fails (sockets, scripts, inspections, databases, credentials, firewall and units, the host's name, the journal and the host's short report, interfaces), or a group hangs. Nothing is invented but for want of an answer, standing dangers are shown, what was cut off is said, the gather ends |
| `host_unread` | violation: a failed listing of sockets makes expected ports missing instead of unknown |
| `host_packages` | violation: over ssh a host without apt is one with apt and no updates |

Bounds and why they are enough. Two slots let a second gather exist if the code let one start; the modelled
code never fills the second, a mutant does. Two or three lists per tab are enough to change the row under a
cursor, to shrink a list past it and to empty it. One attempt suffices for safety of an offer since an attempt
ends with no pending action, and for the liveness run, where the gathers of the timer and of the start are the
ones it can meet. Two sessions with two actions in all, or one session with both, give every overlap of two
edits; the third writer is the person. Five crontabs are those that make the line tests differ. Two saves are
what it takes for two to overlap, or for one to follow another; the second host is the one a save must leave
alone. In the fleet the third host is the one that has to wait for a permit. A unit of time is 6 s, so
`HostLimit` 5 and `GroupLimit` 2 are the 30 s and 12 s of the code; two rounds of the host limit take 10
units, and `MaxTime` is 11. `CHECK_DEADLOCK FALSE` there because the command is over when the review is. In
the state store three days with `BaselineDays` 1 and `MaxSnapshots` 2 are the least at which a sample is
dropped and the baseline lies among those that remain; the code has 7 and 90. One note and two searches reach
their caps. `CHECK_DEADLOCK FALSE` because the starts and days run out. In `cron_view` the day is short (2
hours of 4 minutes) and the calendar is real, so a year of minutes can be searched and every month end and
leap day is there; the search window is the 366 days of the code. In `host_review` the four states of the host
are made so that each check and each branch of a parser meets the answer it is about; the two that follow one
another differ in sockets, units, memory, containers, jobs and scripts. One trouble is enough for each kind,
and none needs another to occur. A second gather starts from the first one's screen and reuses its
slow-changing data (`Cached`). `Spread` names the groups whose reads are spread over the gather, those that
read in two steps and the network; the other four read at its start, as no finding joins what they read with
anything else. `CHECK_DEADLOCK FALSE` because gathers run out. What these instances cannot show for larger
ones is proved (section 5). `MaxAttempts`, `MaxExternal`, `MaxActions`, `MaxSaves`, `MaxByHand`, `MaxKills`,
`MaxStarts`, `MaxChanges`, `MaxDay`, `MaxGathers` and `MaxTroubles` bound how often things are started, never
what happens to them. Slots and sessions are symmetric sets in the safety runs.

Each property of a passing run has a mutant of the code, an operator beside the definition it
replaces, under which TLC finds the property violated.

Fairness (`Fairness` in `Session`). The loop is not blocked by its poll, which times out
(`TICK`), so `LoopStep` is weakly fair. Each collector group ends by `COLLECTOR_TIMEOUT` and
each ping by its own deadline, so gathers and probe runs end. The timer elapses. There is no
fairness on `CommandReturns`: an action's command has no timeout and the UI waits for it, so the
liveness properties allow for a session that hangs there for good (`Hung`). Nothing is assumed
of the host, of other people or of keys. In `FleetReview` tasks that are ready run and timers
fire, which the runtime guarantees; a group is only certain to end once its timeout is due, and
no host is assumed to answer. In `HostReview` each group reads on or is cut off, as each runs
under a timeout of its own, and the outcome of a gather is taken off the channel (`Ended`); that
a read of a hanging group ever answers is not assumed.

Findings, each shown by a violation run:

1. `actions/cron.rs:163`: a `crontab -l` that fails reads as empty, and Add then replaces the
   whole crontab by the new job with no backup.
2. `collectors/network.rs:244`: an `ss` that fails is a host without listeners, so a policy says
   that its ports are missing, where the phase document promises a note that it could not be checked.
3. `collectors/packages.rs:93`: a manager is taken to be there when its command could be started;
   over ssh every command can, so each remote host is one with apt and nothing to update.

Limits of the code that the models reproduce and no run singles out:

- a refresh asked for while a gather is in flight is dropped; without automatic refresh the screen
  may stay older than the action (`lib.rs:97`);
- an error after the command was sent is recorded as rejected, though it may have been carried out
  (`engine.rs:129`); rejections at plan time and by the keyboard handler leave no audit record;
- two saves of the inventory share one temporary name and may put a half-written file in place
  (`config.rs:138`); a session that starts while another saves its state loads the default state;
- the status key marks the first finding with the id of the selected one (`app.rs:585`);
- Enable on a line commented out twice reports success and leaves it commented;
- a job of 29 February shows no next run more than 366 days before it; names of months and
  weekdays are called invalid, and so is an anacron period without a macro;
- a container created anew between `docker ps` and its inspection loses its findings for one
  refresh, and a script removed with its job between the two reads is reported missing;
- one missing critical file, or one missing directory, drops the whole permission or SUID check;
- a certificate that expired less than a day ago is said to expire in 0 days (`certs.rs:84`);
- Delete of a host in an inline table of hosts reports no error, and the host is gone from the grid
  but not from the file, until the next start (`config.rs:74`, `fleet.rs:211`);
- a Redis that does not tell its role is reported for its replication, as "unknown" contains "no",
  and so is a MongoDB that names its replica set and not its state (`database.rs:888`), and a MySQL
  that tells the state of one replication thread only (`database.rs:862`);
- the firewall tab and the `firewall.absent` finding ask for the firewall each for itself and in
  another order, so they may disagree; that the tab's commands are marked as privileged changes
  nothing, as no transport looks at the mark.

## 4. Assumptions on constants

Lists are sequences of rows, phrases and jobs come from the catalogue, there is at least one filter and one
slot, `None` is none of the values, a torn file is no crontab and no document, and the inventories a run
starts from are documents or no file, and a file that does not exist is none with an inline table. A damaged state file is no document, and the cap on samples is above the
days the baseline lies back, at least one. There is a finite set of hosts, at least one permit, and the group
limit is positive and below the host limit; their ids are in some order, and reports have a health of 0 to
100. An hour has a minute and a day an hour at least, a machine word has more than one value, moments are
natural numbers, years are sets of minutes and schedules are in the form the parser takes apart. The
thresholds that a theorem compares are natural numbers or in the order of the code's defaults, and a host
becomes one of its states, in which `systemctl` prints the units in rows. A configuration has finitely many
policies and tags, and the names of policies are in some order, as strings are. They are named `ASSUME`s of
the modules that declare the constants; TLC evaluates them on every run.

What a few theorems need beyond this is in their statement, and TLC evaluates it as well, on the
instances of `MCCronView` and `MCHostReview`:

- `StepsFit`: no step of a schedule is so large that adding it to a value leaves the machine word.
  `parse_field` adds without a check, so there a debug build panics and a release build goes on
  from the bottom; a day of the month `*/4294967295` would do it.
- `CalendarDates`: days have a month, a day of the month and a weekday, as chrono's have.
- `CalendarRepeats`: some year has no date and no weekday of a month that the `SearchDays` days
  after a moment leave out; in the real calendar that is any year without a leap day.
- `HostsAnswer`: each state of the host is one a gather can review when nothing fails, and that
  tells its interfaces, routes and name servers. Without it no finding of a state is defined.
- `InspectsListed`: `docker inspect` knows the containers `docker ps -a` lists and no other, so a
  container that is not in the list is not in the inspection of the same state.
- `EnginesAgree`: the unit of a listener does not name another database engine than its process and
  port do, and a unit is the service of one engine. `engine_for_listener` takes the first engine
  that matches; were the two at odds, a listener whose unit could not be read would be taken for
  another database, and its findings with it.

## 5. Proofs

All for any number of targets, lists, slots, filters, sessions and crontabs, and any bounds.

`SessionProofs`: types, `OfferIsPending`, `RunningIsShown`, `OneGather`, `CursorOnRow`,
`AsksForDrawnRow` and `ScreenNeverGoesBack`. None is inductive alone; `IInv` is the conjunction
of `TypeOK`, `Flow`, `OneGather`, `Versions`, `Cursors` and `DrawnIsSelected`. `OfferIsPending`
speaks of the steps at which a key may be read; at `act` the pending action may be one whose
plan is requested, or one whose execution is, so `Flow` says for each request flag what it
implies of the modal and of `pending`. `AsksForDrawnRow` needs `DrawnIsSelected`: at `key` the
row drawn is still the row under the cursor, as gathers are folded in only before the frame is
drawn. `ScreenNeverGoesBack` needs `Versions`: a gather in flight read a version no older than
the one on screen, which holds as there is only one (`OneGather`), hence the in-flight flag.

`SessionGateProofs`: `GateImplemented`, every step of the session maps to a step of the gate
or to none. From the invariant it uses that an execution finds its action pending and that the
command that returns is the one sent last; that the offered action passed the plan in the mode
of the session is read off `PlanAction`, and the mode never changes. In terms of the session
itself: every attempt, refused ones included, is of an action the mode permits and the guardrail does not
stop (`OnlyPermittedActions`, by `Kept`, which says the same of an offer that was planned), and as no action
is without risk a read-only session attempts none (`ReadOnlyChangesNothing`).

`CronEditProofs`: `TypeOK` and `PriorIsBackedUp`. The invariant adds that an action past its read has a line
to change in the text it works from (`Ready`), that an undisturbed session works from the crontab that is
installed (`Current`) and that before it installs the backup holds that text unless it is empty (`Saved`). The
type of the new text rests on `TargetIsLine`, that the search for a line returns one that matches
(`LeastPosition`). `ChangesItsJob` follows from the same invariant: what an undisturbed session installs is
what the transform makes of the crontab that is there (`Current`), so the rest is about one text. Lines are
counted as sets of places: a line put in the place of another leaves the other counts and their order alone
(`LineReplaced`, `LineChanges`), one put at the end adds a place (`AddChanges`), and one taken out moves each
place behind it by one, a bijection that keeps the counts of the others and their order (`ShiftedPlaces`,
`DeleteChanges`). About the transforms it has two more: Enable undoes Disable, unless a disabled line of the
same job stands in front of the active one, which Enable would then turn (`EnableUndoesDisable`), and Delete
undoes the Add of a new job (`DeleteUndoesAdd`), both as an action takes the first line it may change
(`TargetIsFirst`).

`ConfigStoreProofs`: all properties of the run `config_sessions`, and two that no run repeats: a
read-only session never saves (`ViewersDoNotSave`) and an up-to-date Add replaces no host
(`AddReplacesNothing`). `IInv` adds to `TypeOK` that
a session that is off has no overlay (`OffIsClean`), that a read-only one has nothing to submit
(`Barred`) and, unless saves overlapped, `Settled`: one session at most writes, it writes to
the temporary file, what it renames is its document, an undisturbed document is the file with
its edit, and a session that is in step with the file has loaded what it holds (but for what it
dropped from an inline table). `overlapped`
never goes back, so `Settled` need not hold again once it fails.

`FleetReviewProofs`: `TypeOK`, `AtMostPermits`, `EveryHostHasItsRow`, `TimeoutNeedsSlowProbe` and
`EndsInTime`. `IInv` says that a permit is free or held by a connected task (`PermitsKept`), what
each task has by way of outcome and row at its stage (`Returned`, `RowsOfJoined`) and that no timer
is overdue (`Clocks`), which holds as time does not pass while one is. The deadline
needs a count as well: a task that was given a permit ends within `HostLimit`, so once
m rounds of it are over, (m + 1) * `Permits` tasks or all of them had got one by then (`Rounded`,
inductive together with `IInv`). Had a joining review outlived its last round, all tasks would
have started by then and ended.

About `FleetReport` it has `OverviewIsWorstFirst` and `ReportReproducible`. `WorseThan` is a strict
order in which any two rows of different ids compare, so a row has as many others in front of
it as its place says, places are a permutation (`PlacesAreRanks`), and each row of the overview is worse
than the next. The ids of the rows differ in every reachable state (`RowsOfJoined`); then the place of
a row depends on the set of rows and not on the order in which their tasks joined, and the lookup
by id finds that row.

`StateStoreProofs`: all properties of the run `store_sessions`. `SpecIInv` rests on an invariant
of documents (`SoundDoc`): days that are n places apart in the series are n days apart
(`Spread`), and the samples kept are the newest of all ever taken, which `NewestPut` preserves.
That the cap never moves the baseline (`CapKeepsBaseline`) follows: the dropped samples are
further from the day looked for than the oldest one kept. A sample must not be older than those
before it, so `Dated` says that no gather still to be folded in is. The four actions that change a
document are shown to be an `Edited` step each, the four that end a session `GoneKeeps`.

`HostReviewProofs`: `LateIsSaid`, for any host and any policies. It holds in the initial state and
only `Apply` touches the screen; the empty result that stands for each group is what the checks
tell from an empty host (`NoNetworkIsPartial` and its like), and what a check finds is in the
review (`ReviewSays`).

`StandingDangersShown` under `HostsAnswer`, by way of `Gathered`: each step of a group was read in one of
the states the host was in since the gather began, and only groups that hang are cut off. A finding
is traced by its id to the group it comes from (the lemmas named `...Ids`, `InFound`), so what the
other groups have read does not matter. Each group is then compared with a read of one state: a
group of one step is such a read (`NetworkAsRead`, `UnitsAsRead`, `LimitsAsRead`); one of two steps
joins two of them, and a finding of both is a finding of the joined one (`CronsFound`,
`DatabasesFound`, `DockerFound`). This fails exactly where the second step is directed by the
first and the two states direct it differently: an inspection of containers that are gone, or a
database asked at the port of another. `Replaced` names these cases, and for them the property
promises nothing.

`NothingIsMadeUp` is the converse for a gather in which no read failed: a finding on the screen other
than `policy.partial` was earned in some state the host was in meanwhile, unless the containers, the
jobs or the databases that were listed differ between those states (`Relisted`).

`NothingIsInvented` proves `NothingInvented`, with reads that fail and lists that change, under
`HostsAnswer`, `InspectsListed` and `EnginesAgree`. A failed read is no answer, so the argument is that
fewer answers find no more: each group that failed reads left with less is compared with the clean read
of the state (or the two) it was read in, parser by parser and check by check, and each finding is
found there too or is excused. Most checks find in what they are given and lose findings with it. Those
that find in what is absent are the table of section 2: for each the proof shows that with the opposed
reads answered the absence is one of the host (`EarnedOrExcused` and the lemmas it cites). A thing that was
listed in one state and looked at in another is either listed in both, and then earned in the second, or
`Gone`. The severity of a finding is part of it: failed logins are counted in the journal and
otherwise in `auth.log`, memory and load come from either of two sources, and a database keeps its severity
without its unit only as its process and its port say the same engine (`EnginesAgree`).

`TagsChooseThePolicy`: of the policies that fit a host that names none, one asks for the most tags
(`SomeAskForMost`, as the tags of the host bound their number) and one of those is the first by name
(`FirstByName`, by the number of names before it); it is the one `TagFallback` chooses.

`CronViewProofs`: all properties of `cron_view`, on any calendar and for days of any length.

- `NextIsFirst`: `next_after` returns the first run in its window, or nothing when there is none,
  from the least element of a set of times (`FirstTime`).
- `ShownRunsCorrect`: the lists `parse_field` expands hold exactly the values the text of a field
  stands for. It is an induction along the loop (`PartIsProgression`), over the subset of the natural
  numbers for which the claim holds (`NatInSet`), as the provers take no induction over a predicate.
  From there a line fires when its lists match (`FiresIsMatches`), and the preview, `next_after` iterated
  (`IteratesExist`, `UpcomingRuns`), lists the next runs in order and skips none.
- `SameWordsSameTimes`: equal words mean equal next runs, from `WordsTellRuns`, that whoever takes the
  words of `describe` literally (`Meant`) knows every run.
- `YearlyJobsRunAgain`: a job that fires every year always has a next run: a run in the year that
  `CalendarRepeats` names has a date and a weekday that come again in the search window.
- `StaleNextIsRight`: the next run shown, computed from the time of the last gather, is the one
  the clock would give until it has passed: a later window still holds it, and a run before it
  would have been found by the earlier search (`NextKept`).

Only model-checked: the liveness properties (`ActionsShown`, `BackgroundEnds`, `LogsCatchUp`,
`EveryReviewEnds`, `EveryGatherEnds`), as fairness is out of the prover's reach. The three violated
claims are counterexamples of TLC. Every other property of a run, invariant or action property, is a
theorem.

## 6. Not modelled

- Reports (`systui-report` Markdown, HTML, JSON), the comparison of two hosts, the global search and
  rendering other than the Crons tab: sequential formatting of what was collected, without state.
- Command lines of actions, their verification texts, quoting, file transfer and the
  processes behind the transports: below the level of the models, where a command has an outcome.
- Process lists and their tree, container logs, disk I/O, the results of connectivity probes and
  certificates read from remote ports: shown, but no check or action depends on them.
- Character-level parsing: a text enters as the parts its parser tells apart.

## 7. What could follow

1. The actions on services, processes and containers with their verification.
2. The comparison of two hosts and the reports, as functions of what was collected.
