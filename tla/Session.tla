-------------------------------- MODULE Session --------------------------------
(***************************************************************************)
(* One interactive session of SysTUI on a host: the event loop of          *)
(* crates/systui-ui/src/lib.rs with the keyboard handler, the App flags    *)
(* and the modal it drives, the background gather and connectivity tasks,  *)
(* the action engine, and the host they all talk to.                       *)
(*                                                                         *)
(* pc is the place of the UI thread in one turn of the loop:               *)
(*   drain   folding finished background work in, then drawing             *)
(*   key     handling at most one key press                                *)
(*   act     planning or executing the pending action                      *)
(*   running blocked on the action's command                               *)
(*   spawn   starting a gather or re-reading the logs                      *)
(*   probe   starting a connectivity run                                   *)
(*   exited  the loop has returned                                         *)
(* The background tasks and the host move between any two of these steps.  *)
(*                                                                         *)
(* What is on screen is abstracted to the list of each tab (rows), the     *)
(* version of the host they were read at (shownVer, 0 before the first     *)
(* gather) and the filter the log entries were read with (shownLogs).      *)
(***************************************************************************)
EXTENDS ActionEngine, Sequences, SequencesExt, FiniteSets

CONSTANTS Lists,        \* Lists[t]: the lists tab t may show
          NewJobs,      \* the jobs a user may type in the cron form
          Phrases,      \* the confirmation texts a user may type
          Queries,      \* the log filters
          Slots,        \* room for background gathers
          Requested,    \* the modes the command line may ask for
          AutoRefresh,  \* whether default_refresh_seconds is not zero
          Keys,         \* the groups of keys the user presses
          MaxAttempts,  \* bound: confirmations the user submits
          MaxExternal   \* bound: changes other people make to the host

\* A unit, process, container or cron entry: state tells a running container or an
\* enabled user job ("on") from the others, and a system job from a user's.
Row  == [name: Targets, state: {"on", "off", "system"}]
Tabs == DOMAIN Lists

ASSUME ListsAreLists    == Tabs # {} /\ \A t \in Tabs : Lists[t] \subseteq Seq(Row)
ASSUME NewJobsAreTargets == NewJobs \subseteq Targets
ASSUME PhrasesAreTexts  == Phrases \subseteq Text
ASSUME QueriesNotNone   == None \notin Queries /\ Queries # {}
ASSUME SlotsNotEmpty    == Slots # {} /\ IsFiniteSet(Slots)
ASSUME RequestedAreModes == Requested \subseteq Modes
ASSUME RefreshIsBoolean == AutoRefresh \in BOOLEAN
ASSUME BoundsAreNat     == MaxAttempts \in Nat /\ MaxExternal \in Nat
ASSUME NoneIsNoRecord   == None \notin Action /\ None \notin Row

VARIABLES
    mode,        \* app.mode after the capability probe
    pc,          \* place of the UI thread
    quit,        \* app.should_quit
    tab,         \* app.current_tab()
    modal,       \* app.action: [stage, action, input]
    pending,     \* app.pending
    planReq,     \* app.action_plan_requested
    execReq,     \* app.action_exec_requested
    cronForm,    \* app.cron_form: the action it edits or adds, or None
    rows,        \* the visible list of each tab
    cursor,      \* its *_selected index, from 0
    drawn,       \* the row under the cursor in the last frame drawn
    shownVer,    \* host version the data on screen was read at
    shownLogs,   \* filter the log entries on screen were read with
    view,        \* app.view_state
    hasTargets,  \* the network snapshot on screen names a gateway or resolver
    logQuery,    \* app.log_query
    refreshing,  \* app.refreshing
    refreshReq,  \* app.refresh_requested
    logsReq,     \* app.logs_reload_requested
    due,         \* last_refresh is at least refresh_interval ago
    gather,      \* the background gathers and their messages in the channel
    probing,     \* app.connectivity_running
    probeReq,    \* app.connectivity_requested
    probe,       \* the background connectivity run
    host,        \* version of the host, one more for every change made to it
    changes,     \* how many of the changes are other people's
    runs         \* every execution: [action, state, effect, status]

uiVars     == <<modal, pending, planReq, execReq, cronForm, quit>>
dataVars   == <<shownVer, shownLogs, view, hasTargets>>
screenVars == <<tab, rows, cursor, dataVars>>
taskVars   == <<refreshing, gather, probing, probe>>
reqVars    == <<refreshReq, logsReq, probeReq>>
hostVars   == <<host, changes, runs>>
vars == <<mode, pc, uiVars, screenVars, drawn, logQuery, taskVars, reqVars, due, hostVars>>

NoModal   == [stage |-> "none", action |-> None, input |-> EmptyText]
Rejection == [stage |-> "Result", action |-> None, input |-> EmptyText]
Stages    == {"none", "Confirm", "Ready", "Result"}
Offered   == {"Confirm", "Ready"}

\* A background gather: the filter it was spawned with, the host version it read,
\* and in the message it posts whether it succeeded, its logs and its network data.
IdleTask == [state |-> "idle", query |-> None, ver |-> 0, logs |-> None, net |-> FALSE,
             ok |-> FALSE]

Selected == IF cursor[tab] < Len(rows[tab]) THEN rows[tab][cursor[tab] + 1] ELSE None

-------------------------------------------------------------------------------
(* Start-up: capabilities are probed, the mode is degraded to match, and   *)
(* the first gather is spawned before the loop is entered.  The first tab  *)
(* may be any, as if the user had pressed tab keys first.                  *)

\* Mutant: the filter on screen is reused with the slow-changing data.
NewGatherReused(q) ==
    [IdleTask EXCEPT !.state = "running", !.query = IF shownLogs = None THEN q ELSE shownLogs]

NewGather(q) == [IdleTask EXCEPT !.state = "running", !.query = q]

Init ==
    /\ \E requested \in Requested, privileged \in BOOLEAN :
           mode = EffectiveMode(requested, privileged)
    /\ pc = "drain" /\ quit = FALSE /\ tab \in Tabs
    /\ modal = NoModal /\ pending = None /\ planReq = FALSE /\ execReq = FALSE
    /\ cronForm = None
    /\ rows = [t \in Tabs |-> <<>>] /\ cursor = [t \in Tabs |-> 0] /\ drawn = None
    /\ shownVer = 0 /\ shownLogs = None /\ view = "Loading" /\ hasTargets = FALSE
    /\ logQuery \in Queries
    /\ refreshing = TRUE
    /\ \E first \in Slots :
           gather = [s \in Slots |-> IF s = first THEN NewGather(logQuery) ELSE IdleTask]
    /\ refreshReq = FALSE /\ logsReq = FALSE /\ due = FALSE
    /\ probing = FALSE /\ probeReq = FALSE /\ probe = "idle"
    /\ host = 1 /\ changes = 0 /\ runs = <<>>

-------------------------------------------------------------------------------
(* Draining the channels (top of the loop). *)

\* Mutant: finished gathers are also folded in after the frame was drawn.
DrainingLate == pc \in {"drain", "key"}

Draining == pc = "drain"

\* App::clamp_selections: every tab's cursor goes back to the last row of its list.
Clamp(i, list) == IF i < Len(list) THEN i ELSE IF list = <<>> THEN 0 ELSE Len(list) - 1
\* Mutant: only the cursor on screen is clamped.
ClampShown(lists) == [cursor EXCEPT ![tab] = Clamp(@, lists[tab])]

ClampAll(lists) == [t \in Tabs |-> Clamp(cursor[t], lists[t])]

\* apply_refresh of a good outcome, then clamp_selections.  Which rows the gather
\* read is left open until they are looked at.
ApplyResult(s) ==
    /\ Draining /\ gather[s].state = "sent" /\ gather[s].ok
    /\ gather' = [gather EXCEPT ![s] = IdleTask]
    /\ refreshing' = FALSE
    /\ \E lists \in [Tabs -> UNION {Lists[t] : t \in Tabs}] :
         /\ \A t \in Tabs : lists[t] \in Lists[t]
         /\ rows' = lists
         /\ cursor' = ClampAll(lists)
    /\ shownVer' = gather[s].ver /\ shownLogs' = gather[s].logs
    /\ hasTargets' = gather[s].net /\ view' = "Ready"
    /\ UNCHANGED <<mode, pc, tab, uiVars, drawn, logQuery, probing, probe, reqVars, due, hostVars>>

\* Mutant: a failed gather leaves the in-flight flag on.
ApplyErrorKeepsFlag(s) ==
    /\ Draining /\ gather[s].state = "sent" /\ ~gather[s].ok
    /\ gather' = [gather EXCEPT ![s] = IdleTask]
    /\ view' = "Error"
    /\ UNCHANGED <<mode, pc, tab, uiVars, rows, cursor, shownVer, shownLogs, hasTargets, drawn,
                   logQuery, refreshing, probing, probe, reqVars, due, hostVars>>

\* apply_refresh of an error: the data on screen stays.
ApplyError(s) ==
    /\ Draining /\ gather[s].state = "sent" /\ ~gather[s].ok
    /\ gather' = [gather EXCEPT ![s] = IdleTask]
    /\ refreshing' = FALSE
    /\ view' = "Error"
    /\ UNCHANGED <<mode, pc, tab, uiVars, rows, cursor, shownVer, shownLogs, hasTargets, drawn,
                   logQuery, probing, probe, reqVars, due, hostVars>>

ApplyProbe ==
    /\ Draining /\ probe = "sent"
    /\ probe' = "idle" /\ probing' = FALSE
    /\ UNCHANGED <<mode, pc, uiVars, screenVars, drawn, logQuery, refreshing, gather, reqVars,
                   due, hostVars>>

Draw ==
    /\ pc = "drain" /\ probe # "sent"
    /\ \A s \in Slots : gather[s].state # "sent"
    /\ drawn' = Selected
    /\ pc' = "key"
    /\ UNCHANGED <<mode, uiVars, screenVars, logQuery, taskVars, reqVars, due, hostVars>>

-------------------------------------------------------------------------------
(* input::handle_key.  The overlays capture the keyboard in this order: the *)
(* action modal, the cron form, then the normal keys.  Keys that change     *)
(* only what is displayed (help, search text, notes, finding states) do not *)
(* matter here and are KeyIgnored, as is a poll that times out.             *)

OnKey     == pc = "key" /\ pc' = "act"
Normal(g) == OnKey /\ modal = NoModal /\ cronForm = None /\ g \in Keys
KeepTasks == UNCHANGED <<mode, drawn, logQuery, taskVars, due, hostVars>>

KeyIgnored ==
    /\ OnKey
    /\ UNCHANGED <<uiVars, screenVars, reqVars>> /\ KeepTasks

\* Ctrl+C anywhere; q only when nothing captures it.
KeyQuit ==
    /\ OnKey /\ "quit" \in Keys
    /\ quit' = TRUE
    /\ UNCHANGED <<modal, pending, planReq, execReq, cronForm, screenVars, reqVars>>
    /\ KeepTasks

\* Mutant: closing the modal forgets to drop the action it offered.
ModalCloseKeepsAction ==
    /\ OnKey /\ modal.stage # "none"
    /\ modal' = NoModal
    /\ UNCHANGED <<pending, planReq, execReq, cronForm, quit, screenVars, reqVars>> /\ KeepTasks

\* close_action: any key on a result, Esc on an offer.
ModalClose ==
    /\ OnKey /\ modal.stage # "none"
    /\ modal' = NoModal /\ pending' = None
    /\ UNCHANGED <<planReq, execReq, cronForm, quit, screenVars, reqVars>> /\ KeepTasks

\* submit_action.
ModalEnter ==
    /\ OnKey /\ modal.stage \in Offered
    /\ Len(runs) < MaxAttempts
    /\ execReq' = TRUE
    /\ UNCHANGED <<modal, pending, planReq, cronForm, quit, screenVars, reqVars>> /\ KeepTasks

\* push_action_char and pop_action_char.
ModalType(text) ==
    /\ OnKey /\ modal.stage = "Confirm"
    /\ modal' = [modal EXCEPT !.input = text]
    /\ UNCHANGED <<pending, planReq, execReq, cronForm, quit, screenVars, reqVars>> /\ KeepTasks

FormClose ==
    /\ OnKey /\ modal = NoModal /\ cronForm # None
    /\ cronForm' = None
    /\ UNCHANGED <<modal, pending, planReq, execReq, quit, screenVars, reqVars>> /\ KeepTasks

\* submit_cron_form with fields that parse; otherwise the form stays as it is.
FormSubmit(job) ==
    /\ OnKey /\ modal = NoModal /\ cronForm # None
    /\ pending' = IF cronForm.op = "CronAdd" THEN [cronForm EXCEPT !.target = job] ELSE cronForm
    /\ cronForm' = None /\ planReq' = TRUE
    /\ UNCHANGED <<modal, execReq, quit, screenVars, reqVars>> /\ KeepTasks

-------------------------------------------------------------------------------
(* The keys that pick an action. *)

\* request_action: the default action of the selected row.
DefaultAction(row) ==
    [op |-> CASE tab = "services"                        -> "Restart"
              [] tab = "processes"                       -> "Term"
              [] tab = "docker" /\ row.state = "on"      -> "DockerRestart"
              [] tab = "docker" /\ row.state # "on"      -> "DockerStart",
     target |-> row.name]

\* request_delete_cron, request_run_cron and request_toggle_cron.
CronActions(row) ==
    {[op |-> op, target |-> row.name] :
        op \in {"CronDelete", "CronRunNow",
                IF row.state = "on" THEN "CronDisable" ELSE "CronEnable"}}

\* Mutant: an action goes straight to execution, without a plan.
AskAtOnce(a) ==
    /\ pending' = a /\ execReq' = TRUE
    /\ UNCHANGED <<modal, planReq, cronForm, quit, screenVars, reqVars>> /\ KeepTasks

Ask(a) ==
    /\ pending' = a /\ planReq' = TRUE
    /\ UNCHANGED <<modal, execReq, cronForm, quit, screenVars, reqVars>> /\ KeepTasks

\* set_decision(Rejected) straight from the handler.
Reject ==
    /\ modal' = Rejection /\ pending' = None
    /\ UNCHANGED <<planReq, execReq, cronForm, quit, screenVars, reqVars>> /\ KeepTasks

KeyAction ==
    /\ Normal("action")
    /\ tab \in {"services", "processes", "docker"} /\ Selected # None
    /\ Ask(DefaultAction(Selected))

\* selected_user_cron
UserJobSelected == Selected # None /\ Selected.state # "system"

KeyCron ==
    /\ Normal("cron") /\ tab = "crons"
    /\ IF UserJobSelected
       THEN \E a \in CronActions(Selected) : Ask(a)
       ELSE Reject

KeyPrune ==
    /\ Normal("prune") /\ tab = "docker"
    /\ IF mode = "ReadOnly" THEN Reject ELSE Ask([op |-> "Prune", target |-> None])

\* open_add_cron_form and open_edit_cron_form.
OpenForm(a) ==
    /\ cronForm' = a
    /\ UNCHANGED <<modal, pending, planReq, execReq, quit, screenVars, reqVars>> /\ KeepTasks

KeyAddForm ==
    /\ Normal("form") /\ tab = "crons"
    /\ IF mode = "ReadOnly" THEN Reject ELSE OpenForm([op |-> "CronAdd", target |-> None])

KeyEditForm ==
    /\ Normal("form") /\ tab = "crons"
    /\ IF mode = "ReadOnly" \/ ~UserJobSelected
       THEN Reject
       ELSE OpenForm([op |-> "CronEdit", target |-> Selected.name])

-------------------------------------------------------------------------------
(* The keys that move about, re-order a list or ask for data. *)

\* next_tab, prev_tab and select_tab.
KeyTab(t) ==
    /\ Normal("select")
    /\ tab' = t
    /\ UNCHANGED <<uiVars, rows, cursor, dataVars, reqVars>> /\ KeepTasks

\* select_down and select_up.
KeyMove ==
    /\ Normal("select")
    /\ \/ cursor[tab] + 1 < Len(rows[tab]) /\ cursor' = [cursor EXCEPT ![tab] = @ + 1]
       \/ cursor[tab] > 0 /\ cursor' = [cursor EXCEPT ![tab] = @ - 1]
    /\ UNCHANGED <<uiVars, tab, rows, dataVars, reqVars>> /\ KeepTasks

\* The same processes in another order.
Reorderings(list) ==
    {l \in Lists["processes"] \cup {<<>>} : Len(l) = Len(list) /\ ToSet(l) = ToSet(list)}

\* toggle_process_sort re-orders the processes under a cursor that stays put.
KeySort ==
    /\ Normal("sort") /\ "processes" \in Tabs
    /\ \E list \in Reorderings(rows["processes"]) : rows' = [rows EXCEPT !["processes"] = list]
    /\ UNCHANGED <<uiVars, tab, cursor, dataVars, reqVars>> /\ KeepTasks

\* toggle_process_view re-orders them and goes to the top of the list.
KeyTree ==
    /\ Normal("sort") /\ tab = "processes"
    /\ \E list \in Reorderings(rows[tab]) : rows' = [rows EXCEPT ![tab] = list]
    /\ cursor' = [cursor EXCEPT ![tab] = 0]
    /\ UNCHANGED <<uiVars, tab, dataVars, reqVars>> /\ KeepTasks

\* cycle_service_filter shows other units, from the top; none before the first gather.
KeyFilter ==
    /\ Normal("sort") /\ tab = "services" /\ shownVer > 0
    /\ \E list \in Lists[tab] : rows' = [rows EXCEPT ![tab] = list]
    /\ cursor' = [cursor EXCEPT ![tab] = 0]
    /\ UNCHANGED <<uiVars, tab, dataVars, reqVars>> /\ KeepTasks

KeyRefresh ==
    /\ Normal("refresh")
    /\ refreshReq' = TRUE
    /\ UNCHANGED <<uiVars, screenVars, logsReq, probeReq>> /\ KeepTasks

\* cycle_log_level, cycle_log_window (a new filter) and apply_saved_search (the same one).
KeyLogs(q) ==
    /\ Normal("logs")
    /\ logQuery' = q /\ logsReq' = TRUE
    /\ UNCHANGED <<mode, drawn, taskVars, due, hostVars, uiVars, screenVars, refreshReq, probeReq>>

KeyProbe ==
    /\ Normal("probe") /\ tab = "network"
    /\ probeReq' = TRUE
    /\ UNCHANGED <<uiVars, screenVars, refreshReq, logsReq>> /\ KeepTasks

HandleKey ==
    \/ KeyIgnored \/ KeyQuit
    \/ ModalClose \/ ModalEnter \/ (\E t \in Phrases : ModalType(t))
    \/ FormClose \/ (\E job \in NewJobs : FormSubmit(job))
    \/ KeyAction \/ KeyCron \/ KeyPrune \/ KeyAddForm \/ KeyEditForm
    \/ (\E t \in Tabs : KeyTab(t)) \/ KeyMove \/ KeySort \/ KeyTree \/ KeyFilter
    \/ KeyRefresh \/ (\E q \in Queries : KeyLogs(q)) \/ KeyProbe

-------------------------------------------------------------------------------
(* Planning and executing, on the UI thread. *)

KeepScreen == UNCHANGED <<mode, quit, cronForm, screenVars, drawn, logQuery, taskVars, due>>

\* plan_action: the engine's decision opens the modal; a rejection drops the action.
PlanAction ==
    /\ pc = "act" /\ planReq
    /\ planReq' = FALSE
    /\ LET stage == Plan(mode, pending) IN
       IF stage = "Result"
       THEN modal' = Rejection /\ pending' = None
       ELSE /\ modal' = [stage |-> stage, action |-> pending, input |-> EmptyText]
            /\ UNCHANGED pending
    /\ pc' = "spawn"
    /\ UNCHANGED <<execReq, reqVars, hostVars>> /\ KeepScreen

\* The end of execute_action: the result is shown and a refresh requested.
ShowResult ==
    /\ modal' = [modal EXCEPT !.stage = "Result"]
    /\ refreshReq' = TRUE
    /\ pc' = "spawn"
    /\ UNCHANGED <<planReq, logsReq, probeReq>> /\ KeepScreen

\* Mutant: the record is written after the pending action was taken.
AttemptTaken(state, status) ==
    [action |-> None, state |-> state, effect |-> 0, status |-> status]

Attempt(state, status) == [action |-> pending, state |-> state, effect |-> 0, status |-> status]

\* Mutant: the engine trusts the plan and checks only the mode again.
ConfirmedByMode == Allows(mode, Risk(pending))

\* The checks of ActionEngine::execute on the text left in the modal.
Confirmed == MayExecute(mode, pending, modal.input)

\* execute_action up to the transport: the pending action is taken.
Execute ==
    /\ pc = "act" /\ ~planReq /\ execReq
    /\ execReq' = FALSE /\ pending' = None
    /\ Confirmed
    /\ runs' = Append(runs, Attempt("sent", None))
    /\ pc' = "running"
    /\ UNCHANGED <<planReq, modal, reqVars, host, changes>> /\ KeepScreen

ExecuteRefused ==
    /\ pc = "act" /\ ~planReq /\ execReq
    /\ execReq' = FALSE /\ pending' = None
    /\ ~Confirmed
    /\ runs' = Append(runs, Attempt("refused", AuditStatus("error")))
    /\ UNCHANGED <<host, changes>>
    /\ ShowResult

NothingToAct ==
    /\ pc = "act" /\ ~planReq /\ ~execReq
    /\ pc' = "spawn"
    /\ UNCHANGED <<modal, pending, planReq, execReq, reqVars, hostVars>> /\ KeepScreen

\* Action::execute returns.  A command that ended well did its work; one that
\* failed may have; one whose transport failed may have, or may still do so.
CommandReturns(outcome) ==
    /\ pc = "running"
    /\ LET n == Len(runs) IN
       /\ outcome = "ok" => runs[n].effect > 0
       /\ runs' = [runs EXCEPT ![n] =
                      [@ EXCEPT !.state  = IF outcome = "error" THEN "lost" ELSE "done",
                                !.status = AuditStatus(outcome)]]
    /\ UNCHANGED <<execReq, pending, host, changes>>
    /\ ShowResult

Act == PlanAction \/ Execute \/ ExecuteRefused \/ NothingToAct

-------------------------------------------------------------------------------
(* Starting background work (bottom of the loop). *)

\* Mutant: every request starts a gather of its own.
SpawnRefreshAlways ==
    IF \A s \in Slots : gather[s] # IdleTask
    THEN UNCHANGED <<refreshing, gather>>
    ELSE /\ refreshing' = TRUE
         /\ \E s \in Slots :
              /\ gather[s] = IdleTask
              /\ gather' = [gather EXCEPT ![s] = NewGather(logQuery)]

\* spawn_refresh: nothing while a gather is in flight.
SpawnRefresh ==
    IF refreshing
    THEN UNCHANGED <<refreshing, gather>>
    ELSE /\ refreshing' = TRUE
         /\ \E s \in Slots :
              /\ gather[s] = IdleTask
              /\ gather' = [gather EXCEPT ![s] = NewGather(logQuery)]

\* Mutant: the refresh interval is not looked at.
RefreshOnRequest == refreshReq

RefreshWanted == refreshReq \/ due

\* The request is gone even if spawn_refresh did nothing.
RefreshStep ==
    /\ pc = "spawn" /\ RefreshWanted
    /\ refreshReq' = FALSE /\ due' = FALSE
    /\ SpawnRefresh
    /\ pc' = "probe"
    /\ UNCHANGED <<mode, uiVars, screenVars, drawn, logQuery, probing, probe, logsReq, probeReq,
                   hostVars>>

\* reload_logs_blocking, best-effort: on an error the old entries stay.
ReloadLogs ==
    /\ pc = "spawn" /\ ~RefreshWanted /\ logsReq
    /\ logsReq' = FALSE
    /\ shownLogs' \in {shownLogs, logQuery}
    /\ pc' = "probe"
    /\ UNCHANGED <<mode, uiVars, tab, rows, cursor, shownVer, view, hasTargets, drawn, logQuery,
                   taskVars, refreshReq, probeReq, due, hostVars>>

NothingToSpawn ==
    /\ pc = "spawn" /\ ~RefreshWanted /\ ~logsReq
    /\ pc' = "probe"
    /\ UNCHANGED <<mode, uiVars, screenVars, drawn, logQuery, taskVars, reqVars, due, hostVars>>

\* spawn_connectivity: nothing while a run is in flight or without targets.
SpawnProbe ==
    IF probing \/ ~hasTargets
    THEN UNCHANGED <<probing, probe>>
    ELSE probing' = TRUE /\ probe' = "running"

\* The connectivity request, then the test of should_quit at the top of the loop.
ProbeStep ==
    /\ pc = "probe"
    /\ probeReq' = FALSE
    /\ IF probeReq THEN SpawnProbe ELSE UNCHANGED <<probing, probe>>
    /\ pc' = IF quit THEN "exited" ELSE "drain"
    /\ UNCHANGED <<mode, uiVars, screenVars, drawn, logQuery, refreshing, gather, refreshReq,
                   logsReq, due, hostVars>>

-------------------------------------------------------------------------------
(* Everything that is not the UI thread. *)

KeepUI == UNCHANGED <<mode, pc, uiVars, screenVars, drawn, logQuery, reqVars>>

\* data::gather reads the host some time before it posts its outcome.
GatherReads(s) ==
    /\ pc # "exited" /\ gather[s].state = "running"
    /\ gather' = [gather EXCEPT ![s] = [@ EXCEPT !.state = "read", !.ver = host]]
    /\ UNCHANGED <<refreshing, probing, probe, due, hostVars>> /\ KeepUI

\* What the log and network groups may bring, where the user looks at them.
LogsRead(q) == IF "logs" \in Keys THEN {None, q} ELSE {None}
NetRead     == IF "probe" \in Keys THEN BOOLEAN ELSE {FALSE}

\* The logs carry the filter captured when the gather was spawned, or are empty when
\* that collector failed; the network group may have timed out.  An error is a failed
\* system snapshot.
GatherFinishes(s) ==
    /\ pc # "exited" /\ gather[s].state = "read"
    /\ \/ gather' = [gather EXCEPT ![s] = [@ EXCEPT !.state = "sent", !.ok = FALSE]]
       \/ \E logs \in LogsRead(gather[s].query), net \in NetRead :
            gather' = [gather EXCEPT ![s] = [@ EXCEPT !.state = "sent", !.ok = TRUE,
                                                      !.logs = logs, !.net = net]]
    /\ UNCHANGED <<refreshing, probing, probe, due, hostVars>> /\ KeepUI

ProbeFinishes ==
    /\ pc # "exited" /\ probe = "running"
    /\ probe' = "sent"
    /\ UNCHANGED <<refreshing, gather, probing, due, hostVars>> /\ KeepUI

\* refresh_interval has elapsed since last_refresh.
TimerElapses ==
    /\ AutoRefresh /\ ~due /\ pc # "exited"
    /\ due' = TRUE
    /\ UNCHANGED <<taskVars, hostVars>> /\ KeepUI

\* A command that was sent changes the host: while the engine waits for it, or
\* later when the transport gave up on it.
CommandTakesEffect(i) ==
    /\ runs[i].state \in {"sent", "lost"} /\ runs[i].effect = 0
    /\ host' = host + 1
    /\ runs' = [runs EXCEPT ![i].effect = host + 1]
    /\ UNCHANGED <<taskVars, due, changes>> /\ KeepUI

ExternalChange ==
    /\ changes < MaxExternal
    /\ host' = host + 1 /\ changes' = changes + 1
    /\ UNCHANGED <<taskVars, due, runs>> /\ KeepUI

Exited == pc = "exited" /\ UNCHANGED vars

-------------------------------------------------------------------------------

\* The steps of the UI thread that do not wait for the host to answer a command.
LoopStep ==
    \/ (\E s \in Slots : ApplyResult(s) \/ ApplyError(s)) \/ ApplyProbe \/ Draw
    \/ HandleKey
    \/ Act
    \/ RefreshStep \/ ReloadLogs \/ NothingToSpawn \/ ProbeStep

GatherStep(s) == GatherReads(s) \/ GatherFinishes(s)

Next ==
    \/ LoopStep
    \/ \E outcome \in Outcomes : CommandReturns(outcome)
    \/ \E s \in Slots : GatherStep(s)
    \/ ProbeFinishes \/ TimerElapses
    \/ \E i \in DOMAIN runs : CommandTakesEffect(i)
    \/ ExternalChange
    \/ Exited

Spec == Init /\ [][Next]_vars

\* The UI thread is not blocked by its poll, which times out; an action's command has
\* no timeout, so nothing says that it returns.  Every collector group has a timeout,
\* so a gather ends; every ping has one, so a connectivity run ends.
Fairness ==
    /\ WF_vars(LoopStep)
    /\ \A s \in Slots : WF_vars(GatherStep(s))
    /\ WF_vars(ProbeFinishes)
    /\ WF_vars(TimerElapses)

FairSpec == Spec /\ Fairness

-------------------------------------------------------------------------------
(* Types. *)

TaskType ==
    [state: {"idle", "running", "read", "sent"}, query: Queries \cup {None}, ver: Nat,
     logs: Queries \cup {None}, net: BOOLEAN, ok: BOOLEAN]

RunType ==
    [action: Action, state: {"sent", "refused", "done", "lost"}, effect: Nat,
     status: {None, "Success", "Failure", "Rejected"}]

LoopType ==
    /\ mode \in Modes /\ drawn \in Row \cup {None} /\ logQuery \in Queries
    /\ pc \in {"drain", "key", "act", "running", "spawn", "probe", "exited"}
    /\ due \in BOOLEAN
    /\ refreshReq \in BOOLEAN /\ logsReq \in BOOLEAN /\ probeReq \in BOOLEAN

UIType ==
    /\ quit \in BOOLEAN /\ planReq \in BOOLEAN /\ execReq \in BOOLEAN
    /\ modal \in [stage: Stages, action: Action \cup {None}, input: Text]
    /\ pending \in Action \cup {None} /\ cronForm \in Action \cup {None}

ScreenType ==
    /\ tab \in Tabs /\ rows \in [Tabs -> Seq(Row)] /\ cursor \in [Tabs -> Nat]
    /\ shownVer \in Nat /\ shownLogs \in Queries \cup {None}
    /\ view \in {"Loading", "Ready", "Error"} /\ hasTargets \in BOOLEAN

BackgroundType ==
    /\ refreshing \in BOOLEAN /\ gather \in [Slots -> TaskType]
    /\ probing \in BOOLEAN /\ probe \in {"idle", "running", "sent"}

HostType == host \in Nat /\ changes \in Nat /\ runs \in Seq(RunType)

\* Every variable holds a value of the type its field in the code has; app.pending
\* in particular always names an action of the catalogue, and so does every attempt.
TypeOK == LoopType /\ UIType /\ ScreenType /\ BackgroundType /\ HostType

-------------------------------------------------------------------------------
(* Safety. *)

\* While the UI waits for a key, an action is pending exactly when the modal offers
\* it, and it is the action the modal describes (set_decision, set_action_result,
\* close_action): a rejection, a cancel or a result never leaves an action behind
\* that a later Enter could run.
OfferIsPending ==
    pc \in {"drain", "key", "spawn", "probe", "exited"} =>
        /\ pending # None <=> modal.stage \in Offered
        /\ modal.stage \in Offered => modal.action = pending

\* The command the UI thread is blocked on is the one the open modal describes,
\* whatever refreshes were folded in between selecting, planning and confirming it.
RunningIsShown ==
    pc = "running" => /\ modal.stage \in Offered
                      /\ modal.action = runs[Len(runs)].action

\* Whatever list a refresh, a filter or a sort puts under it, the cursor of every tab,
\* shown or not, is on a row when a key is read (clamp_selections), or at 0 when the
\* list is empty: no key finds a selection that points past the end.
CursorOnRow ==
    pc = "key" => \A t \in Tabs : IF rows[t] = <<>> THEN cursor[t] = 0
                                  ELSE cursor[t] < Len(rows[t])

\* At most one gather is in flight, and app.refreshing says whether one is, as does
\* app.connectivity_running of the probes: were a flag ever left on with nothing in
\* flight, no refresh, or no probe, could start again.
OneGather ==
    /\ \A s, t \in Slots : gather[s].state # "idle" /\ gather[t].state # "idle" => s = t
    /\ refreshing <=> \E s \in Slots : gather[s].state # "idle"
    /\ probing <=> probe # "idle"

-------------------------------------------------------------------------------
(* Action properties. *)

\* A key asks for an action on the row the user was looking at: the row drawn under
\* the cursor in the last frame, not one that a gather slipped under it since.
AsksForDrawnRow ==
    [][ (planReq' /\ ~planReq /\ cronForm = None /\ pending'.op # "Prune")
            => drawn # None /\ pending'.target = drawn.name ]_vars

\* A refresh never replaces what is on screen by something read from the host
\* earlier (spawn_refresh lets one gather run at a time).
ScreenNeverGoesBack == [][ shownVer' >= shownVer ]_vars

-------------------------------------------------------------------------------
(* The session implements the abstract gate. *)

Fate(r) == IF r.effect > 0 THEN "applied" ELSE IF r.state = "refused" THEN "refused" ELSE "sent"

Gate == INSTANCE ActionGate WITH
            offer  <- IF planReq THEN None ELSE pending,
            typed  <- modal.input,
            ledger <- [i \in DOMAIN runs |-> [action |-> runs[i].action, fate |-> Fate(runs[i])]]

\* Every change goes through the gate: nothing reaches the host that was not offered
\* in this mode and confirmed with its phrase, and nothing refused takes effect.
GateSpec == Gate!GateSpec

-------------------------------------------------------------------------------
(* Liveness, for a session with an automatic refresh. *)

EffectOf(i) == IF i \in DOMAIN runs THEN runs[i].effect ELSE 0

\* The UI thread waits for an answer that never comes.
Hung == [](pc = "running")

\* What an action did to the host is shown sooner or later, unless a gather fails
\* (and the view says so), the user leaves or a command hangs, even if the refresh it
\* requested was folded into a gather that had already read the host.
ActionsShown ==
    \A i \in 1..MaxAttempts :
        (EffectOf(i) > 0)
            ~> (shownVer >= EffectOf(i) \/ view = "Error" \/ pc = "exited" \/ Hung)

\* Log entries read with another filter than the current one, which a gather spawned
\* before the filter changed may put back on screen, do not stay there.
LogsCatchUp ==
    \A q \in Queries :
        (logQuery = q /\ shownLogs \notin {None, q})
            ~> (shownLogs \in {None, q} \/ logQuery # q \/ view = "Error" \/ pc = "exited" \/ Hung)

\* The refresh indicator does not stay on for good.
BackgroundEnds == refreshing ~> (~refreshing \/ pc = "exited" \/ Hung)

===============================================================================
