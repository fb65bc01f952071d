----------------------------- MODULE SessionProofs -----------------------------
(***************************************************************************)
(* The safety of a session, proved for every value of the constants.       *)
(*                                                                         *)
(* The properties are not inductive as they stand.  OfferIsPending says    *)
(* nothing while the UI thread plans or executes, so Flow follows the      *)
(* pending action through those steps as well.  That a gather is never     *)
(* older than the screen needs the version it has read (Versions) and that *)
(* it is the only one (OneGather).  CursorOnRow and AsksForDrawnRow speak  *)
(* of the moment a key is read: Cursors holds always, and DrawnIsSelected  *)
(* says what the last frame showed.                                        *)
(***************************************************************************)
EXTENDS Session, TLAPS

\* Where the pending action is: at most one request at a time; unless it is being planned
\* or its command is running, it is pending exactly when it is on offer; and a running
\* command is the last attempt, still without an answer.
Flow ==
    /\ planReq => pc = "act" /\ pending # None /\ modal = NoModal
    /\ execReq => pc = "act" /\ ~planReq /\ modal.stage \in Offered
    /\ ~planReq /\ pc # "running" =>
          /\ pending # None <=> modal.stage \in Offered
          /\ modal.stage \in Offered => modal.action = pending
    /\ pc = "running" => /\ pending = None
                         /\ modal.stage \in Offered
                         /\ runs # <<>>
                         /\ modal.action = runs[Len(runs)].action
                         /\ runs[Len(runs)].state = "sent"

\* What a gather in flight has read is at least as new as the screen.
Versions ==
    /\ shownVer <= host
    /\ \A s \in Slots : gather[s].state \in {"read", "sent"} =>
           shownVer <= gather[s].ver /\ gather[s].ver <= host

\* Every cursor is in its list, at every step.
Cursors ==
    \A t \in Tabs : IF rows[t] = <<>> THEN cursor[t] = 0 ELSE cursor[t] < Len(rows[t])

\* The key about to be read meets the row that was drawn.
DrawnIsSelected == pc = "key" => drawn = Selected

IInv == TypeOK /\ Flow /\ OneGather /\ Versions /\ Cursors /\ DrawnIsSelected

\* A slot holds a task from the start, and what spawn_refresh puts there is one.
LEMMA TaskTypes ==
    /\ IdleTask \in TaskType
    /\ \A q \in Queries : NewGather(q) \in TaskType
  BY DEF NewGather, IdleTask, TaskType

\* What run sets up before it enters the loop has the types of TypeOK.
LEMMA InitType == Init => TypeOK
<1> SUFFICES ASSUME Init PROVE TypeOK
  OBVIOUS
<1>1. LoopType
  BY RequestedAreModes DEF Init, LoopType, EffectiveMode, Modes
<1>2. UIType
  BY DEF Init, UIType, NoModal, Stages, Text, EmptyText
<1>3. ScreenType
  <2>1. <<>> \in Seq(Row)
    OBVIOUS
  <2>2. rows \in [Tabs -> Seq(Row)] /\ cursor \in [Tabs -> Nat]
    BY <2>1 DEF Init
  <2> QED
    BY <2>2 DEF Init, ScreenType
<1>4. BackgroundType
  BY TaskTypes DEF Init, BackgroundType
<1>5. HostType
  BY DEF Init, HostType
<1> QED
  BY <1>1, <1>2, <1>3, <1>4, <1>5 DEF TypeOK

\* No action is on its way when the loop is entered.
LEMMA InitFlow == Init => Flow
  BY DEF Init, Flow, NoModal, Offered

\* The first gather is spawned before the loop, with app.refreshing set.
LEMMA InitOneGather == Init => OneGather
  BY DEF Init, OneGather, NewGather, IdleTask

\* Nothing was read before the first gather.
LEMMA InitVersions == Init => Versions
  BY DEF Init, Versions, NewGather, IdleTask

\* Every list is empty and every cursor at its top; the loop starts with the channels.
LEMMA InitCursors == Init => Cursors /\ DrawnIsSelected
  BY DEF Init, Cursors, DrawnIsSelected

\* What a key finds under the cursor is a row of the list, or nothing.
LEMMA SelectedType == ScreenType => Selected \in Row \cup {None}
  BY DEF ScreenType, Selected

\* request_action makes an action of the catalogue from any selected row.
LEMMA DefaultActionType ==
    ASSUME tab \in {"services", "processes", "docker"}, NEW row \in Row
    PROVE  DefaultAction(row) \in Action
  BY DEF DefaultAction, Row, Action, Ops, ServiceOps, SignalOps, DockerOps, CronOps

\* So do request_delete_cron, request_run_cron and request_toggle_cron.
LEMMA CronActionsType == ASSUME NEW row \in Row PROVE CronActions(row) \subseteq Action
  BY DEF CronActions, Row, Action, Ops, CronOps

\* handle_key keeps every variable in its type, whatever key it is given.
LEMMA KeyType == ASSUME TypeOK, HandleKey PROVE TypeOK'
<1> USE DEF OnKey, Normal, KeepTasks, uiVars, screenVars, dataVars, reqVars, taskVars, hostVars
<1>0. /\ pc' = "act" /\ mode' = mode /\ drawn' = drawn /\ due' = due
      /\ UNCHANGED <<taskVars, hostVars, dataVars>>
  BY DEF HandleKey, KeyIgnored, KeyQuit, ModalClose, ModalEnter, ModalType, FormClose, FormSubmit,
         KeyAction, KeyCron, KeyPrune, KeyAddForm, KeyEditForm, KeyTab, KeyMove, KeySort, KeyTree,
         KeyFilter, KeyRefresh, KeyLogs, KeyProbe, Ask, Reject, OpenForm
<1>1. BackgroundType' /\ HostType'
  BY <1>0 DEF TypeOK, BackgroundType, HostType
<1>2. LoopType'
  BY <1>0
     DEF TypeOK, LoopType, HandleKey, KeyIgnored, KeyQuit, ModalClose, ModalEnter, ModalType,
         FormClose, FormSubmit, KeyAction, KeyCron, KeyPrune, KeyAddForm, KeyEditForm, KeyTab,
         KeyMove, KeySort, KeyTree, KeyFilter, KeyRefresh, KeyLogs, KeyProbe, Ask, Reject, OpenForm
<1>3. UIType'
  <2> USE DEF TypeOK, UIType
  <2>1. ASSUME NEW a \in Action, Ask(a) \/ OpenForm(a) PROVE UIType'
    BY <2>1 DEF Ask, OpenForm
  <2>2. CASE Reject
    BY <2>2 DEF Reject, Rejection, Stages, Text, EmptyText
  <2>3. CASE KeyIgnored \/ KeyQuit \/ ModalEnter \/ FormClose
    BY <2>3 DEF KeyIgnored, KeyQuit, ModalEnter, FormClose
  <2>4. CASE ModalClose
    BY <2>4 DEF ModalClose, NoModal, Stages, Text, EmptyText
  <2>5. CASE \E t \in Phrases : ModalType(t)
    BY <2>5, PhrasesAreTexts DEF ModalType
  <2>6. CASE \E job \in NewJobs : FormSubmit(job)
    BY <2>6, NewJobsAreTargets DEF FormSubmit, Action
  <2>7. CASE KeyAction
    BY <2>7, <2>1, SelectedType, DefaultActionType DEF KeyAction
  <2>8. CASE KeyCron
    BY <2>8, <2>1, <2>2, SelectedType, CronActionsType DEF KeyCron, UserJobSelected
  <2>9. CASE KeyPrune \/ KeyAddForm
    BY <2>9, <2>1, <2>2 DEF KeyPrune, KeyAddForm, Action, Ops, DockerOps, CronOps
  <2>10. CASE KeyEditForm
    <3>1. CASE mode = "ReadOnly" \/ ~UserJobSelected
      BY <2>10, <3>1, <2>2 DEF KeyEditForm
    <3>2. CASE ~(mode = "ReadOnly" \/ ~UserJobSelected)
      <4>1. [op |-> "CronEdit", target |-> Selected.name] \in Action
        BY <3>2, SelectedType DEF UserJobSelected, Row, Action, Ops, CronOps
      <4> QED
        BY <2>10, <3>2, <4>1, <2>1 DEF KeyEditForm
    <3> QED
      BY <3>1, <3>2
  <2>11. CASE (\E t \in Tabs : KeyTab(t)) \/ KeyMove \/ KeySort \/ KeyTree \/ KeyFilter
    BY <2>11 DEF KeyTab, KeyMove, KeySort, KeyTree, KeyFilter
  <2>12. CASE KeyRefresh \/ (\E q \in Queries : KeyLogs(q)) \/ KeyProbe
    BY <2>12 DEF KeyRefresh, KeyLogs, KeyProbe
  <2> QED
    BY <2>2, <2>3, <2>4, <2>5, <2>6, <2>7, <2>8, <2>9, <2>10, <2>11, <2>12 DEF HandleKey
<1>4. ScreenType'
  <2> USE DEF TypeOK, ScreenType
  <2>1. CASE UNCHANGED screenVars
    BY <2>1
  <2>2. CASE \E t \in Tabs : KeyTab(t)
    BY <2>2 DEF KeyTab
  <2>3. CASE KeyMove
    <3>1. CASE cursor[tab] + 1 < Len(rows[tab]) /\ cursor' = [cursor EXCEPT ![tab] = @ + 1]
      BY <2>3, <3>1 DEF KeyMove
    <3>2. CASE cursor[tab] > 0 /\ cursor' = [cursor EXCEPT ![tab] = @ - 1]
      <4>1. cursor[tab] - 1 \in Nat
        BY <3>2
      <4>2. cursor' \in [Tabs -> Nat]
        BY <3>2, <4>1
      <4> QED
        BY <2>3, <4>2 DEF KeyMove
    <3> QED
      BY <2>3, <3>1, <3>2 DEF KeyMove
  <2>4. CASE KeySort
    <3>1. PICK list \in Reorderings(rows["processes"]) :
             rows' = [rows EXCEPT !["processes"] = list]
      BY <2>4 DEF KeySort
    <3>2. list \in Seq(Row)
      BY <3>1, <2>4, ListsAreLists DEF KeySort, Reorderings
    <3>3. rows' \in [Tabs -> Seq(Row)]
      BY <3>1, <3>2
    <3> QED
      BY <2>4, <3>3 DEF KeySort
  <2>5. CASE KeyTree
    BY <2>5, ListsAreLists DEF KeyTree, Reorderings
  <2>6. CASE KeyFilter
    BY <2>6, ListsAreLists DEF KeyFilter
  <2> QED
    BY <2>1, <2>2, <2>3, <2>4, <2>5, <2>6
       DEF HandleKey, KeyIgnored, KeyQuit, ModalClose, ModalEnter, ModalType, FormClose, FormSubmit,
           KeyAction, KeyCron, KeyPrune, KeyAddForm, KeyEditForm, KeyRefresh, KeyLogs, KeyProbe,
           Ask, Reject, OpenForm
<1> QED
  BY <1>1, <1>2, <1>3, <1>4 DEF TypeOK

\* A group of variables that a step leaves alone keeps its type.
LEMMA KeepTypes ==
    ASSUME TypeOK
    PROVE  /\ UNCHANGED uiVars => UIType'
           /\ UNCHANGED screenVars => ScreenType'
           /\ UNCHANGED taskVars => BackgroundType'
           /\ UNCHANGED hostVars => HostType'
  BY DEF uiVars, screenVars, dataVars, taskVars, hostVars, TypeOK, UIType, ScreenType,
         BackgroundType,
         HostType

\* Every step of the session keeps the types; Flow tells an execution that its pending
\* action is there, and a returning command that it has a record.
LEMMA StepType == ASSUME TypeOK, Flow, Next PROVE TypeOK'
<1>1. ASSUME NEW s \in Slots, ApplyResult(s) PROVE TypeOK'
  <2>1. gather[s] \in TaskType
    BY DEF TypeOK, BackgroundType
  <2>2. ScreenType'
    <3>1. PICK lists \in [Tabs -> UNION {Lists[t] : t \in Tabs}] :
             /\ \A t \in Tabs : lists[t] \in Lists[t]
             /\ rows' = lists
             /\ cursor' = ClampAll(lists)
      BY <1>1 DEF ApplyResult
    <3>2. \A t \in Tabs : lists[t] \in Seq(Row)
      BY <3>1, ListsAreLists
    <3>3. rows' \in [Tabs -> Seq(Row)]
      BY <3>1, <3>2
    <3>4. \A t \in Tabs : Clamp(cursor[t], lists[t]) \in Nat
      BY <3>2 DEF TypeOK, ScreenType, Clamp
    <3>5. cursor' \in [Tabs -> Nat]
      BY <3>1, <3>4 DEF ClampAll
    <3> QED
      BY <1>1, <2>1, <3>3, <3>5 DEF ApplyResult, TypeOK, ScreenType, TaskType
  <2>3. BackgroundType' /\ LoopType'
    BY <1>1, TaskTypes DEF ApplyResult, TypeOK, BackgroundType, LoopType, reqVars
  <2> QED
    BY <1>1, <2>2, <2>3, KeepTypes DEF ApplyResult, TypeOK
<1>2. ASSUME NEW s \in Slots, ApplyError(s) PROVE TypeOK'
  <2>1. BackgroundType' /\ LoopType'
    BY <1>2, TaskTypes DEF ApplyError, TypeOK, BackgroundType, LoopType, reqVars
  <2>2. ScreenType'
    BY <1>2 DEF ApplyError, TypeOK, ScreenType
  <2> QED
    BY <1>2, <2>1, <2>2, KeepTypes DEF ApplyError, TypeOK
<1>3. CASE ApplyProbe
  <2>1. BackgroundType' /\ LoopType'
    BY <1>3 DEF ApplyProbe, TypeOK, BackgroundType, LoopType, reqVars
  <2> QED
    BY <1>3, <2>1, KeepTypes DEF ApplyProbe, TypeOK
<1>4. CASE Draw
  <2>1. LoopType'
    BY <1>4, SelectedType DEF Draw, TypeOK, LoopType, reqVars
  <2> QED
    BY <1>4, <2>1, KeepTypes DEF Draw, TypeOK
<1>5. CASE HandleKey
  BY <1>5, KeyType
<1>6. CASE PlanAction
  <2>1. UIType'
    <3>1. planReq' = FALSE /\ UNCHANGED <<execReq, quit, cronForm>>
      BY <1>6 DEF PlanAction, KeepScreen
    <3>2. CASE Plan(mode, pending) = "Result"
      <4>1. modal' = Rejection /\ pending' = None
        BY <1>6, <3>2 DEF PlanAction
      <4> QED
        BY <3>1, <4>1 DEF TypeOK, UIType, Rejection, Stages, Text, EmptyText
    <3>3. CASE Plan(mode, pending) # "Result"
      <4>1. modal' = [stage |-> Plan(mode, pending), action |-> pending, input |-> EmptyText]
            /\ pending' = pending
        BY <1>6, <3>3 DEF PlanAction
      <4>2. Plan(mode, pending) \in Stages
        BY DEF Plan, Stages
      <4>3. EmptyText \in Text
        BY DEF Text, EmptyText
      <4> QED
        BY <3>1, <4>1, <4>2, <4>3 DEF TypeOK, UIType
    <3> QED
      BY <3>2, <3>3
  <2>2. LoopType'
    BY <1>6 DEF PlanAction, KeepScreen, TypeOK, LoopType, reqVars
  <2> QED
    BY <1>6, <2>1, <2>2, KeepTypes DEF PlanAction, KeepScreen, TypeOK
<1>7. CASE Execute
  <2>1. pending \in Action
    BY <1>7 DEF Execute, Flow, TypeOK, UIType, LoopType
  <2>2. Attempt("sent", None) \in RunType
    BY <2>1 DEF Attempt, RunType
  <2>3. HostType'
    BY <1>7, <2>2 DEF Execute, TypeOK, HostType
  <2>4. UIType' /\ LoopType'
    BY <1>7 DEF Execute, KeepScreen, TypeOK, UIType, LoopType, reqVars
  <2> QED
    BY <1>7, <2>3, <2>4, KeepTypes DEF Execute, KeepScreen, TypeOK
<1>8. CASE ExecuteRefused
  <2>1. pending \in Action
    BY <1>8 DEF ExecuteRefused, Flow, TypeOK, UIType, LoopType
  <2>2. Attempt("refused", AuditStatus("error")) \in RunType
    BY <2>1 DEF Attempt, RunType, AuditStatus
  <2>3. HostType'
    BY <1>8, <2>2 DEF ExecuteRefused, TypeOK, HostType
  <2>4. UIType' /\ LoopType'
    BY <1>8 DEF ExecuteRefused, ShowResult, KeepScreen, TypeOK, UIType, LoopType, Stages
  <2> QED
    BY <1>8, <2>3, <2>4, KeepTypes DEF ExecuteRefused, ShowResult, KeepScreen, TypeOK
<1>9. CASE NothingToAct
  <2>1. UIType' /\ LoopType'
    BY <1>9 DEF NothingToAct, KeepScreen, TypeOK, UIType, LoopType, reqVars
  <2> QED
    BY <1>9, <2>1, KeepTypes DEF NothingToAct, KeepScreen, TypeOK
<1>10. ASSUME NEW outcome \in Outcomes, CommandReturns(outcome) PROVE TypeOK'
  <2>1. AuditStatus(outcome) \in {None, "Success", "Failure", "Rejected"}
    BY DEF Outcomes, AuditStatus
  <2>2. Len(runs) \in DOMAIN runs /\ runs[Len(runs)] \in RunType
    BY <1>10 DEF CommandReturns, Flow, TypeOK, HostType
  <2>3. [runs[Len(runs)] EXCEPT !.state  = IF outcome = "error" THEN "lost" ELSE "done",
                                !.status = AuditStatus(outcome)] \in RunType
    BY <2>1, <2>2 DEF RunType
  <2>4. HostType'
    BY <1>10, <2>2, <2>3 DEF CommandReturns, TypeOK, HostType
  <2>5. UIType' /\ LoopType'
    BY <1>10 DEF CommandReturns, ShowResult, KeepScreen, TypeOK, UIType, LoopType, Stages
  <2> QED
    BY <1>10, <2>4, <2>5, KeepTypes DEF CommandReturns, ShowResult, KeepScreen, TypeOK
<1>11. CASE RefreshStep
  <2>1. BackgroundType'
    BY <1>11, TaskTypes DEF RefreshStep, SpawnRefresh, TypeOK, BackgroundType, LoopType
  <2>2. LoopType'
    BY <1>11 DEF RefreshStep, TypeOK, LoopType
  <2> QED
    BY <1>11, <2>1, <2>2, KeepTypes DEF RefreshStep, TypeOK
<1>12. CASE ReloadLogs
  <2>1. LoopType' /\ ScreenType'
    BY <1>12 DEF ReloadLogs, TypeOK, LoopType, ScreenType
  <2> QED
    BY <1>12, <2>1, KeepTypes DEF ReloadLogs, TypeOK
<1>13. CASE NothingToSpawn
  <2>1. LoopType'
    BY <1>13 DEF NothingToSpawn, TypeOK, LoopType, reqVars
  <2> QED
    BY <1>13, <2>1, KeepTypes DEF NothingToSpawn, TypeOK
<1>14. CASE ProbeStep
  <2>1. LoopType' /\ BackgroundType'
    BY <1>14 DEF ProbeStep, SpawnProbe, TypeOK, LoopType, BackgroundType
  <2> QED
    BY <1>14, <2>1, KeepTypes DEF ProbeStep, TypeOK
<1>15. ASSUME KeepUI, due' \in BOOLEAN, BackgroundType', HostType' PROVE TypeOK'
  <2>1. LoopType'
    BY <1>15 DEF KeepUI, TypeOK, LoopType, reqVars
  <2> QED
    BY <1>15, <2>1, KeepTypes DEF KeepUI, TypeOK
<1>16. due \in BOOLEAN
  BY DEF TypeOK, LoopType
<1>17. ASSUME NEW s \in Slots, GatherStep(s) PROVE TypeOK'
  <2>1. gather[s] \in TaskType
    BY DEF TypeOK, BackgroundType
  <2>2. gather' \in [Slots -> TaskType]
    <3>1. CASE GatherReads(s)
      <4>1. [gather[s] EXCEPT !.state = "read", !.ver = host] \in TaskType
        BY <2>1 DEF TaskType, TypeOK, HostType
      <4> QED
        BY <3>1, <4>1 DEF GatherReads, TypeOK, BackgroundType
    <3>2. CASE GatherFinishes(s)
      <4>1. LogsRead(gather[s].query) \subseteq Queries \cup {None} /\ NetRead \subseteq BOOLEAN
        BY <2>1 DEF LogsRead, NetRead, TaskType
      <4>2. [gather[s] EXCEPT !.state = "sent", !.ok = FALSE] \in TaskType
        BY <2>1 DEF TaskType
      <4>3. \A logs \in LogsRead(gather[s].query), net \in NetRead :
              [gather[s] EXCEPT !.state = "sent", !.ok = TRUE, !.logs = logs, !.net = net]
                 \in TaskType
        BY <2>1, <4>1 DEF TaskType
      <4> QED
        BY <3>2, <4>2, <4>3 DEF GatherFinishes, TypeOK, BackgroundType
    <3> QED
      BY <1>17, <3>1, <3>2 DEF GatherStep
  <2>3. BackgroundType'
    BY <1>17, <2>2 DEF GatherStep, GatherReads, GatherFinishes, TypeOK, BackgroundType
  <2> QED
    BY <1>15, <1>16, <1>17, <2>3, KeepTypes DEF GatherStep, GatherReads, GatherFinishes
<1>18. CASE ProbeFinishes
  <2>1. BackgroundType'
    BY <1>18 DEF ProbeFinishes, TypeOK, BackgroundType
  <2> QED
    BY <1>15, <1>16, <1>18, <2>1, KeepTypes DEF ProbeFinishes
<1>19. CASE TimerElapses
  BY <1>15, <1>19, KeepTypes DEF TimerElapses
<1>20. ASSUME NEW i \in DOMAIN runs, CommandTakesEffect(i) PROVE TypeOK'
  <2>1. runs[i] \in RunType /\ host + 1 \in Nat
    BY DEF TypeOK, HostType
  <2>2. [runs[i] EXCEPT !.effect = host + 1] \in RunType
    BY <2>1 DEF RunType
  <2>3. HostType'
    BY <1>20, <2>1, <2>2 DEF CommandTakesEffect, TypeOK, HostType
  <2> QED
    BY <1>15, <1>16, <1>20, <2>3, KeepTypes DEF CommandTakesEffect
<1>21. CASE ExternalChange
  <2>1. HostType'
    BY <1>21 DEF ExternalChange, TypeOK, HostType
  <2> QED
    BY <1>15, <1>16, <1>21, <2>1, KeepTypes DEF ExternalChange
<1>22. CASE Exited
  BY <1>22, <1>15, <1>16, KeepTypes DEF Exited, vars, KeepUI
<1> QED
  BY <1>1, <1>2, <1>3, <1>4, <1>5, <1>6, <1>7, <1>8, <1>9, <1>10, <1>11, <1>12, <1>13, <1>14,
     <1>17, <1>18, <1>19, <1>20, <1>21, <1>22 DEF Next, LoopStep, Act

\* No key breaks the order of plan, offer and execution: keys are read only when nothing
\* is asked of the engine, and each leaves a pending action with its offer or its plan.
LEMMA KeyFlow == ASSUME TypeOK, Flow, HandleKey PROVE Flow'
<1> USE DEF OnKey, Normal, KeepTasks, uiVars, screenVars, hostVars, Flow
<1>1. pc = "key" /\ pc' = "act" /\ ~planReq /\ ~execReq /\ UNCHANGED runs
  BY DEF HandleKey, KeyIgnored, KeyQuit, ModalClose, ModalEnter, ModalType, FormClose, FormSubmit,
         KeyAction, KeyCron, KeyPrune, KeyAddForm, KeyEditForm, KeyTab, KeyMove, KeySort, KeyTree,
         KeyFilter, KeyRefresh, KeyLogs, KeyProbe, Ask, Reject, OpenForm
<1>2. ASSUME UNCHANGED <<modal, pending, planReq, execReq>> PROVE Flow'
  BY <1>1, <1>2
<1>3. ASSUME NEW a \in Action, modal = NoModal, Ask(a) PROVE Flow'
  BY <1>1, <1>3, NoneIsNoRecord DEF Ask
<1>4. CASE Reject
  BY <1>1, <1>4 DEF Reject, Rejection, Offered
<1>5. CASE ModalClose
  BY <1>1, <1>5 DEF ModalClose, NoModal, Offered
<1>6. CASE ModalEnter
  BY <1>1, <1>6 DEF ModalEnter
<1>7. CASE \E t \in Phrases : ModalType(t)
  BY <1>1, <1>7 DEF ModalType, TypeOK, UIType
<1>8. CASE \E job \in NewJobs : FormSubmit(job)
  <2>1. PICK job \in NewJobs : FormSubmit(job)
    BY <1>8
  <2>2. pending' \in Action
    BY <2>1, NewJobsAreTargets DEF FormSubmit, TypeOK, UIType, Action
  <2> QED
    BY <1>1, <2>1, <2>2, NoneIsNoRecord DEF FormSubmit
<1>9. CASE KeyAction
  BY <1>3, <1>9, SelectedType, DefaultActionType DEF KeyAction, TypeOK
<1>10. CASE KeyCron
  BY <1>3, <1>4, <1>10, SelectedType, CronActionsType DEF KeyCron, UserJobSelected, TypeOK
<1>11. CASE KeyPrune
  BY <1>3, <1>4, <1>11 DEF KeyPrune, Action, Ops, DockerOps
<1>12. ASSUME NEW a, OpenForm(a) PROVE Flow'
  BY <1>2, <1>12 DEF OpenForm
<1>13. CASE KeyAddForm
  BY <1>4, <1>12, <1>13 DEF KeyAddForm
<1>14. CASE KeyEditForm
  BY <1>4, <1>12, <1>14 DEF KeyEditForm
<1> QED
  BY <1>2, <1>4, <1>5, <1>6, <1>7, <1>8, <1>9, <1>10, <1>11, <1>13, <1>14
     DEF HandleKey, KeyIgnored, KeyQuit, FormClose, KeyTab, KeyMove, KeySort, KeyTree, KeyFilter,
         KeyRefresh, KeyLogs, KeyProbe

\* Nor does any other step: planning, executing and a command's return keep the pending
\* action, the modal and the last attempt in step.
LEMMA StepFlow == ASSUME TypeOK, Flow, Next PROVE Flow'
<1> USE DEF Flow
<1>1. ASSUME UNCHANGED <<modal, pending, planReq, execReq, runs>>, pc # "act", pc # "running",
             pc' # "running"
      PROVE  Flow'
  BY <1>1
<1>2. ASSUME UNCHANGED <<modal, pending, planReq, execReq, pc>>,
             Len(runs') = Len(runs),
             \A i \in DOMAIN runs : /\ runs'[i].action = runs[i].action
                                   /\ runs'[i].state = runs[i].state
      PROVE  Flow'
  <2>1. CASE pc = "running"
    BY <1>2, <2>1 DEF TypeOK, HostType
  <2>2. CASE pc # "running"
    BY <1>2, <2>2
  <2> QED
    BY <2>1, <2>2
<1>3. CASE HandleKey
  BY <1>3, KeyFlow
<1>4. CASE \E s \in Slots : ApplyResult(s) \/ ApplyError(s)
  BY <1>1, <1>4 DEF ApplyResult, ApplyError, Draining, uiVars, hostVars
<1>5. CASE ApplyProbe \/ Draw
  BY <1>1, <1>5 DEF ApplyProbe, Draw, Draining, uiVars, hostVars
<1>6. CASE RefreshStep \/ ReloadLogs \/ NothingToSpawn \/ ProbeStep
  BY <1>1, <1>6 DEF RefreshStep, ReloadLogs, NothingToSpawn, ProbeStep, uiVars, hostVars
<1>7. CASE PlanAction
  <2>1. pending \in Action /\ ~execReq
    BY <1>7 DEF PlanAction, TypeOK, UIType
  <2>2. Plan(mode, pending) \in {"Result"} \cup Offered
    BY DEF Plan, Offered
  <2> QED
    BY <1>7, <2>1, <2>2, NoneIsNoRecord DEF PlanAction, KeepScreen, Rejection, Offered, NoModal
<1>8. CASE Execute
  <2>1. /\ Len(runs') = Len(runs) + 1
        /\ runs'[Len(runs) + 1].action = pending /\ runs'[Len(runs) + 1].state = "sent"
    BY <1>8 DEF Execute, Attempt, TypeOK, HostType
  <2>2. runs' # <<>>
    BY <2>1 DEF TypeOK, HostType
  <2> QED
    BY <1>8, <2>1, <2>2 DEF Execute, KeepScreen
<1>9. CASE ExecuteRefused
  BY <1>9 DEF ExecuteRefused, ShowResult, KeepScreen, Offered, TypeOK, UIType
<1>10. CASE NothingToAct
  BY <1>10 DEF NothingToAct, KeepScreen, hostVars
<1>11. ASSUME NEW outcome \in Outcomes, CommandReturns(outcome) PROVE Flow'
  BY <1>11 DEF CommandReturns, ShowResult, KeepScreen, Offered, TypeOK, UIType
<1>12. CASE (\E s \in Slots : GatherStep(s)) \/ ProbeFinishes \/ TimerElapses \/ ExternalChange
  BY <1>2, <1>12
     DEF GatherStep, GatherReads, GatherFinishes, ProbeFinishes, TimerElapses, ExternalChange,
         KeepUI, uiVars, hostVars
<1>13. ASSUME NEW i \in DOMAIN runs, CommandTakesEffect(i) PROVE Flow'
  <2>1. /\ Len(runs') = Len(runs)
        /\ \A k \in DOMAIN runs : /\ runs'[k].action = runs[k].action
                                  /\ runs'[k].state = runs[k].state
    BY <1>13 DEF CommandTakesEffect, TypeOK, HostType, RunType
  <2> QED
    BY <1>2, <1>13, <2>1 DEF CommandTakesEffect, KeepUI, uiVars
<1>14. CASE Exited
  BY <1>2, <1>14 DEF Exited, vars, uiVars, hostVars
<1> QED
  BY <1>3, <1>4, <1>5, <1>6, <1>7, <1>8, <1>9, <1>10, <1>11, <1>12, <1>13, <1>14
     DEF Next, LoopStep, Act

\* A gather that posts its outcome keeps the version it read and disturbs no other slot.
LEMMA GatherFinishesKeeps ==
    ASSUME TypeOK, NEW s \in Slots, GatherFinishes(s)
    PROVE  /\ gather[s].state = "read" /\ gather'[s].state = "sent"
           /\ gather'[s].ver = gather[s].ver
           /\ \A t \in Slots : t # s => gather'[t] = gather[t]
           /\ UNCHANGED refreshing
<1>1. gather \in [Slots -> TaskType] /\ gather[s].state = "read" /\ UNCHANGED refreshing
  BY DEF TypeOK, BackgroundType, GatherFinishes
<1>2. CASE gather' = [gather EXCEPT ![s] = [@ EXCEPT !.state = "sent", !.ok = FALSE]]
  BY <1>1, <1>2 DEF TaskType
<1>3. ASSUME NEW logs, NEW net,
             gather' = [gather EXCEPT ![s] = [@ EXCEPT !.state = "sent", !.ok = TRUE,
                                                       !.logs = logs, !.net = net]]
      PROVE  /\ gather'[s].state = "sent" /\ gather'[s].ver = gather[s].ver
             /\ \A t \in Slots : t # s => gather'[t] = gather[t]
  BY <1>1, <1>3 DEF TaskType
<1> QED
  BY <1>1, <1>2, <1>3 DEF GatherFinishes

\* spawn_refresh starts a gather only when none is in flight, and folding its outcome in is
\* what clears app.refreshing.
LEMMA StepOneGather == ASSUME TypeOK, OneGather, Next PROVE OneGather'
<1> USE DEF OneGather
<1>1. gather \in [Slots -> TaskType]
  BY DEF TypeOK, BackgroundType
<1>2. CASE \E s \in Slots : ApplyResult(s) \/ ApplyError(s)
  BY <1>1, <1>2 DEF ApplyResult, ApplyError, IdleTask
<1>3. CASE RefreshStep
  <2>1. CASE refreshing
    BY <1>3, <2>1 DEF RefreshStep, SpawnRefresh
  <2>2. CASE ~refreshing
    <3>1. PICK s \in Slots : gather' = [gather EXCEPT ![s] = NewGather(logQuery)]
      BY <1>3, <2>2 DEF RefreshStep, SpawnRefresh
    <3>2. NewGather(logQuery).state = "running"
      BY DEF NewGather, IdleTask
    <3> QED
      BY <1>1, <1>3, <2>2, <3>1, <3>2 DEF RefreshStep, SpawnRefresh
  <2> QED
    BY <2>1, <2>2 DEF TypeOK, BackgroundType
<1>4. ASSUME NEW s \in Slots, GatherStep(s) PROVE OneGather'
  <2>1. gather[s].state # "idle" /\ gather'[s].state # "idle"
       /\ UNCHANGED <<refreshing, probing, probe>>
    <3>1. gather[s] \in TaskType
      BY <1>1
    <3>2. CASE GatherReads(s)
      BY <1>1, <3>1, <3>2 DEF GatherReads, TaskType
    <3>3. CASE GatherFinishes(s)
      BY <3>3, GatherFinishesKeeps DEF GatherFinishes
    <3> QED
      BY <1>4, <3>2, <3>3 DEF GatherStep
  <2>2. \A t \in Slots : t # s => gather'[t] = gather[t]
    BY <1>1, <1>4 DEF GatherStep, GatherReads, GatherFinishes
  <2> QED
    BY <2>1, <2>2
<1>5. CASE UNCHANGED <<refreshing, gather, probing, probe>>
  BY <1>5
<1>6. CASE HandleKey
  BY <1>5, <1>6
     DEF HandleKey, KeyIgnored, KeyQuit, ModalClose, ModalEnter, ModalType, FormClose, FormSubmit,
         KeyAction, KeyCron, KeyPrune, KeyAddForm, KeyEditForm, KeyTab, KeyMove, KeySort, KeyTree,
         KeyFilter, KeyRefresh, KeyLogs, KeyProbe, Ask, Reject, OpenForm, KeepTasks, taskVars
<1>7. CASE ApplyProbe \/ ProbeStep \/ ProbeFinishes
  BY <1>7 DEF ApplyProbe, ProbeStep, SpawnProbe, ProbeFinishes, KeepUI, TypeOK, BackgroundType
<1> QED
  BY <1>2, <1>3, <1>4, <1>5, <1>6, <1>7
     DEF Next, LoopStep, Act, Draw, PlanAction, Execute, ExecuteRefused, NothingToAct,
         ShowResult, KeepScreen, CommandReturns, ReloadLogs, NothingToSpawn, TimerElapses,
         CommandTakesEffect, ExternalChange, Exited, KeepUI, taskVars,
         vars

\* No step shows what was read before what is on screen: with one gather at a time, a
\* gather that has read the host read it after the data on screen.
LEMMA StepVersions == ASSUME TypeOK, OneGather, Versions, Next PROVE Versions'
<1> USE DEF Versions
<1>1. gather \in [Slots -> TaskType] /\ host \in Nat /\ shownVer \in Nat
  BY DEF TypeOK, BackgroundType, HostType, ScreenType
<1>2. ASSUME NEW s \in Slots, ApplyResult(s) PROVE Versions'
  <2>1. \A t \in Slots : gather'[t].state = "idle"
    BY <1>1, <1>2 DEF ApplyResult, OneGather, TaskType, IdleTask
  <2>2. shownVer' = gather[s].ver /\ gather[s].ver <= host /\ UNCHANGED host
    BY <1>2 DEF ApplyResult, hostVars
  <2> QED
    BY <2>1, <2>2
<1>3. ASSUME NEW s \in Slots, ApplyError(s) PROVE Versions'
  BY <1>1, <1>3 DEF ApplyError, IdleTask, hostVars
<1>4. CASE RefreshStep
  <2>1. \A s \in Slots : gather'[s] = gather[s] \/ gather'[s].state = "running"
    BY <1>1, <1>4 DEF RefreshStep, SpawnRefresh, NewGather, IdleTask
  <2> QED
    BY <1>1, <1>4, <2>1 DEF RefreshStep, screenVars, dataVars, hostVars
<1>5. ASSUME NEW s \in Slots, GatherReads(s) PROVE Versions'
  BY <1>1, <1>5 DEF GatherReads, KeepUI, screenVars, dataVars, hostVars, TaskType
<1>6. ASSUME NEW s \in Slots, GatherFinishes(s) PROVE Versions'
  <2>1. \A t \in Slots : \/ gather'[t] = gather[t]
                         \/ gather[t].state = "read" /\ gather'[t].ver = gather[t].ver
    BY <1>6, GatherFinishesKeeps
  <2> QED
    BY <1>1, <1>6, <2>1 DEF GatherFinishes, KeepUI, screenVars, dataVars, hostVars
<1>7. ASSUME UNCHANGED <<shownVer, gather>>, host' >= host, host' \in Nat PROVE Versions'
  BY <1>1, <1>7 DEF TaskType
<1>8. CASE UNCHANGED <<shownVer, gather, host>>
  BY <1>1, <1>7, <1>8
<1>9. CASE HandleKey
  BY <1>8, <1>9
     DEF HandleKey, KeyIgnored, KeyQuit, ModalClose, ModalEnter, ModalType, FormClose, FormSubmit,
         KeyAction, KeyCron, KeyPrune, KeyAddForm, KeyEditForm, KeyTab, KeyMove, KeySort, KeyTree,
         KeyFilter, KeyRefresh, KeyLogs, KeyProbe, Ask, Reject, OpenForm, KeepTasks, taskVars,
         screenVars, dataVars, hostVars
<1>10. CASE (\E i \in DOMAIN runs : CommandTakesEffect(i)) \/ ExternalChange
  BY <1>1, <1>7, <1>10 DEF CommandTakesEffect, ExternalChange, KeepUI, taskVars, screenVars,
            dataVars
<1> QED
  BY <1>2, <1>3, <1>4, <1>5, <1>6, <1>8, <1>9, <1>10
     DEF Next, LoopStep, Act, ApplyProbe, Draw, PlanAction, Execute, ExecuteRefused, NothingToAct,
         ShowResult, KeepScreen, CommandReturns, ReloadLogs, NothingToSpawn, ProbeStep, GatherStep,
         ProbeFinishes, TimerElapses, Exited, KeepUI, taskVars, screenVars, dataVars, hostVars, vars

\* Whatever changes a list puts its cursor back into it: clamp_selections after a gather,
\* the top of the list after a filter, and a re-ordering keeps the length.
LEMMA StepCursors == ASSUME TypeOK, Cursors, Next PROVE Cursors'
<1> USE DEF Cursors
<1>1. rows \in [Tabs -> Seq(Row)] /\ cursor \in [Tabs -> Nat] /\ tab \in Tabs
  BY DEF TypeOK, ScreenType
<1>2. CASE UNCHANGED <<rows, cursor>>
  BY <1>2
<1>3. ASSUME NEW s \in Slots, ApplyResult(s) PROVE Cursors'
  <2>1. PICK lists \in [Tabs -> UNION {Lists[t] : t \in Tabs}] :
           /\ \A t \in Tabs : lists[t] \in Lists[t]
           /\ rows' = lists
           /\ cursor' = ClampAll(lists)
    BY <1>3 DEF ApplyResult
  <2>2. ASSUME NEW t \in Tabs
        PROVE  IF lists[t] = <<>> THEN Clamp(cursor[t], lists[t]) = 0
               ELSE Clamp(cursor[t], lists[t]) < Len(lists[t])
    <3>1. lists[t] \in Seq(Row) /\ cursor[t] \in Nat
      BY <1>1, <2>1, ListsAreLists
    <3>2. lists[t] # <<>> => Len(lists[t]) > 0
      BY <3>1
    <3> QED
      BY <3>1, <3>2 DEF Clamp
  <2> QED
    BY <2>1, <2>2 DEF ClampAll
<1>4. CASE KeyMove
  <2>1. rows[tab] \in Seq(Row) /\ cursor[tab] \in Nat
    BY <1>1
  <2>2. CASE cursor[tab] + 1 < Len(rows[tab]) /\ cursor' = [cursor EXCEPT ![tab] = @ + 1]
    BY <1>1, <1>4, <2>1, <2>2 DEF KeyMove
  <2>3. CASE cursor[tab] > 0 /\ cursor' = [cursor EXCEPT ![tab] = @ - 1]
    BY <1>1, <1>4, <2>1, <2>3 DEF KeyMove
  <2> QED
    BY <1>4, <2>2, <2>3 DEF KeyMove
<1>5. ASSUME NEW t \in Tabs, NEW list \in Seq(Row), rows' = [rows EXCEPT ![t] = list],
             \/ cursor' = [cursor EXCEPT ![t] = 0]
             \/ cursor' = cursor /\ Len(list) = Len(rows[t])
      PROVE  Cursors'
  <2>1. list # <<>> => Len(list) > 0
    BY <1>5
  <2>2. rows[t] \in Seq(Row) /\ cursor[t] \in Nat
    BY <1>1
  <2>3. ASSUME NEW u \in Tabs
        PROVE  IF rows'[u] = <<>> THEN cursor'[u] = 0 ELSE cursor'[u] < Len(rows'[u])
    <3>1. CASE u = t
      BY <1>1, <1>5, <2>1, <2>2, <3>1
    <3>2. CASE u # t
      BY <1>1, <1>5, <3>2
    <3> QED
      BY <3>1, <3>2
  <2> QED
    BY <2>3
<1>6. CASE KeySort
  <2>1. PICK list \in Reorderings(rows["processes"]) :
           rows' = [rows EXCEPT !["processes"] = list]
    BY <1>6 DEF KeySort
  <2>2. "processes" \in Tabs /\ UNCHANGED cursor
    BY <1>6 DEF KeySort
  <2>3. list \in Seq(Row)
    <3>1. Lists["processes"] \subseteq Seq(Row) /\ <<>> \in Seq(Row)
      BY <2>2, ListsAreLists
    <3>2. list \in Lists["processes"] \cup {<<>>}
      BY <2>1 DEF Reorderings
    <3> QED
      BY <3>1, <3>2
  <2>4. Len(list) = Len(rows["processes"])
    BY <2>1 DEF Reorderings
  <2> QED
    BY <1>5, <2>1, <2>2, <2>3, <2>4
<1>7. CASE KeyTree
  <2>1. PICK list \in Reorderings(rows[tab]) : rows' = [rows EXCEPT ![tab] = list]
    BY <1>7 DEF KeyTree
  <2>2. list \in Seq(Row)
    BY <1>1, <1>7, <2>1, ListsAreLists DEF KeyTree, Reorderings
  <2> QED
    BY <1>1, <1>5, <1>7, <2>1, <2>2 DEF KeyTree
<1>8. CASE KeyFilter
  <2>1. PICK list \in Lists[tab] : rows' = [rows EXCEPT ![tab] = list]
    BY <1>8 DEF KeyFilter
  <2>2. list \in Seq(Row)
    BY <1>1, <2>1, ListsAreLists
  <2> QED
    BY <1>1, <1>5, <1>8, <2>1, <2>2 DEF KeyFilter
<1>9. CASE HandleKey
  BY <1>2, <1>4, <1>6, <1>7, <1>8, <1>9
     DEF HandleKey, KeyIgnored, KeyQuit, ModalClose, ModalEnter, ModalType, FormClose, FormSubmit,
         KeyAction, KeyCron, KeyPrune, KeyAddForm, KeyEditForm, KeyTab, KeyRefresh, KeyLogs,
         KeyProbe,
         Ask, Reject, OpenForm, screenVars
<1> QED
  BY <1>2, <1>3, <1>9
     DEF Next, LoopStep, Act, ApplyError, ApplyProbe, Draw, PlanAction, Execute, ExecuteRefused,
         NothingToAct, ShowResult, KeepScreen, CommandReturns, RefreshStep, ReloadLogs,
         NothingToSpawn, ProbeStep, GatherStep, GatherReads, GatherFinishes, ProbeFinishes,
         TimerElapses, CommandTakesEffect, ExternalChange, Exited, KeepUI, screenVars, vars

\* Between a frame and the key that follows it nothing moves the row under the cursor: the
\* channels are drained before the frame only.
LEMMA StepDrawn == ASSUME TypeOK, DrawnIsSelected, Next PROVE DrawnIsSelected'
<1> USE DEF DrawnIsSelected
<1>1. CASE UNCHANGED <<pc, tab, rows, cursor, drawn>>
  BY <1>1 DEF Selected
<1>2. CASE pc' # "key"
  BY <1>2
<1>3. CASE Draw
  BY <1>3 DEF Draw, screenVars, Selected
<1>4. CASE HandleKey
  BY <1>2, <1>4
     DEF HandleKey, KeyIgnored, KeyQuit, ModalClose, ModalEnter, ModalType, FormClose, FormSubmit,
         KeyAction, KeyCron, KeyPrune, KeyAddForm, KeyEditForm, KeyTab, KeyMove, KeySort, KeyTree,
         KeyFilter, KeyRefresh, KeyLogs, KeyProbe, Ask, Reject, OpenForm, Normal, OnKey
<1> QED
  BY <1>1, <1>2, <1>3, <1>4
     DEF Next, LoopStep, Act, ApplyResult, ApplyError, ApplyProbe, Draining, PlanAction, Execute,
         ExecuteRefused, NothingToAct, ShowResult, CommandReturns, RefreshStep, ReloadLogs,
         NothingToSpawn, ProbeStep, GatherStep, GatherReads, GatherFinishes, ProbeFinishes,
         TimerElapses, CommandTakesEffect, ExternalChange, Exited, KeepUI, screenVars, vars

\* The invariant is inductive.
LEMMA StepInv == IInv /\ [Next]_vars => IInv'
<1> SUFFICES ASSUME IInv, [Next]_vars PROVE IInv'
  OBVIOUS
<1>1. CASE Next
  BY <1>1, StepType, StepFlow, StepOneGather, StepVersions, StepCursors, StepDrawn DEF IInv
<1>2. CASE UNCHANGED vars
  <2>1. TypeOK'
    BY <1>2, KeepTypes DEF IInv, vars, TypeOK, LoopType, reqVars
  <2> QED
    BY <1>2, <2>1
       DEF IInv, vars, uiVars, screenVars, dataVars, taskVars, hostVars, Flow, OneGather, Versions,
           Cursors, DrawnIsSelected, Selected
<1> QED
  BY <1>1, <1>2

\* Every reachable state of a session satisfies the inductive invariant, for every set of
\* lists, keys, phrases and slots and every bound.
THEOREM Invariant == Spec => []IInv
<1>1. Init => IInv
  BY InitType, InitFlow, InitOneGather, InitVersions, InitCursors DEF IInv
<1> QED
  BY <1>1, StepInv, PTL DEF Spec

\* Every field keeps its type; above all, app.pending names an action of the catalogue
\* whenever plan_action or execute_action takes it.
THEOREM TypeCorrect == Spec => []TypeOK
  BY Invariant, PTL DEF IInv

\* An action is pending exactly while the modal offers it, and it is the one described
\* there: close_action, set_decision and set_action_result leave none behind.
THEOREM OfferCorrect == Spec => []OfferIsPending
<1>1. IInv => OfferIsPending
  BY DEF IInv, Flow, OfferIsPending
<1> QED
  BY <1>1, Invariant, PTL

\* The command the UI is blocked on is the one the modal described when it was confirmed.
THEOREM RunningCorrect == Spec => []RunningIsShown
<1>1. IInv => RunningIsShown
  BY DEF IInv, Flow, RunningIsShown
<1> QED
  BY <1>1, Invariant, PTL

\* At most one gather is in flight, and app.refreshing says whether one is.
THEOREM GatherCorrect == Spec => []OneGather
  BY Invariant, PTL DEF IInv

\* A key never finds a cursor past the end of its list, on any tab.
THEOREM CursorCorrect == Spec => []CursorOnRow
<1>1. IInv => CursorOnRow
  BY DEF IInv, Cursors, CursorOnRow
<1> QED
  BY <1>1, Invariant, PTL

\* The action a key asks for is on the row drawn under the cursor (event_loop drains the
\* channels before it draws, never between the frame and the key).
THEOREM AsksDrawn == Spec => AsksForDrawnRow
<1> DEFINE Asks == (planReq' /\ ~planReq /\ cronForm = None /\ pending'.op # "Prune")
                       => drawn # None /\ pending'.target = drawn.name
<1>1. IInv /\ [Next]_vars => [Asks]_vars
  <2> SUFFICES ASSUME IInv, Next, planReq', ~planReq, cronForm = None, pending'.op # "Prune"
               PROVE  drawn # None /\ pending'.target = drawn.name
    BY DEF IInv, TypeOK, UIType
  <2>1. pc = "key" => drawn = Selected
    BY DEF IInv, DrawnIsSelected
  <2>2. CASE KeyAction
    BY <2>1, <2>2 DEF KeyAction, Normal, OnKey, Ask, DefaultAction
  <2>3. CASE KeyCron
    <3>1. pc = "key" /\ UserJobSelected /\ \E a \in CronActions(Selected) : pending' = a
      BY <2>3 DEF KeyCron, Normal, OnKey, Ask, Reject
    <3> QED
      BY <2>1, <3>1 DEF CronActions, UserJobSelected
  <2>4. CASE KeyPrune
    <3>1. pending' = [op |-> "Prune", target |-> None] \/ planReq' = planReq
      BY <2>4 DEF KeyPrune, Ask, Reject
    <3>2. CASE pending' = [op |-> "Prune", target |-> None]
      BY <3>2
    <3>3. CASE planReq' = planReq
      BY <3>3
    <3> QED
      BY <3>1, <3>2, <3>3
  <2>5. KeyAction \/ KeyCron \/ KeyPrune \/ ~HandleKey
    BY DEF HandleKey, KeyIgnored, KeyQuit, ModalClose, ModalEnter, ModalType, FormClose, FormSubmit,
           KeyAddForm, KeyEditForm, KeyTab, KeyMove, KeySort, KeyTree, KeyFilter, KeyRefresh,
           KeyLogs, KeyProbe, Reject, OpenForm, uiVars
  <2>6. HandleKey
    BY DEF Next, LoopStep, Act, ApplyResult, ApplyError, ApplyProbe, Draw, PlanAction, Execute,
           ExecuteRefused, NothingToAct, ShowResult, CommandReturns, RefreshStep, ReloadLogs,
           NothingToSpawn, ProbeStep, GatherStep, GatherReads, GatherFinishes, ProbeFinishes,
           TimerElapses, CommandTakesEffect, ExternalChange, Exited, KeepUI, KeepScreen, uiVars,
           vars
  <2> QED
    BY <2>2, <2>3, <2>4, <2>5, <2>6
<1> QED
  BY <1>1, Invariant, PTL DEF Spec, AsksForDrawnRow

\* A refresh never replaces what is on screen by something read earlier.
THEOREM NeverBack == Spec => ScreenNeverGoesBack
<1>1. IInv /\ [Next]_vars => [shownVer' >= shownVer]_vars
  <2> SUFFICES ASSUME IInv, Next PROVE shownVer' >= shownVer
    OBVIOUS
  <2>1. shownVer \in Nat
    BY DEF IInv, TypeOK, ScreenType
  <2>2. ASSUME NEW s \in Slots, ApplyResult(s) PROVE shownVer' >= shownVer
    BY <2>1, <2>2 DEF ApplyResult, IInv, Versions, TypeOK, BackgroundType, TaskType
  <2>3. CASE UNCHANGED shownVer
    BY <2>1, <2>3
  <2>4. CASE HandleKey
    BY <2>3, <2>4
       DEF HandleKey, KeyIgnored, KeyQuit, ModalClose, ModalEnter, ModalType, FormClose, FormSubmit,
           KeyAction, KeyCron, KeyPrune, KeyAddForm, KeyEditForm, KeyTab, KeyMove, KeySort, KeyTree,
           KeyFilter, KeyRefresh, KeyLogs, KeyProbe, Ask, Reject, OpenForm, screenVars, dataVars
  <2> QED
    BY <2>2, <2>3, <2>4
       DEF Next, LoopStep, Act, ApplyError, ApplyProbe, Draw, PlanAction, Execute, ExecuteRefused,
           NothingToAct, ShowResult, KeepScreen, CommandReturns, RefreshStep, ReloadLogs,
           NothingToSpawn, ProbeStep, GatherStep, GatherReads, GatherFinishes, ProbeFinishes,
           TimerElapses, CommandTakesEffect, ExternalChange, Exited, KeepUI, screenVars, dataVars,
           vars
<1> QED
  BY <1>1, Invariant, PTL DEF Spec, ScreenNeverGoesBack

===============================================================================
