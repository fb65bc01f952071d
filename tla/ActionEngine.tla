----------------------------- MODULE ActionEngine -----------------------------
(***************************************************************************)
(* The safety pipeline of crates/systui-actions: what the engine answers   *)
(* when an action is planned, what it checks again when it is executed,    *)
(* and how the outcome is classified for the audit log.                    *)
(*                                                                         *)
(* An action is a record [op, target].  The risk tables of the four action *)
(* modules are the sets below; the phrase an operator must type is the     *)
(* action's summary, which for the cron and prune actions does not name    *)
(* the target.  Texts are taken up to surrounding blanks and letter case,  *)
(* which is how the engine compares them.                                  *)
(***************************************************************************)
EXTENDS Naturals

CONSTANTS Targets,      \* names of units, processes, containers and cron jobs
          Protected,    \* targets whose pid is 1 or SysTUI's own
          None          \* the absent value

ASSUME ProtectedAreTargets == Protected \subseteq Targets
ASSUME NoneIsNoTarget      == None \notin Targets

-------------------------------------------------------------------------------
(* Modes and risk levels (core/mode.rs). *)

Modes == {"ReadOnly", "SafeActions", "Privileged"}

RiskNone   == 0
RiskLow    == 1
RiskMedium == 2
RiskHigh   == 3

\* ExecutionMode::allows
Allows(mode, risk) ==
    CASE mode = "ReadOnly"    -> risk = RiskNone
      [] mode = "SafeActions" -> risk <= RiskLow
      [] mode = "Privileged"  -> TRUE

\* HostCapabilities::effective_mode: a user without root or sudo is downgraded.
EffectiveMode(requested, privileged) ==
    IF requested = "Privileged" /\ ~privileged THEN "SafeActions" ELSE requested

-------------------------------------------------------------------------------
(* The action catalogue. *)

ServiceOps == {"Start", "Stop", "Restart", "Reload", "Enable", "Disable", "Mask", "Unmask"}
SignalOps  == {"Term", "Kill", "Hup"}
DockerOps  == {"DockerStart", "DockerStop", "DockerRestart", "DockerRemove", "Prune"}
CronOps    == {"CronAdd", "CronEdit", "CronDelete", "CronEnable", "CronDisable", "CronRunNow"}
Ops        == ServiceOps \cup SignalOps \cup DockerOps \cup CronOps

ServiceRisk(op) ==
    CASE op \in {"Start", "Reload", "Enable", "Unmask"} -> RiskLow
      [] op = "Restart"                                 -> RiskMedium
      [] OTHER                                          -> RiskHigh

SignalRisk(op) ==
    CASE op = "Hup" -> RiskLow [] op = "Term" -> RiskMedium [] OTHER -> RiskHigh

DockerRisk(op) ==
    CASE op = "DockerStart"                -> RiskLow
      [] op \in {"DockerRestart", "Prune"} -> RiskMedium
      [] OTHER                             -> RiskHigh

CronRisk(op) ==
    CASE op = "CronEnable"                   -> RiskLow
      [] op \in {"CronDelete", "CronRunNow"} -> RiskHigh
      [] OTHER                               -> RiskMedium

Action == [op: Ops, target: Targets \cup {None}]

Risk(a) ==
    CASE a.op \in ServiceOps -> ServiceRisk(a.op)
      [] a.op \in SignalOps  -> SignalRisk(a.op)
      [] a.op \in DockerOps  -> DockerRisk(a.op)
      [] OTHER               -> CronRisk(a.op)

\* SignalAction::guardrail; no other action has one.
Guardrail(a) == a.op \in SignalOps /\ a.target \in Protected

\* ActionPreview.summary, which is also the confirmation phrase.
Summary(a) == [op |-> a.op, target |-> IF a.op \in CronOps THEN None ELSE a.target]

Text      == [op: Ops \cup {None}, target: Targets \cup {None}]
EmptyText == [op |-> None, target |-> None]

-------------------------------------------------------------------------------
(* The engine. *)

ConfirmAt == RiskMedium

\* ActionEngine::plan, as the stage of the modal its decision opens.
Plan(mode, a) ==
    IF Guardrail(a) \/ ~Allows(mode, Risk(a)) THEN "Result"
    ELSE IF Risk(a) >= ConfirmAt THEN "Confirm" ELSE "Ready"

\* The checks ActionEngine::execute makes before it calls Action::execute.
MayExecute(mode, a, text) ==
    /\ ~Guardrail(a)
    /\ Allows(mode, Risk(a))
    /\ Risk(a) >= ConfirmAt => text = Summary(a)

Outcomes == {"ok", "nonzero", "error"}

\* ActionEngine::run: every error is recorded as a rejection.
AuditStatus(outcome) ==
    CASE outcome = "ok"      -> "Success"
      [] outcome = "nonzero" -> "Failure"
      [] outcome = "error"   -> "Rejected"

===============================================================================
