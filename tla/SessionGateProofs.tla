--------------------------- MODULE SessionGateProofs ---------------------------
(***************************************************************************)
(* The session implements ActionGate, for every value of the constants.    *)
(* The offer is the pending action once it is planned, what is typed is    *)
(* the modal's input, and the ledger holds the fate of each execution; the *)
(* inductive invariant of SessionProofs says that an execution finds its   *)
(* action pending and that the command that returns is the one sent last.  *)
(*                                                                         *)
(* What is attempted is what the mode permits, and nothing in read-only    *)
(* mode.                                                                   *)
(***************************************************************************)
EXTENDS SessionProofs, SequenceTheorems

\* The gate's own copies of the engine's operators are the session's.
LEMMA SameEngine ==
    /\ Gate!Modes = Modes /\ Gate!Action = Action /\ Gate!Text = Text
    /\ Gate!EmptyText = EmptyText
    /\ \A m, a : /\ Gate!Guardrail(a) = Guardrail(a)
                 /\ Gate!Allows(m, Gate!Risk(a)) = Allows(m, Risk(a))
    /\ \A m, a, t : Gate!MayExecute(m, a, t) = MayExecute(m, a, t)
<1> USE DEF Gate!Risk, Risk, Gate!ServiceRisk, ServiceRisk, Gate!SignalRisk, SignalRisk,
            Gate!DockerRisk, DockerRisk, Gate!CronRisk, CronRisk, Gate!RiskLow, RiskLow,
            Gate!RiskMedium, RiskMedium, Gate!RiskHigh, RiskHigh, Gate!RiskNone, RiskNone,
            Gate!ServiceOps, ServiceOps, Gate!SignalOps, SignalOps, Gate!DockerOps, DockerOps,
            Gate!CronOps, CronOps, Gate!Ops, Ops
<1>1. Gate!Modes = Modes /\ Gate!Action = Action /\ Gate!Text = Text /\ Gate!EmptyText = EmptyText
  BY DEF Gate!Modes, Modes, Gate!Action, Action, Gate!Text, Text, Gate!EmptyText, EmptyText
<1>2. \A a : Gate!Risk(a) = Risk(a)
  OBVIOUS
<1>3. \A a : Gate!Summary(a) = Summary(a)
  BY DEF Gate!Summary, Summary
<1> HIDE DEF Gate!Risk, Risk
<1>4. \A m, a : /\ Gate!Guardrail(a) = Guardrail(a)
                /\ Gate!Allows(m, Gate!Risk(a)) = Allows(m, Risk(a))
  BY <1>2 DEF Gate!Guardrail, Guardrail, Gate!Allows, Allows
<1>5. \A m, a, t : Gate!MayExecute(m, a, t) = MayExecute(m, a, t)
  BY <1>2, <1>3, <1>4 DEF Gate!MayExecute, MayExecute, Gate!ConfirmAt, ConfirmAt
<1> QED
  BY <1>1, <1>4, <1>5

-------------------------------------------------------------------------------
(* The values the gate's variables have in the session. *)

Offer  == IF planReq THEN None ELSE pending
Entry(r) == [action |-> r.action, fate |-> Fate(r)]
Ledger == [i \in DOMAIN runs |-> Entry(runs[i])]

\* Appending to a sequence, written as a function on one more index.
LEMMA AppendAsFunction ==
    ASSUME NEW S, NEW seq \in Seq(S), NEW elt \in S
    PROVE  Append(seq, elt)
             = [i \in 1..(Len(seq) + 1) |-> IF i = Len(seq) + 1 THEN elt ELSE seq[i]]
<1> DEFINE f == [i \in 1..(Len(seq) + 1) |-> IF i = Len(seq) + 1 THEN elt ELSE seq[i]]
<1>1. f \in Seq(S) /\ Len(f) = Len(seq) + 1
  OBVIOUS
<1>2. Append(seq, elt) \in Seq(S) /\ Len(Append(seq, elt)) = Len(seq) + 1
  BY AppendProperties
<1>3. \A i \in 1..Len(f) : f[i] = Append(seq, elt)[i]
  BY <1>1, AppendProperties
<1> QED
  BY <1>1, <1>2, <1>3, SeqEqual

\* A new execution record is a new entry of the ledger.
LEMMA LedgerAppend ==
    ASSUME TypeOK, NEW r \in RunType, runs' = Append(runs, r)
    PROVE  Ledger' = Append(Ledger, Entry(r))
<1>1. runs \in Seq(RunType) /\ Len(runs) \in Nat
  BY DEF TypeOK, HostType
<1>2. DOMAIN runs = 1..Len(runs) /\ DOMAIN runs' = 1..(Len(runs) + 1)
  BY <1>1
<1>3. \A i \in DOMAIN runs' : runs'[i] = IF i = Len(runs) + 1 THEN r ELSE runs[i]
  BY <1>1
<1>4. Ledger \in Seq({Entry(x) : x \in RunType}) /\ Len(Ledger) = Len(runs)
  BY <1>1, <1>2 DEF Ledger
<1>5. Ledger' = [i \in 1..(Len(runs) + 1) |-> IF i = Len(runs) + 1 THEN Entry(r) ELSE Ledger[i]]
  BY <1>1, <1>2, <1>3 DEF Ledger
<1>6. Append(Ledger, Entry(r))
        = [i \in 1..(Len(Ledger) + 1) |-> IF i = Len(Ledger) + 1 THEN Entry(r) ELSE Ledger[i]]
  <2>1. Entry(r) \in {Entry(x) : x \in RunType}
    OBVIOUS
  <2> HIDE DEF Entry, Ledger
  <2> QED
    BY <1>4, <2>1, AppendAsFunction
<1> QED
  BY <1>4, <1>5, <1>6

\* A record that changes without changing its fate leaves the ledger alone.
LEMMA LedgerSame ==
    ASSUME TypeOK, NEW n \in DOMAIN runs, NEW r \in RunType, runs' = [runs EXCEPT ![n] = r],
           Entry(r) = Entry(runs[n])
    PROVE  Ledger' = Ledger
<1>1. runs \in Seq(RunType)
  BY DEF TypeOK, HostType
<1>2. DOMAIN runs' = DOMAIN runs /\ \A i \in DOMAIN runs : runs'[i] = IF i = n THEN r ELSE runs[i]
  BY <1>1
<1> QED
  BY <1>2 DEF Ledger

\* Every step of the session is a step of the gate or leaves the gate's variables alone: the
\* modal, the plan and the engine's second check together are the gate.
LEMMA StepGate ==
    ASSUME IInv, IInv', Next
    PROVE  Gate!GateNext \/ UNCHANGED <<mode, Offer, modal.input, Ledger>>
<1>0. TypeOK /\ Flow /\ TypeOK'
  BY DEF IInv
<1>1. modal'.input \in Text
  BY <1>0 DEF TypeOK, UIType
<1>2. CASE UNCHANGED <<mode, planReq, pending, modal, runs>>
  BY <1>2 DEF Offer, Ledger
<1>3. ASSUME UNCHANGED <<mode, runs>>, Offer' = None \/ Offer' = Offer PROVE Gate!GateNext
  <2>1. Ledger' = Ledger
    BY <1>3 DEF Ledger
  <2>2. CASE Offer' = None
    <3>1. Gate!Withdraw
      BY <1>1, <1>3, <2>1, <2>2, SameEngine DEF Gate!Withdraw, Offer, Ledger, Entry
    <3> QED
      BY <3>1 DEF Gate!GateNext
  <2>3. CASE Offer' = Offer
    <3>1. Gate!Type
      BY <1>1, <1>3, <2>1, <2>3, SameEngine DEF Gate!Type, Offer, Ledger, Entry
    <3> QED
      BY <3>1 DEF Gate!GateNext
  <2> QED
    BY <1>3, <2>2, <2>3
<1>4. CASE HandleKey
  <2>1. UNCHANGED <<mode, runs>>
    BY <1>4
       DEF HandleKey, KeyIgnored, KeyQuit, ModalClose, ModalEnter, ModalType, FormClose, FormSubmit,
           KeyAction, KeyCron, KeyPrune, KeyAddForm, KeyEditForm, KeyTab, KeyMove, KeySort, KeyTree,
           KeyFilter, KeyRefresh, KeyLogs, KeyProbe, Ask, Reject, OpenForm, KeepTasks, hostVars
  <2>2. planReq' \/ pending' = None \/ UNCHANGED <<planReq, pending>>
    BY <1>4
       DEF HandleKey, KeyIgnored, KeyQuit, ModalClose, ModalEnter, ModalType, FormClose, FormSubmit,
           KeyAction, KeyCron, KeyPrune, KeyAddForm, KeyEditForm, KeyTab, KeyMove, KeySort, KeyTree,
           KeyFilter, KeyRefresh, KeyLogs, KeyProbe, Ask, Reject, OpenForm, uiVars
  <2>3. Offer' = None \/ Offer' = Offer
    BY <2>2 DEF Offer
  <2> QED
    BY <1>3, <2>1, <2>3
<1>5. CASE PlanAction
  <2>1. planReq /\ planReq' = FALSE /\ UNCHANGED <<mode, runs>>
    BY <1>5 DEF PlanAction, KeepScreen, hostVars
  <2>2. CASE Plan(mode, pending) = "Result"
    <3>1. pending' = None
      BY <1>5, <2>2 DEF PlanAction
    <3>2. Offer' = None
      BY <2>1, <3>1 DEF Offer
    <3> QED
      BY <1>3, <2>1, <3>2
  <2>3. CASE Plan(mode, pending) # "Result"
    <3>1. pending' = pending /\ pending \in Action
      BY <1>0, <1>5, <2>3 DEF PlanAction, Flow, TypeOK, UIType
    <3>2. ~Guardrail(pending) /\ Allows(mode, Risk(pending))
      BY <2>3 DEF Plan
    <3>3. Offer = None /\ Offer' = pending /\ Ledger' = Ledger
      BY <2>1, <3>1 DEF Offer, Ledger
    <3>4. Gate!Offer(pending)
      BY <1>1, <2>1, <3>2, <3>3, SameEngine DEF Gate!Offer, Offer, Ledger, Entry
    <3> QED
      BY <3>1, <3>4, SameEngine DEF Gate!GateNext
  <2> QED
    BY <2>2, <2>3
<1>6. ASSUME NEW r \in RunType, runs' = Append(runs, r), r.action = pending, r.effect = 0,
             Fate(r) = IF Confirmed THEN "sent" ELSE "refused",
             pending \in Action, pending' = None, ~planReq, UNCHANGED <<mode, planReq>>
      PROVE  Gate!GateNext
  <2>1. Ledger' = Append(Ledger, [action |-> Offer,
                                  fate |-> IF MayExecute(mode, Offer, modal.input)
                                           THEN "sent" ELSE "refused"])
    BY <1>0, <1>6, LedgerAppend DEF Entry, Offer, Confirmed
  <2>2. Offer # None /\ Offer' = None
    BY <1>6, NoneIsNoRecord DEF Offer
  <2>3. Gate!Attempt
    BY <1>1, <1>6, <2>1, <2>2, SameEngine DEF Gate!Attempt, Offer, Ledger, Entry
  <2> QED
    BY <2>3 DEF Gate!GateNext
<1>7. CASE Execute
  <2>1. /\ pending \in Action /\ pending' = None /\ ~planReq
        /\ UNCHANGED <<mode, planReq>> /\ Confirmed
    BY <1>0, <1>7 DEF Execute, KeepScreen, Flow, TypeOK, UIType, LoopType
  <2>2. Attempt("sent", None) \in RunType
    BY <2>1 DEF Attempt, RunType
  <2>3. runs' = Append(runs, Attempt("sent", None))
    BY <1>7 DEF Execute
  <2>4. Fate(Attempt("sent", None)) = "sent"
    BY DEF Fate, Attempt
  <2> QED
    BY <1>6, <2>1, <2>2, <2>3, <2>4 DEF Attempt
<1>8. CASE ExecuteRefused
  <2>1. /\ pending \in Action /\ pending' = None /\ ~planReq
        /\ UNCHANGED <<mode, planReq>> /\ ~Confirmed
    BY <1>0, <1>8 DEF ExecuteRefused, ShowResult, KeepScreen, Flow, TypeOK, UIType, LoopType
  <2>2. Attempt("refused", AuditStatus("error")) \in RunType
    BY <2>1 DEF Attempt, RunType, AuditStatus
  <2>3. runs' = Append(runs, Attempt("refused", AuditStatus("error")))
    BY <1>8 DEF ExecuteRefused
  <2>4. Fate(Attempt("refused", AuditStatus("error"))) = "refused"
    BY DEF Fate, Attempt
  <2> QED
    BY <1>6, <2>1, <2>2, <2>3, <2>4 DEF Attempt
<1>9. ASSUME NEW outcome \in Outcomes, CommandReturns(outcome)
      PROVE  UNCHANGED <<mode, Offer, modal.input, Ledger>>
  <2> DEFINE n == Len(runs)
             r == [runs[n] EXCEPT !.state  = IF outcome = "error" THEN "lost" ELSE "done",
                                  !.status = AuditStatus(outcome)]
  <2>1. n \in DOMAIN runs /\ runs[n] \in RunType
    BY <1>0, <1>9 DEF CommandReturns, Flow, TypeOK, HostType
  <2>2. AuditStatus(outcome) \in {None, "Success", "Failure", "Rejected"}
    BY DEF Outcomes, AuditStatus
  <2>3. r \in RunType
    BY <2>1, <2>2 DEF RunType
  <2>4. runs' = [runs EXCEPT ![n] = r]
    BY <1>9, <2>1 DEF CommandReturns
  <2>5. Ledger' = Ledger
    <3>1. runs[n].state = "sent"
      BY <1>0, <1>9 DEF CommandReturns, Flow
    <3> QED
      BY <1>0, <2>1, <2>3, <2>4, <3>1, LedgerSame DEF Entry, Fate, RunType
  <2> QED
    BY <1>9, <2>5 DEF CommandReturns, ShowResult, KeepScreen, Offer
<1>10. ASSUME NEW i \in DOMAIN runs, CommandTakesEffect(i) PROVE Gate!GateNext
  <2>1. runs \in Seq(RunType) /\ runs[i] \in RunType /\ host \in Nat
    BY <1>0 DEF TypeOK, HostType
  <2>2. Fate(runs[i]) = "sent" /\ Fate([runs[i] EXCEPT !.effect = host + 1]) = "applied"
    BY <1>10, <2>1 DEF CommandTakesEffect, Fate, RunType
  <2>3. Ledger' = [Ledger EXCEPT ![i].fate = "applied"]
    BY <1>10, <2>1, <2>2 DEF CommandTakesEffect, Ledger, Entry, RunType
  <2>4. Gate!TakeEffect(i)
    BY <1>10, <2>1, <2>2, <2>3
       DEF Gate!TakeEffect, CommandTakesEffect, KeepUI, uiVars, Offer, Ledger, Entry
  <2> QED
    BY <2>4 DEF Gate!GateNext
<1> QED
  BY <1>2, <1>4, <1>5, <1>7, <1>8, <1>9, <1>10
     DEF Next, LoopStep, Act, ApplyResult, ApplyError, ApplyProbe, Draw, NothingToAct, KeepScreen,
         RefreshStep, ReloadLogs, NothingToSpawn, ProbeStep, GatherStep, GatherReads,
         GatherFinishes,
         ProbeFinishes, TimerElapses, ExternalChange, Exited, KeepUI, uiVars, hostVars, vars

-------------------------------------------------------------------------------

\* The session implements the gate: whatever the interleaving of keys, gathers and late
\* commands, the host is changed only as ActionGate allows.
THEOREM GateImplemented == Spec => GateSpec
<1>1. Init => Gate!GateInit
  BY SameEngine, InitType DEF Init, Gate!GateInit, NoModal, TypeOK, LoopType
<1>2. IInv /\ IInv' /\ [Next]_vars => [Gate!GateNext]_(Gate!gateVars)
  <2> SUFFICES ASSUME IInv, IInv', [Next]_vars
               PROVE  Gate!GateNext \/ UNCHANGED Gate!gateVars
    OBVIOUS
  <2>1. CASE Next
    BY <2>1, StepGate DEF Gate!gateVars, Offer, Ledger, Entry
  <2>2. CASE UNCHANGED vars
    BY <2>2 DEF Gate!gateVars, vars, uiVars, hostVars
  <2> QED
    BY <2>1, <2>2
<1> QED
  BY <1>1, <1>2, Invariant, PTL DEF Spec, GateSpec, Gate!GateSpec

-------------------------------------------------------------------------------
(* What follows for the record of the attempts. *)

\* The engine would plan the action in this mode.
Permits(m, a) == ~Guardrail(a) /\ Allows(m, Risk(a))

\* Every attempt, also one that was refused for its phrase, is of an action the mode allows
\* and the guardrail does not stop.
AttemptsPermitted == \A i \in DOMAIN runs : Permits(mode, runs[i].action)

\* A session in read-only mode attempts nothing: no action of the catalogue is without risk.
ReadOnlyNeverActs == mode = "ReadOnly" => runs = <<>>

\* The attempts are those of the offers, which passed the plan.
Kept ==
    /\ ~planReq /\ pending # None => Permits(mode, pending)
    /\ AttemptsPermitted

\* A new attempt is a permitted one too.
LEMMA AttemptKept ==
    ASSUME TypeOK, Kept, mode' = mode, NEW r \in RunType, runs' = Append(runs, r),
           Permits(mode, r.action)
    PROVE  AttemptsPermitted'
<1>1. runs \in Seq(RunType)
  BY DEF TypeOK, HostType
<1>2. \A i \in DOMAIN runs' : \/ i \in DOMAIN runs /\ runs'[i] = runs[i]
                              \/ runs'[i] = r
  BY <1>1
<1>3. \A i \in DOMAIN runs' : Permits(mode', runs'[i].action)
  BY <1>2 DEF Kept, AttemptsPermitted
<1> QED
  BY <1>3 DEF AttemptsPermitted

\* So does the end of a command, or its effect.
LEMMA ChangeKept ==
    ASSUME TypeOK, Kept, mode' = mode, NEW n \in DOMAIN runs, NEW r \in RunType,
           runs' = [runs EXCEPT ![n] = r], r.action = runs[n].action
    PROVE  AttemptsPermitted'
<1>1. runs \in Seq(RunType)
  BY DEF TypeOK, HostType
<1>2. /\ DOMAIN runs' = DOMAIN runs
      /\ \A i \in DOMAIN runs : runs'[i] = IF i = n THEN r ELSE runs[i]
  BY <1>1
<1>3. \A i \in DOMAIN runs' : Permits(mode', runs'[i].action)
  BY <1>2 DEF Kept, AttemptsPermitted
<1> QED
  BY <1>3 DEF AttemptsPermitted

\* Every step of the session keeps it.
LEMMA StepKept ==
    ASSUME IInv, Kept, Next
    PROVE  Kept'
<1>0. TypeOK /\ Flow
  BY DEF IInv
<1>1. ASSUME UNCHANGED <<mode, runs>>, \/ planReq' \/ pending' = None
                                       \/ UNCHANGED <<planReq, pending>>
      PROVE  Kept'
  BY <1>1 DEF Kept, AttemptsPermitted, Permits
<1>2. CASE HandleKey
  <2>1. UNCHANGED <<mode, runs>>
    BY <1>2
       DEF HandleKey, KeyIgnored, KeyQuit, ModalClose, ModalEnter, ModalType, FormClose, FormSubmit,
           KeyAction, KeyCron, KeyPrune, KeyAddForm, KeyEditForm, KeyTab, KeyMove, KeySort, KeyTree,
           KeyFilter, KeyRefresh, KeyLogs, KeyProbe, Ask, Reject, OpenForm, KeepTasks, hostVars
  <2>2. planReq' \/ pending' = None \/ UNCHANGED <<planReq, pending>>
    BY <1>2
       DEF HandleKey, KeyIgnored, KeyQuit, ModalClose, ModalEnter, ModalType, FormClose, FormSubmit,
           KeyAction, KeyCron, KeyPrune, KeyAddForm, KeyEditForm, KeyTab, KeyMove, KeySort, KeyTree,
           KeyFilter, KeyRefresh, KeyLogs, KeyProbe, Ask, Reject, OpenForm, uiVars
  <2> QED
    BY <1>1, <2>1, <2>2
<1>3. CASE PlanAction
  <2>1. UNCHANGED <<mode, runs>>
    BY <1>3 DEF PlanAction, KeepScreen, hostVars
  <2>2. CASE Plan(mode, pending) = "Result"
    BY <1>1, <1>3, <2>1, <2>2 DEF PlanAction
  <2>3. CASE Plan(mode, pending) # "Result"
    <3>1. pending' = pending /\ Permits(mode, pending)
      BY <1>3, <2>3 DEF PlanAction, Plan, Permits
    <3> QED
      BY <2>1, <3>1 DEF Kept, AttemptsPermitted, Permits
  <2> QED
    BY <2>2, <2>3
<1>4. CASE Execute \/ ExecuteRefused
  <2>1. pending \in Action /\ pending' = None /\ ~planReq /\ mode' = mode
    BY <1>0, <1>4 DEF Execute, ExecuteRefused, ShowResult, KeepScreen, Flow, TypeOK, UIType, LoopType
  <2>2. Permits(mode, pending)
    BY <2>1, NoneIsNoRecord DEF Kept
  <2>3. PICK r \in {Attempt("sent", None), Attempt("refused", AuditStatus("error"))} : runs' = Append(runs, r)
    BY <1>4 DEF Execute, ExecuteRefused
  <2>4. r \in RunType /\ r.action = pending
    BY <2>1, <2>3 DEF Attempt, RunType, AuditStatus
  <2>5. AttemptsPermitted'
    BY <1>0, <2>1, <2>2, <2>3, <2>4, AttemptKept
  <2> QED
    BY <2>1, <2>5 DEF Kept
<1>5. ASSUME NEW outcome \in Outcomes, CommandReturns(outcome) PROVE Kept'
  <2> DEFINE n == Len(runs)
             r == [runs[n] EXCEPT !.state  = IF outcome = "error" THEN "lost" ELSE "done",
                                  !.status = AuditStatus(outcome)]
  <2>1. n \in DOMAIN runs /\ runs[n] \in RunType
    BY <1>0, <1>5 DEF CommandReturns, Flow, TypeOK, HostType
  <2>2. AuditStatus(outcome) \in {None, "Success", "Failure", "Rejected"}
    BY DEF Outcomes, AuditStatus
  <2>3. r \in RunType /\ r.action = runs[n].action
    BY <2>1, <2>2 DEF RunType
  <2>4. runs' = [runs EXCEPT ![n] = r] /\ mode' = mode /\ UNCHANGED <<planReq, pending>>
    BY <1>5, <2>1 DEF CommandReturns, ShowResult, KeepScreen
  <2> HIDE DEF n, r
  <2>5. AttemptsPermitted'
    BY <1>0, <2>1, <2>3, <2>4, ChangeKept
  <2> QED
    BY <2>4, <2>5 DEF Kept, Permits
<1>6. ASSUME NEW i \in DOMAIN runs, CommandTakesEffect(i) PROVE Kept'
  <2> DEFINE r == [runs[i] EXCEPT !.effect = host + 1]
  <2>1. runs[i] \in RunType /\ host \in Nat
    BY <1>0 DEF TypeOK, HostType
  <2>2. r \in RunType /\ r.action = runs[i].action
    BY <2>1 DEF RunType
  <2>3. runs' = [runs EXCEPT ![i] = r] /\ UNCHANGED <<mode, planReq, pending>>
    BY <1>6 DEF CommandTakesEffect, KeepUI, uiVars
  <2> HIDE DEF r
  <2>4. AttemptsPermitted'
    BY <1>0, <2>2, <2>3, ChangeKept
  <2> QED
    BY <2>3, <2>4 DEF Kept, Permits
<1> QED
  BY <1>1, <1>2, <1>3, <1>4, <1>5, <1>6
     DEF Next, LoopStep, Act, ApplyResult, ApplyError, ApplyProbe, Draw, NothingToAct, KeepScreen,
         RefreshStep, ReloadLogs, NothingToSpawn, ProbeStep, GatherStep, GatherReads,
         GatherFinishes,
         ProbeFinishes, TimerElapses, ExternalChange, Exited, KeepUI, uiVars, hostVars, vars

\* It holds in every reachable state.
LEMMA KeptHolds == Spec => []Kept
<1>1. Init => Kept
  BY DEF Init, Kept, AttemptsPermitted
<1>2. IInv /\ Kept /\ [Next]_vars => Kept'
  <2> SUFFICES ASSUME IInv, Kept, [Next]_vars PROVE Kept'
    OBVIOUS
  <2>1. CASE UNCHANGED vars
    BY <2>1 DEF vars, uiVars, hostVars, Kept, AttemptsPermitted, Permits
  <2> QED
    BY <2>1, StepKept
<1> QED
  BY <1>1, <1>2, Invariant, PTL DEF Spec

\* plan and execute both check, and the mode of a session is fixed when it starts: nothing is
\* attempted, from whatever list, form or key, that the mode or the guardrail forbids.
THEOREM OnlyPermittedActions == Spec => []AttemptsPermitted
<1>1. Kept => AttemptsPermitted
  BY DEF Kept
<1> QED
  BY <1>1, KeptHolds, PTL

\* A session in read-only mode, the default, never sends a command of an action.
THEOREM ReadOnlyChangesNothing == Spec => []ReadOnlyNeverActs
<1>1. TypeOK /\ Kept => ReadOnlyNeverActs
  <2> SUFFICES ASSUME TypeOK, Kept, mode = "ReadOnly", runs # <<>> PROVE FALSE
    BY DEF ReadOnlyNeverActs
  <2>1. runs \in Seq(RunType)
    BY DEF TypeOK, HostType
  <2>2. 1 \in DOMAIN runs /\ runs[1] \in RunType
    BY <2>1
  <2>3. \A a : Risk(a) # RiskNone
    BY DEF Risk, RiskNone, ServiceRisk, SignalRisk, DockerRisk, CronRisk, RiskLow, RiskMedium, RiskHigh
  <2> QED
    BY <2>2, <2>3 DEF Kept, AttemptsPermitted, Permits, Allows
<1>2. IInv => TypeOK
  BY DEF IInv
<1> QED
  BY <1>1, <1>2, Invariant, KeptHolds, PTL

===============================================================================
