-------------------------------- MODULE CronEdit --------------------------------
(***************************************************************************)
(* The user-crontab actions of crates/systui-actions/src/cron.rs: every    *)
(* edit reads the crontab, computes the new text, copies the old one to a  *)
(* backup file and installs the new one, in separate commands over a       *)
(* transport that may fail at any of them.  Several sessions of SysTUI may *)
(* edit the crontab of one user, which people also edit by hand.           *)
(*                                                                         *)
(* A crontab is a sequence of lines; a line is a job, commented out so     *)
(* many times (marks), or something else: prose, a blank, an assignment.   *)
(* A job stands for a schedule with a command, which is how an action      *)
(* names its entry.                                                        *)
(***************************************************************************)
EXTENDS Naturals, FiniteSets, Sequences, SequencesExt

CONSTANTS Jobs,         \* jobs: a schedule and a command
          None,         \* no job
          Sessions,     \* SysTUI processes connected as the user
          Crontabs,     \* crontabs a person may have installed
          Torn,         \* a backup file that tee did not finish writing
          MaxActions,   \* bound: actions executed
          MaxByHand     \* bound: times a person installs a crontab

ASSUME NoneIsNoJob       == None \notin Jobs
ASSUME CrontabsAreTexts  == Crontabs \subseteq Seq([marks: Nat, job: Jobs \cup {None}])
ASSUME TornIsNoText      == Torn \notin Seq([marks: Nat, job: Jobs \cup {None}])
ASSUME BoundsAreNat      == MaxActions \in Nat /\ MaxByHand \in Nat

Line  == [marks: Nat, job: Jobs \cup {None}]
Text  == Seq(Line)
Write == [file: {"crontab", "backup"}, text: Text]
Kinds == {"Add", "Edit", "Delete", "Enable", "Disable", "RunNow"}
\* new is what an Edit writes.
Op    == {o \in [kind: Kinds, job: Jobs, new: Jobs] : o.kind = "Edit" \/ o.new = o.job}

VARIABLES
    crontab,    \* the crontab installed on the host
    backup,     \* /tmp/systui-crontab.bak
    lost,       \* writes the transport gave up on, which may still happen
    pc,         \* pc[s]: the command session s runs next, or idle
    op,         \* op[s]: the action session s executes or executed last
    seen,       \* seen[s]: the crontab text session s works from
    result,     \* result[s]: how the action ended: ok, failed or error
    alone,      \* history: s read the crontab well, and nobody else has
                \* written the crontab or the backup since
    executed,   \* how many actions were started
    byHand      \* how often a person installed a crontab

hostVars    == <<crontab, backup, lost>>
sessionVars == <<pc, op, seen, result>>
vars == <<hostVars, sessionVars, alone, executed, byHand>>

-------------------------------------------------------------------------------
(* The pure transforms. *)

\* Mutant: any line that is commented out passes for the job.
IsDisabledAnyJob(line, job) == line.marks \in {1, 2}

\* is_active_match and is_disabled_match: the first takes off no mark, the second one,
\* and the parser of job lines takes off one more where it finds one.
IsActive(line, job)   == line.marks = 0 /\ line.job = job
IsDisabled(line, job) == line.marks \in {1, 2} /\ line.job = job

\* The line an action changes, or 0: remove_job and replace_job take an active or a
\* disabled one, set_enabled one of the kind it turns.
IsTarget(o, line) ==
    \/ o.kind \in {"Edit", "Delete", "Disable"} /\ IsActive(line, o.job)
    \/ o.kind \in {"Edit", "Delete", "Enable"} /\ IsDisabled(line, o.job)

TargetLine(o, text) == SelectInSeq(text, LAMBDA line : IsTarget(o, line))

\* Mutant: enabling and disabling turn the mark over instead of adding or taking one.
MarkTurned(o, marks) == 1 - marks

Mark(o, marks) == IF o.kind = "Enable" THEN marks - 1 ELSE marks + 1

\* CronAction::apply: append_job, remove_job, replace_job or set_enabled.
NewText(o, text) ==
    LET i == TargetLine(o, text) IN
    CASE o.kind = "Add"    -> Append(text, [marks |-> 0, job |-> o.job])
      [] o.kind = "Delete" -> RemoveAt(text, i)
      [] o.kind = "Edit"   -> [text EXCEPT ![i] =
                                  [marks |-> IF @.marks = 0 THEN 0 ELSE 1, job |-> o.new]]
      [] OTHER             -> [text EXCEPT ![i].marks = Mark(o, @)]

\* apply fails when there is no such line.
Applies(o, text) == o.kind = "Add" \/ TargetLine(o, text) # 0

-------------------------------------------------------------------------------
(* CronAction::execute. *)

Init ==
    /\ crontab \in Crontabs /\ backup = <<>> /\ lost = {}
    /\ pc = [s \in Sessions |-> "idle"]
    /\ op \in {[s \in Sessions |-> [kind |-> "RunNow", job |-> j, new |-> j]] : j \in Jobs}
    /\ seen = [s \in Sessions |-> <<>>]
    /\ result = [s \in Sessions |-> "ok"]
    /\ alone = [s \in Sessions |-> FALSE]
    /\ executed = 0 /\ byHand = 0

Goto(s, place)  == pc' = [pc EXCEPT ![s] = place]
Finish(s, how)  == Goto(s, "idle") /\ result' = [result EXCEPT ![s] = how]
Disturb(others) == alone' = [s \in Sessions |-> alone[s] /\ s \notin others]

\* The engine calls execute for an action that was confirmed.  The job may be one the
\* crontab no longer holds: the list it was picked from is as old as the last gather.
Start(s, o) ==
    /\ pc[s] = "idle" /\ executed < MaxActions
    /\ op' = [op EXCEPT ![s] = o]
    /\ Goto(s, IF o.kind = "RunNow" THEN "run" ELSE "read")
    /\ executed' = executed + 1
    /\ UNCHANGED <<hostVars, seen, result, alone, byHand>>

\* RunNow hands the command to a shell and leaves the crontab alone.
RunNow(s) ==
    /\ pc[s] = "run"
    /\ \E how \in {"ok", "failed", "error"} : Finish(s, how)
    /\ UNCHANGED <<hostVars, op, seen, alone, executed, byHand>>

\* read_crontab and apply: a crontab that cannot be read reads as empty, and an empty
\* one is not backed up.
Read(s) ==
    /\ pc[s] = "read"
    /\ \E well \in BOOLEAN :
         LET text == IF well THEN crontab ELSE <<>> IN
         /\ seen' = [seen EXCEPT ![s] = text]
         /\ alone' = [alone EXCEPT ![s] = well]
         /\ IF Applies(op[s], text)
            THEN Goto(s, IF text = <<>> THEN "install" ELSE "backup") /\ UNCHANGED result
            ELSE Finish(s, "failed")
    /\ UNCHANGED <<hostVars, op, executed, byHand>>

\* Mutant: the edit goes on when the backup failed.
BackupOrNot(s) ==
    /\ pc[s] = "backup"
    /\ backup' \in {backup, Torn, seen[s]} /\ Goto(s, "install") /\ UNCHANGED <<lost, result>>
    /\ Disturb(Sessions \ {s})
    /\ UNCHANGED <<crontab, op, seen, executed, byHand>>

\* tee: it may fail before or after it has cut the file off; when its answer is lost, or
\* SysTUI is killed waiting for it, it may have written the file, or may do so later.
Backup(s) ==
    /\ pc[s] = "backup"
    /\ \/ backup' = seen[s] /\ Goto(s, "install") /\ UNCHANGED <<lost, result>>
       \/ backup' \in {backup, Torn} /\ Finish(s, "failed") /\ UNCHANGED lost
       \/ /\ backup' \in {backup, Torn} /\ Finish(s, "error")
          /\ lost' = lost \cup {[file |-> "backup", text |-> seen[s]]}
    /\ Disturb(Sessions \ {s})
    /\ UNCHANGED <<crontab, op, seen, executed, byHand>>

\* crontab -: it installs the whole text or fails; its answer may be lost in the same way.
Install(s) ==
    /\ pc[s] = "install"
    /\ LET text == NewText(op[s], seen[s]) IN
       \/ crontab' = text /\ Finish(s, "ok") /\ Disturb(Sessions \ {s}) /\ UNCHANGED lost
       \/ Finish(s, "failed") /\ UNCHANGED <<crontab, lost, alone>>
       \/ /\ lost' = lost \cup {[file |-> "crontab", text |-> text]} /\ Finish(s, "error")
          /\ UNCHANGED <<crontab, alone>>
    /\ UNCHANGED <<backup, op, seen, executed, byHand>>

LostWrite(w) ==
    /\ w \in lost
    /\ lost' = lost \ {w}
    /\ \/ w.file = "crontab" /\ crontab' = w.text /\ UNCHANGED backup
       \/ w.file = "backup" /\ backup' \in {w.text, Torn} /\ UNCHANGED crontab
    /\ Disturb(Sessions)
    /\ UNCHANGED <<sessionVars, executed, byHand>>

\* SysTUI is killed between two commands; it starts again knowing nothing.
Crash(s) ==
    /\ pc[s] # "idle"
    /\ Goto(s, "idle")
    /\ UNCHANGED <<hostVars, op, seen, result, alone, executed, byHand>>

\* crontab -e, by a person.
EditByHand ==
    /\ byHand < MaxByHand
    /\ crontab' \in Crontabs \ {crontab}
    /\ byHand' = byHand + 1
    /\ Disturb(Sessions)
    /\ UNCHANGED <<backup, lost, sessionVars, executed>>

Done == executed = MaxActions /\ (\A s \in Sessions : pc[s] = "idle") /\ UNCHANGED vars

SessionStep(s) == (\E o \in Op : Start(s, o)) \/ RunNow(s) \/ Read(s) \/ Backup(s) \/ Install(s)

Next ==
    \/ \E s \in Sessions : SessionStep(s) \/ Crash(s)
    \/ \E w \in lost : LostWrite(w)
    \/ EditByHand
    \/ Done

Spec == Init /\ [][Next]_vars

-------------------------------------------------------------------------------
(* What the actions promise. *)

\* Every variable keeps its type: above all, what is installed is always a crontab.
TypeOK ==
    /\ crontab \in Text /\ backup \in Text \cup {Torn} /\ lost \subseteq Write
    /\ pc \in [Sessions -> {"idle", "run", "read", "backup", "install"}]
    /\ op \in [Sessions -> Op] /\ seen \in [Sessions -> Text]
    /\ result \in [Sessions -> {"ok", "failed", "error"}]
    /\ alone \in [Sessions -> BOOLEAN]
    /\ executed \in Nat /\ byHand \in Nat

\* Before a session that read the crontab well, and was alone since, replaces it, the
\* backup file holds all of it, whatever failed or crashed before (execute).
PriorIsBackedUp ==
    \A s \in Sessions :
        (pc[s] = "install" /\ alone[s] /\ crontab # <<>>) => backup = crontab

Lines(text, Test(_)) == Cardinality({i \in DOMAIN text : Test(text[i])})
Active(text, job)    == Lines(text, LAMBDA l : IsActive(l, job))
With(text, job)      == Lines(text, LAMBDA l : l.job = job)

\* The lines an action has nothing to do with, in their order: how many such lines stand
\* above each.
OtherPlaces(text, o) == {i \in DOMAIN text : text[i].job \notin {o.job, o.new}}
Others(text, o) ==
    {<<Cardinality({k \in OtherPlaces(text, o) : k < i}), text[i]>> : i \in OtherPlaces(text, o)}

\* What an action may do to a crontab: one line of its job is added, taken away, given
\* to the new job or has its mark changed; every other line stays, in its order.
OneJobChanged(o, old, new) ==
    /\ Others(new, o) = Others(old, o)
    /\ CASE o.kind = "Add"     -> /\ Active(new, o.job) = Active(old, o.job) + 1
                                  /\ With(new, o.job) = With(old, o.job) + 1
         [] o.kind = "Delete"  -> With(new, o.job) + 1 = With(old, o.job)
         [] o.kind = "Enable"  -> With(new, o.job) = With(old, o.job)
         [] o.kind = "Disable" -> /\ Active(new, o.job) + 1 = Active(old, o.job)
                                  /\ With(new, o.job) = With(old, o.job)
         [] o.kind = "Edit"    ->
                /\ o.new # o.job => /\ With(new, o.job) + 1 = With(old, o.job)
                                    /\ With(new, o.new) = With(old, o.new) + 1
                                    /\ Active(new, o.job) + Active(new, o.new)
                                         = Active(old, o.job) + Active(old, o.new)
                /\ o.new = o.job => Active(new, o.job) = Active(old, o.job)

Installs(s) == pc[s] = "install" /\ pc'[s] = "idle" /\ crontab' # crontab

\* An action that finds the crontab as it read it changes one line of its own job and
\* nothing else (apply, and the order of the commands in execute).
ChangesItsJob ==
    [][ \A s \in Sessions :
            (Installs(s) /\ alone[s]) => OneJobChanged(op[s], crontab, crontab') ]_vars

-------------------------------------------------------------------------------
(* What the documentation says and the code does not do. *)

\* "Always read current, modify the target line, write back, after backing up the prior
\* crontab" (docs/phases/phase-08-1): a crontab that an action replaces is in the backup
\* file.
NothingLostUnsaved ==
    [][ \A s \in Sessions : Installs(s) => crontab = <<>> \/ backup = crontab ]_vars

===============================================================================
