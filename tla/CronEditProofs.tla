---------------------------- MODULE CronEditProofs ----------------------------
(***************************************************************************)
(* The crontab an action replaces is backed up, and an action changes one  *)
(* line of its own job, proved for any number of sessions, actions and     *)
(* edits by hand.  The argument follows one session through its commands:  *)
(* while it is alone since a good read, the text it works from is the      *)
(* crontab (Current), and once past its backup command the backup file     *)
(* holds that text (Saved).  What is installed then is what apply makes of *)
(* the crontab, and the lines of the two are counted.                      *)
(*                                                                         *)
(* Last, Enable undoes Disable and Delete undoes Add.                      *)
(***************************************************************************)
EXTENDS CronEdit, TLAPS, WellFoundedInduction, SequenceTheorems, FiniteSetTheorems

(* The line an action changes. *)

\* A set of positions has a least one.
LEMMA LeastPosition ==
    ASSUME NEW S, S \subseteq Nat, S # {}
    PROVE  Min(S) \in S /\ \A i \in S : Min(S) <= i
<1>1. \E i \in S : \A k \in S : <<k, i>> \notin OpToRel(<, Nat)
  BY NatLessThanWellFounded, WFMin, Zenon
<1>2. \A i, k \in Nat : k < i => <<k, i>> \in OpToRel(<, Nat)
  BY Zenon DEF OpToRel
<1>3. \E i \in S : \A k \in S : ~ (k < i)
  BY <1>1, <1>2, Zenon
<1>4. \E i \in S : \A k \in S : i <= k
  BY <1>3
<1> QED
  BY <1>4 DEF Min

\* TargetLine is a position of the text, of a line with the action's job, with a mark to
\* take off when the action enables it.
LEMMA TargetIsLine ==
    ASSUME NEW text \in Text, NEW o \in Op, o.kind \notin {"Add", "RunNow"}, TargetLine(o, text) # 0
    PROVE  /\ TargetLine(o, text) \in 1..Len(text)
           /\ text[TargetLine(o, text)].job = o.job
           /\ o.kind = "Enable" => text[TargetLine(o, text)].marks >= 1
<1> DEFINE targets == {i \in 1..Len(text) : IsTarget(o, text[i])}
<1>1. targets \subseteq Nat
  BY DEF Text
<1>2. TargetLine(o, text) = IF targets # {} THEN Min(targets) ELSE 0
  BY DEF TargetLine, SelectInSeq
<1>3. TargetLine(o, text) \in targets
  BY <1>1, <1>2, LeastPosition
<1> QED
  BY <1>3 DEF IsTarget, IsActive, IsDisabled

\* What apply computes from a crontab is a crontab.
LEMMA NewTextType ==
    ASSUME NEW text \in Text, NEW o \in Op, o.kind # "RunNow", Applies(o, text)
    PROVE  NewText(o, text) \in Text
<1> DEFINE i == TargetLine(o, text)
<1>0. text \in Seq(Line) /\ o.job \in Jobs /\ o.new \in Jobs /\ o.kind \in Kinds
  BY DEF Text, Op
<1>1. CASE o.kind = "Add"
  BY <1>0, <1>1 DEF NewText, Text, Line
<1>2. CASE o.kind # "Add"
  <2>1. i \in 1..Len(text) /\ (o.kind = "Enable" => text[i].marks >= 1)
    BY <1>2, TargetIsLine DEF Applies
  <2>2. text[i] \in Line
    BY <1>0, <2>1
  <2>3. CASE o.kind = "Delete"
    <3>1. SubSeq(text, 1, i - 1) \in Seq(Line) /\ SubSeq(text, i + 1, Len(text)) \in Seq(Line)
      BY <1>0, <2>1
    <3>2. SubSeq(text, 1, i - 1) \o SubSeq(text, i + 1, Len(text)) \in Seq(Line)
      BY <3>1
    <3> QED
      BY <2>3, <3>2 DEF NewText, RemoveAt, Text
  <2>4. CASE o.kind = "Edit"
    <3>1. [marks |-> IF text[i].marks = 0 THEN 0 ELSE 1, job |-> o.new] \in Line
      BY <1>0 DEF Line
    <3> QED
      BY <1>0, <2>1, <2>4, <3>1 DEF NewText, Text
  <2>5. CASE o.kind \in {"Enable", "Disable"}
    <3>1. [text[i] EXCEPT !.marks = Mark(o, text[i].marks)] \in Line
      BY <2>1, <2>2 DEF Line, Mark
    <3> QED
      BY <1>0, <2>1, <2>5, <3>1 DEF NewText, Text
  <2> QED
    BY <1>0, <1>2, <2>3, <2>4, <2>5 DEF Kinds
<1> QED
  BY <1>1, <1>2

-------------------------------------------------------------------------------
(* The inductive invariant. *)

\* An action past its read has a line to change in the text it works from.
Ready ==
    \A s \in Sessions :
        /\ pc[s] \in {"read", "backup", "install"} => op[s].kind # "RunNow"
        /\ pc[s] \in {"backup", "install"} => Applies(op[s], seen[s])

\* The session works from the crontab that is installed.
Current ==
    \A s \in Sessions : pc[s] \in {"backup", "install"} /\ alone[s] => seen[s] = crontab

\* It has backed it up before it installs.
Saved ==
    \A s \in Sessions :
        pc[s] = "install" /\ alone[s] => seen[s] = <<>> \/ backup = seen[s]

IInv == TypeOK /\ Ready /\ Current /\ Saved

\* No action is under way at the start.
LEMMA InitInv == Init => IInv
<1> SUFFICES ASSUME Init PROVE IInv
  OBVIOUS
<1>1. <<>> \in Text
  BY DEF Text
<1>2. \A j \in Jobs : [kind |-> "RunNow", job |-> j, new |-> j] \in Op
  BY DEF Op, Kinds
<1>3. TypeOK
  BY <1>1, <1>2, CrontabsAreTexts DEF Init, TypeOK, Text, Line
<1> QED
  BY <1>3 DEF Init, IInv, Ready, Current, Saved

\* A session that starts an action has read nothing yet.
LEMMA StartInv == ASSUME IInv, NEW s \in Sessions, NEW o \in Op, Start(s, o) PROVE IInv'
<1>1. TypeOK'
  BY DEF IInv, TypeOK, Start, Goto, hostVars
<1>2. pc' = [pc EXCEPT ![s] = IF o.kind = "RunNow" THEN "run" ELSE "read"]
      /\ op' = [op EXCEPT ![s] = o] /\ UNCHANGED <<crontab, backup, seen, alone>>
  BY DEF Start, Goto, hostVars
<1>3. \A t \in Sessions : t # s => pc'[t] = pc[t] /\ op'[t] = op[t]
  BY <1>2 DEF IInv, TypeOK
<1>4. pc'[s] \in {"run", "read"} /\ (pc'[s] = "read" => op'[s].kind # "RunNow")
  BY <1>2 DEF IInv, TypeOK
<1>5. Ready' /\ Current' /\ Saved'
  BY <1>2, <1>3, <1>4 DEF IInv, Ready, Current, Saved
<1> QED
  BY <1>1, <1>5 DEF IInv

\* An action that ends, or a session that dies, leaves the others where they were.
LEMMA EndInv ==
    ASSUME IInv, NEW s \in Sessions, Goto(s, "idle"),
           result' \in [Sessions -> {"ok", "failed", "error"}],
           UNCHANGED <<hostVars, op, seen, alone, executed, byHand>>
    PROVE  IInv'
<1>1. pc' = [pc EXCEPT ![s] = "idle"] /\ UNCHANGED <<crontab, backup, lost>>
  BY DEF Goto, hostVars
<1>2. TypeOK'
  BY <1>1 DEF IInv, TypeOK
<1>3. \A t \in Sessions : pc'[t] = pc[t] \/ pc'[t] = "idle"
  BY <1>1 DEF IInv, TypeOK
<1> QED
  BY <1>1, <1>2, <1>3 DEF IInv, Ready, Current, Saved

\* What is read well is the crontab; what is not is not backed up, and is not alone.
LEMMA ReadInv == ASSUME IInv, NEW s \in Sessions, Read(s) PROVE IInv'
<1>1. PICK well \in BOOLEAN :
        LET text == IF well THEN crontab ELSE <<>> IN
        /\ seen' = [seen EXCEPT ![s] = text]
        /\ alone' = [alone EXCEPT ![s] = well]
        /\ IF Applies(op[s], text)
           THEN Goto(s, IF text = <<>> THEN "install" ELSE "backup") /\ UNCHANGED result
           ELSE Finish(s, "failed")
  BY DEF Read
<1> DEFINE text == IF well THEN crontab ELSE <<>>
<1>2. text \in Text
  BY DEF IInv, TypeOK, Text
<1>3. UNCHANGED <<crontab, backup, lost, op, executed, byHand>> /\ pc[s] = "read"
  BY DEF Read, hostVars
<1>4. result' \in [Sessions -> {"ok", "failed", "error"}]
  BY <1>1 DEF Finish, IInv, TypeOK
<1>5. \E place \in {"idle", "install", "backup"} :
        /\ pc' = [pc EXCEPT ![s] = place]
        /\ place = "install" => text = <<>>
        /\ place # "idle" => Applies(op[s], text)
  BY <1>1 DEF Finish, Goto
<1>6. PICK place \in {"idle", "install", "backup"} :
        /\ pc' = [pc EXCEPT ![s] = place]
        /\ place = "install" => text = <<>>
        /\ place # "idle" => Applies(op[s], text)
  BY <1>5
<1>7. TypeOK'
  BY <1>1, <1>2, <1>3, <1>4, <1>6 DEF IInv, TypeOK
<1>8. \A t \in Sessions : t # s => pc'[t] = pc[t] /\ seen'[t] = seen[t] /\ alone'[t] = alone[t]
  BY <1>1, <1>6 DEF IInv, TypeOK
<1>9. pc'[s] = place /\ seen'[s] = text /\ alone'[s] = well /\ op[s].kind # "RunNow"
  BY <1>1, <1>3, <1>6 DEF IInv, TypeOK, Ready
<1>10. Ready'
  BY <1>3, <1>6, <1>8, <1>9 DEF IInv, Ready
<1>11. Current' /\ Saved'
  BY <1>3, <1>6, <1>8, <1>9 DEF IInv, Current, Saved
<1> QED
  BY <1>7, <1>10, <1>11 DEF IInv

\* Writing the backup file tells every other session that it is no longer alone.
LEMMA BackupInv == ASSUME IInv, NEW s \in Sessions, Backup(s) PROVE IInv'
<1>1. /\ UNCHANGED <<crontab, op, seen, executed, byHand>> /\ pc[s] = "backup"
      /\ alone' = [t \in Sessions |-> alone[t] /\ t \notin Sessions \ {s}]
      /\ backup' \in {backup, Torn, seen[s]}
      /\ result' \in [Sessions -> {"ok", "failed", "error"}]
  BY DEF Backup, Disturb, Finish, IInv, TypeOK
<1>2. PICK place \in {"idle", "install"} :
        pc' = [pc EXCEPT ![s] = place] /\ (place = "install" => backup' = seen[s])
  BY DEF Backup, Finish, Goto
<1>3. seen[s] \in Text /\ backup' \in Text \cup {Torn} /\ lost' \subseteq Write
  <2>1. seen[s] \in Text /\ lost \subseteq Write
    BY DEF IInv, TypeOK
  <2>2. lost' \subseteq lost \cup {[file |-> "backup", text |-> seen[s]]}
    BY DEF Backup
  <2> QED
    BY <1>1, <2>1, <2>2 DEF IInv, TypeOK, Write
<1>4. TypeOK'
  BY <1>1, <1>2, <1>3 DEF IInv, TypeOK
<1>5. \A t \in Sessions : t # s => pc'[t] = pc[t] /\ alone'[t] = FALSE
  BY <1>1, <1>2 DEF IInv, TypeOK
<1>6. pc'[s] = place /\ (alone'[s] => alone[s])
  BY <1>1, <1>2 DEF IInv, TypeOK
<1>7. Ready'
  BY <1>1, <1>5, <1>6 DEF IInv, Ready
<1>8. Current' /\ Saved'
  BY <1>1, <1>2, <1>5, <1>6 DEF IInv, Current, Saved
<1> QED
  BY <1>4, <1>7, <1>8 DEF IInv

\* So does installing a crontab, or any write that was given up on.
LEMMA WrittenInv ==
    ASSUME IInv, crontab' \in Text, backup' \in Text \cup {Torn}, lost' \subseteq Write,
           NEW s, Disturb(Sessions \ {s}) \/ Disturb(Sessions),
           \A t \in Sessions : pc'[t] = pc[t] \/ pc'[t] = "idle",
           s \in Sessions => pc'[s] = "idle" \/ Disturb(Sessions),
           pc' \in [Sessions -> {"idle", "run", "read", "backup", "install"}],
           result' \in [Sessions -> {"ok", "failed", "error"}],
           UNCHANGED <<op, seen, executed>>, byHand' \in Nat
    PROVE  IInv'
<1>1. alone' \in [Sessions -> BOOLEAN]
  <2>1. \A others : Disturb(others) => alone' \in [Sessions -> BOOLEAN]
    BY DEF Disturb
  <2> QED
    BY <2>1
<1>2. TypeOK'
  BY <1>1 DEF IInv, TypeOK
<1>3. \A t \in Sessions : pc'[t] = "idle" \/ ~alone'[t]
  BY DEF Disturb
<1>4. Ready'
  BY DEF IInv, Ready
<1>5. Current' /\ Saved'
  BY <1>3 DEF Current, Saved
<1> QED
  BY <1>2, <1>4, <1>5 DEF IInv

\* An install ends the action of its session; one that is lost changes nothing yet.
LEMMA InstallInv == ASSUME IInv, NEW s \in Sessions, Install(s) PROVE IInv'
<1> DEFINE text == NewText(op[s], seen[s])
<1>1. text \in Text
  BY NewTextType DEF Install, IInv, TypeOK, Ready
<1>2. /\ UNCHANGED <<backup, op, seen, executed, byHand>>
      /\ Goto(s, "idle") /\ result' \in [Sessions -> {"ok", "failed", "error"}]
  BY DEF Install, Finish, IInv, TypeOK
<1>3. /\ pc' \in [Sessions -> {"idle", "run", "read", "backup", "install"}]
      /\ pc'[s] = "idle" /\ \A t \in Sessions : t # s => pc'[t] = pc[t]
  BY <1>2 DEF Goto, IInv, TypeOK
<1>4. CASE crontab' = text /\ Disturb(Sessions \ {s}) /\ UNCHANGED lost
  BY <1>1, <1>2, <1>3, <1>4, WrittenInv DEF IInv, TypeOK
<1>5. CASE lost' \subseteq lost \cup {[file |-> "crontab", text |-> text]}
           /\ UNCHANGED <<crontab, alone>>
  <2>1. TypeOK'
    BY <1>1, <1>2, <1>3, <1>5 DEF IInv, TypeOK, Write
  <2> QED
    BY <1>2, <1>3, <1>5, <2>1 DEF IInv, Ready, Current, Saved
<1> QED
  BY <1>4, <1>5 DEF Install

\* The invariant is inductive.
LEMMA StepInv == IInv /\ [Next]_vars => IInv'
<1> SUFFICES ASSUME IInv, [Next]_vars PROVE IInv'
  OBVIOUS
<1>1. result \in [Sessions -> {"ok", "failed", "error"}] /\ byHand \in Nat
  BY DEF IInv, TypeOK
<1>2. ASSUME NEW s \in Sessions, SessionStep(s) \/ Crash(s) PROVE IInv'
  <2>1. CASE RunNow(s)
    <3>1. result' \in [Sessions -> {"ok", "failed", "error"}] /\ Goto(s, "idle")
      BY <1>1, <2>1 DEF RunNow, Finish
    <3> QED
      BY <2>1, <3>1, EndInv DEF RunNow
  <2>2. CASE Crash(s)
    BY <1>1, <2>2, EndInv DEF Crash
  <2> QED
    BY <1>2, <2>1, <2>2, StartInv, ReadInv, BackupInv, InstallInv DEF SessionStep
<1>3. ASSUME NEW w \in lost, LostWrite(w) PROVE IInv'
  <2>1. crontab' \in Text /\ backup' \in Text \cup {Torn} /\ lost' \subseteq Write
    BY <1>3 DEF LostWrite, Write, IInv, TypeOK
  <2> QED
    BY <1>1, <1>3, <2>1, WrittenInv DEF LostWrite, sessionVars, IInv, TypeOK
<1>4. CASE EditByHand
  <2>1. crontab' \in Text /\ backup' \in Text \cup {Torn} /\ lost' \subseteq Write
    BY <1>4, CrontabsAreTexts DEF EditByHand, IInv, TypeOK, Text, Line
  <2> QED
    BY <1>1, <1>4, <2>1, WrittenInv DEF EditByHand, sessionVars, IInv, TypeOK
<1>5. CASE UNCHANGED vars
  BY <1>5
     DEF vars, hostVars, sessionVars, IInv, TypeOK, Ready, Current, Saved
<1> QED
  BY <1>2, <1>3, <1>4, <1>5 DEF Next, Done

-------------------------------------------------------------------------------

\* Whatever fails, crashes or is edited by others in between, the three facts hold.
THEOREM Invariant == Spec => []IInv
  BY InitInv, StepInv, PTL DEF Spec

\* What is installed is always a crontab, and an action past its read has its line.
THEOREM TypeCorrect == Spec => []TypeOK
  BY Invariant, PTL DEF IInv

\* A crontab that a session read well, and that nobody else wrote since, is in the backup
\* file before the session replaces it (CronAction::execute), for any number of sessions.
THEOREM PriorCorrect == Spec => []PriorIsBackedUp
<1>1. IInv => PriorIsBackedUp
  BY DEF IInv, Current, Saved, PriorIsBackedUp
<1> QED
  BY <1>1, Invariant, PTL

-------------------------------------------------------------------------------
(* Counting the lines of a crontab. *)

\* The places of a text, or some of them, are finitely many.
LEMMA PlacesAreFinite ==
    ASSUME NEW n \in Nat, NEW S \in SUBSET (1..n)
    PROVE  IsFiniteSet(S) /\ Cardinality(S) \in Nat
<1>1. IsFiniteSet(1..n)
  BY FS_Interval
<1>2. IsFiniteSet(S)
  BY <1>1, FS_Subset
<1> QED
  BY <1>2, FS_CardinalityType

\* One more.
LEMMA OneMore ==
    ASSUME NEW n \in Nat, NEW S \in SUBSET (1..n), NEW x, x \notin S
    PROVE  Cardinality(S \cup {x}) = Cardinality(S) + 1
  BY PlacesAreFinite, FS_AddElement

\* One less.
LEMMA OneLess ==
    ASSUME NEW n \in Nat, NEW S \in SUBSET (1..n), NEW x \in S
    PROVE  Cardinality(S \ {x}) + 1 = Cardinality(S)
<1>1. IsFiniteSet(S) /\ Cardinality(S) \in Nat
  BY PlacesAreFinite
<1>2. Cardinality(S \ {x}) = Cardinality(S) - 1
  BY <1>1, FS_RemoveElement
<1> QED
  BY <1>1, <1>2

\* Where a line stands before, and after, line j is taken away.
Before(j, k) == IF k < j THEN k ELSE k + 1
After(j, i)  == IF i < j THEN i ELSE i - 1

\* As many places remain of some that are not j.
LEMMA ShiftedPlaces ==
    ASSUME NEW n \in Nat, NEW j \in 1..n, NEW S \in SUBSET (1..n), j \notin S
    PROVE  Cardinality({k \in 1..(n - 1) : Before(j, k) \in S}) = Cardinality(S)
<1> DEFINE T == {k \in 1..(n - 1) : Before(j, k) \in S}
           f == [i \in S |-> After(j, i)]
<1>1. \A i \in S : After(j, i) \in T /\ Before(j, After(j, i)) = i
  BY DEF Before, After
<1>2. \A k \in T : Before(j, k) \in S /\ After(j, Before(j, k)) = k
  BY DEF Before, After
<1> HIDE DEF T
<1>3. f \in [S -> T]
  BY <1>1
<1>4. \A a, b \in S : f[a] = f[b] => a = b
  BY <1>1
<1>5. \A t \in T : \E i \in S : f[i] = t
  BY <1>2
<1>6. f \in Bijection(S, T)
  BY <1>3, <1>4, <1>5 DEF Bijection, Injection, Surjection, IsInjective
<1>7. ExistsBijection(S, T)
  BY <1>6 DEF ExistsBijection
<1> QED
  BY <1>7, PlacesAreFinite, FS_Bijection DEF T

\* The lines of a text with what one asks of them.
LEMMA LinesAre ==
    ASSUME NEW text \in Text, NEW o
    PROVE  /\ \A job : Active(text, job) = Cardinality({i \in 1..Len(text) : text[i].marks = 0 /\ text[i].job = job})
           /\ \A job : With(text, job) = Cardinality({i \in 1..Len(text) : text[i].job = job})
           /\ OtherPlaces(text, o) = {i \in 1..Len(text) : text[i].job \notin {o.job, o.new}}
<1>1. DOMAIN text = 1..Len(text)
  BY DEF Text
<1> QED
  BY <1>1 DEF Active, With, Lines, IsActive, OtherPlaces

-------------------------------------------------------------------------------
(* What apply does to a crontab, one kind of action at a time. *)

\* The line an action changes has its job; it is active where the action switches it off,
\* and at most twice commented out.
LEMMA TargetHas ==
    ASSUME NEW text \in Text, NEW o \in Op, o.kind \notin {"Add", "RunNow"}, Applies(o, text)
    PROVE  LET i == TargetLine(o, text)
           IN  /\ i \in 1..Len(text) /\ text[i] \in Line /\ text[i].job = o.job
               /\ o.kind = "Disable" => text[i].marks = 0
               /\ o.kind = "Enable" => text[i].marks \in {1, 2}
<1> DEFINE targets == {i \in 1..Len(text) : IsTarget(o, text[i])}
<1>1. targets \subseteq Nat
  BY DEF Text
<1>2. TargetLine(o, text) = (IF targets # {} THEN Min(targets) ELSE 0) /\ TargetLine(o, text) # 0
  BY DEF TargetLine, SelectInSeq, Applies
<1>3. TargetLine(o, text) \in targets
  BY <1>1, <1>2, LeastPosition
<1>4. text \in Seq(Line)
  BY DEF Text
<1> QED
  BY <1>3, <1>4 DEF IsTarget, IsActive, IsDisabled

\* append_job: one line more, active, below the others.
LEMMA AddChanges ==
    ASSUME NEW text \in Text, NEW o \in Op, o.kind = "Add"
    PROVE  OneJobChanged(o, text, NewText(o, text))
<1> DEFINE line == [marks |-> 0, job |-> o.job]
           new == Append(text, line)
           n == Len(text)
<1>1. NewText(o, text) = new
  BY DEF NewText
<1>2. /\ new \in Text /\ n \in Nat /\ Len(new) = n + 1 /\ new[n + 1] = line
      /\ \A i \in 1..n : new[i] = text[i]
  <2>1. text \in Seq(Line) /\ line \in Line
    BY DEF Text, Line, Op
  <2> QED
    BY <2>1 DEF Text
<1> HIDE DEF new, n
<1>3. 1..(n + 1) = 1..n \cup {n + 1}
  BY <1>2
<1>4. OtherPlaces(new, o) = OtherPlaces(text, o) /\ OtherPlaces(text, o) \subseteq 1..n
  <2>1. /\ OtherPlaces(new, o) = {i \in 1..(n + 1) : new[i].job \notin {o.job, o.new}}
        /\ OtherPlaces(text, o) = {i \in 1..n : text[i].job \notin {o.job, o.new}}
    BY <1>2, LinesAre DEF n
  <2> QED
    BY <1>2, <1>3, <2>1
<1>5. Others(new, o) = Others(text, o)
  BY <1>2, <1>4 DEF Others
<1>6. Active(new, o.job) = Active(text, o.job) + 1
  <2> DEFINE S == {i \in 1..n : text[i].marks = 0 /\ text[i].job = o.job}
  <2>1. {i \in 1..(n + 1) : new[i].marks = 0 /\ new[i].job = o.job} = S \cup {n + 1}
    BY <1>2, <1>3
  <2>2. S \in SUBSET (1..n) /\ n + 1 \notin S
    BY <1>2
  <2>3. Cardinality(S \cup {n + 1}) = Cardinality(S) + 1
    <3> HIDE DEF S
    <3> QED
      BY <1>2, <2>2, OneMore
  <2> QED
    BY <1>2, <2>1, <2>3, LinesAre DEF n
<1>7. With(new, o.job) = With(text, o.job) + 1
  <2> DEFINE S == {i \in 1..n : text[i].job = o.job}
  <2>1. {i \in 1..(n + 1) : new[i].job = o.job} = S \cup {n + 1}
    BY <1>2, <1>3
  <2>2. S \in SUBSET (1..n) /\ n + 1 \notin S
    BY <1>2
  <2>3. Cardinality(S \cup {n + 1}) = Cardinality(S) + 1
    <3> HIDE DEF S
    <3> QED
      BY <1>2, <2>2, OneMore
  <2> QED
    BY <1>2, <2>1, <2>3, LinesAre DEF n
<1> QED
  BY <1>1, <1>5, <1>6, <1>7 DEF OneJobChanged

\* remove_job: one line of the job less, the others move up.
LEMMA DeleteChanges ==
    ASSUME NEW text \in Text, NEW o \in Op, o.kind = "Delete", Applies(o, text)
    PROVE  OneJobChanged(o, text, NewText(o, text))
<1> DEFINE j == TargetLine(o, text)
           new == RemoveAt(text, j)
           n == Len(text)
<1>1. NewText(o, text) = new
  BY DEF NewText
<1>2. j \in 1..n /\ text[j].job = o.job
  BY TargetHas
<1>3. /\ new \in Text /\ n \in Nat /\ Len(new) = n - 1
      /\ \A k \in 1..(n - 1) : new[k] = text[Before(j, k)]
  <2>1. text \in Seq(Line) /\ n \in Nat
    BY DEF Text
  <2> DEFINE above == SubSeq(text, 1, j - 1)
             below == SubSeq(text, j + 1, n)
  <2> HIDE DEF j
  <2>2. /\ above \in Seq(Line) /\ Len(above) = j - 1 /\ \A k \in 1..(j - 1) : above[k] = text[k]
        /\ below \in Seq(Line) /\ Len(below) = n - j /\ \A k \in 1..(n - j) : below[k] = text[j + k]
    BY <1>2, <2>1
  <2>3. new = above \o below
    BY DEF RemoveAt
  <2> HIDE DEF above, below, new
  <2>4. new \in Seq(Line) /\ Len(new) = n - 1
    BY <1>2, <2>1, <2>2, <2>3
  <2>5. ASSUME NEW k \in 1..(n - 1) PROVE new[k] = text[Before(j, k)]
    <3>1. CASE k < j
      BY <1>2, <2>1, <2>2, <2>3, <3>1 DEF Before
    <3>2. CASE ~(k < j)
      <4>1. new[k] = below[k - (j - 1)]
        BY <1>2, <2>1, <2>2, <2>3, <3>2
      <4>2. below[k - (j - 1)] = text[j + (k - (j - 1))]
        BY <1>2, <2>1, <2>2, <3>2
      <4>3. j + (k - (j - 1)) = k + 1
        BY <1>2, <2>1
      <4> QED
        BY <3>2, <4>1, <4>2, <4>3 DEF Before
    <3> QED
      BY <3>1, <3>2
  <2> QED
    BY <2>1, <2>4, <2>5 DEF Text
<1> HIDE DEF j, new, n
<1>4. /\ \A k \in 1..(n - 1) : Before(j, k) \in 1..n /\ Before(j, k) # j /\ After(j, Before(j, k)) = k
      /\ \A i \in 1..n : i # j => After(j, i) \in 1..(n - 1) /\ Before(j, After(j, i)) = i
      /\ \A k, q \in 1..(n - 1) : q < k <=> Before(j, q) < Before(j, k)
  BY <1>2, <1>3 DEF Before, After
<1>5. With(new, o.job) + 1 = With(text, o.job)
  <2> DEFINE S == {i \in 1..n : text[i].job = o.job}
             T == {k \in 1..(n - 1) : new[k].job = o.job}
  <2>1. With(new, o.job) = Cardinality(T) /\ With(text, o.job) = Cardinality(S)
    BY <1>3, LinesAre DEF n
  <2>2. T = {k \in 1..(n - 1) : Before(j, k) \in S \ {j}}
    BY <1>3, <1>4
  <2>3. j \in S
    BY <1>2
  <2> HIDE DEF S, T
  <2>4. S \in SUBSET (1..n)
    BY DEF S
  <2>5. Cardinality(T) = Cardinality(S \ {j})
    BY <1>2, <1>3, <2>2, <2>4, ShiftedPlaces
  <2> QED
    BY <1>3, <2>1, <2>3, <2>4, <2>5, OneLess
<1>6. Others(new, o) = Others(text, o)
  <2> DEFINE P == OtherPlaces(text, o)
             Q == OtherPlaces(new, o)
             Above(places, i) == Cardinality({k \in places : k < i})
  <2>1. P \subseteq 1..n /\ j \notin P /\ Q = {k \in 1..(n - 1) : Before(j, k) \in P}
    <3>1. /\ P = {i \in 1..n : text[i].job \notin {o.job, o.new}}
          /\ Q = {k \in 1..(n - 1) : new[k].job \notin {o.job, o.new}}
      BY <1>3, LinesAre DEF n
    <3> QED
      BY <1>2, <1>3, <1>4, <3>1
  <2> HIDE DEF P, Q
  <2>2. ASSUME NEW k \in Q PROVE Above(Q, k) = Above(P, Before(j, k))
    <3> DEFINE S == {p \in P : p < Before(j, k)}
    <3>1. {q \in Q : q < k} = {q \in 1..(n - 1) : Before(j, q) \in S}
      BY <1>4, <2>1
    <3>2. S \in SUBSET (1..n) /\ j \notin S
      BY <2>1
    <3> HIDE DEF S
    <3>3. Cardinality({q \in 1..(n - 1) : Before(j, q) \in S}) = Cardinality(S)
      BY <1>2, <1>3, <3>2, ShiftedPlaces
    <3> QED
      BY <3>1, <3>3 DEF S
  <2>3. \A k \in Q : Before(j, k) \in P /\ new[k] = text[Before(j, k)]
    BY <1>3, <2>1
  <2>4. \A i \in P : After(j, i) \in Q /\ Before(j, After(j, i)) = i
    BY <1>4, <2>1
  <2>5. /\ Others(new, o) = {<<Above(Q, k), new[k]>> : k \in Q}
        /\ Others(text, o) = {<<Above(P, i), text[i]>> : i \in P}
    BY Zenon DEF Others, P, Q
  <2> HIDE DEF Above
  <2>6. \A k \in Q : <<Above(Q, k), new[k]>> = <<Above(P, Before(j, k)), text[Before(j, k)]>>
    BY <2>2, <2>3
  <2>7. ASSUME NEW x \in Others(new, o) PROVE x \in Others(text, o)
    BY <2>3, <2>5, <2>6, <2>7
  <2>8. ASSUME NEW x \in Others(text, o) PROVE x \in Others(new, o)
    <3>1. PICK i \in P : x = <<Above(P, i), text[i]>>
      BY <2>5, <2>8
    <3>2. x = <<Above(Q, After(j, i)), new[After(j, i)]>>
      BY <2>4, <2>6, <3>1
    <3> QED
      BY <2>4, <2>5, <3>2
  <2> QED
    BY <2>7, <2>8
<1> QED
  BY <1>1, <1>5, <1>6 DEF OneJobChanged

\* The lines of a text where line i is another now: each count goes by what it was and is.
LineIsNow(text, i, line, o) ==
    LET new == [text EXCEPT ![i] = line]
        Count(was, is) == (IF is THEN 1 ELSE 0) - (IF was THEN 1 ELSE 0)
    IN  /\ Others(new, o) = Others(text, o)
        /\ \A job : With(new, job) = With(text, job) + Count(text[i].job = job, line.job = job)
        /\ \A job : Active(new, job) = Active(text, job) + Count(text[i].marks = 0 /\ text[i].job = job,
                                                                line.marks = 0 /\ line.job = job)

\* A line of the action's jobs that is replaced by one of them.
LEMMA LineReplaced ==
    ASSUME NEW text \in Text, NEW i \in 1..Len(text), NEW line \in Line, NEW o \in Op,
           text[i].job \in {o.job, o.new}, line.job \in {o.job, o.new}
    PROVE  LineIsNow(text, i, line, o)
<1> DEFINE new == [text EXCEPT ![i] = line]
           Count(was, is) == (IF is THEN 1 ELSE 0) - (IF was THEN 1 ELSE 0)
           n == Len(text)
<1>1. /\ new \in Text /\ n \in Nat /\ Len(new) = n /\ new[i] = line
      /\ \A k \in 1..n : k # i => new[k] = text[k]
  BY DEF Text
<1> HIDE DEF new, n
<1>2. OtherPlaces(new, o) = OtherPlaces(text, o) /\ i \notin OtherPlaces(text, o) /\ OtherPlaces(text, o) \subseteq 1..n
  <2>1. /\ OtherPlaces(new, o) = {k \in 1..n : new[k].job \notin {o.job, o.new}}
        /\ OtherPlaces(text, o) = {k \in 1..n : text[k].job \notin {o.job, o.new}}
    BY <1>1, LinesAre DEF n
  <2> QED
    BY <1>1, <2>1
<1>3. Others(new, o) = Others(text, o)
  BY <1>1, <1>2 DEF Others
<1>4. ASSUME NEW S \in SUBSET (1..n), NEW T \in SUBSET (1..n), \A k \in 1..n : k # i => (k \in S <=> k \in T)
      PROVE  Cardinality(T) = Cardinality(S) + Count(i \in S, i \in T)
  <2>0. Cardinality(S) \in Nat /\ Cardinality(T) \in Nat
    BY <1>1, PlacesAreFinite
  <2>1. CASE i \in S /\ i \notin T
    <3>1. T = S \ {i}
      BY <1>4, <2>1
    <3>2. Cardinality(S \ {i}) + 1 = Cardinality(S)
      BY <1>1, <2>1, OneLess
    <3> QED
      BY <2>0, <2>1, <3>1, <3>2
  <2>2. CASE i \notin S /\ i \in T
    <3>1. T = S \cup {i}
      BY <1>4, <2>2
    <3>2. Cardinality(S \cup {i}) = Cardinality(S) + 1
      BY <1>1, <2>2, OneMore
    <3> QED
      BY <2>0, <2>2, <3>1, <3>2
  <2>3. CASE i \in S <=> i \in T
    <3>1. S = T
      <4>1. \A k \in 1..n : k \in S <=> k \in T
        BY <1>4, <2>3
      <4> QED
        BY <4>1
    <3> QED
      BY <2>0, <2>3, <3>1
  <2> QED
    BY <2>1, <2>2, <2>3
<1> HIDE DEF Count
<1>5. ASSUME NEW job PROVE With(new, job) = With(text, job) + Count(text[i].job = job, line.job = job)
  <2> DEFINE S == {k \in 1..n : text[k].job = job}
             T == {k \in 1..n : new[k].job = job}
  <2>1. \A k \in 1..n : k # i => (k \in S <=> k \in T)
    BY <1>1
  <2>2. (i \in S <=> text[i].job = job) /\ (i \in T <=> line.job = job)
    BY <1>1 DEF n
  <2>3. With(text, job) = Cardinality(S) /\ With(new, job) = Cardinality(T)
    BY <1>1, LinesAre DEF n
  <2>4. S \in SUBSET (1..n) /\ T \in SUBSET (1..n)
    OBVIOUS
  <2> HIDE DEF S, T
  <2>5. Cardinality(T) = Cardinality(S) + Count(i \in S, i \in T)
    BY <1>4, <2>1, <2>4
  <2> QED
    BY <2>2, <2>3, <2>5 DEF Count
<1>6. ASSUME NEW job
      PROVE  Active(new, job) = Active(text, job) + Count(text[i].marks = 0 /\ text[i].job = job,
                                                         line.marks = 0 /\ line.job = job)
  <2> DEFINE S == {k \in 1..n : text[k].marks = 0 /\ text[k].job = job}
             T == {k \in 1..n : new[k].marks = 0 /\ new[k].job = job}
  <2>1. \A k \in 1..n : k # i => (k \in S <=> k \in T)
    BY <1>1
  <2>2. (i \in S <=> text[i].marks = 0 /\ text[i].job = job) /\ (i \in T <=> line.marks = 0 /\ line.job = job)
    BY <1>1 DEF n
  <2>3. Active(text, job) = Cardinality(S) /\ Active(new, job) = Cardinality(T)
    BY <1>1, LinesAre DEF n
  <2>4. S \in SUBSET (1..n) /\ T \in SUBSET (1..n)
    OBVIOUS
  <2> HIDE DEF S, T
  <2>5. Cardinality(T) = Cardinality(S) + Count(i \in S, i \in T)
    BY <1>4, <2>1, <2>4
  <2> QED
    BY <2>2, <2>3, <2>5 DEF Count
<1> QED
  BY <1>3, <1>5, <1>6 DEF new, Count, LineIsNow

\* Counts are numbers.
LEMMA CountsAreNat ==
    ASSUME NEW text \in Text, NEW job PROVE With(text, job) \in Nat /\ Active(text, job) \in Nat
<1>1. Len(text) \in Nat
  BY DEF Text
<1>2. /\ {i \in 1..Len(text) : text[i].marks = 0 /\ text[i].job = job} \in SUBSET (1..Len(text))
      /\ {i \in 1..Len(text) : text[i].job = job} \in SUBSET (1..Len(text))
  OBVIOUS
<1>3. \A S \in SUBSET (1..Len(text)) : Cardinality(S) \in Nat
  BY <1>1, PlacesAreFinite
<1> QED
  BY <1>2, <1>3, LinesAre, Zenon

\* replace_job and set_enabled: one line of the job is another now.
LEMMA LineChanges ==
    ASSUME NEW text \in Text, NEW o \in Op, o.kind \in {"Edit", "Enable", "Disable"}, Applies(o, text)
    PROVE  OneJobChanged(o, text, NewText(o, text))
<1> DEFINE i == TargetLine(o, text)
           line == IF o.kind = "Edit" THEN [marks |-> IF text[i].marks = 0 THEN 0 ELSE 1, job |-> o.new]
                   ELSE [text[i] EXCEPT !.marks = Mark(o, @)]
           new == [text EXCEPT ![i] = line]
<1>1. /\ i \in 1..Len(text) /\ text[i] \in Line /\ text[i].job = o.job
      /\ o.kind = "Disable" => text[i].marks = 0
      /\ o.kind = "Enable" => text[i].marks \in {1, 2}
  BY TargetHas
<1>2. o.job \in Jobs /\ o.new \in Jobs /\ (o.kind # "Edit" => o.new = o.job)
  BY DEF Op
<1> DEFINE was == text[i]
<1>3. /\ line \in Line
      /\ o.kind = "Edit" => line.job = o.new /\ (line.marks = 0 <=> was.marks = 0)
      /\ o.kind = "Enable" => line.job = o.job
      /\ o.kind = "Disable" => line.job = o.job /\ line.marks # 0
  BY <1>1, <1>2 DEF Line, Mark
<1>4. NewText(o, text) = new
  <2>1. text \in Seq(Line)
    BY DEF Text
  <2>2. CASE o.kind = "Edit"
    BY <2>2, <1>1 DEF NewText
  <2>3. CASE o.kind \in {"Enable", "Disable"}
    BY <2>3, <1>1 DEF NewText
  <2> QED
    BY <2>2, <2>3
<1> HIDE DEF i, line
<1>5. /\ Others(new, o) = Others(text, o)
      /\ \A job : With(new, job) = With(text, job) + ((IF line.job = job THEN 1 ELSE 0) - (IF was.job = job THEN 1 ELSE 0))
      /\ \A job : Active(new, job) = Active(text, job) + ((IF line.marks = 0 /\ line.job = job THEN 1 ELSE 0)
                                                          - (IF was.marks = 0 /\ was.job = job THEN 1 ELSE 0))
  <2>1. text[i].job \in {o.job, o.new} /\ line.job \in {o.job, o.new}
    BY <1>1, <1>3
  <2> HIDE DEF new, was
  <2>2. LineIsNow(text, i, line, o)
    BY <1>1, <1>3, <2>1, LineReplaced
  <2> QED
    BY <2>2, Zenon DEF LineIsNow, new, was
<1>6. \A job : With(text, job) \in Nat /\ Active(text, job) \in Nat
  BY CountsAreNat
<1> HIDE DEF new
<1>7. was.job = o.job
  BY <1>1
<1> HIDE DEF was
<1>8. CASE o.kind = "Edit"
  BY <1>3, <1>4, <1>5, <1>6, <1>7, <1>8 DEF OneJobChanged
<1>9. CASE o.kind = "Enable"
  BY <1>3, <1>4, <1>5, <1>6, <1>7, <1>9 DEF OneJobChanged
<1>10. CASE o.kind = "Disable"
  BY <1>1, <1>3, <1>4, <1>5, <1>6, <1>7, <1>10 DEF OneJobChanged, was
<1> QED
  BY <1>8, <1>9, <1>10

\* A session that finds the crontab as it read it changes one line of its own job and
\* nothing else, whatever other sessions, people, failures and late writes did before.
THEOREM OwnJobOnly == Spec => ChangesItsJob
<1> DEFINE A == \A s \in Sessions : (Installs(s) /\ alone[s]) => OneJobChanged(op[s], crontab, crontab')
<1>1. IInv /\ [Next]_vars => [A]_vars
  <2> SUFFICES ASSUME IInv, Next, NEW s \in Sessions, Installs(s), alone[s]
               PROVE  OneJobChanged(op[s], crontab, crontab')
    OBVIOUS
  <2>1. pc[s] = "install" /\ pc'[s] = "idle" /\ crontab' # crontab
    BY DEF Installs
  <2>2. Install(s)
    <3>1. \A t \in Sessions : t # s => ~(SessionStep(t) \/ Crash(t))
      <4> SUFFICES ASSUME NEW t \in Sessions, t # s, SessionStep(t) \/ Crash(t) PROVE FALSE
        OBVIOUS
      <4>1. \E place : Goto(t, place)
        BY DEF SessionStep, Crash, Start, RunNow, Read, Backup, Install, Finish
      <4> QED
        BY <2>1, <4>1 DEF Goto, IInv, TypeOK
    <3>2. ~(\E w \in lost : LostWrite(w)) /\ ~EditByHand /\ ~Done
      BY <2>1 DEF LostWrite, EditByHand, Done, sessionVars, vars, hostVars
    <3>3. SessionStep(s) \/ Crash(s)
      BY <3>1, <3>2 DEF Next
    <3> QED
      BY <2>1, <3>3 DEF SessionStep, Crash, Start, RunNow, Read, Backup, hostVars
  <2>3. crontab' = NewText(op[s], seen[s])
    BY <2>1, <2>2 DEF Install
  <2>4. /\ seen[s] = crontab /\ Applies(op[s], crontab) /\ crontab \in Text
        /\ op[s] \in Op /\ op[s].kind # "RunNow"
    BY <2>1 DEF IInv, Current, Ready, TypeOK
  <2>5. op[s].kind \in Kinds
    BY <2>4 DEF Op
  <2> QED
    BY <2>3, <2>4, <2>5, AddChanges, DeleteChanges, LineChanges DEF Kinds
<1> QED
  BY <1>1, Invariant, PTL DEF Spec, ChangesItsJob


-------------------------------------------------------------------------------
(* Actions that undo each other. *)

\* An action on a job other than an Edit to another one.
Doing(kind, job) == [kind |-> kind, job |-> job, new |-> job]

\* The line an action changes is the first that it may change.
LEMMA TargetIsFirst ==
    ASSUME NEW text \in Text, NEW o, NEW i \in 1 .. Len(text), IsTarget(o, text[i]),
           \A k \in 1 .. Len(text) : IsTarget(o, text[k]) => i <= k
    PROVE  TargetLine(o, text) = i
<1> DEFINE targets == {k \in 1 .. Len(text) : IsTarget(o, text[k])}
<1>1. targets \subseteq Nat /\ i \in targets
  BY DEF Text
<1>2. TargetLine(o, text) = Min(targets)
  BY <1>1 DEF TargetLine, SelectInSeq
<1>3. Min(targets) \in targets /\ \A k \in targets : Min(targets) <= k
  BY <1>1, LeastPosition
<1>4. Min(targets) \in Nat /\ i \in Nat /\ Min(targets) <= i /\ i <= Min(targets)
  BY <1>1, <1>3
<1> QED
  BY <1>2, <1>4

\* What set_enabled comments out it enables again, and the crontab is as it was, unless a
\* disabled line of the same job stands in front of the one that was active (and but for
\* blanks in front of the line, which are below the level of a line here).
THEOREM EnableUndoesDisable ==
    ASSUME NEW text \in Text, NEW job \in Jobs, Applies(Doing("Disable", job), text),
           \A k \in 1 .. Len(text) :
               IsDisabled(text[k], job) => TargetLine(Doing("Disable", job), text) <= k
    PROVE  LET after == NewText(Doing("Disable", job), text)
           IN  /\ Applies(Doing("Enable", job), after)
               /\ NewText(Doing("Enable", job), after) = text
<1> DEFINE off == Doing("Disable", job)
           on == Doing("Enable", job)
           i == TargetLine(off, text)
           after == NewText(off, text)
<1>1. off \in Op /\ on \in Op /\ text \in Seq(Line)
  BY DEF Op, Kinds, Doing, Text
<1>2. i \in 1 .. Len(text) /\ IsActive(text[i], job)
  <2> DEFINE targets == {k \in 1 .. Len(text) : IsTarget(off, text[k])}
  <2>1. i # 0
    BY DEF Applies, Doing
  <2>2. targets \subseteq Nat
    BY DEF Text
  <2>3. i = IF targets # {} THEN Min(targets) ELSE 0
    BY DEF TargetLine, SelectInSeq
  <2>4. i \in targets
    BY <2>1, <2>2, <2>3, LeastPosition
  <2> QED
    BY <2>4 DEF IsTarget, Doing
<1> HIDE DEF i
<1>3. text[i] = [marks |-> 0, job |-> job]
  <2>1. text[i] \in Line
    BY <1>1, <1>2
  <2> QED
    BY <1>2, <2>1 DEF IsActive, Line
<1>4. after = [text EXCEPT ![i] = [marks |-> 1, job |-> job]]
  <2>1. after = [text EXCEPT ![i].marks = Mark(off, @)]
    BY DEF NewText, Doing, i
  <2>2. Mark(off, text[i].marks) = 1
    BY <1>3 DEF Mark, Doing
  <2>3. [text[i] EXCEPT !.marks = 1] = [marks |-> 1, job |-> job]
    BY <1>3
  <2> HIDE DEF after, off
  <2> QED
    BY <1>1, <1>2, <2>1, <2>2, <2>3
<1>5. after \in Text /\ Len(after) = Len(text) /\ after[i] = [marks |-> 1, job |-> job]
      /\ \A k \in 1 .. Len(text) : k # i => after[k] = text[k]
  <2>1. [marks |-> 1, job |-> job] \in Line
    BY DEF Line
  <2> QED
    BY <1>1, <1>2, <1>4, <2>1 DEF Text
<1> HIDE DEF after
<1>6. TargetLine(on, after) = i
  <2>1. IsTarget(on, after[i])
    BY <1>5 DEF IsTarget, IsDisabled, Doing
  <2>2. ASSUME NEW k \in 1 .. Len(after), IsTarget(on, after[k]) PROVE i <= k
    <3>1. CASE k = i
      BY <1>2, <3>1
    <3>2. CASE k # i
      <4>1. IsDisabled(text[k], job)
        BY <1>5, <2>2, <3>2 DEF IsTarget, Doing
      <4> QED
        BY <1>5, <2>2, <4>1 DEF i
    <3> QED
      BY <3>1, <3>2
  <2> QED
    BY <1>2, <1>5, <2>1, <2>2, TargetIsFirst
<1>7. Applies(on, after)
  BY <1>2, <1>6 DEF Applies
<1>8. NewText(on, after) = [after EXCEPT ![i] = [marks |-> 0, job |-> job]]
  <2>1. NewText(on, after) = [after EXCEPT ![i].marks = Mark(on, @)]
    BY <1>6 DEF NewText, Doing
  <2>2. Mark(on, after[i].marks) = 0
    BY <1>5 DEF Mark, Doing
  <2>3. [after[i] EXCEPT !.marks = 0] = [marks |-> 0, job |-> job]
    BY <1>5
  <2> HIDE DEF on
  <2> QED
    BY <2>1, <2>2, <2>3
<1>9. NewText(on, after) = text
  BY <1>1, <1>2, <1>3, <1>4, <1>8 DEF after
<1> QED
  BY <1>7, <1>9 DEF after

\* A job that was not in the crontab and is added is the one that is deleted again, and the
\* crontab is as it was.
THEOREM DeleteUndoesAdd ==
    ASSUME NEW text \in Text, NEW job \in Jobs, \A k \in 1 .. Len(text) : text[k].job # job
    PROVE  LET after == NewText(Doing("Add", job), text)
           IN  /\ Applies(Doing("Delete", job), after)
               /\ NewText(Doing("Delete", job), after) = text
<1> DEFINE line == [marks |-> 0, job |-> job]
           after == Append(text, line)
           i == Len(text) + 1
           remove == Doing("Delete", job)
<1>1. text \in Seq(Line) /\ line \in Line /\ Len(text) \in Nat
  BY DEF Text, Line
<1>2. NewText(Doing("Add", job), text) = after
  BY DEF NewText, Doing
<1>3. /\ after \in Text /\ Len(after) = i /\ after[i] = line
      /\ \A k \in 1 .. Len(text) : after[k] = text[k]
  BY <1>1 DEF Text
<1>4. TargetLine(remove, after) = i
  <2>1. IsTarget(remove, after[i])
    BY <1>3 DEF IsTarget, IsActive, Doing
  <2>2. ASSUME NEW k \in 1 .. Len(after), IsTarget(remove, after[k]) PROVE i <= k
    <3>1. after[k].job = job
      BY <2>2 DEF IsTarget, IsActive, IsDisabled, Doing
    <3> QED
      BY <1>1, <1>3, <3>1
  <2> HIDE DEF after
  <2> QED
    BY <1>1, <1>3, <2>1, <2>2, TargetIsFirst
<1>5. RemoveAt(after, i) = text
  <2>1. SubSeq(after, 1, i - 1) = text
    BY <1>1
  <2>2. SubSeq(after, i + 1, Len(after)) = <<>>
    BY <1>1
  <2> QED
    BY <1>1, <2>1, <2>2 DEF RemoveAt
<1>6. Applies(remove, after) /\ NewText(remove, after) = RemoveAt(after, i)
  BY <1>1, <1>4 DEF Applies, NewText, Doing
<1> QED
  BY <1>2, <1>5, <1>6
===============================================================================
