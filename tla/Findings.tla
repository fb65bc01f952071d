-------------------------------- MODULE Findings --------------------------------
(***************************************************************************)
(* What every collector and check of SysTUI works with: the answers a      *)
(* transport gives to reads, and findings.                                 *)
(*                                                                         *)
(* A read is a command or a file; an answer is the content the reader      *)
(* parses out of it, or Failed: the transport failed, or the command left  *)
(* with an error where the caller asks for success.  a[r] is the answer to *)
(* read r.  Absent stands for a number or a word that a text does not      *)
(* hold.  Lists whose order no property tells apart are sets.              *)
(***************************************************************************)
EXTENDS Naturals, FiniteSets, Sequences

CONSTANTS Failed, Absent

\* read_text and run_stdout of the collectors: a failed read is None, and most callers
\* go on with nothing.
OrElse(answer, default) == IF answer = Failed THEN default ELSE answer

\* A finding of systui_core::finding: its id, what in the id varies, its severity.
Finding(id, subject, severity) == [id |-> id, subject |-> subject, severity |-> severity]

\* Severity, from the least to the worst.
Severities == <<"info", "low", "medium", "high", "critical">>
Rank(severity) == CHOOSE i \in DOMAIN Severities : Severities[i] = severity

\* worst_severity; "none" stands for no finding at all.
WorstSeverity(findings) ==
    IF findings = {} THEN "none"
    ELSE (CHOOSE f \in findings : \A g \in findings : Rank(g.severity) <= Rank(f.severity)).severity

When(condition, findings) == IF condition THEN findings ELSE {}
===============================================================================
