------------------------------ MODULE ActionGate ------------------------------
(***************************************************************************)
(* What SysTUI promises of the changes it makes to a host, whatever the    *)
(* session does around it: a command reaches the host only for the action  *)
(* that was on offer, in a mode that allows it, after the operator typed   *)
(* its phrase where one is required; it takes effect at most once, and     *)
(* nothing that was refused ever takes effect.                             *)
(***************************************************************************)
EXTENDS ActionEngine, Sequences

VARIABLES mode,       \* the effective mode of the session
          offer,      \* the action the operator is being offered, or None
          typed,      \* what the operator has typed so far
          ledger      \* every attempt: [action, fate]

gateVars == <<mode, offer, typed, ledger>>

GateInit ==
    /\ mode \in Modes
    /\ offer = None
    /\ typed = EmptyText
    /\ ledger = <<>>

\* An action may be offered only if it can ever pass the gate in this mode.
Offer(a) ==
    /\ offer = None
    /\ ~Guardrail(a) /\ Allows(mode, Risk(a))
    /\ offer' = a
    /\ typed' \in Text
    /\ UNCHANGED <<mode, ledger>>

Type ==
    /\ typed' \in Text
    /\ UNCHANGED <<mode, offer, ledger>>

Withdraw ==
    /\ offer' = None
    /\ typed' \in Text
    /\ UNCHANGED <<mode, ledger>>

\* The offer is taken up: it is sent if it passes the gate, refused if not.
Attempt ==
    /\ offer # None
    /\ offer' = None
    /\ ledger' = Append(ledger,
                        [action |-> offer,
                         fate   |-> IF MayExecute(mode, offer, typed)
                                    THEN "sent" ELSE "refused"])
    /\ typed' \in Text
    /\ UNCHANGED mode

TakeEffect(i) ==
    /\ ledger[i].fate = "sent"
    /\ ledger' = [ledger EXCEPT ![i].fate = "applied"]
    /\ UNCHANGED <<mode, offer, typed>>

GateNext ==
    \/ \E a \in Action : Offer(a)
    \/ Type
    \/ Withdraw
    \/ Attempt
    \/ \E i \in DOMAIN ledger : TakeEffect(i)

GateSpec == GateInit /\ [][GateNext]_gateVars

===============================================================================
