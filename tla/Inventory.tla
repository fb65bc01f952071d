------------------------------- MODULE Inventory -------------------------------
(***************************************************************************)
(* What the screens of SysTUI list beside the findings: the firewall, the  *)
(* pending updates and the timers of a host (firewall.rs, packages.rs and  *)
(* cron.rs of crates/systui-collectors).                                   *)
(***************************************************************************)
EXTENDS Findings

\* Nobody: no manager, no next run.
Nobody == "none"

-------------------------------------------------------------------------------
(* firewall.rs *)

\* The collector asks the firewall for itself, after the security probes did: its reads are
\* its own.
TabReads == {"tab: firewall-cmd --state", "tab: ufw status", "tab: nft list ruleset", "tab: iptables -S"}

\* detect_manager: firewall-cmd answers also when firewalld does not run, and ufw is only
\* asked when firewall-cmd is not there.
DetectManager(a) ==
    CASE a["tab: firewall-cmd --state"] \in {"running", "not running"} ->
            [name |-> "firewalld", active |-> a["tab: firewall-cmd --state"] = "running"]
      [] a["tab: ufw status"] \in {"active", "inactive"} ->
            [name |-> "ufw", active |-> a["tab: ufw status"] = "active"]
      [] OTHER -> [name |-> Nobody, active |-> FALSE]

\* parse_nft: rules are the lines of a chain that neither open it nor close it.
ParseNft(lines) ==
    LET Of(kind)    == {i \in DOMAIN lines : lines[i].kind = kind}
        Names(kind) == {lines[i].name : i \in Of(kind)}
    IN  [backend |-> "nftables", active |-> Of("rule") \cup Of("chain") # {},
         tables |-> Names("table"), chains |-> Names("chain"), rules |-> Cardinality(Of("rule")), noted |-> FALSE]

\* parse_iptables: -P and -N name chains, -A appends a rule.
ParseIptables(lines) ==
    LET Of(ops) == {i \in DOMAIN lines : lines[i].op \in ops}
    IN  [backend |-> "iptables", active |-> Of({"-A"}) # {}, tables |-> {"filter"},
         chains |-> {lines[i].chain : i \in Of({"-P", "-N"})},
         rules |-> Cardinality(Of({"-A"})), noted |-> FALSE]

\* read_ruleset: nft with something to say, or else iptables, or else a note.
ReadRuleset(a) ==
    IF a["tab: nft list ruleset"] \notin {Failed, <<>>} THEN ParseNft(a["tab: nft list ruleset"])
    ELSE IF a["tab: iptables -S"] # Failed THEN ParseIptables(a["tab: iptables -S"])
    ELSE [backend |-> Nobody, active |-> FALSE, tables |-> {}, chains |-> {}, rules |-> 0, noted |-> TRUE]

\* FirewallCollector::collect
CollectFirewall(a) ==
    LET manager == DetectManager(a)
        ruleset == ReadRuleset(a)
    IN  IF manager.name = Nobody THEN ruleset
        ELSE [ruleset EXCEPT !.backend = manager.name, !.active = manager.active \/ ruleset.rules > 0]

-------------------------------------------------------------------------------
(* packages.rs *)

\* The managers in the order of their probes.
Managers == <<"apt", "dnf", "pacman", "zypper">>

NoUpdates == [manager |-> Nobody, pending |-> 0, security |-> 0, available |-> FALSE]

\* parse_apt, parse_dnf, parse_line_count, parse_zypper: the rows that are packages; only
\* apt tells the security updates apart.
Updates(manager, rows) ==
    LET packages == {i \in DOMAIN rows : rows[i].package}
    IN  [manager |-> manager, pending |-> Cardinality(packages),
         security |-> IF manager = "apt" THEN Cardinality({i \in packages : rows[i].security}) ELSE 0,
         available |-> TRUE]

\* PackagesCollector::collect, try_run: the first probe that runs decides, whatever the
\* code it leaves with.
CollectPackages(a) ==
    LET Runs(k) == a[Managers[k]] # Failed
        first   == CHOOSE k \in DOMAIN Managers : Runs(k) /\ \A j \in 1 .. k - 1 : ~Runs(j)
    IN  IF \E k \in DOMAIN Managers : Runs(k) THEN Updates(Managers[first], a[Managers[first]]) ELSE NoUpdates

-------------------------------------------------------------------------------
(* cron.rs: systemd timers *)

\* collect_timers, parse_timer_line: rows without a timer are passed over; one whose first
\* word is a dash has no next run.
CollectTimers(a) ==
    {[unit |-> r.unit, activates |-> r.activates, next |-> IF r.first = "-" THEN Nobody ELSE r.first] :
        r \in {x \in OrElse(a["systemctl list-timers"], {}) : x.unit # ""}}
===============================================================================
