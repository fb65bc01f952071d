------------------------------- MODULE HostReview -------------------------------
(***************************************************************************)
(* The review of one host: gather of crates/systui-ui/src/data.rs, with    *)
(* the groups of crates/systui-report/src/collect.rs, and what             *)
(* apply_refresh leaves on the screen.  gather_report of                   *)
(* crates/systui-report/src/gather.rs is the first gather of a session.    *)
(*                                                                         *)
(* The groups run at the same time and each reads the host in one or two   *)
(* steps; between two steps the host may change, reads may fail and a      *)
(* group may be cut off by its timeout.                                    *)
(***************************************************************************)
EXTENDS Policy, HostChecks, Databases, CronJobs, Inventory

CONSTANTS Worlds,           \* states of the host
          Contents,         \* what each read says in each of them
          Becomes,          \* pairs of worlds: how the host may change
          Remote,           \* worlds of hosts that are read over ssh
          NotInstalled,     \* the answer to a program that is not there
          Faults,           \* sets of reads that may fail in a gather
          Config, Target,   \* the configuration and the host's name in it
          Spread,           \* bound: groups that read at any time of a gather, the others at its start
          MaxGathers,       \* bound: gathers of a session
          MaxTroubles       \* bound: changes of the host and gathers in trouble, together

ASSUME ReviewAssumption ==
    Becomes \subseteq Worlds \X Worlds /\ Remote \subseteq Worlds /\ {MaxGathers, MaxTroubles} \subseteq Nat

\* Names of policies are strings, and the lists of a configuration end.
ASSUME PoliciesAssumption ==
    LET names == DOMAIN Config.policies
    IN  /\ IsFiniteSet(names) /\ \A h \in DOMAIN Config.hosts : IsFiniteSet(Config.hosts[h].tags)
        /\ \A m, n \in names : m # n => (Before(m, n) <=> ~Before(n, m))
        /\ \A l, m, n \in names : Before(l, m) /\ Before(m, n) => Before(l, n)

VARIABLES world,        \* what the host is like now
          faults,       \* reads that fail in the gather that runs
          stuck,        \* its groups that wait for a command that does not end in time
          gathering,    \* a gather runs
          seen,         \* what each of its groups read so far: a world for each step
          late,         \* its groups that were cut off
          worlds,       \* ghost: what the host was like since it began
          screen,       \* App: the last review that was applied, or NoScreen; with it, as
                      \* ghosts, what its gather met
          view,         \* App.view_state
          gathers, troubles

hostVars == <<world, troubles>>
gatherVars == <<faults, stuck, gathering, seen, late, worlds, gathers>>
screenVars == <<screen, view>>
vars == <<hostVars, gatherVars, screenVars>>

NoScreen == [review |-> Absent]

-------------------------------------------------------------------------------
(* The transports *)

\* Readers that take the output of a command whatever code it leaves with.
AnyExit == {"apt", "dnf", "pacman", "zypper"}

\* LocalTransport::run, SshTransport::run: a program that is not there is an error of the
\* transport here, and over ssh a command that leaves with 127 and no output.
Answer(w, failing, r) ==
    IF r \in failing THEN Failed
    ELSE IF Contents[w][r] # NotInstalled THEN Contents[w][r]
    ELSE IF w \in Remote /\ r \in AnyExit THEN <<>> ELSE Failed

-------------------------------------------------------------------------------
(* The groups *)

Groups == {"host", "network", "databases", "docker", "crons", "timers", "services", "packages"}

\* The commands and files the groups read, by what they are for.
Reads ==
    {"ip -j addr", "ip addr", "ip -j route", "ip route", "/etc/resolv.conf", "ss -tulpn", "ss -tan", "cgroups"}
    \cup {"/etc/ssh/sshd_config", "journalctl -u ssh", "/var/log/auth.log", "/var/log/secure", "/etc/sudoers",
          "/etc/sudoers.d", "/etc/sudoers.d/*", "ufw status", "firewall-cmd --state", "nft list ruleset",
          "iptables -S", "stat critical", "stat docker.sock", "find suid", "cert dirs", "openssl x509"}
    \cup TabReads
    \cup {"uname -n", "uname -r", "/etc/os-release", "tail /proc", "/proc/uptime", "/proc/loadavg",
          "/proc/meminfo", "/proc/stat", "df -P", "who", "systemctl --failed", "journalctl -p 3", "ps -eo"}
    \cup {"systemctl list-units", "systemctl list-unit-files", "systemctl list-timers", "apt", "dnf", "pacman", "zypper"}
    \cup {"--version", "credentials", "database stats", "journalctl -u database"}
    \cup {"docker ps", "docker inspect", "docker stats", "docker compose ls", "docker system df",
          "docker images dangling"}
    \cup {"crontab -l", "/etc/crontab", "/etc/cron.d", "/etc/cron.d/*", "/etc/anacrontab", "/etc/cron.periodic",
          "stat scripts"}

\* What a group reads in a second step, with what the first one said.
Details == [g \in Groups |->
    CASE g = "docker"    -> {"docker inspect", "docker stats", "docker compose ls", "docker system df",
                             "docker images dangling"}
      [] g = "crons"     -> {"stat scripts"}
      [] g = "databases" -> {"--version", "credentials", "database stats", "journalctl -u database"}
      [] OTHER           -> {}]
Steps(g) == IF Details[g] = {} THEN 1 ELSE 2

Answers(g, gather) ==
    LET reads == gather.seen[g]
    IN  [r \in Reads |-> Answer(reads[IF r \in Details[g] THEN 2 ELSE 1], gather.faults, r)]

\* What a group makes of its answers, or what stands for it when it was cut off.
Result(g, gather, collected, none) == IF g \in gather.late THEN none ELSE collected

\* gather_docker
GatherDocker(a) ==
    IF a["docker ps"] = Failed THEN NoDocker ELSE DockerDetails(a, ParsePs(a["docker ps"]))

\* gather_crons
CronReport(a, jobs) == [jobs |-> jobs, findings |-> CronFindings(a, jobs)]
GatherCrons(a)      == CronReport(a, CollectCronEntries(a))

\* gather_databases
DatabaseReport(found) == [instances |-> found, findings |-> DatabaseFindings(found)]
GatherDatabases(a)    == DatabaseReport(CollectDatabases(a))

\* gather_services: the units, and the names of those that start with the host.
GatherServices(a) ==
    [units   |-> OrElse(CollectServices(a), {}),
     enabled |-> {f.name : f \in {x \in OrElse(CollectUnitFiles(a), {}) : x.state \in {"enabled", "enabled-runtime"}}}]

\* gather_network: listeners, what is exposed, the scan that needs it and the firewall.
GatherNetwork(a, statics) ==
    LET network == CollectNetwork(a, [read |-> statics # Absent, statics |-> statics])
    IN  [network |-> network, findings |-> SecurityScan(a, ExposureMap(network.listeners)),
         firewall |-> CollectFirewall(a)]

NoFirewall == [backend |-> None, active |-> FALSE, tables |-> {}, chains |-> {}, rules |-> 0, noted |-> FALSE]

\* gather: the results of the groups it joins.
Results(gather, cached) ==
    LET From(g) == Answers(g, gather)
    IN  [host      |-> Result("host", gather, CollectHostReport(From("host"), cached.identity), Failed),
         network   |-> Result("network", gather, GatherNetwork(From("network"), cached.statics),
                              [network |-> NoNetwork, findings |-> {}, firewall |-> NoFirewall]),
         databases |-> Result("databases", gather, GatherDatabases(From("databases")), [instances |-> {}, findings |-> {}]),
         docker    |-> Result("docker", gather, GatherDocker(From("docker")), NoDocker),
         crons     |-> Result("crons", gather, GatherCrons(From("crons")), [jobs |-> {}, findings |-> {}]),
         services  |-> Result("services", gather, GatherServices(From("services")), [units |-> {}, enabled |-> {}]),
         timers    |-> Result("timers", gather, CollectTimers(From("timers")), {}),
         packages  |-> Result("packages", gather, CollectPackages(From("packages")), NoUpdates)]

\* The findings of the host's policy on these results.
Judged(r) ==
    PolicyFindings(ForHost(Config, Target), Config.policies,
        [network |-> r.network.network, exposures |-> ExposureMap(r.network.network.listeners),
         services |-> r.services.units, docker |-> r.docker, system |-> r.host.system])

\* merge_findings: Failed when the host report is, and then nothing is applied.
Merged(r) ==
    IF r.host = Failed THEN Failed
    ELSE [host |-> r.host, network |-> r.network.network, firewall |-> r.network.firewall,
          databases |-> r.databases.instances, containers |-> r.docker.containers, crons |-> r.crons.jobs,
          services |-> r.services, timers |-> r.timers, packages |-> r.packages,
          findings |-> r.network.findings \cup r.databases.findings \cup r.docker.findings
                       \cup r.crons.findings \cup Judged(r)]

Review(gather, cached) == Merged(Results(gather, cached))

\* cached_statics: from what is on the screen.
Cached(shown) ==
    IF shown = NoScreen THEN [identity |-> Absent, statics |-> Absent]
    ELSE [identity |-> shown.review.host.system.identity, statics |-> shown.review.network.statics]

-------------------------------------------------------------------------------
Nothing == [g \in Groups |-> <<>>]

Init ==
    /\ world \in Worlds /\ worlds = {} /\ troubles = 0
    /\ faults = {} /\ stuck = {} /\ gathering = FALSE /\ seen = Nothing /\ late = {} /\ gathers = 0
    /\ screen = NoScreen /\ view = "Loading"

\* The host becomes another, also while it is read.
Change ==
    /\ troubles < MaxTroubles
    /\ \E w \in Worlds : <<world, w>> \in Becomes /\ world' = w
                         /\ worlds' = IF gathering THEN worlds \cup {w} ELSE worlds
    /\ troubles' = troubles + 1
    /\ UNCHANGED <<faults, stuck, gathering, seen, late, gathers, screenVars>>

\* spawn_refresh: one gather at a time.  Some of its reads may fail, or one of its groups
\* may take too long: what such a group reads before it is cut off is lost anyway.
Start ==
    /\ ~gathering /\ gathers < MaxGathers
    /\ gathering' = TRUE /\ gathers' = gathers + 1 /\ worlds' = {world}
    /\ \/ faults' = {} /\ stuck' = {} /\ troubles' = troubles
       \/ /\ troubles < MaxTroubles /\ troubles' = troubles + 1
          /\ \/ faults' \in Faults /\ stuck' = {}
             \/ faults' = {} /\ \E g \in Groups : stuck' = {g}
    /\ seen' = [g \in Groups |-> IF g \in Spread \cup stuck' THEN <<>> ELSE [k \in 1 .. Steps(g) |-> world]]
    /\ UNCHANGED <<world, late, screenVars>>

Running(g) == gathering /\ g \notin late /\ Len(seen[g]) < Steps(g)

\* The next step of a group.
Read(g) ==
    /\ Running(g) /\ g \notin stuck
    /\ seen' = [seen EXCEPT ![g] = Append(@, world)]
    /\ UNCHANGED <<faults, stuck, gathering, late, worlds, gathers, hostVars, screenVars>>

\* Mutant: one deadline for the whole gather, so that one group takes the others with it.
TimeoutOfAll(g) ==
    /\ Running(g) /\ g \in stuck
    /\ late' = late \cup {h \in Groups : h # "host" \/ h = g}
    /\ UNCHANGED <<faults, stuck, gathering, seen, worlds, gathers, hostVars, screenVars>>

\* Mutant: the host report is waited for without an end.
TimeoutOfOthers(g) ==
    /\ Running(g) /\ g \in stuck \ {"host"}
    /\ late' = late \cup {g}
    /\ UNCHANGED <<faults, stuck, gathering, seen, worlds, gathers, hostVars, screenVars>>

\* within_timeout, host_report_within_timeout: the group is given up.
Timeout(g) ==
    /\ Running(g) /\ g \in stuck
    /\ late' = late \cup {g}
    /\ UNCHANGED <<faults, stuck, gathering, seen, worlds, gathers, hostVars, screenVars>>

\* The end of a gather: all its groups have a result.
Ended == gathering /\ (\A g \in Groups : ~Running(g)) /\ gathering' = FALSE

\* apply_refresh, apply_error: the review replaces what is on the screen, or nothing does.
Show(review) ==
    IF review = Failed THEN screen' = screen /\ view' = "Error"
    ELSE /\ screen' = [review |-> review,
                       worlds |-> worlds, late |-> late, faults |-> faults, stuck |-> stuck]
         /\ view' = "Ready"

Apply ==
    /\ Ended
    /\ Show(Review([seen |-> seen, late |-> late, faults |-> faults], Cached(screen)))
    /\ faults' = {} /\ stuck' = {} /\ seen' = Nothing /\ late' = {} /\ worlds' = {}
    /\ UNCHANGED <<gathers, hostVars>>

Next ==
    \/ Change \/ Start \/ Apply
    \/ \E g \in Groups : Read(g) \/ Timeout(g)

\* The tasks of a gather and their timers run until they are done, and the screen takes
\* the outcome.
Fairness == WF_gathering(Ended) /\ \A g \in Groups : WF_vars(Read(g) \/ Timeout(g))

Spec == Init /\ [][Next]_vars /\ Fairness

-------------------------------------------------------------------------------
(* What the screen may say *)

\* The findings of a host that does not change while every read answers in time.
Undisturbed(w) == [seen |-> [g \in Groups |-> <<w, w>>], late |-> {}, faults |-> {}]
CleanReview(w) == Review(Undisturbed(w), Cached(NoScreen))
CleanFindings  == [w \in Worlds |-> CleanReview(w).findings]

\* Every host can be read at all when nothing gets in the way, and something is read of its
\* network.
HostsAnswer == \A w \in Worlds : CleanReview(w) # Failed /\ CleanReview(w).network.statics # Absent

\* The group a finding comes from; what no other group finds comes with the network.
GroupOf(f) ==
    CASE f.id \in {"policy.container.missing", "policy.container.stopped", "policy.container.image",
                   "policy.container.forbidden", "policy.image.forbidden", "docker.privileged",
                   "docker.socket-mount", "docker.dangerous-mount", "docker.sensitive-port",
                   "docker.unhealthy", "docker.restart-loop", "docker.latest-tag", "docker.no-mem-limit"} -> "docker"
      [] f.id \in {"cron.invalid-schedule", "cron.high-frequency", "cron.missing-script", "cron.duplicate",
                   "cron.not-executable", "cron.world-writable-script", "cron.root-temp-script",
                   "cron.no-logging"} -> "crons"
      [] f.id \in {"db.exposed", "db.redis.auth-unknown", "db.blocked", "db.replication",
                   "db.recent-errors"} -> "databases"
      [] f.id \in {"policy.service.missing", "policy.service.state", "policy.service.forbidden"} -> "services"
      [] f.id \in {"policy.threshold.disk-critical", "policy.threshold.disk-warning", "policy.threshold.ram",
                   "policy.threshold.load", "policy.config.missing", "policy.partial"} -> "host"
      [] OTHER -> "network"

\* The reads that find the opposite of what a check says, or find it elsewhere: where one
\* of them fails, the check goes on with less.
Opposed(id) ==
    CASE id = "firewall.absent"        -> {"ufw status", "firewall-cmd --state", "nft list ruleset", "iptables -S"}
      [] id = "ssh.failed-logins"      -> {"journalctl -u ssh", "/var/log/auth.log"}
      [] id = "policy.port.missing"    -> {"ss -tulpn"}
      [] id = "policy.container.image" -> {"docker inspect"}
      [] id = "db.redis.auth-unknown"  -> {"credentials"}
      [] id = "cron.missing-script"    -> {"stat scripts"}
      [] id \in {"policy.threshold.ram", "policy.threshold.load"} -> {"tail /proc"}
      [] OTHER                         -> {}

\* The first steps of a host: the jobs, whose scripts are looked at in the second one, and
\* the databases, which are asked in it.
JobsListed(w) == CollectCronEntries(Answers("crons", Undisturbed(w)))

UnitsListed(w)     == OrElse(CollectServices(Answers("databases", Undisturbed(w))), {})
ListenersListed(w) == CollectListeners(Answers("databases", Undisturbed(w)))
DatabasesListed(w) == DetectInstances(UnitsListed(w), ListenersListed(w))

\* systemctl prints units in rows.
ASSUME RowsAssumption == \A w \in Worlds : \A u \in UnitsListed(w) : u.place \in Nat

\* What of them says where the second step looks.
ScriptsListed(w) ==
    {[script |-> e.command.script, user |-> e.user] : e \in {j \in JobsListed(w) : j.enabled}}
RedisReached(w)  == \E i \in DatabasesListed(w) : i.engine = "redis" /\ External(i)
PortsAsked(w)    ==
    {[engine |-> i.engine, port |-> i.listener.port] : i \in {d \in DatabasesListed(w) : d.listener # NoListener}}
JournalsAsked(w) == UNION {{[engine |-> e, service |-> s.name] : s \in Matching(UnitsListed(w), e)} : e \in Engines}

\* What a finding is about is there in one of the states and not in another: one was listed,
\* and the other looked at.
Gone(f, states) ==
    \E v, w \in states :
        \/ f.id \in {"cron.missing-script", "cron.not-executable", "cron.world-writable-script"}
           /\ \E s \in ScriptsListed(v) \ ScriptsListed(w) : s.script = f.subject
        \/ f.id = "policy.container.image" /\ Contents[v]["docker ps"] # Contents[w]["docker ps"]
        \/ f.id = "db.redis.auth-unknown" /\ RedisReached(v) /\ ~RedisReached(w)
        \/ f.id \in {"db.blocked", "db.replication"}
           /\ \E p \in PortsAsked(v) \ PortsAsked(w) : p.engine = f.subject
        \/ f.id = "db.recent-errors"
           /\ \E j \in JournalsAsked(v) \ JournalsAsked(w) : j.engine = f.subject

\* What is said for want of an answer: the note that a policy could not be checked, what a
\* read that failed opposes, and what was gone when it was looked at.
ForWantOfAnAnswer(f, failing, states) ==
    f.id = "policy.partial" \/ Opposed(f.id) \cap failing # {} \/ Gone(f, states)

\* A finding on the screen is one the host earned in some state it was in while it was
\* read: neither a change between two reads, nor a read that failed, nor a group that was
\* cut off (its results are empty) makes the checks and the policy accuse the host of
\* something it never was, except as ForWantOfAnAnswer says.
NothingInvented ==
    screen # NoScreen =>
        \A f \in screen.review.findings \ UNION {CleanFindings[w] : w \in screen.worlds} :
            ForWantOfAnAnswer(f, screen.faults, screen.worlds)

\* docker inspect knows the containers docker ps lists, and no other.
InspectsListed ==
    \A w \in Worlds :
        LET a == Answers("docker", Undisturbed(w))
        IN  DOMAIN OrElse(a["docker inspect"], <<>>) \subseteq {c.id : c \in ParsePs(OrElse(a["docker ps"], <<>>))}

\* What the unit of a listener says of its engine, its process and its port do not deny,
\* and a service is that of one engine.
EnginesAgree ==
    \A w \in Worlds :
        /\ \A l \in ListenersListed(w) :
               EngineForListener([l EXCEPT !.unit = None]) \in {None, EngineForListener(l)}
        /\ \A i, j \in JournalsAsked(w) : i.service = j.service => i = j

\* What is in all of some sets of findings.
InAll(earned) == {f \in UNION earned : \A findings \in earned : f \in findings}

\* By what the second step of a database is directed: the port it asks and the unit whose
\* journal it reads.
AskedFor(w) ==
    {[engine |-> i.engine, service |-> i.service, listens |-> i.listener # NoListener, port |-> i.listener.port] :
        i \in DatabasesListed(w)}

\* What the list of the containers, or the ports and units of the databases, say differs
\* in two of the states: the second step asks for what another state has not.
Replaced(f) ==
    \E v, w \in screen.worlds :
        \/ GroupOf(f) = "docker" /\ Contents[v]["docker ps"] # Contents[w]["docker ps"]
        \/ f.id \in {"db.blocked", "db.replication", "db.recent-errors"} /\ AskedFor(v) # AskedFor(w)

\* A finding the host earned in every state it was in while it was read is on the screen,
\* also when another group hung, unless its own group did, or what it is about was replaced
\* between the two steps of its group.
StandingDangersShown ==
    screen # NoScreen /\ screen.faults = {} =>
        \A f \in InAll({CleanFindings[w] : w \in screen.worlds}) :
            GroupOf(f) \in screen.stuck \/ Replaced(f) \/ f \in screen.review.findings

\* Where a group a policy depends on was cut off, the screen says that the policy could
\* not be checked, and does not show the host as complying.
LateIsSaid ==
    screen # NoScreen /\ ForHost(Config, Target).kind = "matched" =>
        LET policy == Config.policies[ForHost(Config, Target).name]
        IN  /\ "network" \in screen.late /\ policy.expectedPorts \cup policy.forbiddenPorts # {} =>
                    Partial("network") \subseteq screen.review.findings
            /\ "services" \in screen.late /\ policy.expectedServices \cup policy.forbiddenServices # {} =>
                    Partial("services") \subseteq screen.review.findings
            /\ "docker" \in screen.late /\ policy.expectedContainers # {} =>
                    Partial("docker") \subseteq screen.review.findings

\* A gather ends, whatever hangs: the next refresh is not refused for ever.
EveryGatherEnds == gathering ~> ~gathering

-------------------------------------------------------------------------------
(* What the documentation says, and the code does not *)

\* docs/phases/phase-09-v0.9-policies.md: "If a collector is unavailable or
\* permission-limited, the evaluator emits an unknown/partial note instead of claiming
\* compliance."
UnreadPortsAreUnknown ==
    screen # NoScreen /\ "ss -tulpn" \in screen.faults /\ ForHost(Config, Target).kind = "matched"
        /\ Config.policies[ForHost(Config, Target).name].expectedPorts # {} =>
            Partial("network") \subseteq screen.review.findings

\* packages.rs: "the first whose binary exists (the command spawns) decides the manager".
ManagerIsInstalled ==
    screen # NoScreen /\ screen.review.packages.available =>
        \E w \in screen.worlds : Contents[w][screen.review.packages.manager] # NotInstalled
===============================================================================
