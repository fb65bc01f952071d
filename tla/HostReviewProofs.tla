---------------------------- MODULE HostReviewProofs ----------------------------
(***************************************************************************)
(* Theorems about HostReview, for any hosts, policies, failures, timeouts  *)
(* and number of gathers: a policy is never shown as met where the group   *)
(* it depends on was cut off; what a host earned all the time while it was *)
(* read, is shown; and what is shown was earned, but for what is said for  *)
(* want of an answer.                                                      *)
(*                                                                         *)
(* For the last two, the findings of a review are traced to the group they *)
(* come from by their ids, and each group to what its one or two steps     *)
(* read: what a group makes of the first step of one state and the second  *)
(* of another has what it makes of each of the two.  Where reads may fail, *)
(* each check is shown to find with fewer answers what it finds with all,  *)
(* unless what failed could have denied it.                                *)
(*                                                                         *)
(* And the policy a host is judged by, where it names none, is determined  *)
(* by its tags and the names of the policies.                              *)
(***************************************************************************)
EXTENDS HostReview, TLAPS, WellFoundedInduction, FiniteSetTheorems

-------------------------------------------------------------------------------
(* What the checks of a policy say where there is nothing to check. *)

\* port_findings without a network.
LEMMA NoNetworkIsPartial ==
    ASSUME NEW policy, NEW exposures, policy.expectedPorts \cup policy.forbiddenPorts # {}
    PROVE  PortFindings(policy, NoNetwork, exposures) = Partial("network")
  BY DEF PortFindings

\* service_findings without units.
LEMMA NoServicesIsPartial ==
    ASSUME NEW policy, policy.expectedServices \cup policy.forbiddenServices # {}
    PROVE  ServiceFindings(policy, {}) = Partial("services")
  BY DEF ServiceFindings

\* docker_policy_findings without docker.
LEMMA NoDockerIsPartial ==
    ASSUME NEW policy, policy.expectedContainers # {}
    PROVE  DockerPolicyFindings(policy, NoDocker) = Partial("docker")
  BY DEF DockerPolicyFindings, NoDocker

\* What each check of a matched policy finds is among its findings.
LEMMA ChecksAreFindings ==
    ASSUME NEW selection, selection.kind = "matched", NEW policies, NEW facts
    PROVE  LET policy == policies[selection.name] IN
           /\ PortFindings(policy, facts.network, facts.exposures) \subseteq PolicyFindings(selection, policies, facts)
           /\ ServiceFindings(policy, facts.services) \subseteq PolicyFindings(selection, policies, facts)
           /\ DockerPolicyFindings(policy, facts.docker) \subseteq PolicyFindings(selection, policies, facts)
  BY DEF PolicyFindings

-------------------------------------------------------------------------------
(* The review of a gather, from the results of its groups. *)

\* What LateIsSaid says of one review.
Said(review, cut) ==
    ForHost(Config, Target).kind = "matched" =>
        LET policy == Config.policies[ForHost(Config, Target).name]
        IN  /\ "network" \in cut /\ policy.expectedPorts \cup policy.forbiddenPorts # {} =>
                    Partial("network") \subseteq review.findings
            /\ "services" \in cut /\ policy.expectedServices \cup policy.forbiddenServices # {} =>
                    Partial("services") \subseteq review.findings
            /\ "docker" \in cut /\ policy.expectedContainers # {} =>
                    Partial("docker") \subseteq review.findings

\* A review says it of the groups its gather gave up.
LEMMA ReviewSays ==
    ASSUME NEW gather, NEW cached, Review(gather, cached) # Failed
    PROVE  Said(Review(gather, cached), gather.late)
<1> DEFINE r         == Results(gather, cached)
           facts     == [network |-> r.network.network, exposures |-> ExposureMap(r.network.network.listeners),
                         services |-> r.services.units, docker |-> r.docker, system |-> r.host.system]
           selection == ForHost(Config, Target)
           policy    == Config.policies[selection.name]
<1>1. PolicyFindings(selection, Config.policies, facts) \subseteq Review(gather, cached).findings
  BY DEF Review, Merged, Judged
<1>2. "network" \in gather.late => facts.network = NoNetwork
  BY DEF Results, Result
<1>3. "services" \in gather.late => facts.services = {}
  BY DEF Results, Result
<1>4. "docker" \in gather.late => facts.docker = NoDocker
  BY DEF Results, Result
<1> HIDE DEF facts
<1> SUFFICES ASSUME selection.kind = "matched"
             PROVE  /\ "network" \in gather.late /\ policy.expectedPorts \cup policy.forbiddenPorts # {} =>
                          Partial("network") \subseteq Review(gather, cached).findings
                    /\ "services" \in gather.late /\ policy.expectedServices \cup policy.forbiddenServices # {} =>
                          Partial("services") \subseteq Review(gather, cached).findings
                    /\ "docker" \in gather.late /\ policy.expectedContainers # {} =>
                          Partial("docker") \subseteq Review(gather, cached).findings
  BY Zenon DEF Said
<1>5. /\ PortFindings(policy, facts.network, facts.exposures) \subseteq Review(gather, cached).findings
      /\ ServiceFindings(policy, facts.services) \subseteq Review(gather, cached).findings
      /\ DockerPolicyFindings(policy, facts.docker) \subseteq Review(gather, cached).findings
  BY <1>1, ChecksAreFindings
<1> QED
  BY <1>2, <1>3, <1>4, <1>5, NoNetworkIsPartial, NoServicesIsPartial, NoDockerIsPartial

\* What a policy could not be checked against is said, whichever groups were cut off: the
\* empty results that stand for them (collect.rs) are told from empty hosts by the checks.
THEOREM LateSaid == Spec => []LateIsSaid
<1>1. Init => LateIsSaid
  BY DEF Init, LateIsSaid
<1>2. LateIsSaid /\ [Next]_vars => LateIsSaid'
  <2> SUFFICES ASSUME LateIsSaid, [Next]_vars
               PROVE  LateIsSaid'
    OBVIOUS
  <2>1. CASE screen' = screen
    BY <2>1 DEF LateIsSaid
  <2>2. CASE Apply
    <3> DEFINE gather == [seen |-> seen, late |-> late, faults |-> faults]
               review == Review(gather, Cached(screen))
    <3>1. CASE review = Failed
      BY <2>1, <2>2, <3>1 DEF Apply, Show
    <3>2. CASE review # Failed
      <4>1. screen'.review = review /\ screen'.late = late
        BY <2>2, <3>2 DEF Apply, Show
      <4>2. Said(review, late)
        BY <3>2, ReviewSays
      <4> HIDE DEF review
      <4> QED
        BY <4>1, <4>2 DEF LateIsSaid, Said
    <3> QED
      BY <3>1, <3>2
  <2> QED
    BY <2>1, <2>2 DEF Next, vars, Change, Start, Read, Timeout, screenVars, hostVars, gatherVars
<1> QED
  BY <1>1, <1>2, PTL DEF Spec

-------------------------------------------------------------------------------
(* The ids of the findings of each source: none belongs to the group of another. *)

HaveIds(findings, ids) == \A f \in findings : f.id \in ids

NetworkIds == {"ssh.root-login", "ssh.password-auth", "ssh.password-auth-default", "ssh.failed-logins",
               "sudo.grants", "sudo.nopasswd", "firewall.absent", "fs.world-writable", "fs.shadow-readable",
               "docker.socket-world-writable", "docker.socket-present", "suid.unexpected",
               "net.sensitive-port", "net.unidentified-listener", "cert.expired", "cert.expiring",
               "cert.self-signed", "policy.port.missing", "policy.port.forbidden"}
DatabaseIds == {"db.exposed", "db.redis.auth-unknown", "db.blocked", "db.replication", "db.recent-errors"}
DockerIds   == {"policy.container.missing", "policy.container.stopped", "policy.container.image",
                "policy.container.forbidden", "policy.image.forbidden", "docker.privileged",
                "docker.socket-mount", "docker.dangerous-mount", "docker.sensitive-port",
                "docker.unhealthy", "docker.restart-loop", "docker.latest-tag", "docker.no-mem-limit"}
CronIds     == {"cron.invalid-schedule", "cron.high-frequency", "cron.missing-script", "cron.duplicate",
                "cron.not-executable", "cron.world-writable-script", "cron.root-temp-script",
                "cron.no-logging"}
ServiceIds  == {"policy.service.missing", "policy.service.state", "policy.service.forbidden"}
HostIds     == {"policy.threshold.disk-critical", "policy.threshold.disk-warning", "policy.threshold.ram",
                "policy.threshold.load", "policy.config.missing"}

\* The groups of GroupOf are those of the sources.
LEMMA GroupOfIds ==
    ASSUME NEW f
    PROVE  /\ f.id \in NetworkIds => GroupOf(f) = "network"
           /\ f.id \in DatabaseIds => GroupOf(f) = "databases"
           /\ f.id \in DockerIds => GroupOf(f) = "docker"
           /\ f.id \in CronIds => GroupOf(f) = "crons"
           /\ f.id \in ServiceIds => GroupOf(f) = "services"
           /\ f.id \in HostIds => GroupOf(f) = "host"
           /\ f.id = "policy.partial" => GroupOf(f) = "host"
<1>1. f.id \in NetworkIds => f.id \notin DatabaseIds \cup DockerIds \cup CronIds \cup ServiceIds \cup HostIds \cup {"policy.partial"}
  BY DEF NetworkIds, DatabaseIds, DockerIds, CronIds, ServiceIds, HostIds
<1>2. f.id \in DatabaseIds => f.id \notin DockerIds \cup CronIds
  BY DEF DatabaseIds, DockerIds, CronIds
<1>3. f.id \in CronIds => f.id \notin DockerIds
  BY DEF DockerIds, CronIds
<1>4. f.id \in ServiceIds => f.id \notin DockerIds \cup CronIds \cup DatabaseIds
  BY DEF ServiceIds, DatabaseIds, DockerIds, CronIds
<1>5. f.id \in HostIds \cup {"policy.partial"} => f.id \notin DockerIds \cup CronIds \cup DatabaseIds \cup ServiceIds
  BY DEF ServiceIds, DatabaseIds, DockerIds, CronIds, HostIds
<1>6. GroupOf(f) = IF f.id \in DockerIds THEN "docker"
                   ELSE IF f.id \in CronIds THEN "crons"
                   ELSE IF f.id \in DatabaseIds THEN "databases"
                   ELSE IF f.id \in ServiceIds THEN "services"
                   ELSE IF f.id \in HostIds \cup {"policy.partial"} THEN "host" ELSE "network"
  BY DEF GroupOf, ServiceIds, DatabaseIds, DockerIds, CronIds, HostIds
<1> QED
  BY <1>1, <1>2, <1>3, <1>4, <1>5, <1>6

\* The id of a finding.
LEMMA FindingHasId == \A id, subject, severity : Finding(id, subject, severity).id = id
  BY DEF Finding

\* How the checks put their findings together.
LEMMA IdRules ==
    /\ \A S, T, X : HaveIds(S, X) /\ HaveIds(T, X) => HaveIds(S \cup T, X)
    /\ \A c, S, X : HaveIds(S, X) => HaveIds(When(c, S), X)
    /\ \A id, subject, severity, X : id \in X => HaveIds({Finding(id, subject, severity)}, X)
  BY FindingHasId DEF HaveIds, When

\* Of many sets of findings.
LEMMA UnionIds == \A SS, X : (\A S \in SS : HaveIds(S, X)) => HaveIds(UNION SS, X)
  BY DEF HaveIds

\* security_scan
LEMMA ScanIds ==
    ASSUME NEW a, NEW exposures PROVE HaveIds(SecurityScan(a, exposures), NetworkIds)
<1>0. /\ "ssh.root-login" \in NetworkIds /\ "ssh.password-auth" \in NetworkIds
      /\ "ssh.password-auth-default" \in NetworkIds /\ "ssh.failed-logins" \in NetworkIds
      /\ "sudo.grants" \in NetworkIds /\ "sudo.nopasswd" \in NetworkIds /\ "firewall.absent" \in NetworkIds
      /\ "fs.world-writable" \in NetworkIds /\ "fs.shadow-readable" \in NetworkIds
      /\ "docker.socket-world-writable" \in NetworkIds /\ "docker.socket-present" \in NetworkIds
      /\ "suid.unexpected" \in NetworkIds
      /\ "cert.expired" \in NetworkIds /\ "cert.expiring" \in NetworkIds /\ "cert.self-signed" \in NetworkIds
  BY DEF NetworkIds
<1> USE IdRules
<1>1. \A config : HaveIds(CheckSshdConfig(config), NetworkIds)
  <2> TAKE config
  <2> DEFINE password == SshdValue(config, "PasswordAuthentication")
  <2>1. HaveIds(When(SshdValue(config, "PermitRootLogin") = "yes", {Finding("ssh.root-login", "", "high")}), NetworkIds)
    BY <1>0, Zenon
  <2>2. /\ HaveIds(When(password = "yes", {Finding("ssh.password-auth", "", "high")}), NetworkIds)
        /\ HaveIds(When(password = "", {Finding("ssh.password-auth-default", "", "low")}), NetworkIds)
    BY <1>0, Zenon
  <2> QED
    BY <2>1, <2>2, Zenon DEF CheckSshdConfig
<1>2. \A count : HaveIds(CheckFailedLogins(count), NetworkIds)
  BY <1>0, Zenon DEF CheckFailedLogins, HaveIds
<1>3. \A grants : HaveIds(CheckSudo(grants), NetworkIds)
  BY <1>0, Zenon DEF CheckSudo
<1>4. \A detected : HaveIds(CheckFirewall(detected), NetworkIds)
  BY <1>0, Zenon DEF CheckFirewall
<1>5. \A stats : HaveIds(CheckFilePerms(stats), NetworkIds)
  <2> TAKE stats
  <2>1. HaveIds({Finding("fs.world-writable", f, "high") : f \in {g \in DOMAIN stats : stats[g].worldWritable}}, NetworkIds)
    BY <1>0, FindingHasId DEF HaveIds
  <2>2. HaveIds(When("/etc/shadow" \in DOMAIN stats /\ stats["/etc/shadow"].readable,
                     {Finding("fs.shadow-readable", "", "high")}), NetworkIds)
    BY <1>0, Zenon
  <2> QED
    BY <2>1, <2>2, Zenon DEF CheckFilePerms
<1>6. \A stats : HaveIds(CheckDockerSocket(stats), NetworkIds)
  BY <1>0, Zenon DEF CheckDockerSocket, HaveIds
<1>7. \A programs : HaveIds(CheckSuid(programs), NetworkIds)
  BY <1>0, Zenon DEF CheckSuid
<1>8. HaveIds(CheckExposedPorts(exposures), NetworkIds)
  BY FindingHasId DEF HaveIds, NetworkIds, CheckExposedPorts
<1>9. HaveIds(CertificateFindings(a), NetworkIds)
  <2>1. \A path, cert : HaveIds(CheckCertificate(path, cert), NetworkIds)
    BY <1>0, Zenon DEF CheckCertificate
  <2> DEFINE certs == OrElse(a["openssl x509"], <<>>)
             paths == DiscoverLocalCerts(OrElse(a["cert dirs"], <<>>)) \cap DOMAIN certs
  <2>2. CertificateFindings(a) = UNION {CheckCertificate(path, certs[path]) : path \in paths}
    BY Zenon DEF CertificateFindings
  <2> HIDE DEF certs, paths
  <2>3. \A S \in {CheckCertificate(path, certs[path]) : path \in paths} : HaveIds(S, NetworkIds)
    BY <2>1
  <2> QED
    BY <2>2, <2>3, UnionIds, Zenon
<1> QED
  BY <1>1, <1>2, <1>3, <1>4, <1>5, <1>6, <1>7, <1>8, <1>9, Zenon DEF HaveIds, SecurityScan

\* database_findings
LEMMA DatabaseFindingsIds == \A instances : HaveIds(DatabaseFindings(instances), DatabaseIds)
<1>0. /\ "db.exposed" \in DatabaseIds /\ "db.redis.auth-unknown" \in DatabaseIds /\ "db.blocked" \in DatabaseIds
      /\ "db.replication" \in DatabaseIds /\ "db.recent-errors" \in DatabaseIds
  BY DEF DatabaseIds
<1> USE IdRules
<1>1. \A i : HaveIds(InstanceFindings(i), DatabaseIds)
  <2> TAKE i
  <2>1. HaveIds({Finding("db.exposed", i.engine \o "." \o i.listener.port,
                         IF i.engine \in {"redis", "mongodb"} THEN "critical" ELSE "high")}, DatabaseIds)
    BY <1>0, Zenon
  <2>2. HaveIds(When(i.engine = "redis" /\ i.sources = {}, {Finding("db.redis.auth-unknown", "", "critical")}), DatabaseIds)
    BY <1>0, Zenon
  <2>3. /\ HaveIds(When(i.said.blocked > 0, {Finding("db.blocked", i.engine, "medium")}), DatabaseIds)
        /\ HaveIds(When(i.said.replication \cap Broken # {}, {Finding("db.replication", i.engine, "high")}), DatabaseIds)
        /\ HaveIds(When(i.errors # <<>>, {Finding("db.recent-errors", i.engine, "medium")}), DatabaseIds)
    BY <1>0, Zenon
  <2> QED
    BY <2>1, <2>2, <2>3, Zenon DEF InstanceFindings
<1> QED
  <2> TAKE instances
  <2>1. \A S \in {InstanceFindings(i) : i \in instances} : HaveIds(S, DatabaseIds)
    BY <1>1
  <2> QED
    BY <2>1, UnionIds, Zenon DEF DatabaseFindings

\* docker_findings
LEMMA DockerFindingsIds == \A inspects : HaveIds(DockerFindings(inspects), DockerIds)
<1>0. /\ "docker.privileged" \in DockerIds /\ "docker.socket-mount" \in DockerIds
      /\ "docker.dangerous-mount" \in DockerIds /\ "docker.sensitive-port" \in DockerIds
      /\ "docker.unhealthy" \in DockerIds /\ "docker.restart-loop" \in DockerIds
      /\ "docker.latest-tag" \in DockerIds /\ "docker.no-mem-limit" \in DockerIds
  BY DEF DockerIds
<1> USE IdRules
<1>1. \A c : HaveIds(SensitivePortFindings(c), DockerIds)
  <2> TAKE c
  <2>1. \A f \in SensitivePortFindings(c) : \E subject, severity : f = Finding("docker.sensitive-port", subject, severity)
    BY Zenon DEF SensitivePortFindings
  <2> QED
    BY <1>0, <2>1, FindingHasId DEF HaveIds
<1>2. \A c : HaveIds(CheckContainer(c), DockerIds)
  <2> TAKE c
  <2>1. /\ HaveIds(When(c.privileged, {Finding("docker.privileged", c.name, "high")}), DockerIds)
        /\ HaveIds(When(c.mounts \cap SocketMounts # {}, {Finding("docker.socket-mount", c.name, "critical")}), DockerIds)
        /\ HaveIds(When(c.mounts \cap DangerousMounts # {}, {Finding("docker.dangerous-mount", c.name, "high")}), DockerIds)
        /\ HaveIds(When(c.health = "unhealthy", {Finding("docker.unhealthy", c.name, "medium")}), DockerIds)
    BY <1>0, Zenon
  <2>2. /\ HaveIds(When(c.restartCount >= RestartLoopThreshold, {Finding("docker.restart-loop", c.name, "medium")}), DockerIds)
        /\ HaveIds(When(c.image \in FloatingImages, {Finding("docker.latest-tag", c.name, "low")}), DockerIds)
        /\ HaveIds(When(c.memoryLimit = 0, {Finding("docker.no-mem-limit", c.name, "low")}), DockerIds)
    BY <1>0, Zenon
  <2> DEFINE first == When(c.privileged, {Finding("docker.privileged", c.name, "high")})
                      \cup When(c.mounts \cap SocketMounts # {}, {Finding("docker.socket-mount", c.name, "critical")})
                      \cup When(c.mounts \cap DangerousMounts # {}, {Finding("docker.dangerous-mount", c.name, "high")})
                      \cup SensitivePortFindings(c)
  <2>3. HaveIds(first, DockerIds)
    BY <1>1, <2>1, Zenon
  <2> DEFINE second == When(c.health = "unhealthy", {Finding("docker.unhealthy", c.name, "medium")})
                      \cup When(c.restartCount >= RestartLoopThreshold, {Finding("docker.restart-loop", c.name, "medium")})
                      \cup When(c.image \in FloatingImages, {Finding("docker.latest-tag", c.name, "low")})
                      \cup When(c.memoryLimit = 0, {Finding("docker.no-mem-limit", c.name, "low")})
  <2>4. HaveIds(second, DockerIds)
    BY <2>1, <2>2, Zenon
  <2>5. CheckContainer(c) = first \cup second
    BY DEF CheckContainer
  <2> HIDE DEF first, second
  <2>6. HaveIds(first \cup second, DockerIds)
    BY <2>3, <2>4, Zenon
  <2> QED
    BY <2>5, <2>6
<1> QED
  <2> TAKE inspects
  <2>1. \A S \in {CheckContainer(c) : c \in inspects} : HaveIds(S, DockerIds)
    BY <1>2
  <2> QED
    BY <2>1, UnionIds, Zenon DEF DockerFindings

\* check_crons
LEMMA CronFindingsIds == \A a, entries : HaveIds(CronFindings(a, entries), CronIds)
<1>1. \A e, s : HaveIds(CheckSchedule(e, s), CronIds)
  BY FindingHasId DEF HaveIds, CronIds, CheckSchedule, When
<1>2. \A e, stats : HaveIds(CheckScript(e, stats), CronIds)
  BY FindingHasId DEF HaveIds, CronIds, CheckScript, When
<1>3. \A e, stats : HaveIds(CheckEntry(e, stats), CronIds)
  BY FindingHasId, <1>1, <1>2 DEF HaveIds, CronIds, CheckEntry, When
<1>4. \A entries : HaveIds(Duplicates(entries), CronIds)
  BY FindingHasId DEF HaveIds, CronIds, Duplicates
<1> QED
  <2> TAKE a, entries
  <2> DEFINE stats == StatScripts(a, ScriptPaths(entries))
  <2>3. CronFindings(a, entries) = (UNION {CheckEntry(e, stats) : e \in entries}) \cup Duplicates(entries)
    BY DEF CronFindings
  <2> DEFINE judged == {CheckEntry(e, stats) : e \in entries}
  <2>1. \A S \in judged : HaveIds(S, CronIds)
    <3> HIDE DEF stats
    <3> QED
      BY <1>3
  <2>2. HaveIds(UNION judged, CronIds)
    BY <2>1, UnionIds, Zenon
  <2>4. HaveIds(Duplicates(entries), CronIds)
    BY <1>4
  <2> HIDE DEF judged
  <2>5. HaveIds((UNION judged) \cup Duplicates(entries), CronIds)
    BY <2>2, <2>4, IdRules, Zenon
  <2> QED
    BY <2>3, <2>5 DEF judged

\* port_findings, service_findings, threshold_findings, docker_policy_findings: beside what
\* they say when there is nothing to check.
LEMMA PolicyIds ==
    ASSUME NEW policy
    PROVE  /\ \A network, exposures : HaveIds(PortFindings(policy, network, exposures) \ Partial("network"), NetworkIds)
           /\ \A services : HaveIds(ServiceFindings(policy, services) \ Partial("services"), ServiceIds)
           /\ \A system : HaveIds(ThresholdFindings(policy, system), HostIds)
           /\ \A docker : HaveIds(DockerPolicyFindings(policy, docker) \ Partial("docker"), DockerIds)
<1>1. \A network, exposures : HaveIds(PortFindings(policy, network, exposures) \ Partial("network"), NetworkIds)
  BY FindingHasId DEF HaveIds, NetworkIds, PortFindings
<1>2. \A services : HaveIds(ServiceFindings(policy, services) \ Partial("services"), ServiceIds)
  BY FindingHasId DEF HaveIds, ServiceIds, ServiceFindings
<1>3. \A system : HaveIds(ThresholdFindings(policy, system), HostIds)
  <2>0. /\ "policy.threshold.disk-critical" \in HostIds /\ "policy.threshold.disk-warning" \in HostIds
        /\ "policy.threshold.ram" \in HostIds /\ "policy.threshold.load" \in HostIds
    BY DEF HostIds
  <2> TAKE system
  <2> DEFINE Over(value, limit) == limit # Absent /\ value >= limit
             Critical == {d \in system.disks : Over(d.use, policy.diskCritical)}
             Warning  == {d \in system.disks \ Critical : Over(d.use, policy.diskWarning)}
  <2> USE IdRules
  <2>1. /\ HaveIds({Finding("policy.threshold.disk-critical", Stable(d.mount), "critical") : d \in Critical}, HostIds)
        /\ HaveIds({Finding("policy.threshold.disk-warning", Stable(d.mount), "high") : d \in Warning}, HostIds)
    <3> HIDE DEF Critical, Warning
    <3> QED
      BY <2>0, FindingHasId DEF HaveIds
  <2>2. /\ \A c : HaveIds(When(c, {Finding("policy.threshold.ram", "", "medium")}), HostIds)
        /\ \A c : HaveIds(When(c, {Finding("policy.threshold.load", "", "medium")}), HostIds)
    BY <2>0, Zenon
  <2> QED
    BY <2>1, <2>2, Zenon DEF ThresholdFindings
<1>4. \A docker : HaveIds(DockerPolicyFindings(policy, docker) \ Partial("docker"), DockerIds)
  BY FindingHasId DEF HaveIds, DockerIds, DockerPolicyFindings
<1> QED
  BY <1>1, <1>2, <1>3, <1>4

-------------------------------------------------------------------------------
(* Where a finding of a review comes from. *)

\* What merge_findings puts together.
Found(r) == r.network.findings \cup r.databases.findings \cup r.docker.findings
            \cup r.crons.findings \cup Judged(r)

\* merge_findings loses none and adds none.
LEMMA MergedFound == ASSUME NEW r, Merged(r) # Failed PROVE Merged(r).findings = Found(r)
  BY DEF Merged, Found

Chosen       == ForHost(Config, Target)
Matched      == Chosen.kind = "matched"
ChosenPolicy == Config.policies[Chosen.name]

PortsJudged(r) == PortFindings(ChosenPolicy, r.network.network, ExposureMap(r.network.network.listeners))
UnitsJudged(r) == ServiceFindings(ChosenPolicy, r.services.units)
LimitsJudged(r) == ThresholdFindings(ChosenPolicy, r.host.system)
DockerJudged(r) == DockerPolicyFindings(ChosenPolicy, r.docker)
Constants == (IF Matched THEN UnsupportedFactFindings(ChosenPolicy) ELSE {})
             \cup (IF Chosen.kind = "missing" THEN {Finding("policy.config.missing", Stable(Chosen.name), "medium")} ELSE {})

\* policy_findings, by what each check of a policy that applies looks at.
LEMMA JudgedIs ==
    ASSUME NEW r
    PROVE  Judged(r) = (IF Matched THEN PortsJudged(r) \cup UnitsJudged(r) \cup LimitsJudged(r) \cup DockerJudged(r) ELSE {})
                       \cup Constants
<1> DEFINE facts == [network |-> r.network.network, exposures |-> ExposureMap(r.network.network.listeners),
                     services |-> r.services.units, docker |-> r.docker, system |-> r.host.system]
<1>1. /\ PortFindings(ChosenPolicy, facts.network, facts.exposures) = PortsJudged(r)
      /\ ServiceFindings(ChosenPolicy, facts.services) = UnitsJudged(r)
      /\ ThresholdFindings(ChosenPolicy, facts.system) = LimitsJudged(r)
      /\ DockerPolicyFindings(ChosenPolicy, facts.docker) = DockerJudged(r)
  BY DEF PortsJudged, UnitsJudged, LimitsJudged, DockerJudged
<1>2. Judged(r) = PolicyFindings(Chosen, Config.policies, facts)
  BY DEF Judged, Chosen
<1> HIDE DEF facts
<1>3. CASE Matched
  <2>1. PolicyFindings(Chosen, Config.policies, facts)
            = PortFindings(ChosenPolicy, facts.network, facts.exposures)
              \cup ServiceFindings(ChosenPolicy, facts.services) \cup ThresholdFindings(ChosenPolicy, facts.system)
              \cup DockerPolicyFindings(ChosenPolicy, facts.docker) \cup UnsupportedFactFindings(ChosenPolicy)
    BY <1>3 DEF PolicyFindings, Matched, ChosenPolicy
  <2>2. Constants = UnsupportedFactFindings(ChosenPolicy)
    BY <1>3 DEF Constants, Matched
  <2> QED
    BY <1>1, <1>2, <1>3, <2>1, <2>2
<1>4. CASE ~Matched
  <2>1. PolicyFindings(Chosen, Config.policies, facts) = Constants
    BY <1>4 DEF PolicyFindings, Matched, Constants
  <2> QED
    BY <1>2, <1>4, <2>1
<1> QED
  BY <1>3, <1>4

\* The results have the findings of their own sources.
OwnIds(r) ==
    /\ HaveIds(r.network.findings, NetworkIds) /\ HaveIds(r.databases.findings, DatabaseIds)
    /\ HaveIds(r.docker.findings, DockerIds) /\ HaveIds(r.crons.findings, CronIds)

\* A finding is found where GroupOf says.
LEMMA SourceOf ==
    ASSUME NEW r, OwnIds(r), NEW f \in Found(r)
    PROVE  \/ GroupOf(f) = "network" /\ f \in r.network.findings
           \/ GroupOf(f) = "databases" /\ f \in r.databases.findings
           \/ GroupOf(f) = "docker" /\ f \in r.docker.findings
           \/ GroupOf(f) = "crons" /\ f \in r.crons.findings
           \/ GroupOf(f) = "network" /\ Matched /\ f \in PortsJudged(r)
           \/ GroupOf(f) = "services" /\ Matched /\ f \in UnitsJudged(r)
           \/ GroupOf(f) = "docker" /\ Matched /\ f \in DockerJudged(r)
           \/ GroupOf(f) = "host" /\ Matched /\ f \in LimitsJudged(r)
           \/ GroupOf(f) = "host" /\ Matched /\ f \in PortsJudged(r) \cap Partial("network")
           \/ GroupOf(f) = "host" /\ Matched /\ f \in UnitsJudged(r) \cap Partial("services")
           \/ GroupOf(f) = "host" /\ Matched /\ f \in DockerJudged(r) \cap Partial("docker")
           \/ GroupOf(f) = "host" /\ f \in Constants
<1>1. \A g : /\ g.id \in NetworkIds => GroupOf(g) = "network"
             /\ g.id \in DatabaseIds => GroupOf(g) = "databases"
             /\ g.id \in DockerIds => GroupOf(g) = "docker"
             /\ g.id \in CronIds => GroupOf(g) = "crons"
             /\ g.id \in ServiceIds => GroupOf(g) = "services"
             /\ g.id \in HostIds => GroupOf(g) = "host"
             /\ g.id = "policy.partial" => GroupOf(g) = "host"
  BY GroupOfIds
<1>2. /\ HaveIds(PortsJudged(r) \ Partial("network"), NetworkIds)
      /\ HaveIds(UnitsJudged(r) \ Partial("services"), ServiceIds)
      /\ HaveIds(LimitsJudged(r), HostIds)
      /\ HaveIds(DockerJudged(r) \ Partial("docker"), DockerIds)
  BY PolicyIds DEF PortsJudged, UnitsJudged, LimitsJudged, DockerJudged
<1>3. \A area : \A g \in Partial(area) : g.id = "policy.partial"
  BY FindingHasId DEF Partial
<1>4. \A g \in Constants : g.id \in HostIds \/ g.id = "policy.partial"
  <2>1. \A g \in UnsupportedFactFindings(ChosenPolicy) : g.id = "policy.partial"
    BY <1>3 DEF UnsupportedFactFindings, When
  <2>2. \A g \in {Finding("policy.config.missing", Stable(Chosen.name), "medium")} : g.id \in HostIds
    BY FindingHasId DEF HostIds
  <2> QED
    BY <2>1, <2>2 DEF Constants
<1>5. f \in r.network.findings \cup r.databases.findings \cup r.docker.findings \cup r.crons.findings \cup Judged(r)
  BY DEF Found
<1> QED
  BY <1>1, <1>2, <1>3, <1>4, <1>5, JudgedIs DEF OwnIds, HaveIds

\* The results of a gather are so.
LEMMA ResultsOwnIds == ASSUME NEW gather, NEW cached PROVE OwnIds(Results(gather, cached))
<1> DEFINE r == Results(gather, cached)
<1>1. HaveIds(r.network.findings, NetworkIds)
  <2>1. r.network.findings \in {{}, SecurityScan(Answers("network", gather),
                ExposureMap(CollectNetwork(Answers("network", gather),
                    [read |-> cached.statics # Absent, statics |-> cached.statics]).listeners))}
    BY DEF Results, Result, GatherNetwork
  <2> QED
    BY <2>1, ScanIds DEF HaveIds
<1>2. HaveIds(r.databases.findings, DatabaseIds)
  <2>1. r.databases.findings \in {{}, DatabaseFindings(CollectDatabases(Answers("databases", gather)))}
    BY DEF Results, Result, GatherDatabases, DatabaseReport
  <2> QED
    BY <2>1, DatabaseFindingsIds DEF HaveIds
<1>3. HaveIds(r.docker.findings, DockerIds)
  <2> DEFINE a == Answers("docker", gather)
  <2>1. r.docker.findings \in {{}, DockerFindings(Inspects(a, ParsePs(a["docker ps"])))}
    BY DEF Results, Result, GatherDocker, DockerDetails, NoDocker
  <2> HIDE DEF a
  <2> QED
    BY <2>1, DockerFindingsIds DEF HaveIds
<1>4. HaveIds(r.crons.findings, CronIds)
  <2> DEFINE a == Answers("crons", gather)
  <2>1. r.crons.findings \in {{}, CronFindings(a, CollectCronEntries(a))}
    BY DEF Results, Result, GatherCrons, CronReport
  <2> HIDE DEF a
  <2> QED
    BY <2>1, CronFindingsIds DEF HaveIds
<1> QED
  BY <1>1, <1>2, <1>3, <1>4 DEF OwnIds

-------------------------------------------------------------------------------
(* What groups read of a host that may change. *)

\* The groups of one and of two steps.
LEMMA ReadBy ==
    /\ Details["network"] = {} /\ Details["services"] = {} /\ Details["host"] = {}
    /\ Details["docker"] = {"docker inspect", "docker stats", "docker compose ls", "docker system df", "docker images dangling"}
    /\ Details["crons"] = {"stat scripts"}
    /\ Details["databases"] = {"--version", "credentials", "database stats", "journalctl -u database"}
    /\ Details["timers"] = {} /\ Details["packages"] = {}
  BY DEF Details, Groups

\* What is read in a second step is one of the reads.
LEMMA DetailsAreReads == \A g \in Groups : Details[g] \subseteq Reads
  BY ReadBy DEF Groups, Reads

\* The answers of the first and of the second step of a group.
FirstReads(g, a, b)  == \A r \in Reads \ Details[g] : a[r] = b[r]
SecondReads(g, a, b) == \A r \in Details[g] : a[r] = b[r]

\* Where no read fails, each step of a group is answered as by a host that stays as it is then.
LEMMA AnswersOfSteps ==
    ASSUME NEW gather, gather.faults = {}, NEW g \in Groups
    PROVE  /\ FirstReads(g, Answers(g, gather), Answers(g, Undisturbed(gather.seen[g][1])))
           /\ SecondReads(g, Answers(g, gather), Answers(g, Undisturbed(gather.seen[g][2])))
<1>1. \A r \in Reads : Answers(g, gather)[r] = Answer(gather.seen[g][IF r \in Details[g] THEN 2 ELSE 1], {}, r)
  BY DEF Answers
<1>2. \A w : \A r \in Reads : Answers(g, Undisturbed(w))[r] = Answer(w, {}, r)
  <2> TAKE w
  <2>1. Undisturbed(w).faults = {} /\ Undisturbed(w).seen[g] = <<w, w>>
    BY DEF Undisturbed
  <2>2. \A r : <<w, w>>[IF r \in Details[g] THEN 2 ELSE 1] = w
    OBVIOUS
  <2> QED
    BY <2>1, <2>2 DEF Answers
<1>3. Details[g] \subseteq Reads
  BY DetailsAreReads
<1> QED
  BY <1>1, <1>2, <1>3 DEF FirstReads, SecondReads

\* A group of one step sees the host as it was then.
LEMMA AnswersOfOneStep ==
    ASSUME NEW gather, gather.faults = {}, NEW g \in Groups, Details[g] = {}
    PROVE  Answers(g, gather) = Answers(g, Undisturbed(gather.seen[g][1]))
<1>1. FirstReads(g, Answers(g, gather), Answers(g, Undisturbed(gather.seen[g][1])))
  BY AnswersOfSteps
<1>2. \A h : Answers(g, h) = [r \in Reads |-> Answers(g, h)[r]]
  BY DEF Answers
<1> QED
  BY <1>1, <1>2 DEF FirstReads

\* collect_cron_entries reads in the first step.
LEMMA JobsOfFirstStep ==
    ASSUME NEW a, NEW b, FirstReads("crons", a, b)
    PROVE  CollectCronEntries(a) = CollectCronEntries(b)
<1> DEFINE Jobs(user, system, dir, files, anacron, periodic) ==
        ParseCrontab(OrElse(user, <<>>), "user")
        \cup ParseCrontab(OrElse(system, <<>>), "system")
        \cup (UNION {ParseCrontab(OrElse(files, [n \in {name} |-> <<>>])[name], "cron-d") :
                    name \in RunnableIn(OrElse(dir, {}))})
        \cup ParseAnacrontab(OrElse(anacron, <<>>))
        \cup UNION {{Entry(JobLine(Macro(PeriodicDirs[d]), "root", PeriodicScript(n)), "periodic", 0, TRUE) :
                        n \in RunnableIn(OrElse(periodic, [e \in {d} |-> {}])[d])} :
                    d \in DOMAIN PeriodicDirs}
<1>1. \A x : CollectCronEntries(x) = Jobs(x["crontab -l"], x["/etc/crontab"], x["/etc/cron.d"], x["/etc/cron.d/*"],
                                          x["/etc/anacrontab"], x["/etc/cron.periodic"])
  BY Zenon DEF CollectCronEntries
<1>2. /\ a["crontab -l"] = b["crontab -l"] /\ a["/etc/crontab"] = b["/etc/crontab"]
      /\ a["/etc/cron.d"] = b["/etc/cron.d"] /\ a["/etc/cron.d/*"] = b["/etc/cron.d/*"]
      /\ a["/etc/anacrontab"] = b["/etc/anacrontab"] /\ a["/etc/cron.periodic"] = b["/etc/cron.periodic"]
  BY ReadBy DEF FirstReads, Reads
<1> HIDE DEF Jobs
<1> QED
  BY <1>1, <1>2

\* So do the services and the listeners databases are detected by.
Detected(a) == DetectInstances(OrElse(CollectServices(a), {}), CollectListeners(a))

\* Databases are detected by what is read in the first step.
LEMMA DetectedByFirstStep ==
    ASSUME NEW a, NEW b, FirstReads("databases", a, b)
    PROVE  Detected(a) = Detected(b)
<1> DEFINE Listeners(sockets, cgroups) ==
        LET rows == OrElse(sockets, <<>>)
            Unit(pid) == LET groups == OrElse(cgroups, <<>>)
                         IN  IF pid \in DOMAIN groups THEN UnitFromCgroup(groups[pid]) ELSE None
        IN  {[protocol |-> rows[i].netid, ip |-> rows[i].ip, port |-> rows[i].port,
              process |-> IF ParseProcess(rows[i].users) = None THEN None ELSE rows[i].users.name,
              unit |-> Unit(ParseProcess(rows[i].users))] :
                i \in {j \in DOMAIN rows : IsListenerRow(rows[j])}}
<1>1. \A x : CollectListeners(x) = Listeners(x["ss -tulpn"], x["cgroups"])
  BY Zenon DEF CollectListeners, UnitOf
<1>2. /\ a["ss -tulpn"] = b["ss -tulpn"] /\ a["cgroups"] = b["cgroups"]
      /\ a["systemctl list-units"] = b["systemctl list-units"]
  BY ReadBy DEF FirstReads, Reads
<1>3. CollectServices(a) = CollectServices(b)
  BY <1>2, Zenon DEF CollectServices
<1> HIDE DEF Listeners
<1>4. CollectListeners(a) = CollectListeners(b)
  BY <1>1, <1>2
<1> QED
  BY <1>3, <1>4 DEF Detected

\* What gather_docker makes of its answers.
LEMMA DockerByReads ==
    ASSUME NEW a, NEW b, SecondReads("docker", a, b), a["docker ps"] = b["docker ps"]
    PROVE  GatherDocker(a) = GatherDocker(b)
<1>1. /\ a["docker inspect"] = b["docker inspect"] /\ a["docker stats"] = b["docker stats"]
      /\ a["docker compose ls"] = b["docker compose ls"] /\ a["docker system df"] = b["docker system df"]
      /\ a["docker images dangling"] = b["docker images dangling"]
  BY ReadBy DEF SecondReads
<1> DEFINE Documents(docs, containers) ==
        {ParseInspect(docs[c.id]) : c \in {d \in containers : d.id \in DOMAIN docs /\ docs[d.id] # Unreadable}}
<1>2. \A x, containers : Inspects(x, containers) = Documents(OrElse(x["docker inspect"], <<>>), containers)
  BY Zenon DEF Inspects
<1>3. ImageHygiene(a) = ImageHygiene(b)
  <2> DEFINE Hygiene(rows, dangling) ==
        LET images == {i \in Readable(rows) : rows[i].kind = "Images"}
            first  == rows[CHOOSE i \in images : \A j \in images : i <= j]
        IN  IF rows = Failed THEN NoImages
            ELSE [(IF images = {} THEN NoImages
                   ELSE [NoImages EXCEPT !.total = first.total, !.reclaimable = first.reclaimable])
                  EXCEPT !.dangling = OrElse(dangling, 0)]
  <2>1. \A x : ImageHygiene(x) = Hygiene(x["docker system df"], x["docker images dangling"])
    BY Zenon DEF ImageHygiene
  <2> HIDE DEF Hygiene
  <2> QED
    BY <1>1, <2>1
<1> HIDE DEF Documents
<1>4. Inspects(a, ParsePs(a["docker ps"])) = Inspects(b, ParsePs(b["docker ps"]))
  BY <1>1, <1>2
<1> QED
  BY <1>1, <1>3, <1>4, Zenon DEF GatherDocker, DockerDetails

-------------------------------------------------------------------------------
(* Groups of two steps: what both states earn, the first when it is listed and the second
   when it is looked at, is found. *)

\* What the checks say of a script, by what its jobs and stat say.
LEMMA ScriptSays ==
    ASSUME NEW e, NEW stats, NEW f
    PROVE  f \in CheckScript(e, stats) <=>
        LET path == e.command.script
        IN  /\ path # NoScript
            /\ \/ path \notin DOMAIN stats /\ f = Finding("cron.missing-script", path, "medium")
               \/ path \in DOMAIN stats /\ ~stats[path].executable /\ f = Finding("cron.not-executable", path, "medium")
               \/ /\ e.user = "root" /\ path \in DOMAIN stats /\ stats[path].worldWritable
                  /\ f = Finding("cron.world-writable-script", path, "high")
               \/ e.user = "root" /\ path \in TempScripts /\ f = Finding("cron.root-temp-script", path, "high")
  BY DEF CheckScript, When

\* Of the findings of a job those that stat decides.
StatIds == {"cron.missing-script", "cron.not-executable", "cron.world-writable-script"}

\* A job with findings is active, and what stat decides is found by check_script.
LEMMA StatFindings ==
    ASSUME NEW e, NEW stats, NEW f \in CheckEntry(e, stats)
    PROVE  e.enabled /\ (f.id \in StatIds => f \in CheckScript(e, stats))
<1>1. e.enabled
  BY DEF CheckEntry
<1>2. \/ f \in CheckSchedule(e, ParseSchedule(e.schedule)) \/ f \in CheckScript(e, stats)
      \/ f = Finding("cron.no-logging", e.command.script, "info")
  BY <1>1 DEF CheckEntry, When
<1>3. f \in CheckSchedule(e, ParseSchedule(e.schedule)) => f.id \in {"cron.invalid-schedule", "cron.high-frequency"}
  BY FindingHasId DEF CheckSchedule, When
<1> QED
  BY <1>1, <1>2, <1>3, FindingHasId DEF StatIds

\* The others do not look at it.
LEMMA OtherFindings ==
    ASSUME NEW e, NEW stats, NEW others, NEW f \in CheckEntry(e, stats), f.id \notin StatIds
    PROVE  f \in CheckEntry(e, others)
<1>1. e.enabled
  BY StatFindings
<1>2. f \in CheckScript(e, stats) => f \in CheckScript(e, others)
  <2> SUFFICES ASSUME f \in CheckScript(e, stats) PROVE f \in CheckScript(e, others)
    OBVIOUS
  <2> DEFINE path == e.command.script
  <2>1. path # NoScript /\ e.user = "root" /\ path \in TempScripts /\ f = Finding("cron.root-temp-script", path, "high")
    BY ScriptSays, FindingHasId DEF StatIds
  <2> QED
    BY <2>1, ScriptSays
<1> QED
  BY <1>1, <1>2 DEF CheckEntry

\* A finding of check_crons is that of a job or of jobs that are twice there.
LEMMA FoundOfJobs ==
    ASSUME NEW a, NEW entries, NEW f
    PROVE  f \in CronFindings(a, entries) <=>
              \/ \E e \in entries : f \in CheckEntry(e, StatScripts(a, ScriptPaths(entries)))
              \/ f \in Duplicates(entries)
<1> DEFINE stats == StatScripts(a, ScriptPaths(entries))
<1>1. CronFindings(a, entries) = (UNION {CheckEntry(e, stats) : e \in entries}) \cup Duplicates(entries)
  BY DEF CronFindings
<1> HIDE DEF stats
<1>2. f \in CronFindings(a, entries) <=> (\E e \in entries : f \in CheckEntry(e, stats)) \/ f \in Duplicates(entries)
  BY <1>1
<1> QED
  BY <1>2 DEF stats

\* What stat says of the script of a job that is active.
LEMMA StatOf ==
    ASSUME NEW a, NEW entries, NEW e \in entries, e.enabled, e.command.script # NoScript
    PROVE  LET path == e.command.script
               stats == StatScripts(a, ScriptPaths(entries))
               found == OrElse(a["stat scripts"], <<>>)
           IN  /\ path \in DOMAIN stats <=> path \in DOMAIN found
               /\ path \in DOMAIN stats => stats[path] = found[path]
<1> DEFINE path == e.command.script
           found == OrElse(a["stat scripts"], <<>>)
<1>1. path \in ScriptPaths(entries)
  BY DEF ScriptPaths
<1>2. StatScripts(a, ScriptPaths(entries)) = [p \in ScriptPaths(entries) \cap DOMAIN found |-> found[p]]
  BY DEF StatScripts
<1> HIDE DEF found
<1>3. /\ path \in DOMAIN StatScripts(a, ScriptPaths(entries)) <=> path \in DOMAIN found
      /\ path \in DOMAIN found => StatScripts(a, ScriptPaths(entries))[path] = found[path]
  BY <1>1, <1>2
<1> QED
  BY <1>3 DEF found

\* gather_crons: the jobs of the first state, the scripts of the second.
LEMMA JobsFound ==
    ASSUME NEW a, NEW b, NEW c, FirstReads("crons", a, b), SecondReads("crons", a, c),
           NEW f, f \in GatherCrons(b).findings, f \in GatherCrons(c).findings
    PROVE  f \in GatherCrons(a).findings
<1> DEFINE first  == CollectCronEntries(b)
           second == CollectCronEntries(c)
<1>1. CollectCronEntries(a) = first /\ a["stat scripts"] = c["stat scripts"]
  BY JobsOfFirstStep, ReadBy DEF SecondReads
<1>2. /\ GatherCrons(b).findings = CronFindings(b, first) /\ GatherCrons(c).findings = CronFindings(c, second)
      /\ GatherCrons(a).findings = CronFindings(a, first)
  BY <1>1 DEF GatherCrons, CronReport
<1> HIDE DEF first, second
<1> DEFINE stats == StatScripts(a, ScriptPaths(first))
<1>3. CASE f \in Duplicates(first)
  BY <1>2, <1>3, FoundOfJobs
<1>4. CASE f \notin Duplicates(first)
  <2>1. PICK e \in first : f \in CheckEntry(e, StatScripts(b, ScriptPaths(first)))
    BY <1>2, <1>4, FoundOfJobs
  <2>2. CASE f.id \notin StatIds
    <3>1. f \in CheckEntry(e, stats)
      BY <2>1, <2>2, OtherFindings
    <3> QED
      BY <1>2, <3>1, FoundOfJobs
  <2>3. CASE f.id \in StatIds
    <3>1. f \notin Duplicates(second)
      BY <2>3, FindingHasId DEF Duplicates, StatIds
    <3>2. PICK d \in second : f \in CheckEntry(d, StatScripts(c, ScriptPaths(second)))
      BY <1>2, <3>1, FoundOfJobs
    <3> DEFINE before == StatScripts(b, ScriptPaths(first))
               after  == StatScripts(c, ScriptPaths(second))
               path   == e.command.script
    <3>3. e.enabled /\ f \in CheckScript(e, before) /\ d.enabled /\ f \in CheckScript(d, after)
      BY <2>1, <2>3, <3>2, StatFindings
    <3> HIDE DEF before, after, stats
    <3>4. path # NoScript /\ d.command.script = path
      BY <3>3, ScriptSays DEF Finding
    <3> DEFINE found == OrElse(c["stat scripts"], <<>>)
    <3>5. /\ path \in DOMAIN stats <=> path \in DOMAIN found
          /\ path \in DOMAIN stats => stats[path] = found[path]
      <4>1. OrElse(a["stat scripts"], <<>>) = found
        BY <1>1
      <4>2. /\ path \in DOMAIN stats <=> path \in DOMAIN OrElse(a["stat scripts"], <<>>)
            /\ path \in DOMAIN stats => stats[path] = OrElse(a["stat scripts"], <<>>)[path]
        BY <3>3, <3>4, StatOf DEF stats
      <4> HIDE DEF found
      <4> QED
        BY <4>1, <4>2
    <3>6. /\ path \in DOMAIN after <=> path \in DOMAIN found
          /\ path \in DOMAIN after => after[path] = found[path]
      BY <3>3, <3>4, StatOf DEF after
    <3> HIDE DEF found
    <3>7. f \in CheckScript(e, stats)
      BY <2>3, <3>3, <3>4, <3>5, <3>6, ScriptSays DEF Finding, StatIds
    <3>8. f \in CheckEntry(e, stats)
      BY <3>3, <3>7 DEF CheckEntry
    <3> QED
      BY <1>2, <3>8, FoundOfJobs DEF stats
  <2> QED
    BY <2>2, <2>3
<1> QED
  BY <1>3, <1>4

\* The findings of an instance, one by one.
ExposedAt(i)    == Finding("db.exposed", i.engine \o "." \o i.listener.port,
                           IF i.engine \in {"redis", "mongodb"} THEN "critical" ELSE "high")
AuthUnknown     == Finding("db.redis.auth-unknown", "", "critical")
SaidOf(i) == When(i.said.blocked > 0, {Finding("db.blocked", i.engine, "medium")})
             \cup When(i.said.replication \cap Broken # {}, {Finding("db.replication", i.engine, "high")})
             \cup When(i.errors # <<>>, {Finding("db.recent-errors", i.engine, "medium")})

\* What database_findings finds of one instance.
LEMMA FoundOfInstance ==
    ASSUME NEW i, NEW f
    PROVE  f \in InstanceFindings(i) <=>
              \/ External(i) /\ f = ExposedAt(i)
              \/ External(i) /\ i.engine = "redis" /\ i.sources = {} /\ f = AuthUnknown
              \/ f \in SaidOf(i)
<1>1. InstanceFindings(i) = When(External(i), {ExposedAt(i)} \cup When(i.engine = "redis" /\ i.sources = {}, {AuthUnknown}))
                            \cup SaidOf(i)
  <2>1. InstanceFindings(i) = When(External(i), {ExposedAt(i)} \cup When(i.engine = "redis" /\ i.sources = {}, {AuthUnknown}))
                            \cup When(i.said.blocked > 0, {Finding("db.blocked", i.engine, "medium")})
                            \cup When(i.said.replication \cap Broken # {}, {Finding("db.replication", i.engine, "high")})
                            \cup When(i.errors # <<>>, {Finding("db.recent-errors", i.engine, "medium")})
    BY Zenon DEF InstanceFindings, ExposedAt, AuthUnknown
  <2> QED
    BY <2>1 DEF SaidOf
<1> QED
  BY <1>1 DEF When

SaidIds == {"db.blocked", "db.replication", "db.recent-errors"}

\* Their ids.
LEMMA InstanceIds ==
    ASSUME NEW i
    PROVE  ExposedAt(i).id = "db.exposed" /\ AuthUnknown.id = "db.redis.auth-unknown" /\ HaveIds(SaidOf(i), SaidIds)
<1>1. HaveIds(SaidOf(i), SaidIds)
  BY FindingHasId DEF HaveIds, SaidOf, SaidIds, When
<1>2. AuthUnknown.id = "db.redis.auth-unknown"
  BY FindingHasId, Zenon DEF AuthUnknown
<1>3. ExposedAt(i).id = "db.exposed"
  BY FindingHasId, Zenon DEF ExposedAt
<1> QED
  BY <1>1, <1>2, <1>3

\* The instance DatabaseCollector makes of what it detected.
InstanceOf(a, d) ==
    [engine |-> d.engine, service |-> d.service, listener |-> d.listener,
     version |-> CollectVersion(a, d.engine), sources |-> CredentialSources(a, d.engine),
     said    |-> Ask(a, d.engine, d.listener,
                     [Unsaid EXCEPT !.connections = ConnectionSummary(d.listener, CollectConnections(a))]),
     errors  |-> RecentErrors(a, d.service)]

\* A finding of gather_databases is that of an instance it detected.
LEMMA FoundOfDatabases ==
    ASSUME NEW a, NEW f
    PROVE  f \in GatherDatabases(a).findings <=> \E d \in Detected(a) : f \in InstanceFindings(InstanceOf(a, d))
<1>1. CollectDatabases(a) = {InstanceOf(a, d) : d \in Detected(a)}
  BY Zenon DEF CollectDatabases, InstanceOf, Detected
<1>2. GatherDatabases(a).findings = UNION {InstanceFindings(i) : i \in CollectDatabases(a)}
  BY DEF GatherDatabases, DatabaseReport, DatabaseFindings
<1> QED
  BY <1>1, <1>2

\* What of an instance does not depend on what its engine says.
LEMMA InstanceHas ==
    ASSUME NEW a, NEW d
    PROVE  /\ InstanceOf(a, d).engine = d.engine /\ InstanceOf(a, d).listener = d.listener
           /\ InstanceOf(a, d).sources = CredentialSources(a, d.engine)
           /\ InstanceOf(a, d).errors = RecentErrors(a, d.service)
           /\ External(InstanceOf(a, d)) <=> d.listener # NoListener /\ ~Loopback(d.listener.ip)
           /\ ExposedAt(InstanceOf(a, d)) = Finding("db.exposed", d.engine \o "." \o d.listener.port,
                                                    IF d.engine \in {"redis", "mongodb"} THEN "critical" ELSE "high")
<1> DEFINE said == Ask(a, d.engine, d.listener,
                     [Unsaid EXCEPT !.connections = ConnectionSummary(d.listener, CollectConnections(a))])
<1>1. InstanceOf(a, d) = [engine |-> d.engine, service |-> d.service, listener |-> d.listener,
                          version |-> CollectVersion(a, d.engine), sources |-> CredentialSources(a, d.engine),
                          said |-> said, errors |-> RecentErrors(a, d.service)]
  BY Zenon DEF InstanceOf
<1> HIDE DEF said
<1> QED
  BY <1>1 DEF External, ExposedAt

\* A Redis says all of its replication.
LEMMA RedisSaysAll ==
    ASSUME NEW s, NEW t, NEW info
    PROVE  ApplyRedis(s, info).replication = ApplyRedis(t, info).replication
  BY DEF ApplyRedis

\* Whether an engine is asked, and where.
SamePort(l, m) == (l = NoListener <=> m = NoListener) /\ l.port = m.port

\* What is said of the work and the replication of an instance.
SameSummary(s, t) == s.blocked = t.blocked /\ s.replication = t.replication

\* What an engine says to be blocked and of its replication is the same wherever it is asked.
LEMMA AskedTheSame ==
    ASSUME NEW a, NEW c, a["database stats"] = c["database stats"], NEW e \in Engines,
           NEW l, NEW m, SamePort(l, m), NEW s, NEW t, SameSummary(s, t)
    PROVE  SameSummary(Ask(a, e, l, s), Ask(c, e, m, t))
<1> DEFINE stats == OrElse(c["database stats"], <<>>)
<1>1. OrElse(a["database stats"], <<>>) = stats /\ (l = NoListener <=> m = NoListener) /\ l.port = m.port
  BY DEF SamePort
<1> USE DEF SameSummary
<1> HIDE DEF stats
<1>2. CASE l = NoListener \/ l.port \notin DOMAIN stats
  <2>1. Ask(a, e, l, s) = s
    BY <1>1, <1>2 DEF Ask
  <2>2. Ask(c, e, m, t) = t
    BY <1>1, <1>2 DEF Ask, stats
  <2> QED
    BY <2>1, <2>2
<1>3. CASE ~(l = NoListener \/ l.port \notin DOMAIN stats)
  <2> DEFINE answer == stats[l.port]
  <2>1. CASE e = "redis"
    <3>1. Ask(a, e, l, s) = ApplyRedis(s, answer)
      BY <1>1, <1>3, <2>1 DEF Ask
    <3>2. Ask(c, e, m, t) = ApplyRedis(t, answer)
      BY <1>1, <1>3, <2>1 DEF Ask, stats
    <3> HIDE DEF answer
    <3>3. ApplyRedis(s, answer).blocked = ApplyRedis(t, answer).blocked
      BY DEF ApplyRedis
    <3>4. ApplyRedis(s, answer).replication = ApplyRedis(t, answer).replication
      BY RedisSaysAll, Zenon
    <3> QED
      BY <3>1, <3>2, <3>3, <3>4
  <2>2. CASE e = "postgresql"
    <3>1. Ask(a, e, l, s) = ApplyPostgres(s, answer)
      BY <1>1, <1>3, <2>2 DEF Ask
    <3>2. Ask(c, e, m, t) = ApplyPostgres(t, answer)
      BY <1>1, <1>3, <2>2 DEF Ask, stats
    <3> HIDE DEF answer
    <3>3. ApplyPostgres(s, answer).blocked = ApplyPostgres(t, answer).blocked
      BY DEF ApplyPostgres
    <3>4. ApplyPostgres(s, answer).replication = ApplyPostgres(t, answer).replication
      BY DEF ApplyPostgres
    <3> QED
      BY <3>1, <3>2, <3>3, <3>4
  <2>3. CASE e = "mysql"
    <3>1. Ask(a, e, l, s) = ApplyMysql(s, answer)
      BY <1>1, <1>3, <2>3 DEF Ask
    <3>2. Ask(c, e, m, t) = ApplyMysql(t, answer)
      BY <1>1, <1>3, <2>3 DEF Ask, stats
    <3> HIDE DEF answer
    <3>3. ApplyMysql(s, answer).blocked = ApplyMysql(t, answer).blocked
      BY DEF ApplyMysql
    <3>4. ApplyMysql(s, answer).replication = ApplyMysql(t, answer).replication
      BY DEF ApplyMysql
    <3> QED
      BY <3>1, <3>2, <3>3, <3>4
  <2>4. CASE e = "mongodb"
    <3>1. Ask(a, e, l, s) = ApplyMongo(s, answer)
      BY <1>1, <1>3, <2>4 DEF Ask
    <3>2. Ask(c, e, m, t) = ApplyMongo(t, answer)
      BY <1>1, <1>3, <2>4 DEF Ask, stats
    <3> HIDE DEF answer
    <3>3. ApplyMongo(s, answer).blocked = ApplyMongo(t, answer).blocked
      BY DEF ApplyMongo
    <3>4. ApplyMongo(s, answer).replication = ApplyMongo(t, answer).replication
      BY DEF ApplyMongo
    <3> QED
      BY <3>1, <3>2, <3>3, <3>4
  <2> QED
    BY <2>1, <2>2, <2>3, <2>4 DEF Engines
<1> QED
  BY <1>2, <1>3

\* What is detected is an instance of an engine.
LEMMA DetectedEngine == ASSUME NEW a, NEW d \in Detected(a) PROVE d.engine \in Engines
<1> DEFINE services  == OrElse(CollectServices(a), {})
           listeners == CollectListeners(a)
<1>1. \A text : EngineFromText(text) \in Engines \cup {None}
  BY DEF EngineFromText
<1>2. \A l : EngineForListener(l) \in Engines \cup {None}
  BY <1>1 DEF EngineForListener
<1> HIDE DEF services, listeners
<1>3. d \in DetectInstances(services, listeners)
  BY DEF Detected, services, listeners
<1>4. CASE \E l \in listeners : EngineForListener(l) # None
             /\ d = Instance(EngineForListener(l), ServiceForListener(l, EngineForListener(l), services), l)
  BY <1>2, <1>4 DEF Instance
<1>5. CASE \E e \in Engines : \E s : d = Instance(e, s, NoListener)
  BY <1>5 DEF Instance
<1> QED
  BY <1>3, <1>4, <1>5 DEF DetectInstances

\* By what the second step is directed, as AskedFor says it.
AskedBy(a) ==
    {[engine |-> i.engine, service |-> i.service, listens |-> i.listener # NoListener, port |-> i.listener.port] :
        i \in Detected(a)}

\* What an instance says is the same wherever its engine is asked, and its journal read.
LEMMA SaidTheSame ==
    ASSUME NEW a, NEW c, SecondReads("databases", a, c), NEW d, NEW e, d.engine = e.engine, e.engine \in Engines,
           d.service = e.service, SamePort(d.listener, e.listener)
    PROVE  SaidOf(InstanceOf(a, d)) = SaidOf(InstanceOf(c, e))
<1> DEFINE s == [Unsaid EXCEPT !.connections = ConnectionSummary(d.listener, CollectConnections(a))]
           t == [Unsaid EXCEPT !.connections = ConnectionSummary(e.listener, CollectConnections(c))]
<1>1. a["database stats"] = c["database stats"] /\ a["journalctl -u database"] = c["journalctl -u database"]
  BY ReadBy DEF SecondReads
<1>2. SameSummary(s, t)
  BY DEF Unsaid, SameSummary
<1>3. /\ InstanceOf(a, d).said = Ask(a, d.engine, d.listener, s) /\ InstanceOf(c, e).said = Ask(c, e.engine, e.listener, t)
      /\ InstanceOf(a, d).errors = RecentErrors(a, d.service) /\ InstanceOf(c, e).errors = RecentErrors(c, e.service)
      /\ InstanceOf(a, d).engine = d.engine /\ InstanceOf(c, e).engine = e.engine
  BY Zenon DEF InstanceOf
<1> HIDE DEF s, t
<1>4. SameSummary(Ask(a, e.engine, d.listener, s), Ask(c, e.engine, e.listener, t))
  BY <1>1, <1>2, AskedTheSame, Zenon
<1>5. RecentErrors(a, d.service) = RecentErrors(c, e.service)
  BY <1>1, Zenon DEF RecentErrors
<1>6. \A i : SaidOf(i) = When(i.said.blocked > 0, {Finding("db.blocked", i.engine, "medium")})
                         \cup When(i.said.replication \cap Broken # {}, {Finding("db.replication", i.engine, "high")})
                         \cup When(i.errors # <<>>, {Finding("db.recent-errors", i.engine, "medium")})
  BY DEF SaidOf
<1> QED
  BY <1>3, <1>4, <1>5, <1>6 DEF SameSummary

\* gather_databases: the instances of the first state, what they say in the second.
LEMMA InstancesFound ==
    ASSUME NEW a, NEW b, NEW c, FirstReads("databases", a, b), SecondReads("databases", a, c),
           NEW f, f \in GatherDatabases(b).findings, f \in GatherDatabases(c).findings,
           f.id \in SaidIds => AskedBy(b) = AskedBy(c)
    PROVE  f \in GatherDatabases(a).findings
<1>1. Detected(a) = Detected(b)
  BY DetectedByFirstStep
<1>2. PICK d \in Detected(b) : f \in InstanceFindings(InstanceOf(b, d))
  BY FoundOfDatabases
<1>3. PICK e \in Detected(c) : f \in InstanceFindings(InstanceOf(c, e))
  BY FoundOfDatabases
<1>4. CASE External(InstanceOf(b, d)) /\ f = ExposedAt(InstanceOf(b, d))
  <2>1. External(InstanceOf(a, d)) /\ ExposedAt(InstanceOf(a, d)) = f
    BY <1>4, InstanceHas
  <2>2. f \in InstanceFindings(InstanceOf(a, d))
    BY <2>1, FoundOfInstance
  <2> QED
    BY <1>1, <2>2, FoundOfDatabases
<1>5. CASE External(InstanceOf(b, d)) /\ InstanceOf(b, d).engine = "redis" /\ f = AuthUnknown
  <2>1. InstanceOf(c, e).engine = "redis" /\ InstanceOf(c, e).sources = {}
    BY <1>3, <1>5, FoundOfInstance, InstanceIds DEF HaveIds, SaidIds
  <2>2. CredentialSources(c, "redis") = {}
    BY <2>1, InstanceHas
  <2>3. a["credentials"] = c["credentials"]
    BY ReadBy DEF SecondReads
  <2>4. CredentialSources(a, "redis") = CredentialSources(c, "redis")
    BY <2>3, Zenon DEF CredentialSources
  <2>5. d.engine = "redis"
    BY <1>5, InstanceHas
  <2>6. /\ External(InstanceOf(a, d)) /\ InstanceOf(a, d).engine = "redis"
        /\ InstanceOf(a, d).sources = CredentialSources(a, d.engine)
    BY <1>5, <2>5, InstanceHas
  <2>7. f \in InstanceFindings(InstanceOf(a, d))
    BY <1>5, <2>2, <2>4, <2>5, <2>6, FoundOfInstance
  <2> QED
    BY <1>1, <2>7, FoundOfDatabases
<1>6. CASE f \in SaidOf(InstanceOf(b, d))
  <2>1. f.id \in SaidIds
    BY <1>6, InstanceIds DEF HaveIds
  <2>2. f \in SaidOf(InstanceOf(c, e))
    BY <1>3, <2>1, FoundOfInstance, InstanceIds DEF SaidIds
  <2>3. [engine |-> e.engine, service |-> e.service, listens |-> e.listener # NoListener, port |-> e.listener.port]
            \in AskedBy(b)
    BY <2>1 DEF AskedBy
  <2>4. PICK g \in Detected(b) : [engine |-> g.engine, service |-> g.service, listens |-> g.listener # NoListener, port |-> g.listener.port]
                = [engine |-> e.engine, service |-> e.service, listens |-> e.listener # NoListener, port |-> e.listener.port]
    BY <2>3 DEF AskedBy
  <2>5. g.engine = e.engine /\ g.service = e.service /\ SamePort(g.listener, e.listener)
    BY <2>4 DEF SamePort
  <2>6. SaidOf(InstanceOf(a, g)) = SaidOf(InstanceOf(c, e))
    BY <1>3, <2>5, DetectedEngine, SaidTheSame
  <2>7. f \in InstanceFindings(InstanceOf(a, g))
    BY <2>2, <2>6, FoundOfInstance
  <2> QED
    BY <1>1, <2>4, <2>7, FoundOfDatabases
<1> QED
  BY <1>2, <1>4, <1>5, <1>6, FoundOfInstance

-------------------------------------------------------------------------------
(* The results of a gather, by what its groups read. *)

\* Of a group that was not cut off it is what it collected, of one that was what stands for it.
LEMMA ResultsAre ==
    ASSUME NEW gather, NEW cached
    PROVE  LET r == Results(gather, cached)
               a(g) == Answers(g, gather)
           IN  /\ "network" \notin gather.late => r.network = GatherNetwork(a("network"), cached.statics)
               /\ "databases" \notin gather.late => r.databases = GatherDatabases(a("databases"))
               /\ "docker" \notin gather.late => r.docker = GatherDocker(a("docker"))
               /\ "crons" \notin gather.late => r.crons = GatherCrons(a("crons"))
               /\ "services" \notin gather.late => r.services = GatherServices(a("services"))
               /\ "host" \notin gather.late => r.host = CollectHostReport(a("host"), cached.identity)
               /\ "network" \in gather.late => r.network.network = NoNetwork /\ r.network.findings = {}
               /\ "databases" \in gather.late => r.databases.findings = {}
               /\ "docker" \in gather.late => r.docker = NoDocker
               /\ "crons" \in gather.late => r.crons.findings = {}
               /\ "services" \in gather.late => r.services.units = {}
               /\ "host" \in gather.late => r.host = Failed
  BY DEF Results, Result

\* The results for a host that stays as it is.
CleanResults(w) == Results(Undisturbed(w), Cached(NoScreen))

\* There every group has collected, and nothing is reused.
LEMMA CleanResultsAre ==
    ASSUME NEW w
    PROVE  LET r == CleanResults(w)
               a(g) == Answers(g, Undisturbed(w))
           IN  /\ r.network = GatherNetwork(a("network"), Absent)
               /\ r.databases = GatherDatabases(a("databases")) /\ r.docker = GatherDocker(a("docker"))
               /\ r.crons = GatherCrons(a("crons")) /\ r.services = GatherServices(a("services"))
               /\ r.host = CollectHostReport(a("host"), Absent)
<1>1. Undisturbed(w).late = {} /\ Cached(NoScreen).statics = Absent /\ Cached(NoScreen).identity = Absent
  BY DEF Undisturbed, Cached
<1> QED
  BY <1>1, ResultsAre DEF CleanResults

\* gather_network: its listeners and findings, and that it is not taken for one given up.
LEMMA NetworkIs ==
    ASSUME NEW a, NEW statics
    PROVE  /\ GatherNetwork(a, statics).network.listeners = CollectListeners(a)
           /\ GatherNetwork(a, statics).findings = SecurityScan(a, ExposureMap(CollectListeners(a)))
           /\ GatherNetwork(a, statics).network.statics = IF statics # Absent THEN statics ELSE CollectStatics(a)
<1> DEFINE network == CollectNetwork(a, [read |-> statics # Absent, statics |-> statics])
<1>1. /\ network.listeners = CollectListeners(a)
      /\ network.statics = IF statics # Absent THEN statics ELSE CollectStatics(a)
  BY DEF CollectNetwork
<1>2. /\ GatherNetwork(a, statics).network = network
      /\ GatherNetwork(a, statics).findings = SecurityScan(a, ExposureMap(network.listeners))
  BY DEF GatherNetwork
<1> HIDE DEF network
<1> QED
  BY <1>1, <1>2

\* port_findings of a network that was read.
LEMMA PortsOfListeners ==
    ASSUME NEW policy, NEW n, NEW m, n.listeners = m.listeners, n # NoNetwork, m # NoNetwork, NEW exposures
    PROVE  /\ PortFindings(policy, n, exposures) = PortFindings(policy, m, exposures)
           /\ HaveIds(PortFindings(policy, n, exposures), NetworkIds)
<1> DEFINE Ports(listeners) ==
        LET open == {l.port : l \in listeners}
        IN  IF policy.expectedPorts \cup policy.forbiddenPorts = {} THEN {}
            ELSE {Finding("policy.port.missing", p, "medium") : p \in policy.expectedPorts \ open}
                 \cup {Finding("policy.port.forbidden", p, ForbiddenPortSeverity(p, exposures)) :
                        p \in policy.forbiddenPorts \cap open}
<1>1. \A x : x # NoNetwork => PortFindings(policy, x, exposures) = Ports(x.listeners)
  BY Zenon DEF PortFindings
<1>2. HaveIds(Ports(n.listeners), NetworkIds)
  BY FindingHasId DEF HaveIds, NetworkIds
<1> HIDE DEF Ports
<1> QED
  BY <1>1, <1>2

\* collect_host_report: what the limits of a policy look at does not depend on what is reused.
LEMMA LimitsOfHost ==
    ASSUME NEW a, NEW x, NEW y, CollectHostReport(a, x) # Failed, CollectHostReport(a, y) # Failed, NEW policy
    PROVE  ThresholdFindings(policy, CollectHostReport(a, x).system)
            = ThresholdFindings(policy, CollectHostReport(a, y).system)
<1> DEFINE Limits(disks, memory, load, cpu) ==
        LET Over(value, limit) == limit # Absent /\ value >= limit
            Critical == {d \in disks : Over(d.use, policy.diskCritical)}
            Warning  == {d \in disks \ Critical : Over(d.use, policy.diskWarning)}
            Ram      == policy.ramWarning # Absent /\ UsedAtLeast(memory.total, memory.available, policy.ramWarning)
            Load     == policy.loadPerCore # Absent /\ Overloaded(load, cpu.cores, policy.loadPerCore)
        IN  {Finding("policy.threshold.disk-critical", Stable(d.mount), "critical") : d \in Critical}
            \cup {Finding("policy.threshold.disk-warning", Stable(d.mount), "high") : d \in Warning}
            \cup When(Ram, {Finding("policy.threshold.ram", "", "medium")})
            \cup When(Load, {Finding("policy.threshold.load", "", "medium")})
<1>1. \A s : ThresholdFindings(policy, s) = Limits(s.disks, s.memory, s.load, s.cpu)
  BY Zenon DEF ThresholdFindings
<1>2. ASSUME NEW z, CollectHostReport(a, z) # Failed
      PROVE  CollectHostReport(a, z).system = CollectSystem(a, z) /\ CollectSystem(a, z) # Failed
  <2>1. CollectSystem(a, z) # Failed
    BY <1>2, Zenon DEF CollectHostReport
  <2> QED
    BY <2>1 DEF CollectHostReport
<1>3. ASSUME NEW z, CollectSystem(a, z) # Failed
      PROVE  /\ CollectSystem(a, z).disks = ParseDf(OrElse(a["df -P"], {}))
             /\ CollectSystem(a, z).memory = ParseMeminfo(ReadProc(a)["/proc/meminfo"])
             /\ CollectSystem(a, z).load = ReadProc(a)["/proc/loadavg"]
             /\ CollectSystem(a, z).cpu = CpuUsage(ReadProc(a)["/proc/stat"], a["/proc/stat"])
  BY <1>3 DEF CollectSystem
<1> HIDE DEF Limits
<1> QED
  BY <1>1, <1>2, <1>3

\* service_findings: what it says of nothing.
LEMMA UnitsUnknown ==
    ASSUME NEW policy, NEW services, NEW f \in ServiceFindings(policy, services)
    PROVE  ServiceFindings(policy, {}) = Partial("services")
<1>1. policy.expectedServices \cup policy.forbiddenServices # {}
  BY DEF ServiceFindings
<1> QED
  BY <1>1, NoServicesIsPartial

\* docker_policy_findings: it says that docker could not be checked only where there is none.
LEMMA DockerUnknown ==
    ASSUME NEW policy, NEW docker, NEW f \in DockerPolicyFindings(policy, docker)
    PROVE  /\ DockerPolicyFindings(policy, NoDocker) = Partial("docker")
           /\ docker.available => f.id \in DockerIds
<1>1. ~(policy.expectedContainers = {} /\ policy.forbiddenContainers \cup policy.forbiddenImages = {})
  BY DEF DockerPolicyFindings
<1>2. ~NoDocker.available
  BY DEF NoDocker
<1>3. DockerPolicyFindings(policy, NoDocker) = Partial("docker")
  BY <1>1, <1>2 DEF DockerPolicyFindings
<1>4. docker.available => f.id \in DockerIds
  BY <1>1, FindingHasId DEF DockerPolicyFindings, DockerIds
<1> QED
  BY <1>3, <1>4

-------------------------------------------------------------------------------
(* What is earned in every state of the host is found, group by group. *)

\* Their findings have the ids of their sources.
LEMMA CleanOwnIds == \A w : OwnIds(CleanResults(w))
  BY ResultsOwnIds DEF CleanResults

\* What the findings of a review have to be among.
LEMMA InFound ==
    ASSUME NEW r
    PROVE  /\ r.network.findings \subseteq Found(r) /\ r.databases.findings \subseteq Found(r)
           /\ r.docker.findings \subseteq Found(r) /\ r.crons.findings \subseteq Found(r)
           /\ Constants \subseteq Found(r)
           /\ Matched => /\ PortsJudged(r) \subseteq Found(r) /\ UnitsJudged(r) \subseteq Found(r)
                         /\ LimitsJudged(r) \subseteq Found(r) /\ DockerJudged(r) \subseteq Found(r)
<1>1. Constants \subseteq Judged(r)
  BY JudgedIs, Zenon
<1>2. Matched => /\ PortsJudged(r) \subseteq Judged(r) /\ UnitsJudged(r) \subseteq Judged(r)
                 /\ LimitsJudged(r) \subseteq Judged(r) /\ DockerJudged(r) \subseteq Judged(r)
  BY JudgedIs, Zenon
<1> QED
  BY <1>1, <1>2 DEF Found

\* The network of a host that stays as it is, is one that was read.
LEMMA CleanNetwork ==
    ASSUME HostsAnswer, NEW w \in Worlds
    PROVE  CleanResults(w).network.network.statics # Absent /\ CleanResults(w).network.network # NoNetwork
<1>1. CleanReview(w) # Failed /\ CleanReview(w).network.statics # Absent
  BY DEF HostsAnswer
<1>2. CleanReview(w) = Merged(CleanResults(w))
  BY DEF CleanReview, Review, CleanResults
<1>3. CleanReview(w).network = CleanResults(w).network.network
  BY <1>1, <1>2 DEF Merged
<1>4. NoNetwork.statics = Absent
  BY DEF NoNetwork
<1> QED
  BY <1>1, <1>3, <1>4

\* So its policy can be told about its ports.
LEMMA CleanPorts ==
    ASSUME HostsAnswer, NEW w \in Worlds
    PROVE  HaveIds(PortsJudged(CleanResults(w)), NetworkIds)
  BY CleanNetwork, PortsOfListeners, Zenon DEF PortsJudged

\* What the network of a gather that was not cut off says is what that host says.
LEMMA NetworkAsRead ==
    ASSUME HostsAnswer, NEW gather, NEW cached, gather.faults = {}, "network" \notin gather.late,
           gather.seen["network"][1] \in Worlds
    PROVE  LET r == Results(gather, cached)
               clean == CleanResults(gather.seen["network"][1])
           IN  r.network.findings = clean.network.findings /\ PortsJudged(r) = PortsJudged(clean)
<1> DEFINE w == gather.seen["network"][1]
           a == Answers("network", Undisturbed(w))
           clean == CleanResults(w)
           r == Results(gather, cached)
<1>1. clean.network = GatherNetwork(a, Absent)
  BY CleanResultsAre
<1>2. Answers("network", gather) = a
  BY AnswersOfOneStep, ReadBy DEF Groups
<1>3. r.network = GatherNetwork(a, cached.statics)
  BY <1>2, ResultsAre
<1>4. clean.network.network.statics # Absent /\ clean.network.network # NoNetwork
  BY CleanNetwork
<1> HIDE DEF a, clean, r
<1>5. /\ r.network.network.listeners = clean.network.network.listeners
      /\ r.network.findings = clean.network.findings
  BY <1>1, <1>3, NetworkIs
<1>6. r.network.network.statics # Absent
  BY <1>1, <1>3, <1>4, NetworkIs
<1>7. r.network.network # NoNetwork
  BY <1>6 DEF NoNetwork
<1>8. PortsJudged(r) = PortsJudged(clean)
  BY <1>4, <1>5, <1>7, PortsOfListeners DEF PortsJudged
<1> QED
  BY <1>5, <1>8 DEF r, clean

\* So what it earns there is found.
LEMMA NetworkFound ==
    ASSUME HostsAnswer, NEW gather, NEW cached, gather.faults = {}, "network" \notin gather.late,
           gather.seen["network"][1] \in Worlds,
           NEW f \in Found(CleanResults(gather.seen["network"][1])), GroupOf(f) = "network"
    PROVE  f \in Found(Results(gather, cached))
<1> DEFINE clean == CleanResults(gather.seen["network"][1])
           r == Results(gather, cached)
<1>1. f \in clean.network.findings \/ (Matched /\ f \in PortsJudged(clean))
  BY SourceOf, CleanOwnIds
<1>2. r.network.findings = clean.network.findings /\ PortsJudged(r) = PortsJudged(clean)
  BY NetworkAsRead
<1> HIDE DEF clean
<1> QED
  BY <1>1, <1>2, InFound DEF r

\* The units.
LEMMA UnitsAsRead ==
    ASSUME NEW gather, NEW cached, gather.faults = {}, "services" \notin gather.late
    PROVE  UnitsJudged(Results(gather, cached)) = UnitsJudged(CleanResults(gather.seen["services"][1]))
<1> DEFINE clean == CleanResults(gather.seen["services"][1])
           r == Results(gather, cached)
<1>1. Answers("services", gather) = Answers("services", Undisturbed(gather.seen["services"][1]))
  BY AnswersOfOneStep, ReadBy DEF Groups
<1>2. r.services = clean.services
  BY <1>1, ResultsAre, CleanResultsAre
<1> HIDE DEF clean, r
<1>3. UnitsJudged(r) = UnitsJudged(clean)
  BY <1>2 DEF UnitsJudged
<1> QED
  BY <1>3 DEF clean, r

\* What is earned of them is found.
LEMMA UnitsFound ==
    ASSUME NEW gather, NEW cached, gather.faults = {}, "services" \notin gather.late,
           NEW f \in Found(CleanResults(gather.seen["services"][1])), GroupOf(f) = "services"
    PROVE  f \in Found(Results(gather, cached))
<1>1. Matched /\ f \in UnitsJudged(CleanResults(gather.seen["services"][1]))
  BY SourceOf, CleanOwnIds
<1> QED
  BY <1>1, UnitsAsRead, InFound

\* The limits.
LEMMA LimitsAsRead ==
    ASSUME HostsAnswer, NEW gather, NEW cached, gather.faults = {}, Results(gather, cached).host # Failed,
           gather.seen["host"][1] \in Worlds
    PROVE  LimitsJudged(Results(gather, cached)) = LimitsJudged(CleanResults(gather.seen["host"][1]))
<1> DEFINE r == Results(gather, cached)
           v == gather.seen["host"][1]
           a == Answers("host", Undisturbed(v))
<1>1. "host" \notin gather.late
  BY ResultsAre
<1>2. Answers("host", gather) = a
  BY AnswersOfOneStep, ReadBy DEF Groups
<1>3. r.host = CollectHostReport(a, cached.identity) /\ CleanResults(v).host = CollectHostReport(a, Absent)
  BY <1>1, <1>2, ResultsAre, CleanResultsAre
<1>4. CleanResults(v).host # Failed
  <2>1. CleanReview(v) # Failed
    BY DEF HostsAnswer
  <2> QED
    BY <2>1 DEF CleanReview, Review, Merged, CleanResults
<1> HIDE DEF a, v, r
<1>5. LimitsJudged(r) = LimitsJudged(CleanResults(v))
  BY <1>3, <1>4, LimitsOfHost DEF LimitsJudged, r
<1> QED
  BY <1>5 DEF r, v

\* The containers, where those that are listed are the same.
LEMMA DockerAsRead ==
    ASSUME NEW gather, NEW cached, gather.faults = {}, "docker" \notin gather.late,
           Contents[gather.seen["docker"][1]]["docker ps"] = Contents[gather.seen["docker"][2]]["docker ps"]
    PROVE  Results(gather, cached).docker = CleanResults(gather.seen["docker"][2]).docker
<1> DEFINE v == gather.seen["docker"][1]
           w == gather.seen["docker"][2]
           a == Answers("docker", gather)
           b == Answers("docker", Undisturbed(v))
           c == Answers("docker", Undisturbed(w))
<1>1. FirstReads("docker", a, b) /\ SecondReads("docker", a, c)
  BY AnswersOfSteps DEF Groups
<1>2. \A x : Answers("docker", Undisturbed(x))["docker ps"] = Answer(x, {}, "docker ps")
  BY ReadBy DEF Answers, Undisturbed, Groups, Reads
<1>3. Answer(v, {}, "docker ps") = Answer(w, {}, "docker ps")
  BY DEF Answer, AnyExit
<1>4. a["docker ps"] = b["docker ps"]
  BY <1>1, ReadBy DEF FirstReads, Reads
<1>5. b["docker ps"] = c["docker ps"]
  BY <1>2, <1>3
<1>6. Results(gather, cached).docker = GatherDocker(a) /\ CleanResults(w).docker = GatherDocker(c)
  BY ResultsAre, CleanResultsAre
<1> HIDE DEF a, b, c
<1> QED
  BY <1>1, <1>4, <1>5, <1>6, DockerByReads

\* What is earned of them is found.
LEMMA DockerFound ==
    ASSUME NEW gather, NEW cached, gather.faults = {}, "docker" \notin gather.late,
           Contents[gather.seen["docker"][1]]["docker ps"] = Contents[gather.seen["docker"][2]]["docker ps"],
           NEW f \in Found(CleanResults(gather.seen["docker"][2])), GroupOf(f) = "docker"
    PROVE  f \in Found(Results(gather, cached))
<1> DEFINE clean == CleanResults(gather.seen["docker"][2])
           r == Results(gather, cached)
<1>1. f \in clean.docker.findings \/ (Matched /\ f \in DockerJudged(clean))
  BY SourceOf, CleanOwnIds
<1>2. r.docker = clean.docker
  BY DockerAsRead
<1> HIDE DEF clean
<1>3. DockerJudged(r) = DockerJudged(clean)
  BY <1>2 DEF DockerJudged
<1> QED
  BY <1>1, <1>2, <1>3, InFound DEF r

\* The jobs.
LEMMA CronsFound ==
    ASSUME NEW gather, NEW cached, gather.faults = {}, "crons" \notin gather.late,
           NEW f, f \in Found(CleanResults(gather.seen["crons"][1])),
           f \in Found(CleanResults(gather.seen["crons"][2])), GroupOf(f) = "crons"
    PROVE  f \in Found(Results(gather, cached))
<1> DEFINE Own(w) == CleanResults(w).crons.findings
           r == Results(gather, cached)
<1>1. \A w : f \in Found(CleanResults(w)) => f \in Own(w)
  BY SourceOf, CleanOwnIds
<1>2. \A w : CleanResults(w).crons = GatherCrons(Answers("crons", Undisturbed(w)))
  BY CleanResultsAre
<1>3. r.crons = GatherCrons(Answers("crons", gather))
  BY ResultsAre
<1>4. f \in GatherCrons(Answers("crons", gather)).findings
  BY <1>1, <1>2, JobsFound, AnswersOfSteps DEF Groups
<1> QED
  BY <1>3, <1>4, InFound

\* By what databases are asked in the second step: as AskedFor says it.
LEMMA ListedIs ==
    ASSUME NEW w
    PROVE  /\ DatabasesListed(w) = Detected(Answers("databases", Undisturbed(w)))
           /\ AskedFor(w) = AskedBy(Answers("databases", Undisturbed(w)))
<1>1. DatabasesListed(w) = Detected(Answers("databases", Undisturbed(w)))
  BY Zenon DEF DatabasesListed, UnitsListed, ListenersListed, Detected
<1> QED
  BY <1>1, Zenon DEF AskedFor, AskedBy

\* The databases.
LEMMA DatabasesFound ==
    ASSUME NEW gather, NEW cached, gather.faults = {}, "databases" \notin gather.late,
           NEW f, f \in Found(CleanResults(gather.seen["databases"][1])),
           f \in Found(CleanResults(gather.seen["databases"][2])), GroupOf(f) = "databases",
           f.id \in SaidIds => AskedFor(gather.seen["databases"][1]) = AskedFor(gather.seen["databases"][2])
    PROVE  f \in Found(Results(gather, cached))
<1> DEFINE Own(w) == CleanResults(w).databases.findings
           r == Results(gather, cached)
<1>1. \A w : f \in Found(CleanResults(w)) => f \in Own(w)
  BY SourceOf, CleanOwnIds
<1>2. \A w : CleanResults(w).databases = GatherDatabases(Answers("databases", Undisturbed(w)))
  BY CleanResultsAre
<1>3. r.databases = GatherDatabases(Answers("databases", gather))
  BY ResultsAre
<1>4. f \in GatherDatabases(Answers("databases", gather)).findings
  BY <1>1, <1>2, InstancesFound, AnswersOfSteps, ListedIs DEF Groups
<1> QED
  BY <1>3, <1>4, InFound

\* What a review says of the limits, of what could not be checked and of the policy itself.
LEMMA HostFound ==
    ASSUME HostsAnswer, NEW gather, NEW cached, gather.faults = {}, Results(gather, cached).host # Failed,
           NEW ws \in SUBSET Worlds, \A g \in Groups \ gather.late : gather.seen[g][1] \in ws,
           NEW f, \A w \in ws : f \in Found(CleanResults(w)), ws # {}, GroupOf(f) = "host"
    PROVE  f \in Found(Results(gather, cached))
<1> DEFINE r == Results(gather, cached)
           First(g) == gather.seen[g][1]
<1>1. \A w \in ws : f \notin PortsJudged(CleanResults(w)) \/ f.id # "policy.partial"
  BY CleanPorts DEF HaveIds, NetworkIds
<1>2. ASSUME NEW w \in ws
      PROVE  \/ Matched /\ f \in LimitsJudged(CleanResults(w))
             \/ Matched /\ f \in UnitsJudged(CleanResults(w)) \cap Partial("services")
             \/ Matched /\ f \in DockerJudged(CleanResults(w)) \cap Partial("docker")
             \/ f \in Constants
  <2>1. f \in Found(CleanResults(w))
    OBVIOUS
  <2>2. f \in PortsJudged(CleanResults(w)) \cap Partial("network") => FALSE
    BY <1>1, FindingHasId DEF Partial
  <2> QED
    BY <2>1, <2>2, SourceOf, CleanOwnIds
<1>3. CASE f \in Constants
  BY <1>3, InFound
<1>4. CASE f \notin Constants
  <2>1. PICK w \in ws : TRUE
    OBVIOUS
  <2>2. CASE f \in LimitsJudged(CleanResults(w))
    <3> DEFINE v == First("host")
    <3>1. "host" \notin gather.late
      BY ResultsAre
    <3>2. v \in ws /\ v \in Worlds
      BY <3>1 DEF Groups
    <3>3. f.id \in HostIds
      BY <2>2, PolicyIds DEF HaveIds, LimitsJudged
    <3>4. Matched /\ f \in LimitsJudged(CleanResults(v))
      <4>1. f.id # "policy.partial"
        BY <3>3 DEF HostIds
      <4>2. f \notin Partial("services") \cup Partial("docker")
        BY <4>1, FindingHasId DEF Partial
      <4> HIDE DEF v
      <4> QED
        BY <1>2, <1>4, <3>2, <4>2
    <3>5. LimitsJudged(r) = LimitsJudged(CleanResults(v))
      BY <3>2, LimitsAsRead
    <3> HIDE DEF v, r
    <3> QED
      BY <3>4, <3>5, InFound DEF r
  <2>3. CASE f \in UnitsJudged(CleanResults(w)) \cap Partial("services")
    <3>1. f = Finding("policy.partial", "services", "info")
      BY <2>3 DEF Partial
    <3>2. f \notin Partial("docker")
      BY <3>1 DEF Partial, Finding
    <3>3. \A v : f \notin LimitsJudged(CleanResults(v))
      BY <3>1, PolicyIds, FindingHasId DEF HaveIds, LimitsJudged, HostIds
    <3>4. \A v \in ws : Matched /\ f \in UnitsJudged(CleanResults(v))
      BY <1>2, <1>4, <3>2, <3>3
    <3>5. CASE "services" \in gather.late
      <4>1. r.services.units = {}
        BY <3>5, ResultsAre
      <4>2. ServiceFindings(ChosenPolicy, {}) = Partial("services")
        BY <2>3, UnitsUnknown DEF UnitsJudged
      <4> HIDE DEF r
      <4>3. f \in UnitsJudged(r)
        BY <2>3, <4>1, <4>2 DEF UnitsJudged
      <4> QED
        BY <2>1, <3>4, <4>3, InFound DEF r
    <3>6. CASE "services" \notin gather.late
      <4>1. First("services") \in ws
        BY <3>6 DEF Groups
      <4>2. UnitsJudged(r) = UnitsJudged(CleanResults(First("services")))
        BY <3>6, UnitsAsRead
      <4> HIDE DEF First, r
      <4> QED
        BY <3>4, <4>1, <4>2, InFound DEF r
    <3> QED
      BY <3>5, <3>6
  <2>4. CASE f \in DockerJudged(CleanResults(w)) \cap Partial("docker")
    <3>1. f = Finding("policy.partial", "docker", "info")
      BY <2>4 DEF Partial
    <3>2. f \notin Partial("services")
      BY <3>1 DEF Partial, Finding
    <3>3. \A v : f \notin LimitsJudged(CleanResults(v))
      BY <3>1, PolicyIds, FindingHasId DEF HaveIds, LimitsJudged, HostIds
    <3>4. \A v \in ws : Matched /\ f \in DockerJudged(CleanResults(v))
      BY <1>2, <1>4, <3>2, <3>3
    <3>5. DockerPolicyFindings(ChosenPolicy, NoDocker) = Partial("docker")
      BY <2>4, DockerUnknown DEF DockerJudged
    <3>6. r.docker = NoDocker
      <4>1. CASE "docker" \in gather.late
        BY <4>1, ResultsAre
      <4>2. CASE "docker" \notin gather.late
        <5> DEFINE v == First("docker")
                   a == Answers("docker", gather)
                   b == Answers("docker", Undisturbed(v))
        <5>1. v \in ws
          BY <4>2 DEF Groups
        <5>2. FirstReads("docker", a, b)
          BY AnswersOfSteps DEF Groups
        <5>3. a["docker ps"] = b["docker ps"]
          BY <5>2, ReadBy DEF FirstReads, Reads
        <5>4. r.docker = GatherDocker(a) /\ CleanResults(v).docker = GatherDocker(b)
          BY <4>2, ResultsAre, CleanResultsAre
        <5>5. f.id \notin DockerIds
          BY <3>1, FindingHasId DEF DockerIds
        <5> HIDE DEF a, b, v, r
        <5>6. ~CleanResults(v).docker.available
          BY <3>4, <5>1, <5>5, DockerUnknown DEF DockerJudged
        <5>7. b["docker ps"] = Failed
          <6>1. \A x : DockerDetails(b, x).available
            BY Zenon DEF DockerDetails
          <6> QED
            BY <5>4, <5>6, <6>1 DEF GatherDocker
        <5> QED
          BY <5>3, <5>4, <5>7 DEF GatherDocker
      <4> QED
        BY <4>1, <4>2
    <3> HIDE DEF r
    <3>7. f \in DockerJudged(r)
      BY <2>4, <3>5, <3>6 DEF DockerJudged
    <3> QED
      BY <2>1, <3>4, <3>7, InFound DEF r
  <2> QED
    BY <1>2, <1>4, <2>1, <2>2, <2>3, <2>4
<1> QED
  BY <1>3, <1>4

-------------------------------------------------------------------------------
(* What is earned in every state of the host is shown. *)

\* Replaced, in these states.
ReplacedIn(f, states) ==
    \E v, w \in states :
        \/ GroupOf(f) = "docker" /\ Contents[v]["docker ps"] # Contents[w]["docker ps"]
        \/ f.id \in SaidIds /\ AskedFor(v) # AskedFor(w)

\* In these states the groups read, which were not cut off.
ReadIn(gather, states) ==
    \A g \in Groups \ gather.late :
        gather.seen[g][1] \in states /\ (Details[g] # {} => gather.seen[g][2] \in states)

\* What such a host earns is what its results show.
LEMMA CleanFound ==
    ASSUME HostsAnswer, NEW w \in Worlds PROVE CleanFindings[w] = Found(CleanResults(w))
<1>1. CleanReview(w) # Failed
  BY DEF HostsAnswer
<1>2. CleanReview(w) = Merged(CleanResults(w))
  BY DEF CleanReview, Review, CleanResults
<1> QED
  BY <1>1, <1>2, MergedFound DEF CleanFindings

\* The review of a gather with answers has what is earned in all of its states.
LEMMA DangersFound ==
    ASSUME HostsAnswer, NEW gather, gather.faults = {}, NEW cached, Review(gather, cached) # Failed,
           NEW states \in SUBSET Worlds, states # {}, ReadIn(gather, states),
           NEW f, \A w \in states : f \in CleanFindings[w], GroupOf(f) \notin gather.late, ~ReplacedIn(f, states)
    PROVE  f \in Review(gather, cached).findings
<1> DEFINE r == Results(gather, cached)
<1>1. Merged(r) # Failed /\ Review(gather, cached).findings = Found(r)
  BY MergedFound DEF Review
<1>2. r.host # Failed
  BY <1>1 DEF Merged
<1> HIDE DEF r
<1>3. \A w \in states : f \in Found(CleanResults(w))
  BY CleanFound
<1>4. ASSUME NEW g \in Groups, g \notin gather.late
      PROVE  /\ gather.seen[g][1] \in states /\ gather.seen[g][1] \in Worlds
             /\ Details[g] # {} => gather.seen[g][2] \in states
  BY <1>4 DEF ReadIn
<1>5. PICK w \in states : TRUE
  OBVIOUS
<1>6. GroupOf(f) \in {"network", "databases", "docker", "crons", "services", "host"}
  BY <1>3, SourceOf, CleanOwnIds
<1>7. CASE GroupOf(f) = "network"
  <2>1. "network" \in Groups
    BY DEF Groups
  <2>2. gather.seen["network"][1] \in Worlds /\ f \in Found(CleanResults(gather.seen["network"][1]))
    BY <1>3, <1>4, <1>7, <2>1
  <2> QED
    BY <1>1, <1>7, <2>2, NetworkFound DEF r
<1>8. CASE GroupOf(f) = "services"
  <2>1. "services" \in Groups
    BY DEF Groups
  <2>2. f \in Found(CleanResults(gather.seen["services"][1]))
    BY <1>3, <1>4, <1>8, <2>1
  <2> QED
    BY <1>1, <1>8, <2>2, UnitsFound DEF r
<1>9. CASE GroupOf(f) = "docker"
  <2>1. "docker" \in Groups /\ Details["docker"] # {}
    BY ReadBy DEF Groups
  <2>2. gather.seen["docker"][1] \in states /\ gather.seen["docker"][2] \in states
    BY <1>4, <1>9, <2>1
  <2>3. Contents[gather.seen["docker"][1]]["docker ps"] = Contents[gather.seen["docker"][2]]["docker ps"]
    BY <1>9, <2>2 DEF ReplacedIn
  <2> QED
    BY <1>1, <1>3, <1>9, <2>2, <2>3, DockerFound DEF r
<1>10. CASE GroupOf(f) = "crons"
  <2>1. "crons" \in Groups /\ Details["crons"] # {}
    BY ReadBy DEF Groups
  <2>2. gather.seen["crons"][1] \in states /\ gather.seen["crons"][2] \in states
    BY <1>4, <1>10, <2>1
  <2> QED
    BY <1>1, <1>3, <1>10, <2>2, CronsFound DEF r
<1>11. CASE GroupOf(f) = "databases"
  <2>1. "databases" \in Groups /\ Details["databases"] # {}
    BY ReadBy DEF Groups
  <2>2. gather.seen["databases"][1] \in states /\ gather.seen["databases"][2] \in states
    BY <1>4, <1>11, <2>1
  <2>3. f.id \in SaidIds => AskedFor(gather.seen["databases"][1]) = AskedFor(gather.seen["databases"][2])
    BY <2>2 DEF ReplacedIn
  <2> QED
    BY <1>1, <1>3, <1>11, <2>2, <2>3, DatabasesFound DEF r
<1>12. CASE GroupOf(f) = "host"
  BY <1>1, <1>2, <1>3, <1>4, <1>12, HostFound DEF r
<1> QED
  BY <1>6, <1>7, <1>8, <1>9, <1>10, <1>11, <1>12

\* What the groups of a gather have read, and in which states; only those that hang are
\* cut off, and nothing is kept of the gather before.
Gathered ==
    /\ world \in Worlds /\ worlds \in SUBSET Worlds /\ (gathering => world \in worlds)
    /\ seen \in [Groups -> Seq(worlds)]
    /\ late \subseteq stuck /\ (~gathering => late = {})

\* It holds in every reachable state.
LEMMA GatheredHolds ==
    /\ Init => Gathered
    /\ Gathered /\ [Next]_vars => Gathered'
<1>0. \A g : Steps(g) \in {1, 2}
  BY DEF Steps
<1>1. Init => Gathered
  BY DEF Init, Gathered, Nothing
<1>2. ASSUME Gathered, [Next]_vars PROVE Gathered'
  <2> USE <1>2
  <2>1. CASE UNCHANGED vars
    BY <2>1 DEF Gathered, vars, hostVars, gatherVars
  <2>2. CASE Change
    <3>1. PICK w \in Worlds : world' = w /\ worlds' = IF gathering THEN worlds \cup {w} ELSE worlds
      BY <2>2 DEF Change
    <3>2. worlds \subseteq worlds'
      BY <3>1
    <3>3. seen' \in [Groups -> Seq(worlds')]
      <4>1. \A g \in Groups : seen[g] \in Seq(worlds')
        BY <3>2 DEF Gathered
      <4> QED
        BY <2>2, <4>1 DEF Change, Gathered
    <3> QED
      BY <2>2, <3>1, <3>3 DEF Change, Gathered
  <2>3. CASE Start
    <3>1. seen' \in [Groups -> Seq(worlds')]
      BY <1>0, <2>3 DEF Start
    <3> QED
      BY <2>3, <3>1 DEF Start, Gathered
  <2>4. CASE Apply
    BY <2>4 DEF Apply, Ended, Gathered, Nothing, hostVars
  <2>5. ASSUME NEW g \in Groups, Read(g) PROVE Gathered'
    <3>1. world \in worlds /\ Append(seen[g], world) \in Seq(worlds)
      BY <2>5 DEF Read, Running, Gathered
    <3>2. seen' \in [Groups -> Seq(worlds)]
      BY <2>5, <3>1 DEF Read, Gathered
    <3> QED
      BY <2>5, <3>2 DEF Read, Gathered, hostVars
  <2>6. ASSUME NEW g \in Groups, Timeout(g) PROVE Gathered'
    BY <2>6 DEF Timeout, Running, Gathered, hostVars
  <2> QED
    BY <2>1, <2>2, <2>3, <2>4, <2>5, <2>6 DEF Next
<1> QED
  BY <1>1, <1>2

\* When it ends, every group that was not cut off has read in the states since it began.
LEMMA WhatItRead ==
    ASSUME Gathered, Apply
    PROVE  /\ worlds \in SUBSET Worlds /\ worlds # {} /\ late \subseteq stuck
           /\ ReadIn([seen |-> seen, late |-> late, faults |-> faults], worlds)
<1>1. worlds \in SUBSET Worlds /\ worlds # {} /\ late \subseteq stuck
  BY DEF Apply, Ended, Gathered
<1>2. ASSUME NEW g \in Groups, g \notin late
      PROVE  seen[g][1] \in worlds /\ (Details[g] # {} => seen[g][2] \in worlds)
  <2>1. seen[g] \in Seq(worlds) /\ Len(seen[g]) >= Steps(g)
    <3>1. seen[g] \in Seq(worlds) /\ ~Running(g) /\ gathering
      BY DEF Apply, Ended, Gathered
    <3>2. Steps(g) \in {1, 2} /\ Len(seen[g]) \in Nat
      BY <3>1 DEF Steps
    <3> QED
      BY <1>2, <3>1, <3>2 DEF Running
  <2> QED
    BY <2>1 DEF Steps
<1> QED
  BY <1>1, <1>2 DEF ReadIn

\* Whatever the host became while it was read, and whichever groups hung, a finding it
\* earned all the time is on the screen: neither what one group makes of two reads, nor
\* merge_findings, loses it, but for the exceptions StandingDangersShown names.
THEOREM DangersStand == ASSUME HostsAnswer PROVE Spec => []StandingDangersShown
<1>1. Init => StandingDangersShown
  BY DEF Init, StandingDangersShown
<1>2. Gathered /\ StandingDangersShown /\ [Next]_vars => StandingDangersShown'
  <2> SUFFICES ASSUME Gathered, StandingDangersShown, [Next]_vars PROVE StandingDangersShown'
    OBVIOUS
  <2>1. CASE screen' = screen
    BY <2>1 DEF StandingDangersShown, Replaced
  <2>2. CASE Apply
    <3> DEFINE gather == [seen |-> seen, late |-> late, faults |-> faults]
               cached == Cached(screen)
               review == Review(gather, cached)
    <3>1. CASE review = Failed
      BY <2>1, <2>2, <3>1 DEF Apply, Show
    <3>2. CASE review # Failed
      <4>1. /\ screen'.review = review /\ screen'.worlds = worlds
            /\ screen'.faults = faults /\ screen'.stuck = stuck
        BY <2>2, <3>2 DEF Apply, Show
      <4>2. /\ worlds \in SUBSET Worlds /\ worlds # {} /\ late \subseteq stuck
            /\ ReadIn(gather, worlds)
        BY <2>2, WhatItRead
      <4> HIDE DEF review, cached
      <4>4. SUFFICES ASSUME screen'.faults = {},
                            NEW f \in InAll({CleanFindings[w] : w \in worlds}),
                            GroupOf(f) \notin stuck, ~ReplacedIn(f, worlds)
                     PROVE  f \in review.findings
        <5>1. \A f : Replaced(f)' <=> ReplacedIn(f, worlds)
          BY <4>1 DEF Replaced, ReplacedIn, SaidIds
        <5> QED
          BY <4>1, <5>1 DEF StandingDangersShown
      <4>5. \A w \in worlds : f \in CleanFindings[w]
        BY DEF InAll
      <4>6. faults = {} /\ GroupOf(f) \notin late
        BY <4>1, <4>2, <4>4
      <4> QED
        BY <3>2, <4>2, <4>5, <4>6, <4>4, DangersFound DEF review
    <3> QED
      BY <3>1, <3>2
  <2> QED
    BY <2>1, <2>2 DEF Next, vars, Change, Start, Read, Timeout, screenVars, hostVars, gatherVars
<1> QED
  BY <1>1, <1>2, GatheredHolds, PTL DEF Spec

-------------------------------------------------------------------------------
(* What is shown was earned. *)

\* What the first step of the finding's group lists differs in two of these states.
Relisted(f, states) ==
    \E v, w \in states :
        \/ GroupOf(f) = "docker" /\ Contents[v]["docker ps"] # Contents[w]["docker ps"]
        \/ GroupOf(f) = "crons" /\ JobsListed(v) # JobsListed(w)
        \/ GroupOf(f) = "databases" /\ DatabasesListed(v) # DatabasesListed(w)

\* Of what NothingInvented says the part that holds of any host: where no read failed, and
\* what a group of two steps lists did not change, a finding on the screen is one the host
\* earned in some state it was in while it was read, or says what could not be checked.
NothingMadeUp ==
    screen # NoScreen /\ screen.faults = {} =>
        \A f \in screen.review.findings :
            \/ f.id = "policy.partial" \/ Relisted(f, screen.worlds)
            \/ \E w \in screen.worlds : f \in CleanFindings[w]

\* The checks of a policy find nothing in what stands for a group that was cut off.
LEMMA NothingOfNone ==
    ASSUME NEW policy
    PROVE  /\ \A exposures : PortFindings(policy, NoNetwork, exposures) \subseteq Partial("network")
           /\ ServiceFindings(policy, {}) \subseteq Partial("services")
           /\ DockerPolicyFindings(policy, NoDocker) \subseteq Partial("docker")
<1>1. \A exposures : PortFindings(policy, NoNetwork, exposures) \subseteq Partial("network")
  BY DEF PortFindings
<1>2. ServiceFindings(policy, {}) \subseteq Partial("services")
  BY DEF ServiceFindings
<1>3. ~NoDocker.available
  BY DEF NoDocker
<1>4. DockerPolicyFindings(policy, NoDocker) \subseteq Partial("docker")
  BY <1>3 DEF DockerPolicyFindings
<1> QED
  BY <1>1, <1>2, <1>4

\* gather_crons, where the same jobs are listed.
LEMMA CronsAsListed ==
    ASSUME NEW a, NEW b, NEW c, FirstReads("crons", a, b), SecondReads("crons", a, c),
           CollectCronEntries(b) = CollectCronEntries(c)
    PROVE  GatherCrons(a) = GatherCrons(c)
<1>1. CollectCronEntries(a) = CollectCronEntries(c)
  BY JobsOfFirstStep
<1>2. a["stat scripts"] = c["stat scripts"]
  BY ReadBy DEF SecondReads
<1>3. \A jobs : CronFindings(a, jobs) = CronFindings(c, jobs)
  <2> TAKE jobs
  <2>1. StatScripts(a, ScriptPaths(jobs)) = StatScripts(c, ScriptPaths(jobs))
    BY <1>2, Zenon DEF StatScripts
  <2> QED
    BY <2>1, Zenon DEF CronFindings
<1> QED
  BY <1>1, <1>3, Zenon DEF GatherCrons, CronReport

\* gather_databases, where the same instances are detected.
LEMMA DatabasesAsListed ==
    ASSUME NEW a, NEW b, NEW c, FirstReads("databases", a, b), SecondReads("databases", a, c),
           Detected(b) = Detected(c), NEW f \in GatherDatabases(a).findings
    PROVE  f \in GatherDatabases(c).findings
<1>1. Detected(a) = Detected(c)
  BY DetectedByFirstStep
<1>2. PICK d \in Detected(a) : f \in InstanceFindings(InstanceOf(a, d))
  BY FoundOfDatabases
<1>3. SaidOf(InstanceOf(a, d)) = SaidOf(InstanceOf(c, d))
  BY DetectedEngine, SaidTheSame DEF SamePort
<1>4. CredentialSources(a, d.engine) = CredentialSources(c, d.engine)
  <2>1. a["credentials"] = c["credentials"]
    BY ReadBy DEF SecondReads
  <2> QED
    BY <2>1, Zenon DEF CredentialSources
<1>5. /\ External(InstanceOf(a, d)) <=> External(InstanceOf(c, d))
      /\ ExposedAt(InstanceOf(a, d)) = ExposedAt(InstanceOf(c, d))
      /\ InstanceOf(a, d).engine = InstanceOf(c, d).engine
      /\ InstanceOf(a, d).sources = InstanceOf(c, d).sources
  BY <1>4, InstanceHas
<1>6. f \in InstanceFindings(InstanceOf(c, d))
  BY <1>2, <1>3, <1>5, FoundOfInstance
<1> QED
  BY <1>1, <1>6, FoundOfDatabases

\* A finding of a gather with answers was earned in one of its states.
LEMMA EarnedInAState ==
    ASSUME HostsAnswer, NEW gather, gather.faults = {}, NEW cached, Review(gather, cached) # Failed,
           NEW states \in SUBSET Worlds, states # {}, ReadIn(gather, states),
           NEW f \in Review(gather, cached).findings, f.id # "policy.partial", ~Relisted(f, states)
    PROVE  \E w \in states : f \in CleanFindings[w]
<1> DEFINE r == Results(gather, cached)
<1>1. Merged(r) # Failed /\ f \in Found(r)
  BY MergedFound DEF Review
<1>2. r.host # Failed
  BY <1>1 DEF Merged
<1>3. OwnIds(r)
  BY ResultsOwnIds
<1>4. \A area : f \notin Partial(area)
  BY FindingHasId DEF Partial
<1>5. SUFFICES \E w \in states : f \in Found(CleanResults(w))
  BY CleanFound
<1>6. ASSUME NEW g \in Groups, g \notin gather.late
      PROVE  /\ gather.seen[g][1] \in states /\ gather.seen[g][1] \in Worlds
             /\ Details[g] # {} => gather.seen[g][2] \in states
  BY <1>6 DEF ReadIn
<1>7. CASE f \in r.network.findings \/ (Matched /\ f \in PortsJudged(r))
  <2>1. "network" \notin gather.late
    <3>1. "network" \in gather.late => r.network.network = NoNetwork /\ r.network.findings = {}
      BY ResultsAre
    <3> HIDE DEF r
    <3> QED
      BY <1>4, <1>7, <3>1, NothingOfNone DEF PortsJudged
  <2>2. gather.seen["network"][1] \in states /\ gather.seen["network"][1] \in Worlds
    BY <1>6, <2>1 DEF Groups
  <2>3. /\ r.network.findings = CleanResults(gather.seen["network"][1]).network.findings
        /\ PortsJudged(r) = PortsJudged(CleanResults(gather.seen["network"][1]))
    BY <2>1, <2>2, NetworkAsRead
  <2> HIDE DEF r
  <2> QED
    BY <1>7, <2>2, <2>3, InFound
<1>8. CASE Matched /\ f \in UnitsJudged(r)
  <2>1. "services" \notin gather.late
    <3>1. "services" \in gather.late => r.services.units = {}
      BY ResultsAre
    <3> HIDE DEF r
    <3> QED
      BY <1>4, <1>8, <3>1, NothingOfNone DEF UnitsJudged
  <2>2. gather.seen["services"][1] \in states
    BY <1>6, <2>1 DEF Groups
  <2>3. UnitsJudged(r) = UnitsJudged(CleanResults(gather.seen["services"][1]))
    BY <2>1, UnitsAsRead
  <2> HIDE DEF r
  <2> QED
    BY <1>8, <2>2, <2>3, InFound
<1>9. CASE Matched /\ f \in LimitsJudged(r)
  <2>1. "host" \notin gather.late
    BY <1>2, ResultsAre
  <2>2. gather.seen["host"][1] \in states /\ gather.seen["host"][1] \in Worlds
    BY <1>6, <2>1 DEF Groups
  <2>3. LimitsJudged(r) = LimitsJudged(CleanResults(gather.seen["host"][1]))
    BY <1>2, <2>2, LimitsAsRead
  <2> HIDE DEF r
  <2> QED
    BY <1>9, <2>2, <2>3, InFound
<1>10. CASE GroupOf(f) = "docker" /\ (f \in r.docker.findings \/ (Matched /\ f \in DockerJudged(r)))
  <2>1. "docker" \notin gather.late
    <3>1. "docker" \in gather.late => r.docker = NoDocker
      BY ResultsAre
    <3>2. NoDocker.findings = {}
      BY DEF NoDocker
    <3> HIDE DEF r
    <3> QED
      BY <1>4, <1>10, <3>1, <3>2, NothingOfNone DEF DockerJudged
  <2>2. "docker" \in Groups /\ Details["docker"] # {}
    BY ReadBy DEF Groups
  <2>3. gather.seen["docker"][1] \in states /\ gather.seen["docker"][2] \in states
    BY <1>6, <2>1, <2>2
  <2>4. Contents[gather.seen["docker"][1]]["docker ps"] = Contents[gather.seen["docker"][2]]["docker ps"]
    BY <1>10, <2>3 DEF Relisted
  <2>5. r.docker = CleanResults(gather.seen["docker"][2]).docker
    BY <2>1, <2>4, DockerAsRead
  <2> HIDE DEF r
  <2>6. DockerJudged(r) = DockerJudged(CleanResults(gather.seen["docker"][2]))
    BY <2>5 DEF DockerJudged
  <2> QED
    BY <1>10, <2>3, <2>5, <2>6, InFound
<1>11. CASE GroupOf(f) = "crons" /\ f \in r.crons.findings
  <2>1. "crons" \notin gather.late
    BY <1>11, ResultsAre
  <2>2. "crons" \in Groups /\ Details["crons"] # {}
    BY ReadBy DEF Groups
  <2>3. gather.seen["crons"][1] \in states /\ gather.seen["crons"][2] \in states
    BY <1>6, <2>1, <2>2
  <2>4. JobsListed(gather.seen["crons"][1]) = JobsListed(gather.seen["crons"][2])
    BY <1>11, <2>3 DEF Relisted
  <2>5. GatherCrons(Answers("crons", gather)) = GatherCrons(Answers("crons", Undisturbed(gather.seen["crons"][2])))
    BY <2>2, <2>4, AnswersOfSteps, CronsAsListed DEF JobsListed
  <2>6. r.crons = CleanResults(gather.seen["crons"][2]).crons
    BY <2>1, <2>5, ResultsAre, CleanResultsAre
  <2> HIDE DEF r
  <2> QED
    BY <1>11, <2>3, <2>6, InFound
<1>12. CASE GroupOf(f) = "databases" /\ f \in r.databases.findings
  <2>1. "databases" \notin gather.late
    BY <1>12, ResultsAre
  <2>2. "databases" \in Groups /\ Details["databases"] # {}
    BY ReadBy DEF Groups
  <2>3. gather.seen["databases"][1] \in states /\ gather.seen["databases"][2] \in states
    BY <1>6, <2>1, <2>2
  <2>4. DatabasesListed(gather.seen["databases"][1]) = DatabasesListed(gather.seen["databases"][2])
    BY <1>12, <2>3 DEF Relisted
  <2>5. r.databases = GatherDatabases(Answers("databases", gather))
    BY <2>1, ResultsAre
  <2>6. f \in GatherDatabases(Answers("databases", Undisturbed(gather.seen["databases"][2]))).findings
    BY <1>12, <2>2, <2>4, <2>5, AnswersOfSteps, DatabasesAsListed, ListedIs
  <2>7. f \in CleanResults(gather.seen["databases"][2]).databases.findings
    BY <2>6, CleanResultsAre
  <2> QED
    BY <2>3, <2>7, InFound
<1>13. CASE f \in Constants
  BY <1>13, InFound
<1> HIDE DEF r
<1> QED
  BY <1>1, <1>3, <1>4, <1>7, <1>8, <1>9, <1>10, <1>11, <1>12, <1>13, SourceOf

\* Where no read fails and nothing is listed and gone between two steps, neither a change
\* while the host is read nor a group that is cut off (its results are empty) makes the
\* checks and the policy accuse the host of something it never was.
THEOREM NothingIsMadeUp == ASSUME HostsAnswer PROVE Spec => []NothingMadeUp
<1>1. Init => NothingMadeUp
  BY DEF Init, NothingMadeUp
<1>2. Gathered /\ NothingMadeUp /\ [Next]_vars => NothingMadeUp'
  <2> SUFFICES ASSUME Gathered, NothingMadeUp, [Next]_vars PROVE NothingMadeUp'
    OBVIOUS
  <2>1. CASE screen' = screen
    BY <2>1 DEF NothingMadeUp
  <2>2. CASE Apply /\ screen' # screen
    <3> DEFINE gather == [seen |-> seen, late |-> late, faults |-> faults]
               cached == Cached(screen)
               review == Review(gather, cached)
    <3>1. review # Failed
      BY <2>2 DEF Apply, Show
    <3>2. screen'.review = review /\ screen'.worlds = worlds /\ screen'.faults = faults
      BY <2>2, <3>1 DEF Apply, Show
    <3>3. worlds \in SUBSET Worlds /\ worlds # {} /\ ReadIn(gather, worlds)
      BY <2>2, WhatItRead
    <3> HIDE DEF review, cached
    <3>4. ASSUME faults = {}, NEW f \in review.findings, f.id # "policy.partial", ~Relisted(f, worlds)
          PROVE  \E w \in worlds : f \in CleanFindings[w]
      BY <3>1, <3>3, <3>4, EarnedInAState DEF review
    <3> QED
      BY <3>2, <3>4 DEF NothingMadeUp
  <2> QED
    BY <2>1, <2>2 DEF Next, vars, Change, Start, Read, Timeout, screenVars, hostVars, gatherVars
<1> QED
  BY <1>1, <1>2, GatheredHolds, PTL DEF Spec

-------------------------------------------------------------------------------
(* Reads that fail: what is still said was said by all of them. *)

\* What some answers say, others say too, but for reads that failed.
FewerAnswers(a, b, reads, failing) == \A r \in reads : a[r] = b[r] \/ (r \in failing /\ a[r] = Failed)

\* Each step of a group is answered as by a host that stays as it is then, or fails.
LEMMA FewerOfSteps ==
    ASSUME NEW gather, NEW g \in Groups
    PROVE  /\ FewerAnswers(Answers(g, gather), Answers(g, Undisturbed(gather.seen[g][1])), Reads \ Details[g], gather.faults)
           /\ FewerAnswers(Answers(g, gather), Answers(g, Undisturbed(gather.seen[g][2])), Details[g], gather.faults)
<1>1. \A r \in Reads : Answers(g, gather)[r] = Answer(gather.seen[g][IF r \in Details[g] THEN 2 ELSE 1], gather.faults, r)
  BY DEF Answers
<1>2. \A w : \A r \in Reads : Answers(g, Undisturbed(w))[r] = Answer(w, {}, r)
  <2> TAKE w
  <2>1. Undisturbed(w).faults = {} /\ Undisturbed(w).seen[g] = <<w, w>>
    BY DEF Undisturbed
  <2>2. \A r : <<w, w>>[IF r \in Details[g] THEN 2 ELSE 1] = w
    OBVIOUS
  <2> QED
    BY <2>1, <2>2 DEF Answers
<1>3. Details[g] \subseteq Reads
  BY DetailsAreReads
<1>4. \A w, failing, r : Answer(w, failing, r) = IF r \in failing THEN Failed ELSE Answer(w, {}, r)
  BY DEF Answer
<1> QED
  BY <1>1, <1>2, <1>3, <1>4 DEF FewerAnswers

\* Nothing is the default of most readers.
LEMMA NothingRead == DOMAIN <<>> = {} /\ \A d : OrElse(Failed, d) = d
  BY DEF OrElse

\* The reads that oppose what is said.
LEMMA OpposedIs ==
    /\ \A id : id = "firewall.absent" => Opposed(id) = {"ufw status", "firewall-cmd --state", "nft list ruleset", "iptables -S"}
    /\ \A id : id = "ssh.failed-logins" => Opposed(id) = {"journalctl -u ssh", "/var/log/auth.log"}
    /\ \A id : id = "policy.port.missing" => Opposed(id) = {"ss -tulpn"}
    /\ \A id : id = "policy.container.image" => Opposed(id) = {"docker inspect"}
    /\ \A id : id = "db.redis.auth-unknown" => Opposed(id) = {"credentials"}
    /\ \A id : id = "cron.missing-script" => Opposed(id) = {"stat scripts"}
    /\ \A id : id \in {"policy.threshold.ram", "policy.threshold.load"} => Opposed(id) = {"tail /proc"}
  BY DEF Opposed

-------------------------------------------------------------------------------
(* The network: listeners. *)

\* A listener as another reading has it, or without its unit.
Sees(l, m) == /\ l.protocol = m.protocol /\ l.ip = m.ip /\ l.port = m.port /\ l.process = m.process
              /\ l.unit \in {m.unit, None}

\* A listener of these rows.
ListenerOf(a, row) ==
    [protocol |-> row.netid, ip |-> row.ip, port |-> row.port,
     process |-> IF ParseProcess(row.users) = None THEN None ELSE row.users.name,
     unit |-> UnitOf(a, ParseProcess(row.users))]

\* collect_listeners, row by row.
LEMMA ListenersAre ==
    ASSUME NEW a
    PROVE  CollectListeners(a) = {ListenerOf(a, row) : row \in
                {OrElse(a["ss -tulpn"], <<>>)[i] : i \in {j \in DOMAIN OrElse(a["ss -tulpn"], <<>>) :
                                                            IsListenerRow(OrElse(a["ss -tulpn"], <<>>)[j])}}}
<1> DEFINE rows == OrElse(a["ss -tulpn"], <<>>)
<1>1. CollectListeners(a) = {ListenerOf(a, rows[i]) : i \in {j \in DOMAIN rows : IsListenerRow(rows[j])}}
  BY Zenon DEF CollectListeners, ListenerOf
<1> HIDE DEF rows
<1>2. CollectListeners(a) = {ListenerOf(a, row) : row \in {rows[i] : i \in {j \in DOMAIN rows : IsListenerRow(rows[j])}}}
  BY <1>1
<1> QED
  BY <1>2, Zenon DEF rows

\* The unit is lost where the cgroups cannot be read, all where the sockets cannot.
LEMMA FewerListeners ==
    ASSUME NEW a, NEW b, NEW failing, FewerAnswers(a, b, {"ss -tulpn", "cgroups"}, failing)
    PROVE  /\ \A l \in CollectListeners(a) : \E m \in CollectListeners(b) : Sees(l, m)
           /\ CollectListeners(a) = {} \/ \A m \in CollectListeners(b) : \E l \in CollectListeners(a) : Sees(l, m)
           /\ "ss -tulpn" \in failing \/ \A m \in CollectListeners(b) : \E l \in CollectListeners(a) : Sees(l, m)
           /\ \A l \in CollectListeners(a) : l # NoListener
<1> DEFINE Rows(x) == {OrElse(x["ss -tulpn"], <<>>)[i] : i \in {j \in DOMAIN OrElse(x["ss -tulpn"], <<>>) :
                                                            IsListenerRow(OrElse(x["ss -tulpn"], <<>>)[j])}}
<1>1. \A x : CollectListeners(x) = {ListenerOf(x, row) : row \in Rows(x)}
  BY ListenersAre, Zenon
<1>2. \A x : x["ss -tulpn"] = Failed => Rows(x) = {}
  BY NothingRead
<1>3. a["ss -tulpn"] = b["ss -tulpn"] => Rows(a) = Rows(b)
  BY Zenon
<1>4. a["ss -tulpn"] = b["ss -tulpn"] \/ ("ss -tulpn" \in failing /\ a["ss -tulpn"] = Failed)
  BY DEF FewerAnswers
<1>5. \A pid : UnitOf(a, pid) \in {UnitOf(b, pid), None}
  <2>1. CASE a["cgroups"] = b["cgroups"]
    BY <2>1, Zenon DEF UnitOf
  <2>2. CASE a["cgroups"] = Failed
    <3>1. OrElse(a["cgroups"], <<>>) = <<>>
      BY <2>2, NothingRead
    <3> QED
      BY <3>1, NothingRead, Zenon DEF UnitOf
  <2> QED
    BY <2>1, <2>2 DEF FewerAnswers
<1>6. \A row : Sees(ListenerOf(a, row), ListenerOf(b, row))
  <2> TAKE row
  <2>1. UnitOf(a, ParseProcess(row.users)) \in {UnitOf(b, ParseProcess(row.users)), None}
    BY <1>5
  <2> QED
    BY <2>1 DEF ListenerOf, Sees
<1>7. \A row \in Rows(a) : ListenerOf(a, row) # NoListener
  <2> TAKE row \in Rows(a)
  <2>1. row.netid \in {"tcp", "udp"}
    BY DEF IsListenerRow
  <2>2. ListenerOf(a, row).protocol = row.netid /\ NoListener.protocol = None
    BY DEF ListenerOf, NoListener
  <2> QED
    BY <2>1, <2>2 DEF None
<1> HIDE DEF Rows
<1> QED
  BY <1>1, <1>2, <1>3, <1>4, <1>6, <1>7

\* What the exposure map says of a listener does not depend on its unit.
LEMMA SeenExposed == ASSUME NEW l, NEW m, Sees(l, m) PROVE Exposure(l) = Exposure(m)
  BY DEF Exposure, Sees

\* Nor do what check_exposed_ports finds
LEMMA ExposedSeen ==
    ASSUME NEW L, NEW M, \A l \in L : \E m \in M : Sees(l, m)
    PROVE  CheckExposedPorts(ExposureMap(L)) \subseteq CheckExposedPorts(ExposureMap(M))
<1>1. \A N : CheckExposedPorts(ExposureMap(N)) =
        {Finding("net.sensitive-port", l.port, Exposure(l)) : l \in {x \in N : Rank(Exposure(x)) >= Rank("high")}}
        \cup {Finding("net.unidentified-listener", l.port, "low") : l \in {x \in N : ~Loopback(x.ip) /\ x.process = None}}
  <2> TAKE N
  <2> DEFINE E(l) == [listener |-> l, external |-> ~Loopback(l.ip), severity |-> Exposure(l)]
  <2>1. ExposureMap(N) = {E(l) : l \in N}
    BY DEF ExposureMap
  <2>2. \A l : E(l).listener = l /\ (E(l).external <=> ~Loopback(l.ip)) /\ E(l).severity = Exposure(l)
    OBVIOUS
  <2> HIDE DEF E
  <2> QED
    BY <2>1, <2>2 DEF CheckExposedPorts
<1>2. \A l \in L : \E m \in M : l.port = m.port /\ l.ip = m.ip /\ l.process = m.process /\ Exposure(l) = Exposure(m)
  BY SeenExposed DEF Sees
<1> QED
  BY <1>1, <1>2

\* and how bad a forbidden port is, where both see the same.
LEMMA ForbiddenSeen ==
    ASSUME NEW L, NEW M, \A l \in L : \E m \in M : Sees(l, m), \A m \in M : \E l \in L : Sees(l, m), NEW port
    PROVE  ForbiddenPortSeverity(port, ExposureMap(L)) = ForbiddenPortSeverity(port, ExposureMap(M))
<1> DEFINE Of(l) == IF Loopback(l.ip) THEN "medium" ELSE IF Rank(Exposure(l)) > Rank("high") THEN Exposure(l) ELSE "high"
           Severities_(N) == {Finding("", "", Of(l)) : l \in {x \in N : x.port = port}}
<1>1. \A N : ForbiddenPortSeverity(port, ExposureMap(N)) = WorstSeverity({Finding("", "", "medium")} \cup Severities_(N))
  <2> TAKE N
  <2> DEFINE E(l) == [listener |-> l, external |-> ~Loopback(l.ip), severity |-> Exposure(l)]
             OfEntry(e) == IF ~e.external THEN "medium" ELSE IF Rank(e.severity) > Rank("high") THEN e.severity ELSE "high"
  <2>1. ExposureMap(N) = {E(l) : l \in N}
    BY DEF ExposureMap
  <2>2. \A l : E(l).listener = l /\ OfEntry(E(l)) = Of(l)
    OBVIOUS
  <2>3. ForbiddenPortSeverity(port, ExposureMap(N)) =
            WorstSeverity({Finding("", "", "medium")} \cup {Finding("", "", OfEntry(e)) : e \in {x \in ExposureMap(N) : x.listener.port = port}})
    BY Zenon DEF ForbiddenPortSeverity
  <2> HIDE DEF E, OfEntry, Of
  <2>4. {Finding("", "", OfEntry(e)) : e \in {x \in ExposureMap(N) : x.listener.port = port}} = Severities_(N)
    BY <2>1, <2>2
  <2> QED
    BY <2>3, <2>4
<1>2. \A l, m : Sees(l, m) => l.port = m.port /\ Of(l) = Of(m)
  BY SeenExposed DEF Sees
<1> HIDE DEF Of
<1>3. Severities_(L) = Severities_(M)
  BY <1>2
<1> QED
  BY <1>1, <1>3

-------------------------------------------------------------------------------
(* The network: the scan. *)

\* failed_login_log, where the journal and the first log answer as they did.
LEMMA LoginsSeen ==
    ASSUME NEW a, NEW b, NEW failing, FewerAnswers(a, b, Reads, failing),
           "journalctl -u ssh" \notin failing, "/var/log/auth.log" \notin failing
    PROVE  CheckFailedLogins(FailedLoginLog(a)) \subseteq CheckFailedLogins(FailedLoginLog(b))
<1>1. a["journalctl -u ssh"] = b["journalctl -u ssh"] /\ a["/var/log/auth.log"] = b["/var/log/auth.log"]
  BY DEF FewerAnswers, Reads
<1>2. a["/var/log/secure"] = b["/var/log/secure"] \/ a["/var/log/secure"] = Failed
  BY DEF FewerAnswers, Reads
<1>3. FailedLoginLog(a) = FailedLoginLog(b) \/ FailedLoginLog(a) = 0
  BY <1>1, <1>2 DEF FailedLoginLog, OrElse
<1>4. CheckFailedLogins(0) = {}
  BY DEF CheckFailedLogins
<1> QED
  BY <1>3, <1>4

\* collect_sudoers: a file that cannot be read grants nothing.
LEMMA GrantsSeen ==
    ASSUME NEW a, NEW b, NEW failing, FewerAnswers(a, b, Reads, failing)
    PROVE  CheckSudo(CollectSudoers(a)) \subseteq CheckSudo(CollectSudoers(b))
<1> DEFINE Of(answer, name) == OrElse(answer, [n \in {name} |-> {}])[name]
           Main(x)  == ParseSudoers(OrElse(x["/etc/sudoers"], {}))
           Names(x) == OrElse(x["/etc/sudoers.d"], {})
           Own(x)   == UNION {ParseSudoers(Of(x["/etc/sudoers.d/*"], name)) : name \in Names(x)}
<1>1. \A x : CollectSudoers(x) = Main(x) \cup Own(x)
  BY Zenon DEF CollectSudoers
<1>2. \A S, T : S \subseteq T => ParseSudoers(S) \subseteq ParseSudoers(T)
  BY DEF ParseSudoers
<1>3. OrElse(a["/etc/sudoers"], {}) \subseteq OrElse(b["/etc/sudoers"], {}) /\ Names(a) \subseteq Names(b)
  <2>1. a["/etc/sudoers"] \in {b["/etc/sudoers"], Failed} /\ a["/etc/sudoers.d"] \in {b["/etc/sudoers.d"], Failed}
    BY DEF FewerAnswers, Reads
  <2> QED
    BY <2>1 DEF OrElse
<1>4. \A name : Of(Failed, name) = {}
  BY NothingRead
<1>5. a["/etc/sudoers.d/*"] = b["/etc/sudoers.d/*"] \/ a["/etc/sudoers.d/*"] = Failed
  BY DEF FewerAnswers, Reads
<1> HIDE DEF Of
<1>6. \A name : ParseSudoers(Of(a["/etc/sudoers.d/*"], name)) \subseteq ParseSudoers(Of(b["/etc/sudoers.d/*"], name))
  <2> TAKE name
  <2>1. CASE a["/etc/sudoers.d/*"] = b["/etc/sudoers.d/*"]
    BY <2>1
  <2>2. CASE a["/etc/sudoers.d/*"] = Failed
    <3>1. Of(a["/etc/sudoers.d/*"], name) = {}
      BY <1>4, <2>2
    <3> QED
      BY <1>2, <3>1
  <2> QED
    BY <1>5, <2>1, <2>2
<1>7. Main(a) \subseteq Main(b)
  BY <1>2, <1>3
<1>8. Own(a) \subseteq Own(b)
  BY <1>3, <1>6
<1> HIDE DEF Main, Own
<1>9. CollectSudoers(a) \subseteq CollectSudoers(b)
  BY <1>1, <1>7, <1>8
<1> QED
  BY <1>9 DEF CheckSudo, When

\* detect_firewall, where its four tools answer as they did.
LEMMA FirewallSeen ==
    ASSUME NEW a, NEW b, NEW failing, FewerAnswers(a, b, Reads, failing),
           {"ufw status", "firewall-cmd --state", "nft list ruleset", "iptables -S"} \cap failing = {}
    PROVE  CheckFirewall(DetectFirewall(a)) = CheckFirewall(DetectFirewall(b))
<1>1. /\ a["ufw status"] = b["ufw status"] /\ a["firewall-cmd --state"] = b["firewall-cmd --state"]
      /\ a["nft list ruleset"] = b["nft list ruleset"] /\ a["iptables -S"] = b["iptables -S"]
  BY DEF FewerAnswers, Reads
<1>2. DetectFirewall(a) = DetectFirewall(b)
  BY <1>1 DEF DetectFirewall
<1> QED
  BY <1>2

\* check_file_perms, check_docker_socket, check_suid: of what could not be looked at they say nothing.
LEMMA FilesSeen ==
    ASSUME NEW a, NEW b, NEW failing, FewerAnswers(a, b, Reads, failing)
    PROVE  /\ CheckFilePerms(RunStat(a["stat critical"], CriticalFiles))
                \subseteq CheckFilePerms(RunStat(b["stat critical"], CriticalFiles))
           /\ CheckDockerSocket(RunStat(a["stat docker.sock"], {"/var/run/docker.sock"}))
                \subseteq CheckDockerSocket(RunStat(b["stat docker.sock"], {"/var/run/docker.sock"}))
           /\ CheckSuid(a["find suid"]) \subseteq CheckSuid(b["find suid"])
<1>1. \A files : RunStat(Failed, files) = <<>>
  BY DEF RunStat
<1>2. CheckFilePerms(<<>>) = {}
  BY NothingRead DEF CheckFilePerms, When
<1>3. CheckDockerSocket(<<>>) = {} /\ CheckSuid(Failed) = {}
  BY NothingRead DEF CheckDockerSocket, CheckSuid, When
<1>4. /\ a["stat critical"] \in {b["stat critical"], Failed}
      /\ a["stat docker.sock"] \in {b["stat docker.sock"], Failed}
      /\ a["find suid"] \in {b["find suid"], Failed}
  BY DEF FewerAnswers, Reads
<1> QED
  BY <1>1, <1>2, <1>3, <1>4

\* certificate_findings
LEMMA CertsSeen ==
    ASSUME NEW a, NEW b, NEW failing, FewerAnswers(a, b, Reads, failing)
    PROVE  CertificateFindings(a) \subseteq CertificateFindings(b)
<1> DEFINE Certs(x) == OrElse(x["openssl x509"], <<>>)
           Paths(x) == DiscoverLocalCerts(OrElse(x["cert dirs"], <<>>))
<1>1. \A x : CertificateFindings(x) = UNION {CheckCertificate(path, Certs(x)[path]) : path \in Paths(x) \cap DOMAIN Certs(x)}
  BY Zenon DEF CertificateFindings
<1>2. Certs(a) = Certs(b) \/ DOMAIN Certs(a) = {}
  <2>1. a["openssl x509"] \in {b["openssl x509"], Failed}
    BY DEF FewerAnswers, Reads
  <2> QED
    BY <2>1, NothingRead
<1>3. Paths(a) = Paths(b) \/ Paths(a) = {}
  <2>1. DiscoverLocalCerts(<<>>) = {}
    BY NothingRead DEF DiscoverLocalCerts
  <2>2. a["cert dirs"] = b["cert dirs"] \/ a["cert dirs"] = Failed
    BY DEF FewerAnswers, Reads
  <2> QED
    BY <2>1, <2>2, NothingRead
<1> HIDE DEF Certs, Paths
<1> QED
  BY <1>1, <1>2, <1>3

\* security_scan: what it says with some answers missing it says with all of them, but for
\* what the missing ones oppose.
LEMMA ScanSeen ==
    ASSUME NEW a, NEW b, NEW failing, FewerAnswers(a, b, Reads, failing),
           NEW f \in SecurityScan(a, ExposureMap(CollectListeners(a))), Opposed(f.id) \cap failing = {}
    PROVE  f \in SecurityScan(b, ExposureMap(CollectListeners(b)))
<1> DEFINE Sshd(x) == IF x["/etc/ssh/sshd_config"] = Failed THEN {} ELSE CheckSshdConfig(x["/etc/ssh/sshd_config"])
<1>1. \A x : SecurityScan(x, ExposureMap(CollectListeners(x))) =
                Sshd(x) \cup CheckFailedLogins(FailedLoginLog(x)) \cup CheckSudo(CollectSudoers(x))
                \cup CheckFirewall(DetectFirewall(x)) \cup CheckFilePerms(RunStat(x["stat critical"], CriticalFiles))
                \cup CheckDockerSocket(RunStat(x["stat docker.sock"], {"/var/run/docker.sock"}))
                \cup CheckSuid(x["find suid"]) \cup CheckExposedPorts(ExposureMap(CollectListeners(x)))
                \cup CertificateFindings(x)
  BY Zenon DEF SecurityScan
<1>2. Sshd(a) \subseteq Sshd(b)
  BY DEF FewerAnswers, Reads
<1>3. CheckExposedPorts(ExposureMap(CollectListeners(a))) \subseteq CheckExposedPorts(ExposureMap(CollectListeners(b)))
  <2>1. FewerAnswers(a, b, {"ss -tulpn", "cgroups"}, failing)
    BY DEF FewerAnswers, Reads
  <2>2. \A l \in CollectListeners(a) : \E m \in CollectListeners(b) : Sees(l, m)
    BY <2>1, FewerListeners, Zenon
  <2> QED
    BY <2>2, ExposedSeen, Zenon
<1>4. f \in CheckFailedLogins(FailedLoginLog(a)) => f \in CheckFailedLogins(FailedLoginLog(b))
  <2>1. \A count : \A g \in CheckFailedLogins(count) : g.id = "ssh.failed-logins"
    BY FindingHasId DEF CheckFailedLogins
  <2> QED
    BY <2>1, OpposedIs, LoginsSeen
<1>5. f \in CheckFirewall(DetectFirewall(a)) => f \in CheckFirewall(DetectFirewall(b))
  <2>1. \A backend : \A g \in CheckFirewall(backend) : g.id = "firewall.absent"
    BY FindingHasId DEF CheckFirewall, When
  <2> QED
    BY <2>1, OpposedIs, FirewallSeen
<1> HIDE DEF Sshd
<1> QED
  BY <1>1, <1>2, <1>3, <1>4, <1>5, GrantsSeen, FilesSeen, CertsSeen

\* port_findings of a network that was read, with the exposures of its listeners.
LEMMA PortsSeen ==
    ASSUME NEW a, NEW b, NEW failing, FewerAnswers(a, b, Reads, failing), NEW policy,
           NEW n, n.listeners = CollectListeners(a), NEW m, m.listeners = CollectListeners(b), m # NoNetwork,
           NEW f \in PortFindings(policy, n, ExposureMap(n.listeners)), f.id # "policy.partial",
           Opposed(f.id) \cap failing = {}
    PROVE  f \in PortFindings(policy, m, ExposureMap(m.listeners))
<1> DEFINE Open(x) == {l.port : l \in x.listeners}
           Missing(x) == {Finding("policy.port.missing", p, "medium") : p \in policy.expectedPorts \ Open(x)}
           Forbidden(x) == {Finding("policy.port.forbidden", p, ForbiddenPortSeverity(p, ExposureMap(x.listeners))) :
                                p \in policy.forbiddenPorts \cap Open(x)}
<1>1. \A x : PortFindings(policy, x, ExposureMap(x.listeners)) =
                IF policy.expectedPorts \cup policy.forbiddenPorts = {} THEN {}
                ELSE IF x = NoNetwork THEN Partial("network") ELSE Missing(x) \cup Forbidden(x)
  BY Zenon DEF PortFindings
<1>2. f \notin Partial("network")
  BY FindingHasId DEF Partial
<1>3. f \in Missing(n) \cup Forbidden(n)
  BY <1>1, <1>2, Zenon
<1>4. PortFindings(policy, m, ExposureMap(m.listeners)) = Missing(m) \cup Forbidden(m)
  <2>1. policy.expectedPorts \cup policy.forbiddenPorts # {}
    BY <1>1, Zenon
  <2> QED
    BY <1>1, <2>1, Zenon
<1>5. FewerAnswers(a, b, {"ss -tulpn", "cgroups"}, failing)
  BY DEF FewerAnswers, Reads
<1>6. \A l \in n.listeners : \E k \in m.listeners : Sees(l, k)
  BY <1>5, FewerListeners
<1>7. CASE f \in Missing(n)
  <2>1. f.id = "policy.port.missing"
    BY <1>7, FindingHasId
  <2>2. "ss -tulpn" \notin failing
    BY <2>1, OpposedIs
  <2>3. \A k \in m.listeners : \E l \in n.listeners : Sees(l, k)
    BY <1>5, <2>2, FewerListeners
  <2>4. Open(m) \subseteq Open(n)
    BY <2>3 DEF Sees
  <2> HIDE DEF Open
  <2>5. f \in Missing(m)
    BY <1>7, <2>4
  <2> QED
    BY <1>4, <2>5
<1>8. CASE f \in Forbidden(n)
  <2>1. n.listeners # {}
    BY <1>8
  <2>2. \A k \in m.listeners : \E l \in n.listeners : Sees(l, k)
    BY <1>5, <2>1, FewerListeners
  <2>3. Open(n) \subseteq Open(m)
    BY <1>6 DEF Sees
  <2>4. \A p : ForbiddenPortSeverity(p, ExposureMap(n.listeners)) = ForbiddenPortSeverity(p, ExposureMap(m.listeners))
    BY <1>6, <2>2, ForbiddenSeen
  <2> HIDE DEF Open
  <2>5. f \in Forbidden(m)
    BY <1>8, <2>3, <2>4
  <2> QED
    BY <1>4, <2>5
<1> QED
  BY <1>3, <1>7, <1>8

-------------------------------------------------------------------------------
(* Units, limits and containers. *)

\* A host that can be read is one whose review has a report.
LEMMA CleanHost == ASSUME HostsAnswer, NEW w \in Worlds PROVE CleanResults(w).host # Failed
<1>1. CleanReview(w) # Failed
  BY DEF HostsAnswer
<1> QED
  BY <1>1 DEF CleanReview, Review, Merged, CleanResults

\* The limits of a policy that look at the memory and the load, and those of the disks.
LEMMA LimitsAre ==
    ASSUME NEW policy, NEW s, NEW t, s.disks = t.disks \/ s.disks = {}, s.cpu.cores = t.cpu.cores,
           NEW f \in ThresholdFindings(policy, s),
           f.id \notin {"policy.threshold.ram", "policy.threshold.load"} \/ (s.memory = t.memory /\ s.load = t.load)
    PROVE  f \in ThresholdFindings(policy, t)
<1> DEFINE Over(value, limit) == limit # Absent /\ value >= limit
           Critical(disks) == {d \in disks : Over(d.use, policy.diskCritical)}
           Warning(disks)  == {d \in disks \ Critical(disks) : Over(d.use, policy.diskWarning)}
           Disks(disks) == {Finding("policy.threshold.disk-critical", Stable(d.mount), "critical") : d \in Critical(disks)}
                           \cup {Finding("policy.threshold.disk-warning", Stable(d.mount), "high") : d \in Warning(disks)}
           Ram(memory) == When(policy.ramWarning # Absent
                                /\ UsedAtLeast(memory.total, memory.available, policy.ramWarning),
                               {Finding("policy.threshold.ram", "", "medium")})
           Load(load, cores) == When(policy.loadPerCore # Absent /\ Overloaded(load, cores, policy.loadPerCore),
                                     {Finding("policy.threshold.load", "", "medium")})
<1>1. \A x : ThresholdFindings(policy, x) = Disks(x.disks) \cup Ram(x.memory) \cup Load(x.load, x.cpu.cores)
  BY DEF ThresholdFindings
<1>2. Disks({}) = {}
  OBVIOUS
<1>0. \A c, S : \A g \in When(c, S) : g \in S
  BY Zenon DEF When
<1>3. \A m : \A g \in Ram(m) : g.id = "policy.threshold.ram"
  <2> TAKE m
  <2>1. \A g \in Ram(m) : g \in {Finding("policy.threshold.ram", "", "medium")}
    BY <1>0, Zenon
  <2>2. Finding("policy.threshold.ram", "", "medium").id = "policy.threshold.ram"
    BY FindingHasId, Zenon
  <2> HIDE DEF Ram
  <2> QED
    BY <2>1, <2>2
<1>4. \A l, c : \A g \in Load(l, c) : g.id = "policy.threshold.load"
  <2> TAKE l, c
  <2>1. \A g \in Load(l, c) : g \in {Finding("policy.threshold.load", "", "medium")}
    BY <1>0, Zenon
  <2>2. Finding("policy.threshold.load", "", "medium").id = "policy.threshold.load"
    BY FindingHasId, Zenon
  <2> HIDE DEF Load
  <2> QED
    BY <2>1, <2>2
<1> HIDE DEF Disks, Ram, Load
<1>5. f \in Disks(s.disks) => f \in Disks(t.disks)
  BY <1>2
<1>6. f \in Ram(s.memory) => f \in Ram(t.memory)
  BY <1>3
<1>7. f \in Load(s.load, s.cpu.cores) => f \in Load(t.load, t.cpu.cores)
  BY <1>4
<1> QED
  BY <1>1, <1>5, <1>6, <1>7, Zenon

\* collect_host_report: of what is left, the disks may be missing, and where the one command
\* fails, the files are read one by one.
LEMMA LimitsSeen ==
    ASSUME NEW a, NEW b, NEW failing, FewerAnswers(a, b, Reads, failing), NEW x, NEW y,
           CollectHostReport(a, x) # Failed, CollectHostReport(b, y) # Failed, NEW policy,
           NEW f \in ThresholdFindings(policy, CollectHostReport(a, x).system), Opposed(f.id) \cap failing = {}
    PROVE  f \in ThresholdFindings(policy, CollectHostReport(b, y).system)
<1>1. ASSUME NEW c, NEW z, CollectHostReport(c, z) # Failed
      PROVE  CollectHostReport(c, z).system = CollectSystem(c, z) /\ CollectSystem(c, z) # Failed
  <2>1. CollectSystem(c, z) # Failed
    BY <1>1, Zenon DEF CollectHostReport
  <2> QED
    BY <2>1 DEF CollectHostReport
<1>2. ASSUME NEW c, NEW z, CollectSystem(c, z) # Failed
      PROVE  /\ CollectSystem(c, z).disks = ParseDf(OrElse(c["df -P"], {}))
             /\ CollectSystem(c, z).memory = ParseMeminfo(ReadProc(c)["/proc/meminfo"])
             /\ CollectSystem(c, z).load = ReadProc(c)["/proc/loadavg"]
             /\ CollectSystem(c, z).cpu = CpuUsage(ReadProc(c)["/proc/stat"], c["/proc/stat"])
             /\ c["/proc/stat"] # Failed /\ \A file \in ProcFiles : ReadProc(c)[file] # Failed
  BY <1>2 DEF CollectSystem
<1> DEFINE s == CollectSystem(a, x)
           t == CollectSystem(b, y)
<1>3. s # Failed /\ t # Failed /\ CollectHostReport(a, x).system = s /\ CollectHostReport(b, y).system = t
  BY <1>1
<1>4. s.disks = t.disks \/ s.disks = {}
  <2>1. a["df -P"] \in {b["df -P"], Failed}
    BY DEF FewerAnswers, Reads
  <2>2. ParseDf({}) = {}
    BY DEF ParseDf
  <2> HIDE DEF s, t
  <2>3. s.disks = ParseDf(OrElse(a["df -P"], {})) /\ t.disks = ParseDf(OrElse(b["df -P"], {}))
    BY <1>2, <1>3 DEF s, t
  <2> QED
    BY <2>1, <2>2, <2>3, NothingRead
<1>5. s.cpu.cores = t.cpu.cores
  <2>1. \A p, q : CpuUsage(p, q).cores = q.cores
    BY DEF CpuUsage
  <2>2. a["/proc/stat"] = b["/proc/stat"]
    BY <1>2, <1>3 DEF FewerAnswers, Reads
  <2> HIDE DEF s, t
  <2>3. s.cpu = CpuUsage(ReadProc(a)["/proc/stat"], a["/proc/stat"]) /\ t.cpu = CpuUsage(ReadProc(b)["/proc/stat"], b["/proc/stat"])
    BY <1>2, <1>3 DEF s, t
  <2> QED
    BY <2>1, <2>2, <2>3
<1>6. ASSUME f.id \in {"policy.threshold.ram", "policy.threshold.load"}
      PROVE  s.memory = t.memory /\ s.load = t.load
  <2>1. a["tail /proc"] = b["tail /proc"]
    <3>1. Opposed(f.id) = {"tail /proc"}
      BY <1>6, OpposedIs
    <3> QED
      BY <3>1 DEF FewerAnswers, Reads
  <2>2. \A file \in ProcFiles : ReadProc(a)[file] = ReadProc(b)[file]
    <3>1. CASE a["tail /proc"] # Failed
      BY <2>1, <3>1 DEF ReadProc
    <3>2. CASE a["tail /proc"] = Failed
      <4>1. \A file \in ProcFiles : ReadProc(a)[file] = a[file] /\ ReadProc(b)[file] = b[file]
        BY <2>1, <3>2 DEF ReadProc
      <4>2. \A file \in ProcFiles : a[file] # Failed
        BY <1>2, <1>3, <4>1
      <4>3. ProcFiles \subseteq Reads
        BY DEF ProcFiles, Reads
      <4> QED
        BY <4>1, <4>2, <4>3 DEF FewerAnswers
    <3> QED
      BY <3>1, <3>2
  <2>3. "/proc/meminfo" \in ProcFiles /\ "/proc/loadavg" \in ProcFiles
    BY DEF ProcFiles
  <2> HIDE DEF s, t
  <2>4. /\ s.memory = ParseMeminfo(ReadProc(a)["/proc/meminfo"]) /\ s.load = ReadProc(a)["/proc/loadavg"]
        /\ t.memory = ParseMeminfo(ReadProc(b)["/proc/meminfo"]) /\ t.load = ReadProc(b)["/proc/loadavg"]
    BY <1>2, <1>3 DEF s, t
  <2> QED
    BY <2>2, <2>3, <2>4
<1> HIDE DEF s, t
<1> QED
  BY <1>3, <1>4, <1>5, <1>6, LimitsAre

\* gather_services
LEMMA UnitsSeen ==
    ASSUME NEW a, NEW b, NEW failing, FewerAnswers(a, b, Reads, failing)
    PROVE  GatherServices(a).units = GatherServices(b).units \/ GatherServices(a).units = {}
<1>1. a["systemctl list-units"] \in {b["systemctl list-units"], Failed}
  BY DEF FewerAnswers, Reads
<1>2. \A x : GatherServices(x).units = OrElse(CollectServices(x), {})
  BY DEF GatherServices
<1>3. a["systemctl list-units"] = b["systemctl list-units"] => CollectServices(a) = CollectServices(b)
  BY Zenon DEF CollectServices
<1>4. a["systemctl list-units"] = Failed => CollectServices(a) = Failed
  BY DEF CollectServices
<1> QED
  BY <1>1, <1>2, <1>3, <1>4, NothingRead

\* docker_policy_findings: but for the images, which are those of the inspects, they are of
\* the list.
LEMMA ContainersAre ==
    ASSUME NEW policy, NEW d, NEW e, d.available, e.available, d.containers = e.containers,
           NEW f \in DockerPolicyFindings(policy, d), f.id # "policy.container.image" \/ d.inspects = e.inspects
    PROVE  f \in DockerPolicyFindings(policy, e)
<1> DEFINE Listed(containers, name) == {c \in containers : c.name = name}
           Image(containers, inspects, name) ==
                IF {i \in inspects : i.name = name} # {} THEN (CHOOSE i \in {i \in inspects : i.name = name} : TRUE).image
                ELSE (CHOOSE c \in Listed(containers, name) : TRUE).image
           Weight(c) == IF IsRunning(c) THEN "high" ELSE "medium"
           Present(containers) == {x \in policy.expectedContainers : Listed(containers, x.name) # {}}
           Images(containers, inspects) ==
                {Finding("policy.container.image", Stable(x.name), "medium") :
                    x \in {y \in Present(containers) : y.image # None /\ Image(containers, inspects, y.name) # y.image}}
           Others(containers) ==
                {Finding("policy.container.missing", Stable(x.name), "medium") : x \in policy.expectedContainers \ Present(containers)}
                \cup {Finding("policy.container.stopped", Stable(x.name), "medium") :
                        x \in {y \in Present(containers) : \A c \in Listed(containers, y.name) : ~IsRunning(c)}}
                \cup {Finding("policy.container.forbidden", Stable(c.name), Weight(c)) :
                        c \in {x \in containers : x.name \in policy.forbiddenContainers}}
                \cup {Finding("policy.image.forbidden", Stable(c.image) \o "." \o Stable(c.name), Weight(c)) :
                        c \in {x \in containers : x.image \in policy.forbiddenImages}}
           Unasked == policy.expectedContainers = {} /\ policy.forbiddenContainers \cup policy.forbiddenImages = {}
<1>1. \A x : x.available =>
        DockerPolicyFindings(policy, x) = IF Unasked THEN {} ELSE Images(x.containers, x.inspects) \cup Others(x.containers)
  <2> TAKE x
  <2> HAVE x.available
  <2>1. DockerPolicyFindings(policy, x) =
            IF Unasked THEN {}
            ELSE {Finding("policy.container.missing", Stable(e_.name), "medium") : e_ \in policy.expectedContainers \ Present(x.containers)}
             \cup {Finding("policy.container.stopped", Stable(e_.name), "medium") :
                    e_ \in {y \in Present(x.containers) : \A c \in Listed(x.containers, y.name) : ~IsRunning(c)}}
             \cup Images(x.containers, x.inspects)
             \cup {Finding("policy.container.forbidden", Stable(c.name), Weight(c)) :
                    c \in {y \in x.containers : y.name \in policy.forbiddenContainers}}
             \cup {Finding("policy.image.forbidden", Stable(c.image) \o "." \o Stable(c.name), Weight(c)) :
                    c \in {y \in x.containers : y.image \in policy.forbiddenImages}}
    BY Zenon DEF DockerPolicyFindings
  <2> HIDE DEF Images, Unasked
  <2> QED
    BY <2>1
<1>2. \A cs, is : \A g \in Images(cs, is) : g.id = "policy.container.image"
  <2> TAKE cs, is
  <2> TAKE g \in Images(cs, is)
  <2>1. \E subject : g = Finding("policy.container.image", subject, "medium")
    BY Zenon
  <2> HIDE DEF Images
  <2> QED
    BY <2>1, FindingHasId
<1> HIDE DEF Images, Others, Unasked
<1> QED
  BY <1>1, <1>2

\* inspect_container, check_container: what is said of a container that was listed before,
\* is said of it when it is looked at.
LEMMA DocumentsSeen ==
    ASSUME NEW docs, NEW listed, NEW others, DOMAIN docs \subseteq {c.id : c \in others},
           NEW f, f \in DockerFindings({ParseInspect(docs[c.id]) :
                            c \in {d \in listed : d.id \in DOMAIN docs /\ docs[d.id] # Unreadable}})
    PROVE  f \in DockerFindings({ParseInspect(docs[c.id]) :
                            c \in {d \in others : d.id \in DOMAIN docs /\ docs[d.id] # Unreadable}})
<1> DEFINE Seen(containers) == {d \in containers : d.id \in DOMAIN docs /\ docs[d.id] # Unreadable}
<1>1. \A cs : DockerFindings({ParseInspect(docs[c.id]) : c \in Seen(cs)}) = UNION {CheckContainer(ParseInspect(docs[c.id])) : c \in Seen(cs)}
  <2> HIDE DEF Seen
  <2> QED
    BY DEF DockerFindings
<1>2. PICK c \in Seen(listed) : f \in CheckContainer(ParseInspect(docs[c.id]))
  <2>1. f \in UNION {CheckContainer(ParseInspect(docs[c.id])) : c \in Seen(listed)}
    BY <1>1, Zenon
  <2> HIDE DEF Seen
  <2> QED
    BY <2>1
<1>3. PICK d \in Seen(others) : d.id = c.id
  BY <1>2
<1> HIDE DEF Seen
<1>4. f \in UNION {CheckContainer(ParseInspect(docs[x.id])) : x \in Seen(others)}
  BY <1>2, <1>3
<1> QED
  BY <1>1, <1>4, Zenon DEF Seen

\* gather_docker, where docker answers at all: its list is that of the first state.
LEMMA DockerIs ==
    ASSUME NEW a, a["docker ps"] # Failed
    PROVE  /\ GatherDocker(a).available /\ GatherDocker(a).containers = ParsePs(a["docker ps"])
           /\ GatherDocker(a).inspects = Inspects(a, ParsePs(a["docker ps"]))
           /\ GatherDocker(a).findings = DockerFindings(Inspects(a, ParsePs(a["docker ps"])))
  BY DEF GatherDocker, DockerDetails

\* What inspect says of these containers.
LEMMA InspectsAre ==
    ASSUME NEW a, NEW containers
    PROVE  Inspects(a, containers) =
            {ParseInspect(OrElse(a["docker inspect"], <<>>)[c.id]) :
                c \in {d \in containers : d.id \in DOMAIN OrElse(a["docker inspect"], <<>>)
                                          /\ OrElse(a["docker inspect"], <<>>)[d.id] # Unreadable}}
  BY Zenon DEF Inspects

\* docker_findings of containers of the first state, looked at in the second.
LEMMA ContainersSeen ==
    ASSUME NEW a, NEW c, NEW failing, FewerAnswers(a, c, Details["docker"], failing), a["docker ps"] # Failed,
           DOMAIN OrElse(c["docker inspect"], <<>>) \subseteq {d.id : d \in ParsePs(OrElse(c["docker ps"], <<>>))},
           NEW f \in GatherDocker(a).findings
    PROVE  f \in GatherDocker(c).findings
<1> DEFINE docs   == OrElse(c["docker inspect"], <<>>)
           listed == ParsePs(a["docker ps"])
           others == ParsePs(OrElse(c["docker ps"], <<>>))
           Found_(documents, containers) ==
                DockerFindings({ParseInspect(documents[x.id]) :
                    x \in {d \in containers : d.id \in DOMAIN documents /\ documents[d.id] # Unreadable}})
<1>1. f \in Found_(OrElse(a["docker inspect"], <<>>), listed)
  BY DockerIs, InspectsAre
<1>2. \A containers : Found_(<<>>, containers) = {}
  <2>1. DockerFindings({}) = {}
    BY DEF DockerFindings
  <2>2. \A containers : {d \in containers : d.id \in DOMAIN <<>> /\ <<>>[d.id] # Unreadable} = {}
    BY NothingRead
  <2> QED
    BY <2>1, <2>2
<1>3. a["docker inspect"] \in {c["docker inspect"], Failed}
  BY ReadBy DEF FewerAnswers
<1>4. OrElse(a["docker inspect"], <<>>) = docs
  <2>1. OrElse(a["docker inspect"], <<>>) # <<>>
    <3> HIDE DEF Found_
    <3> QED
      BY <1>1, <1>2
  <2> QED
    BY <1>3, <2>1, NothingRead
<1>5. DOMAIN docs \subseteq {d.id : d \in others}
  OBVIOUS
<1>6. f \in Found_(docs, listed)
  BY <1>1, <1>4, Zenon
<1>7. f \in Found_(docs, others)
  <2> HIDE DEF docs, listed, others
  <2> QED
    BY <1>5, <1>6, DocumentsSeen
<1>8. c["docker ps"] # Failed
  <2>1. ParsePs(<<>>) = {}
    BY NothingRead DEF ParsePs, Readable
  <2>2. others # {}
    <3>1. Found_(docs, {}) = {}
      <4> HIDE DEF docs
      <4> QED
        BY DEF DockerFindings
    <3> HIDE DEF docs, others
    <3> QED
      BY <1>7, <3>1, Zenon
  <2> QED
    BY <2>1, <2>2, NothingRead
<1>9. others = ParsePs(c["docker ps"])
  BY <1>8 DEF OrElse
<1>10. GatherDocker(c).findings = Found_(docs, others)
  <2>1. GatherDocker(c).findings = DockerFindings(Inspects(c, others))
    BY <1>8, <1>9, DockerIs
  <2> HIDE DEF others
  <2> QED
    BY <2>1, InspectsAre
<1> HIDE DEF Found_
<1> QED
  BY <1>7, <1>10

-------------------------------------------------------------------------------
(* The jobs. *)

\* collect_cron_entries: a source that cannot be read contributes nothing.
LEMMA JobsSeen ==
    ASSUME NEW a, NEW b, NEW failing, FewerAnswers(a, b, Reads \ Details["crons"], failing)
    PROVE  CollectCronEntries(a) \subseteq CollectCronEntries(b)
<1> DEFINE FileOf(files, name) == OrElse(files, [n \in {name} |-> <<>>])[name]
           DirOf(dirs, d)      == OrElse(dirs, [e \in {d} |-> {}])[d]
           User(x)     == ParseCrontab(OrElse(x["crontab -l"], <<>>), "user")
           System(x)   == ParseCrontab(OrElse(x["/etc/crontab"], <<>>), "system")
           Names(x)    == RunnableIn(OrElse(x["/etc/cron.d"], {}))
           Files(x)    == UNION {ParseCrontab(FileOf(x["/etc/cron.d/*"], name), "cron-d") : name \in Names(x)}
           Anacron(x)  == ParseAnacrontab(OrElse(x["/etc/anacrontab"], <<>>))
           In(x, d)    == {Entry(JobLine(Macro(PeriodicDirs[d]), "root", PeriodicScript(n)), "periodic", 0, TRUE) :
                                n \in RunnableIn(DirOf(x["/etc/cron.periodic"], d))}
           Periodic(x) == UNION {In(x, d) : d \in DOMAIN PeriodicDirs}
<1>1. \A x : CollectCronEntries(x) = User(x) \cup System(x) \cup Files(x) \cup Anacron(x) \cup Periodic(x)
  BY Zenon DEF CollectCronEntries
<1>2. \A source : ParseCrontab(<<>>, source) = {}
  BY NothingRead DEF ParseCrontab
<1>3. ParseAnacrontab(<<>>) = {}
  BY NothingRead DEF ParseAnacrontab
<1>4. RunnableIn({}) = {}
  BY DEF RunnableIn
<1>5. /\ a["crontab -l"] \in {b["crontab -l"], Failed} /\ a["/etc/crontab"] \in {b["/etc/crontab"], Failed}
      /\ a["/etc/cron.d"] \in {b["/etc/cron.d"], Failed} /\ a["/etc/cron.d/*"] \in {b["/etc/cron.d/*"], Failed}
      /\ a["/etc/anacrontab"] \in {b["/etc/anacrontab"], Failed}
      /\ a["/etc/cron.periodic"] \in {b["/etc/cron.periodic"], Failed}
  BY ReadBy DEF FewerAnswers, Reads
<1>6. \A name : FileOf(Failed, name) = <<>>
  BY NothingRead
<1>7. \A d : DirOf(Failed, d) = {}
  BY NothingRead
<1>8. User(a) \subseteq User(b) /\ System(a) \subseteq System(b) /\ Anacron(a) \subseteq Anacron(b)
  BY <1>2, <1>3, <1>5, NothingRead
<1>9. Names(a) \subseteq Names(b)
  BY <1>4, <1>5, NothingRead
<1> HIDE DEF FileOf, DirOf, Names
<1>10. Files(a) \subseteq Files(b)
  <2>1. \A name : ParseCrontab(FileOf(a["/etc/cron.d/*"], name), "cron-d") \subseteq ParseCrontab(FileOf(b["/etc/cron.d/*"], name), "cron-d")
    <3> TAKE name
    <3>1. CASE a["/etc/cron.d/*"] = b["/etc/cron.d/*"]
      BY <3>1
    <3>2. CASE a["/etc/cron.d/*"] = Failed
      <4>1. FileOf(a["/etc/cron.d/*"], name) = <<>>
        BY <1>6, <3>2
      <4> QED
        BY <1>2, <4>1
    <3> QED
      BY <1>5, <3>1, <3>2
  <2> QED
    BY <1>9, <2>1
<1>11. Periodic(a) \subseteq Periodic(b)
  <2>1. \A d : In(a, d) \subseteq In(b, d)
    <3> TAKE d
    <3>1. CASE a["/etc/cron.periodic"] = b["/etc/cron.periodic"]
      BY <3>1
    <3>2. CASE a["/etc/cron.periodic"] = Failed
      <4>1. DirOf(a["/etc/cron.periodic"], d) = {}
        BY <1>7, <3>2
      <4> QED
        BY <1>4, <4>1
    <3> QED
      BY <1>5, <3>1, <3>2
  <2> HIDE DEF In
  <2> QED
    BY <2>1
<1> HIDE DEF User, System, Files, Anacron, Periodic
<1> QED
  BY <1>1, <1>8, <1>10, <1>11

\* The script and the user of a job that is active.
ActiveScripts(entries) == {[script |-> e.command.script, user |-> e.user] : e \in {j \in entries : j.enabled}}

\* What stat decides of a script.
LEMMA StatSays ==
    ASSUME NEW e, NEW stats, NEW f \in CheckScript(e, stats), f.id \in StatIds
    PROVE  /\ e.command.script # NoScript /\ f.subject = e.command.script
           /\ \/ e.command.script \notin DOMAIN stats /\ f = Finding("cron.missing-script", e.command.script, "medium")
              \/ /\ e.command.script \in DOMAIN stats /\ ~stats[e.command.script].executable
                 /\ f = Finding("cron.not-executable", e.command.script, "medium")
              \/ /\ e.user = "root" /\ e.command.script \in DOMAIN stats /\ stats[e.command.script].worldWritable
                 /\ f = Finding("cron.world-writable-script", e.command.script, "high")
<1>1. \A id, subject, severity : Finding(id, subject, severity).subject = subject
  BY DEF Finding
<1>2. f # Finding("cron.root-temp-script", e.command.script, "high")
  BY FindingHasId DEF StatIds
<1> QED
  BY <1>1, <1>2, ScriptSays

\* gather_crons: what is said of jobs of the first state, one of the two states earns, unless
\* a script is said to be missing where none could be looked at, or its job was gone.
LEMMA CronsSeen ==
    ASSUME NEW a, NEW b, NEW c, NEW failing, FewerAnswers(a, b, Reads \ Details["crons"], failing),
           FewerAnswers(a, c, Details["crons"], failing),
           NEW f \in GatherCrons(a).findings, Opposed(f.id) \cap failing = {},
           f.id \in StatIds => \A s \in ActiveScripts(CollectCronEntries(b)) :
                                    s.script = f.subject => s \in ActiveScripts(CollectCronEntries(c))
    PROVE  f \in GatherCrons(b).findings \/ f \in GatherCrons(c).findings
<1> DEFINE jobs   == CollectCronEntries(a)
           first  == CollectCronEntries(b)
           second == CollectCronEntries(c)
<1>1. jobs \subseteq first
  BY JobsSeen
<1>2. /\ GatherCrons(b).findings = CronFindings(b, first) /\ GatherCrons(c).findings = CronFindings(c, second)
      /\ GatherCrons(a).findings = CronFindings(a, jobs)
  BY DEF GatherCrons, CronReport
<1>3. a["stat scripts"] = c["stat scripts"] \/ ("stat scripts" \in failing /\ a["stat scripts"] = Failed)
  BY ReadBy DEF FewerAnswers
<1> DEFINE stats == StatScripts(a, ScriptPaths(jobs))
<1> HIDE DEF jobs, first, second
<1>4. CASE f \in Duplicates(jobs)
  <2>1. f \in Duplicates(first)
    BY <1>1, <1>4 DEF Duplicates
  <2> QED
    BY <1>2, <2>1, FoundOfJobs
<1>5. CASE f \notin Duplicates(jobs)
  <2>1. PICK e \in jobs : f \in CheckEntry(e, stats)
    BY <1>2, <1>5, FoundOfJobs
  <2>2. CASE f.id \notin StatIds
    <3>1. f \in CheckEntry(e, StatScripts(b, ScriptPaths(first)))
      BY <2>1, <2>2, OtherFindings
    <3> QED
      BY <1>1, <1>2, <3>1, FoundOfJobs
  <2>3. CASE f.id \in StatIds
    <3> DEFINE path  == e.command.script
               after == StatScripts(c, ScriptPaths(second))
               found == OrElse(c["stat scripts"], <<>>)
    <3>1. e.enabled /\ f \in CheckScript(e, stats)
      BY <2>1, <2>3, StatFindings
    <3>2. path # NoScript /\ f.subject = path
      BY <2>3, <3>1, StatSays
    <3>3. PICK d \in second : d.enabled /\ d.command.script = path /\ d.user = e.user
      <4>1. [script |-> path, user |-> e.user] \in ActiveScripts(first)
        BY <1>1, <3>1 DEF ActiveScripts
      <4>2. [script |-> path, user |-> e.user] \in ActiveScripts(second)
        BY <2>3, <3>2, <4>1 DEF first, second
      <4> QED
        BY <4>2 DEF ActiveScripts
    <3>4. /\ path \in DOMAIN stats <=> path \in DOMAIN OrElse(a["stat scripts"], <<>>)
          /\ path \in DOMAIN stats => stats[path] = OrElse(a["stat scripts"], <<>>)[path]
      BY <3>1, <3>2, StatOf DEF stats
    <3>5. OrElse(a["stat scripts"], <<>>) = found
      <4>1. CASE a["stat scripts"] = c["stat scripts"]
        BY <4>1
      <4>2. CASE "stat scripts" \in failing /\ a["stat scripts"] = Failed
        <5>1. path \notin DOMAIN stats
          BY <3>4, <4>2, NothingRead
        <5>2. f.id = "cron.missing-script"
          BY <2>3, <3>1, <5>1, StatSays, FindingHasId
        <5> QED
          BY <4>2, <5>2, OpposedIs
      <4> QED
        BY <1>3, <4>1, <4>2
    <3> HIDE DEF stats
    <3>6. /\ path \in DOMAIN after <=> path \in DOMAIN found
          /\ path \in DOMAIN after => after[path] = found[path]
      BY <3>2, <3>3, StatOf DEF after
    <3> HIDE DEF after, found
    <3>7. f \in CheckScript(d, after)
      <4>1. /\ path \in DOMAIN stats <=> path \in DOMAIN after
            /\ path \in DOMAIN stats => stats[path] = after[path]
        BY <3>4, <3>5, <3>6
      <4>2. \/ path \notin DOMAIN stats /\ f = Finding("cron.missing-script", path, "medium")
            \/ path \in DOMAIN stats /\ ~stats[path].executable /\ f = Finding("cron.not-executable", path, "medium")
            \/ /\ e.user = "root" /\ path \in DOMAIN stats /\ stats[path].worldWritable
               /\ f = Finding("cron.world-writable-script", path, "high")
        BY <2>3, <3>1, StatSays
      <4> QED
        BY <3>2, <3>3, <4>1, <4>2, ScriptSays
    <3>8. f \in CheckEntry(d, after)
      BY <3>3, <3>7 DEF CheckEntry
    <3> QED
      BY <1>2, <3>3, <3>8, FoundOfJobs DEF after
  <2> QED
    BY <2>2, <2>3
<1> QED
  BY <1>4, <1>5

-------------------------------------------------------------------------------
(* The databases. *)

\* A set of places has a first one.
LEMMA FirstPlace ==
    ASSUME NEW S \in SUBSET Nat, S # {}
    PROVE  \E k \in S : \A j \in S : k <= j
<1>1. \E k \in S : \A j \in S : <<j, k>> \notin OpToRel(<, Nat)
  BY NatLessThanWellFounded, WFMin, Zenon
<1>2. \A j, k \in Nat : j < k => <<j, k>> \in OpToRel(<, Nat)
  BY Zenon DEF OpToRel
<1>3. \E k \in S : \A j \in S : ~(j < k)
  BY <1>1, <1>2, Zenon
<1> QED
  BY <1>3

UnitsBy(a) == OrElse(CollectServices(a), {})

\* What Gone compares, by the answers.
RedisBy(a)    == \E i \in Detected(a) : i.engine = "redis" /\ External(i)
PortsBy(a)    == {[engine |-> i.engine, port |-> i.listener.port] : i \in {d \in Detected(a) : d.listener # NoListener}}
JournalsBy(a) == UNION {{[engine |-> e, service |-> s.name] : s \in Matching(UnitsBy(a), e)} : e \in Engines}

\* An instance is that of a listener, or that of a unit.
IsOf(d, e, service, listener) == d.engine = e /\ d.service = service /\ d.listener = listener

\* detect_database_instances, instance by instance.
LEMMA DetectedIs ==
    ASSUME NEW a
    PROVE  /\ \A d \in Detected(a) :
                \/ \E l \in CollectListeners(a) :
                      /\ EngineForListener(l) # None
                      /\ IsOf(d, EngineForListener(l), ServiceForListener(l, EngineForListener(l), UnitsBy(a)), l)
                \/ \E e \in Engines : \E s \in Matching(UnitsBy(a), e) : IsOf(d, e, s.name, NoListener)
           /\ \A l \in CollectListeners(a) : EngineForListener(l) # None =>
                \E d \in Detected(a) :
                    IsOf(d, EngineForListener(l), ServiceForListener(l, EngineForListener(l), UnitsBy(a)), l)
           /\ \A e \in Engines : \A s \in Matching(UnitsBy(a), e) :
                \/ \E d \in Detected(a) : IsOf(d, e, s.name, NoListener)
                \/ \E l \in CollectListeners(a) :
                      /\ EngineForListener(l) # None
                      /\ s.name = ServiceForListener(l, EngineForListener(l), UnitsBy(a))
<1> DEFINE units == UnitsBy(a)
           listeners == CollectListeners(a)
           Own(l) == Instance(EngineForListener(l), ServiceForListener(l, EngineForListener(l), units), l)
           found == {Own(l) : l \in {x \in listeners : EngineForListener(x) # None}}
           used == {i.service : i \in found}
           rest == UNION {{Instance(e, s.name, NoListener) : s \in {t \in Matching(units, e) : t.name \notin used}} : e \in Engines}
<1>1. Detected(a) = found \cup rest
  BY Zenon DEF Detected, DetectInstances, UnitsBy
<1>2. \A l : Own(l).service = ServiceForListener(l, EngineForListener(l), units)
  BY DEF Instance
<1> HIDE DEF Own, units, listeners
<1>3. \A d \in rest : \E e \in Engines : \E s \in Matching(units, e) : d = Instance(e, s.name, NoListener)
  OBVIOUS
<1>4. \A e \in Engines : \A s \in Matching(units, e) : s.name \in used \/ Instance(e, s.name, NoListener) \in rest
  <2> HIDE DEF used
  <2> QED
    OBVIOUS
<1>5. \A n \in used : \E l \in listeners : EngineForListener(l) # None /\ n = Own(l).service
  OBVIOUS
<1>6. \A d \in found : \E l \in listeners : EngineForListener(l) # None /\ d = Own(l)
  OBVIOUS
<1>7. \A l \in listeners : EngineForListener(l) # None => Own(l) \in found
  OBVIOUS
<1>8. \A e, s, l : IsOf(Instance(e, s, l), e, s, l)
  BY DEF Instance, IsOf
<1>9. \A l : IsOf(Own(l), EngineForListener(l), ServiceForListener(l, EngineForListener(l), units), l)
  BY <1>8, Zenon DEF Own
<1> HIDE DEF found, used, rest
<1>10. \A d \in Detected(a) :
        \/ \E l \in listeners : /\ EngineForListener(l) # None
                                /\ IsOf(d, EngineForListener(l), ServiceForListener(l, EngineForListener(l), units), l)
        \/ \E e \in Engines : \E s \in Matching(units, e) : IsOf(d, e, s.name, NoListener)
  BY <1>1, <1>3, <1>6, <1>8, <1>9
<1>11. \A l \in listeners : EngineForListener(l) # None =>
        \E d \in Detected(a) : IsOf(d, EngineForListener(l), ServiceForListener(l, EngineForListener(l), units), l)
  BY <1>1, <1>7, <1>9
<1>12. \A e \in Engines : \A s \in Matching(units, e) :
        \/ \E d \in Detected(a) : IsOf(d, e, s.name, NoListener)
        \/ \E l \in listeners : /\ EngineForListener(l) # None
                                /\ s.name = ServiceForListener(l, EngineForListener(l), units)
  BY <1>1, <1>2, <1>4, <1>5, <1>8
<1> QED
  BY <1>10, <1>11, <1>12, Zenon DEF units, listeners

\* service_for_listener: none, or one of the engine.
LEMMA ServiceIs ==
    ASSUME NEW l, NEW e, NEW units, \A u \in units : u.place \in Nat
    PROVE  \/ ServiceForListener(l, e, units) = None
           \/ \E s \in Matching(units, e) : s.name = ServiceForListener(l, e, units)
<1> DEFINE own == {s \in Matching(units, e) : l.unit # None /\ s.name = l.unit}
           first == CHOOSE s \in Matching(units, e) : \A t \in Matching(units, e) : s.place <= t.place
<1>1. ServiceForListener(l, e, units) = CASE own # {} -> (CHOOSE s \in own : TRUE).name
                                          [] Matching(units, e) = {} -> None
                                          [] OTHER -> first.name
  BY Zenon DEF ServiceForListener
<1>2. CASE own # {}
  <2>1. (CHOOSE s \in own : TRUE) \in own
    BY <1>2
  <2> HIDE DEF first
  <2>2. ServiceForListener(l, e, units) = (CHOOSE s \in own : TRUE).name
    <3>1. Matching(units, e) # {}
      BY <1>2
    <3> HIDE DEF own
    <3> QED
      BY <1>1, <1>2, <3>1
  <2> QED
    BY <2>1, <2>2
<1>3. CASE own = {} /\ Matching(units, e) = {}
  <2> HIDE DEF own, first
  <2> QED
    BY <1>1, <1>3
<1>4. CASE own = {} /\ Matching(units, e) # {}
  <2> DEFINE places == {s.place : s \in Matching(units, e)}
  <2>1. places \in SUBSET Nat /\ places # {}
    BY <1>4 DEF Matching
  <2>2. PICK k \in places : \A j \in places : k <= j
    <3> HIDE DEF places
    <3> QED
      BY <2>1, FirstPlace
  <2>3. \E s \in Matching(units, e) : \A t \in Matching(units, e) : s.place <= t.place
    BY <2>2
  <2>4. first \in Matching(units, e)
    BY <2>3
  <2>5. ServiceForListener(l, e, units) = first.name
    <3> HIDE DEF own, first
    <3> QED
      BY <1>1, <1>4
  <2> HIDE DEF first
  <2> QED
    BY <2>4, <2>5
<1> QED
  BY <1>2, <1>3, <1>4

\* Units whose engines do not contradict what listeners say.
Agree(a) == \A l \in CollectListeners(a) : EngineForListener([l EXCEPT !.unit = None]) \in {None, EngineForListener(l)}

\* engine_for_listener: without its unit a listener is of the same engine, or of none.
LEMMA EngineSeen ==
    ASSUME NEW a, NEW b, NEW failing, FewerAnswers(a, b, {"ss -tulpn", "cgroups"}, failing), Agree(b),
           NEW l \in CollectListeners(a), EngineForListener(l) # None
    PROVE  \E m \in CollectListeners(b) : Sees(l, m) /\ EngineForListener(m) = EngineForListener(l)
<1>1. PICK m \in CollectListeners(b) : Sees(l, m)
  BY FewerListeners, Zenon
<1>2. PICK row : m = ListenerOf(b, row)
  BY ListenersAre
<1> DEFINE n == [m EXCEPT !.unit = None]
<1>3. n.unit = None /\ n.process = m.process /\ n.port = m.port
  BY <1>2 DEF ListenerOf
<1>4. \A x, y : x.unit = y.unit /\ x.process = y.process /\ x.port = y.port => EngineForListener(x) = EngineForListener(y)
  BY DEF EngineForListener
<1>5. EngineForListener(n) \in {None, EngineForListener(m)}
  BY <1>1 DEF Agree
<1> HIDE DEF n
<1>6. EngineForListener(l) \in {EngineForListener(m), EngineForListener(n)}
  BY <1>1, <1>3, <1>4 DEF Sees
<1> QED
  BY <1>1, <1>5, <1>6

\* So an instance with a listener has one like it where all could be read.
LEMMA InstanceSeen ==
    ASSUME NEW a, NEW b, NEW failing, FewerAnswers(a, b, {"ss -tulpn", "cgroups"}, failing), Agree(b),
           NEW d \in Detected(a), d.listener # NoListener
    PROVE  \E e \in Detected(b) : /\ e.engine = d.engine /\ e.listener # NoListener
                                  /\ e.listener.port = d.listener.port /\ e.listener.ip = d.listener.ip
<1>1. PICK l \in CollectListeners(a) : EngineForListener(l) # None /\ d.engine = EngineForListener(l) /\ d.listener = l
  BY DetectedIs DEF IsOf
<1>2. PICK m \in CollectListeners(b) : Sees(l, m) /\ EngineForListener(m) = EngineForListener(l)
  BY <1>1, EngineSeen
<1>3. PICK e \in Detected(b) : e.engine = EngineForListener(m) /\ e.listener = m
  BY <1>1, <1>2, DetectedIs DEF IsOf
<1>4. m # NoListener
  <2>1. FewerAnswers(b, b, {"ss -tulpn", "cgroups"}, {})
    BY DEF FewerAnswers
  <2> QED
    BY <2>1, FewerListeners
<1> QED
  BY <1>1, <1>2, <1>3, <1>4 DEF Sees

\* What was there of an engine in one state is there in another, and a service is of one engine.
Still(engine, these, those) == \A x \in these : x.engine = engine => x \in those
OfOneEngine(journals)       == \A i, j \in journals : i.service = j.service => i = j

\* What a finding about what an instance says takes.
LEMMA SaidIs ==
    ASSUME NEW a, NEW d, NEW f \in SaidOf(InstanceOf(a, d))
    PROVE  f.subject = d.engine
<1>1. \A id, subject, severity : Finding(id, subject, severity).subject = subject
  BY DEF Finding
<1>2. InstanceOf(a, d).engine = d.engine
  BY InstanceHas, Zenon
<1> QED
  BY <1>1, <1>2 DEF SaidOf, When

\* What it says, one by one.
LEMMA SaidAre ==
    ASSUME NEW i, NEW f
    PROVE  f \in SaidOf(i) <=> \/ i.said.blocked > 0 /\ f = Finding("db.blocked", i.engine, "medium")
                               \/ i.said.replication \cap Broken # {} /\ f = Finding("db.replication", i.engine, "high")
                               \/ i.errors # <<>> /\ f = Finding("db.recent-errors", i.engine, "medium")
<1>2. SaidOf(i) = When(i.said.blocked > 0, {Finding("db.blocked", i.engine, "medium")})
                  \cup When(i.said.replication \cap Broken # {}, {Finding("db.replication", i.engine, "high")})
                  \cup When(i.errors # <<>>, {Finding("db.recent-errors", i.engine, "medium")})
  BY Zenon DEF SaidOf
<1> DEFINE blocked == Finding("db.blocked", i.engine, "medium")
           lagging == Finding("db.replication", i.engine, "high")
           failing == Finding("db.recent-errors", i.engine, "medium")
           IsBlocked == i.said.blocked > 0
           IsLagging == i.said.replication \cap Broken # {}
           IsFailing == i.errors # <<>>
<1>3. SaidOf(i) = When(IsBlocked, {blocked}) \cup When(IsLagging, {lagging}) \cup When(IsFailing, {failing})
  BY <1>2
<1>4. /\ f \in When(IsBlocked, {blocked}) <=> IsBlocked /\ f = blocked
      /\ f \in When(IsLagging, {lagging}) <=> IsLagging /\ f = lagging
      /\ f \in When(IsFailing, {failing}) <=> IsFailing /\ f = failing
  BY DEF When
<1>5. f \in SaidOf(i) <=> f \in When(IsBlocked, {blocked}) \/ f \in When(IsLagging, {lagging}) \/ f \in When(IsFailing, {failing})
  <2> HIDE DEF blocked, lagging, failing, IsBlocked, IsLagging, IsFailing
  <2> QED
    BY <1>3
<1>6. f \in SaidOf(i) <=> (IsBlocked /\ f = blocked) \/ (IsLagging /\ f = lagging) \/ (IsFailing /\ f = failing)
  <2> HIDE DEF blocked, lagging, failing, IsBlocked, IsLagging, IsFailing
  <2> QED
    BY <1>4, <1>5
<1> QED
  BY <1>6

\* The same, by its id.
LEMMA SaidById ==
    ASSUME NEW i, NEW f
    PROVE  /\ f.id \in {"db.blocked", "db.replication"} =>
                (f \in SaidOf(i) <=> \/ i.said.blocked > 0 /\ f = Finding("db.blocked", i.engine, "medium")
                                     \/ i.said.replication \cap Broken # {} /\ f = Finding("db.replication", i.engine, "high"))
           /\ f.id \in {"db.blocked", "db.replication"} /\ f \in SaidOf(i) =>
                ~(i.said.blocked = 0 /\ i.said.replication = {})
           /\ f.id = "db.recent-errors" =>
                (f \in SaidOf(i) <=> i.errors # <<>> /\ f = Finding("db.recent-errors", i.engine, "medium"))
<1> DEFINE blocked == Finding("db.blocked", i.engine, "medium")
           lagging == Finding("db.replication", i.engine, "high")
           failing == Finding("db.recent-errors", i.engine, "medium")
<1>1. f \in SaidOf(i) <=> (i.said.blocked > 0 /\ f = blocked) \/ (i.said.replication \cap Broken # {} /\ f = lagging) \/ (i.errors # <<>> /\ f = failing)
  BY SaidAre, Zenon
<1>2. blocked.id = "db.blocked" /\ lagging.id = "db.replication" /\ failing.id = "db.recent-errors"
  BY FindingHasId, Zenon
<1> HIDE DEF blocked, lagging, failing
<1>3. f.id \in {"db.blocked", "db.replication"} => f # failing
  BY <1>2
<1>4. f.id = "db.recent-errors" => f # blocked /\ f # lagging
  BY <1>2
<1>5. i.said.blocked = 0 /\ i.said.replication = {} => ~(i.said.blocked > 0) /\ ~(i.said.replication \cap Broken # {})
  OBVIOUS
<1> DEFINE IsLagging == i.said.replication \cap Broken # {}
           IsBlocked == i.said.blocked > 0
           Asked == f.id \in {"db.blocked", "db.replication"}
<1>6. Asked => (f \in SaidOf(i) <=> (IsBlocked /\ f = blocked) \/ (IsLagging /\ f = lagging))
  <2>1. f \in SaidOf(i) <=> (IsBlocked /\ f = blocked) \/ (IsLagging /\ f = lagging) \/ (i.errors # <<>> /\ f = failing)
    BY <1>1
  <2>2. Asked => f # failing
    BY <1>3
  <2> HIDE DEF IsBlocked, IsLagging, Asked
  <2> QED
    BY <2>1, <2>2, Zenon
<1>7. f.id = "db.recent-errors" => (f \in SaidOf(i) <=> i.errors # <<>> /\ f = failing)
  BY <1>1, <1>4, Zenon
<1>8. f.id \in {"db.blocked", "db.replication"} /\ f \in SaidOf(i) => ~(i.said.blocked = 0 /\ i.said.replication = {})
  BY <1>5, <1>6, Zenon
<1> QED
  BY <1>6, <1>7, <1>8, Zenon DEF blocked, lagging, failing

\* The journals of the units of an engine.
Journal(e, n) == [engine |-> e, service |-> n]

\* They are asked by engine.
LEMMA JournalsAre ==
    ASSUME NEW a, NEW e, NEW n
    PROVE  Journal(e, n) \in JournalsBy(a) <=> (e \in Engines /\ \E s \in Matching(UnitsBy(a), e) : s.name = n)
<1>1. \A x, y, v, w : Journal(x, y) = Journal(v, w) <=> x = v /\ y = w
  BY DEF Journal
<1>2. JournalsBy(a) = UNION {{Journal(x, s.name) : s \in Matching(UnitsBy(a), x)} : x \in Engines}
  BY Zenon DEF JournalsBy, Journal
<1>3. Journal(e, n) \in JournalsBy(a) <=> \E x \in Engines : \E s \in Matching(UnitsBy(a), x) : Journal(e, n) = Journal(x, s.name)
  BY <1>2
<1> QED
  BY <1>1, <1>3

\* engine_for_listener: an engine, or none.
LEMMA EngineOf == \A l : EngineForListener(l) \in Engines \cup {None}
<1>1. \A text : EngineFromText(text) \in Engines \cup {None}
  BY DEF EngineFromText
<1> QED
  BY <1>1 DEF EngineForListener

\* Exposure, and a Redis without credentials.
LEMMA ExposedDatabases ==
    ASSUME NEW a, NEW b, NEW c, NEW failing, FewerAnswers(a, b, {"ss -tulpn", "cgroups"}, failing), Agree(b),
           FewerAnswers(a, c, Details["databases"], failing),
           NEW d \in Detected(a), External(InstanceOf(a, d))
    PROVE  /\ ExposedAt(InstanceOf(a, d)) \in GatherDatabases(b).findings
           /\ InstanceOf(a, d).engine = "redis" /\ InstanceOf(a, d).sources = {} /\ "credentials" \notin failing
              /\ (RedisBy(b) => RedisBy(c)) => AuthUnknown \in GatherDatabases(c).findings
<1>1. d.listener # NoListener /\ ~Loopback(d.listener.ip)
  BY InstanceHas
<1>2. PICK e \in Detected(b) : /\ e.engine = d.engine /\ e.listener # NoListener
                               /\ e.listener.port = d.listener.port /\ e.listener.ip = d.listener.ip
  BY <1>1, InstanceSeen
<1>3. External(InstanceOf(b, e)) /\ ExposedAt(InstanceOf(b, e)) = ExposedAt(InstanceOf(a, d))
  <2> DEFINE Named(engine, port) ==
        Finding("db.exposed", engine \o "." \o port, IF engine \in {"redis", "mongodb"} THEN "critical" ELSE "high")
  <2>1. \A x, i : ExposedAt(InstanceOf(x, i)) = Named(i.engine, i.listener.port)
    BY InstanceHas, Zenon
  <2> HIDE DEF Named
  <2>2. ExposedAt(InstanceOf(b, e)) = ExposedAt(InstanceOf(a, d))
    BY <1>2, <2>1
  <2> QED
    BY <1>1, <1>2, <2>2, InstanceHas
<1>4. ExposedAt(InstanceOf(a, d)) \in GatherDatabases(b).findings
  <2>1. ExposedAt(InstanceOf(a, d)) \in InstanceFindings(InstanceOf(b, e))
    BY <1>3, FoundOfInstance
  <2> QED
    BY <1>2, <2>1, FoundOfDatabases
<1>5. ASSUME InstanceOf(a, d).engine = "redis", InstanceOf(a, d).sources = {}, "credentials" \notin failing,
             RedisBy(b) => RedisBy(c)
      PROVE  AuthUnknown \in GatherDatabases(c).findings
  <2>1. d.engine = "redis" /\ CredentialSources(a, "redis") = {}
    BY <1>5, InstanceHas
  <2>2. RedisBy(b)
    BY <1>1, <1>2, <2>1 DEF RedisBy, External
  <2>3. PICK i \in Detected(c) : i.engine = "redis" /\ External(i)
    BY <1>5, <2>2 DEF RedisBy
  <2>4. CredentialSources(c, "redis") = {}
    <3>1. a["credentials"] = c["credentials"]
      BY <1>5, ReadBy DEF FewerAnswers
    <3> QED
      BY <2>1, <3>1 DEF CredentialSources
  <2>5. External(InstanceOf(c, i)) /\ InstanceOf(c, i).engine = "redis" /\ InstanceOf(c, i).sources = {}
    BY <2>3, <2>4, InstanceHas DEF External
  <2>6. AuthUnknown \in InstanceFindings(InstanceOf(c, i))
    BY <2>5, FoundOfInstance
  <2> QED
    BY <2>3, <2>6, FoundOfDatabases
<1> QED
  BY <1>4, <1>5

\* Blocked work and replication: of an engine that is asked.
LEMMA AskedDatabases ==
    ASSUME NEW a, NEW b, NEW c, NEW failing, FewerAnswers(a, b, {"ss -tulpn", "cgroups"}, failing), Agree(b),
           FewerAnswers(a, c, Details["databases"], failing),
           NEW d \in Detected(a), NEW f \in SaidOf(InstanceOf(a, d)), f.id \in {"db.blocked", "db.replication"},
           Still(f.subject, PortsBy(b), PortsBy(c))
    PROVE  f \in GatherDatabases(c).findings
<1> DEFINE Counted(x, l) == [Unsaid EXCEPT !.connections = ConnectionSummary(l, CollectConnections(x))]
<1>1. \A x, i : InstanceOf(x, i).said = Ask(x, i.engine, i.listener, Counted(x, i.listener))
  BY Zenon DEF InstanceOf
<1>2. \A x, l : Counted(x, l).blocked = 0 /\ Counted(x, l).replication = {}
  BY DEF Unsaid
<1> HIDE DEF Counted
<1>4. \A i : f \in SaidOf(i) <=> \/ i.said.blocked > 0 /\ f = Finding("db.blocked", i.engine, "medium")
                                 \/ i.said.replication \cap Broken # {} /\ f = Finding("db.replication", i.engine, "high")
  BY SaidById, Zenon
<1>5. d.listener # NoListener /\ a["database stats"] = c["database stats"]
  <2>1. InstanceOf(a, d).said # Counted(a, d.listener)
    <3> SUFFICES ASSUME InstanceOf(a, d).said = Counted(a, d.listener) PROVE FALSE
      OBVIOUS
    <3>1. InstanceOf(a, d).said.blocked = 0 /\ InstanceOf(a, d).said.replication = {}
      BY <1>2
    <3> QED
      BY <3>1, SaidById, Zenon
  <2>2. CASE d.listener = NoListener
    <3>1. Ask(a, d.engine, d.listener, Counted(a, d.listener)) = Counted(a, d.listener)
      BY <2>2 DEF Ask
    <3> QED
      BY <1>1, <2>1, <3>1
  <2>3. CASE a["database stats"] = Failed
    <3>1. DOMAIN OrElse(a["database stats"], <<>>) = {}
      BY <2>3, NothingRead
    <3>2. Ask(a, d.engine, d.listener, Counted(a, d.listener)) = Counted(a, d.listener)
      BY <3>1 DEF Ask
    <3> QED
      BY <1>1, <2>1, <3>2
  <2> QED
    BY <2>2, <2>3, ReadBy DEF FewerAnswers
<1>6. PICK e \in Detected(b) : e.engine = d.engine /\ e.listener # NoListener /\ e.listener.port = d.listener.port
  BY <1>5, InstanceSeen
<1>7. [engine |-> e.engine, port |-> e.listener.port] \in PortsBy(c)
  <2>1. [engine |-> e.engine, port |-> e.listener.port] \in PortsBy(b)
    BY <1>6 DEF PortsBy
  <2> QED
    BY <1>6, <2>1, SaidIs DEF Still
<1>8. PICK g \in Detected(c) : /\ g.listener # NoListener
                               /\ [engine |-> g.engine, port |-> g.listener.port] = [engine |-> e.engine, port |-> e.listener.port]
  BY <1>7 DEF PortsBy
<1>9. g.engine = d.engine /\ SamePort(d.listener, g.listener)
  BY <1>5, <1>6, <1>8 DEF SamePort
<1>10. SameSummary(InstanceOf(a, d).said, InstanceOf(c, g).said)
  <2>1. d.engine \in Engines
    BY DetectedEngine
  <2>2. SameSummary(Counted(a, d.listener), Counted(c, g.listener))
    BY <1>2 DEF SameSummary
  <2>3. SameSummary(Ask(a, d.engine, d.listener, Counted(a, d.listener)), Ask(c, d.engine, g.listener, Counted(c, g.listener)))
    BY <1>5, <1>9, <2>1, <2>2, AskedTheSame, Zenon
  <2> QED
    BY <1>1, <1>9, <2>3
<1>11. InstanceOf(a, d).engine = InstanceOf(c, g).engine
  BY <1>9, InstanceHas
<1>12. f \in SaidOf(InstanceOf(c, g))
  BY <1>4, <1>10, <1>11 DEF SameSummary
<1>13. f \in InstanceFindings(InstanceOf(c, g))
  BY <1>12, FoundOfInstance
<1> QED
  BY <1>8, <1>13, FoundOfDatabases

\* A unit of an engine is that of one of its instances.
LEMMA JournalRead ==
    ASSUME NEW c, \A u \in UnitsBy(c) : u.place \in Nat, OfOneEngine(JournalsBy(c)),
           NEW e, NEW n, Journal(e, n) \in JournalsBy(c), n # None
    PROVE  \E g \in Detected(c) : g.engine = e /\ g.service = n
<1>0. PICK s \in Matching(UnitsBy(c), e) : s.name = n /\ e \in Engines
  BY JournalsAre
<1>1. CASE \E g \in Detected(c) : IsOf(g, e, s.name, NoListener)
  BY <1>0, <1>1 DEF IsOf
<1>2. ASSUME NEW l \in CollectListeners(c), EngineForListener(l) # None,
             s.name = ServiceForListener(l, EngineForListener(l), UnitsBy(c))
      PROVE  \E g \in Detected(c) : g.engine = e /\ g.service = n
  <2>1. PICK t \in Matching(UnitsBy(c), EngineForListener(l)) : t.name = s.name
    BY <1>0, <1>2, ServiceIs
  <2>2. /\ Journal(EngineForListener(l), t.name) \in JournalsBy(c)
        /\ Journal(e, s.name) \in JournalsBy(c)
    BY <1>0, <1>2, <2>1, EngineOf, JournalsAre
  <2>3. Journal(EngineForListener(l), t.name) = Journal(e, s.name)
    BY <2>1, <2>2 DEF OfOneEngine, Journal
  <2>4. EngineForListener(l) = e
    BY <2>3 DEF Journal
  <2> QED
    BY <1>0, <1>2, <2>4, DetectedIs DEF IsOf
<1> QED
  BY <1>0, <1>1, <1>2, DetectedIs

\* Recent errors come from the journal of a unit that was listed.
LEMMA FailingIs ==
    ASSUME NEW a, NEW d, NEW f \in SaidOf(InstanceOf(a, d)), f.id = "db.recent-errors"
    PROVE  /\ RecentErrors(a, d.service) # <<>> /\ f = Finding("db.recent-errors", d.engine, "medium")
           /\ d.service # None
<1>1. \A i : f \in SaidOf(i) <=> i.errors # <<>> /\ f = Finding("db.recent-errors", i.engine, "medium")
  BY SaidById, Zenon
<1>2. RecentErrors(a, d.service) # <<>> /\ f = Finding("db.recent-errors", d.engine, "medium")
  <2>1. InstanceOf(a, d).errors = RecentErrors(a, d.service) /\ InstanceOf(a, d).engine = d.engine
    BY InstanceHas, Zenon
  <2>2. InstanceOf(a, d).errors # <<>> /\ f = Finding("db.recent-errors", InstanceOf(a, d).engine, "medium")
    BY <1>1, Zenon
  <2> QED
    BY <2>1, <2>2, Zenon
<1>3. d.service # None
  BY <1>2 DEF RecentErrors
<1> QED
  BY <1>2, <1>3

\* So a unit that an instance has is one of its engine, and listed.
LEMMA UnitListed ==
    ASSUME NEW a, NEW b, NEW failing, FewerAnswers(a, b, Reads \ Details["databases"], failing),
           \A u \in UnitsBy(b) : u.place \in Nat, NEW d \in Detected(a), d.service # None
    PROVE  Journal(d.engine, d.service) \in JournalsBy(b)
<1>1. UnitsBy(a) = UnitsBy(b) \/ UnitsBy(a) = {}
  <2>1. a["systemctl list-units"] \in {b["systemctl list-units"], Failed}
    BY ReadBy DEF FewerAnswers, Reads
  <2>2. a["systemctl list-units"] = b["systemctl list-units"] => CollectServices(a) = CollectServices(b)
    BY Zenon DEF CollectServices
  <2>3. a["systemctl list-units"] = Failed => CollectServices(a) = Failed
    BY DEF CollectServices
  <2> QED
    BY <2>1, <2>2, <2>3, NothingRead DEF UnitsBy
<1>2. \E s \in Matching(UnitsBy(a), d.engine) : s.name = d.service
  <2>1. \A u \in UnitsBy(a) : u.place \in Nat
    BY <1>1
  <2>2. ASSUME NEW l, d.service = ServiceForListener(l, d.engine, UnitsBy(a))
        PROVE  \E s \in Matching(UnitsBy(a), d.engine) : s.name = d.service
    <3>1. \/ ServiceForListener(l, d.engine, UnitsBy(a)) = None
          \/ \E s \in Matching(UnitsBy(a), d.engine) : s.name = ServiceForListener(l, d.engine, UnitsBy(a))
      BY <2>1, ServiceIs
    <3> QED
      BY <2>2, <3>1
  <2>3. \/ \E l \in CollectListeners(a) : d.service = ServiceForListener(l, d.engine, UnitsBy(a))
        \/ \E s \in Matching(UnitsBy(a), d.engine) : s.name = d.service
    <3>1. \/ \E l \in CollectListeners(a) :
                IsOf(d, EngineForListener(l), ServiceForListener(l, EngineForListener(l), UnitsBy(a)), l)
          \/ \E e \in Engines : \E s \in Matching(UnitsBy(a), e) : IsOf(d, e, s.name, NoListener)
      BY DetectedIs
    <3> QED
      BY <3>1, Zenon DEF IsOf
  <2> QED
    BY <2>2, <2>3
<1>3. d.engine \in Engines
  BY DetectedEngine
<1>4. \E s \in Matching(UnitsBy(b), d.engine) : s.name = d.service
  BY <1>1, <1>2 DEF Matching
<1> QED
  BY <1>3, <1>4, JournalsAre

\* They are those of the same journal in the second state.
LEMMA FailingDatabases ==
    ASSUME NEW a, NEW b, NEW c, NEW failing, FewerAnswers(a, b, Reads \ Details["databases"], failing),
           FewerAnswers(a, c, Details["databases"], failing),
           \A u \in UnitsBy(b) : u.place \in Nat, \A u \in UnitsBy(c) : u.place \in Nat,
           OfOneEngine(JournalsBy(c)),
           NEW d \in Detected(a), NEW f \in SaidOf(InstanceOf(a, d)), f.id = "db.recent-errors",
           Still(f.subject, JournalsBy(b), JournalsBy(c))
    PROVE  f \in GatherDatabases(c).findings
<1>1. /\ RecentErrors(a, d.service) # <<>> /\ f = Finding("db.recent-errors", d.engine, "medium")
      /\ d.service # None
  BY FailingIs
<1>2. Journal(d.engine, d.service) \in JournalsBy(c)
  <2>1. Journal(d.engine, d.service) \in JournalsBy(b)
    BY <1>1, UnitListed
  <2>2. Journal(d.engine, d.service).engine = f.subject
    BY SaidIs DEF Journal
  <2> QED
    BY <2>1, <2>2 DEF Still
<1>3. PICK g \in Detected(c) : g.engine = d.engine /\ g.service = d.service
  BY <1>1, <1>2, JournalRead
<1>4. RecentErrors(a, d.service) = RecentErrors(c, d.service)
  <2>1. CASE a["journalctl -u database"] = Failed
    <3>1. DOMAIN OrElse(a["journalctl -u database"], <<>>) = {}
      BY <2>1, NothingRead
    <3> QED
      BY <1>1, <3>1 DEF RecentErrors
  <2>2. CASE a["journalctl -u database"] = c["journalctl -u database"]
    BY <2>2, Zenon DEF RecentErrors
  <2> QED
    BY <2>1, <2>2, ReadBy DEF FewerAnswers
<1>5. InstanceOf(c, g).errors = RecentErrors(a, d.service) /\ InstanceOf(c, g).engine = d.engine
  BY <1>3, <1>4, InstanceHas
<1>6. f \in SaidOf(InstanceOf(c, g))
  BY <1>1, <1>5, SaidById
<1>7. f \in InstanceFindings(InstanceOf(c, g))
  BY <1>6, FoundOfInstance
<1> QED
  BY <1>3, <1>7, FoundOfDatabases

\* database_findings: what of the first state was asked in the second.
LEMMA DatabasesSeen ==
    ASSUME NEW a, NEW b, NEW c, NEW failing, FewerAnswers(a, b, Reads \ Details["databases"], failing),
           FewerAnswers(a, c, Details["databases"], failing), Agree(b), OfOneEngine(JournalsBy(c)),
           \A u \in UnitsBy(b) : u.place \in Nat, \A u \in UnitsBy(c) : u.place \in Nat,
           NEW f \in GatherDatabases(a).findings, Opposed(f.id) \cap failing = {},
           f.id = "db.redis.auth-unknown" /\ RedisBy(b) => RedisBy(c),
           f.id \in {"db.blocked", "db.replication"} => Still(f.subject, PortsBy(b), PortsBy(c)),
           f.id = "db.recent-errors" => Still(f.subject, JournalsBy(b), JournalsBy(c))
    PROVE  f \in GatherDatabases(b).findings \/ f \in GatherDatabases(c).findings
<1>1. PICK d \in Detected(a) : f \in InstanceFindings(InstanceOf(a, d))
  BY FoundOfDatabases
<1>2. FewerAnswers(a, b, {"ss -tulpn", "cgroups"}, failing)
  <2>1. {"ss -tulpn", "cgroups"} \subseteq Reads \ Details["databases"]
    BY ReadBy DEF Reads
  <2> QED
    BY <2>1 DEF FewerAnswers
<1>3. CASE External(InstanceOf(a, d)) /\ f = ExposedAt(InstanceOf(a, d))
  BY <1>2, <1>3, ExposedDatabases
<1>4. CASE /\ External(InstanceOf(a, d)) /\ InstanceOf(a, d).engine = "redis" /\ InstanceOf(a, d).sources = {}
           /\ f = AuthUnknown
  <2>1. f.id = "db.redis.auth-unknown"
    BY <1>4, InstanceIds
  <2>2. "credentials" \notin failing
    BY <2>1, OpposedIs
  <2> QED
    BY <1>2, <1>4, <2>1, <2>2, ExposedDatabases
<1>5. CASE f \in SaidOf(InstanceOf(a, d))
  <2>1. f.id \in SaidIds
    BY <1>5, InstanceIds DEF HaveIds
  <2>2. CASE f.id \in {"db.blocked", "db.replication"}
    BY <1>2, <1>5, <2>2, AskedDatabases
  <2>3. CASE f.id = "db.recent-errors"
    BY <1>5, <2>3, FailingDatabases
  <2> QED
    BY <2>1, <2>2, <2>3 DEF SaidIds
<1> QED
  BY <1>1, <1>3, <1>4, <1>5, FoundOfInstance

-------------------------------------------------------------------------------
(* What is shown was earned, or is said for want of an answer. *)

\* What the first steps of these worlds list.
LEMMA ListsAre ==
    ASSUME NEW w
    PROVE  /\ ScriptsListed(w) = ActiveScripts(CollectCronEntries(Answers("crons", Undisturbed(w))))
           /\ RedisReached(w) <=> RedisBy(Answers("databases", Undisturbed(w)))
           /\ PortsAsked(w) = PortsBy(Answers("databases", Undisturbed(w)))
           /\ JournalsAsked(w) = JournalsBy(Answers("databases", Undisturbed(w)))
           /\ UnitsListed(w) = UnitsBy(Answers("databases", Undisturbed(w)))
           /\ ListenersListed(w) = CollectListeners(Answers("databases", Undisturbed(w)))
<1>1. DatabasesListed(w) = Detected(Answers("databases", Undisturbed(w)))
  BY ListedIs
<1>2. UnitsListed(w) = UnitsBy(Answers("databases", Undisturbed(w)))
  BY Zenon DEF UnitsListed, UnitsBy
<1>3. ScriptsListed(w) = ActiveScripts(CollectCronEntries(Answers("crons", Undisturbed(w))))
  BY Zenon DEF ScriptsListed, ActiveScripts, JobsListed
<1>4. ListenersListed(w) = CollectListeners(Answers("databases", Undisturbed(w)))
  BY Zenon DEF ListenersListed
<1>5. RedisReached(w) <=> RedisBy(Answers("databases", Undisturbed(w)))
  BY <1>1, Zenon DEF RedisReached, RedisBy
<1>6. PortsAsked(w) = PortsBy(Answers("databases", Undisturbed(w)))
  BY <1>1, Zenon DEF PortsAsked, PortsBy
<1>7. JournalsAsked(w) = JournalsBy(Answers("databases", Undisturbed(w)))
  BY <1>2, Zenon DEF JournalsAsked, JournalsBy
<1> QED
  BY <1>2, <1>3, <1>4, <1>5, <1>6, <1>7

\* The network of a gather finds what that host earns.
LEMMA NetworkEarned ==
    ASSUME HostsAnswer, NEW gather, NEW cached, "network" \notin gather.late, gather.seen["network"][1] \in Worlds,
           NEW f, f.id # "policy.partial", Opposed(f.id) \cap gather.faults = {},
           \/ f \in Results(gather, cached).network.findings
           \/ Matched /\ f \in PortsJudged(Results(gather, cached))
    PROVE  f \in Found(CleanResults(gather.seen["network"][1]))
<1> DEFINE w == gather.seen["network"][1]
           a == Answers("network", gather)
           b == Answers("network", Undisturbed(w))
           r == Results(gather, cached)
           clean == CleanResults(w)
<1>1. FewerAnswers(a, b, Reads, gather.faults)
  <2>1. "network" \in Groups /\ Reads \ Details["network"] = Reads
    BY ReadBy DEF Groups
  <2> QED
    BY <2>1, FewerOfSteps
<1>2. r.network = GatherNetwork(a, cached.statics) /\ clean.network = GatherNetwork(b, Absent)
  BY ResultsAre, CleanResultsAre
<1>3. clean.network.network # NoNetwork
  BY CleanNetwork
<1> HIDE DEF a, b, clean, r
<1>4. /\ r.network.network.listeners = CollectListeners(a) /\ clean.network.network.listeners = CollectListeners(b)
      /\ r.network.findings = SecurityScan(a, ExposureMap(CollectListeners(a)))
      /\ clean.network.findings = SecurityScan(b, ExposureMap(CollectListeners(b)))
  BY <1>2, NetworkIs
<1>5. CASE f \in r.network.findings
  <2>1. f \in clean.network.findings
    BY <1>1, <1>4, <1>5, ScanSeen
  <2> QED
    BY <2>1, InFound DEF clean
<1>6. CASE Matched /\ f \in PortsJudged(r)
  <2>1. f \in PortsJudged(clean)
    <3> DEFINE n == r.network.network
               m == clean.network.network
    <3>1. f \in PortFindings(ChosenPolicy, n, ExposureMap(n.listeners))
      BY <1>6 DEF PortsJudged
    <3>2. n.listeners = CollectListeners(a) /\ m.listeners = CollectListeners(b) /\ m # NoNetwork
      BY <1>3, <1>4
    <3> HIDE DEF n, m
    <3>3. f \in PortFindings(ChosenPolicy, m, ExposureMap(m.listeners))
      BY <1>1, <3>1, <3>2, PortsSeen
    <3> QED
      BY <3>3 DEF m, PortsJudged
  <2> QED
    BY <1>6, <2>1, InFound DEF clean
<1> QED
  BY <1>5, <1>6 DEF r

\* Its services,
LEMMA UnitsEarned ==
    ASSUME NEW gather, NEW cached, "services" \notin gather.late, NEW f, f.id # "policy.partial",
           Matched, f \in UnitsJudged(Results(gather, cached))
    PROVE  f \in Found(CleanResults(gather.seen["services"][1]))
<1> DEFINE w == gather.seen["services"][1]
           a == Answers("services", gather)
           b == Answers("services", Undisturbed(w))
           r == Results(gather, cached)
           clean == CleanResults(w)
<1>1. FewerAnswers(a, b, Reads, gather.faults)
  <2>1. "services" \in Groups /\ Reads \ Details["services"] = Reads
    BY ReadBy DEF Groups
  <2> QED
    BY <2>1, FewerOfSteps
<1>2. r.services = GatherServices(a) /\ clean.services = GatherServices(b)
  BY ResultsAre, CleanResultsAre
<1> HIDE DEF a, b, clean, r
<1>3. r.services.units # {}
  <2>1. f \notin Partial("services")
    BY FindingHasId DEF Partial
  <2>2. f \in ServiceFindings(ChosenPolicy, r.services.units)
    BY DEF UnitsJudged, r
  <2> QED
    BY <2>1, <2>2, NothingOfNone
<1>4. r.services.units = clean.services.units
  BY <1>1, <1>2, <1>3, UnitsSeen
<1>5. f \in UnitsJudged(clean)
  BY <1>4 DEF UnitsJudged, r
<1> QED
  BY <1>5, InFound DEF clean

\* and the host itself.
LEMMA LimitsEarned ==
    ASSUME HostsAnswer, NEW gather, NEW cached, Results(gather, cached).host # Failed,
           gather.seen["host"][1] \in Worlds, NEW f, Opposed(f.id) \cap gather.faults = {},
           Matched, f \in LimitsJudged(Results(gather, cached))
    PROVE  f \in Found(CleanResults(gather.seen["host"][1]))
<1> DEFINE w == gather.seen["host"][1]
           a == Answers("host", gather)
           b == Answers("host", Undisturbed(w))
           r == Results(gather, cached)
           clean == CleanResults(w)
<1>1. FewerAnswers(a, b, Reads, gather.faults)
  <2>1. "host" \in Groups /\ Reads \ Details["host"] = Reads
    BY ReadBy DEF Groups
  <2> QED
    BY <2>1, FewerOfSteps
<1>2. "host" \notin gather.late
  BY ResultsAre
<1>3. r.host = CollectHostReport(a, cached.identity) /\ clean.host = CollectHostReport(b, Absent)
  BY <1>2, ResultsAre, CleanResultsAre
<1>4. clean.host # Failed
  BY CleanHost
<1> HIDE DEF a, b, clean
<1>5. f \in LimitsJudged(clean)
  <2>1. f \in ThresholdFindings(ChosenPolicy, r.host.system) /\ r.host # Failed
    BY DEF LimitsJudged
  <2> HIDE DEF r
  <2>2. f \in ThresholdFindings(ChosenPolicy, clean.host.system)
    BY <1>1, <1>3, <1>4, <2>1, LimitsSeen
  <2> QED
    BY <2>2 DEF LimitsJudged
<1> QED
  BY <1>5, InFound DEF clean

\* What could not be checked is said with an id of its own.
LEMMA PartialIds == \A area : \A g \in Partial(area) : g.id = "policy.partial"
  BY FindingHasId DEF Partial

\* The containers: those the first step lists, looked at in the second.
LEMMA DockerEarned ==
    ASSUME InspectsListed, NEW gather, NEW cached, "docker" \notin gather.late,
           gather.seen["docker"][2] \in Worlds, NEW f, f.id # "policy.partial",
           Opposed(f.id) \cap gather.faults = {},
           f.id = "policy.container.image" =>
                Contents[gather.seen["docker"][1]]["docker ps"] = Contents[gather.seen["docker"][2]]["docker ps"],
           \/ f \in Results(gather, cached).docker.findings
           \/ Matched /\ f \in DockerJudged(Results(gather, cached))
    PROVE  f \in Found(CleanResults(gather.seen["docker"][1])) \/ f \in Found(CleanResults(gather.seen["docker"][2]))
<1> DEFINE v == gather.seen["docker"][1]
           w == gather.seen["docker"][2]
           a == Answers("docker", gather)
           b == Answers("docker", Undisturbed(v))
           c == Answers("docker", Undisturbed(w))
           r == Results(gather, cached)
           first == CleanResults(v)
           second == CleanResults(w)
<1>1. /\ FewerAnswers(a, b, Reads \ Details["docker"], gather.faults)
      /\ FewerAnswers(a, c, Details["docker"], gather.faults)
  BY FewerOfSteps DEF Groups
<1>2. r.docker = GatherDocker(a) /\ first.docker = GatherDocker(b) /\ second.docker = GatherDocker(c)
  BY ResultsAre, CleanResultsAre
<1>3. DOMAIN OrElse(c["docker inspect"], <<>>) \subseteq {d.id : d \in ParsePs(OrElse(c["docker ps"], <<>>))}
  BY Zenon DEF InspectsListed
<1>4. f.id = "policy.container.image" => b["docker ps"] = c["docker ps"]
  <2>1. \A x : Answers("docker", Undisturbed(x))["docker ps"] = Answer(x, {}, "docker ps")
    BY ReadBy DEF Answers, Undisturbed, Groups, Reads
  <2>2. Contents[v]["docker ps"] = Contents[w]["docker ps"] => Answer(v, {}, "docker ps") = Answer(w, {}, "docker ps")
    BY DEF Answer, AnyExit
  <2> QED
    BY <2>1, <2>2
<1> HIDE DEF a, b, c, r, first, second
<1>5. f \in r.docker.findings \/ (Matched /\ f \in DockerPolicyFindings(ChosenPolicy, r.docker))
  BY DEF r, DockerJudged
<1>6. a["docker ps"] # Failed
  <2>1. a["docker ps"] = Failed => r.docker = NoDocker
    BY <1>2 DEF GatherDocker
  <2>2. f \notin Partial("docker") /\ NoDocker.findings = {}
    <3>1. f \notin Partial("docker")
      BY PartialIds
    <3>2. NoDocker.findings = {}
      BY DEF NoDocker
    <3> QED
      BY <3>1, <3>2
  <2> QED
    BY <1>5, <2>1, <2>2, NothingOfNone
<1>7. CASE f \in r.docker.findings
  <2>1. f \in second.docker.findings
    BY <1>1, <1>2, <1>3, <1>6, <1>7, ContainersSeen
  <2> QED
    BY <2>1, InFound DEF second
<1>8. CASE Matched /\ f \in DockerPolicyFindings(ChosenPolicy, r.docker)
  <2>1. a["docker ps"] = b["docker ps"]
    BY <1>1, <1>6, ReadBy DEF FewerAnswers, Reads
  <2>2. r.docker.available /\ first.docker.available /\ r.docker.containers = first.docker.containers
    BY <1>2, <1>6, <2>1, DockerIs
  <2>3. CASE f.id # "policy.container.image"
    <3>1. f \in DockerPolicyFindings(ChosenPolicy, first.docker)
      BY <1>8, <2>2, <2>3, ContainersAre
    <3>2. f \in DockerJudged(first)
      BY <3>1 DEF DockerJudged
    <3> QED
      BY <1>8, <3>2, InFound DEF first
  <2>4. CASE f.id = "policy.container.image"
    <3>1. a["docker ps"] = c["docker ps"] /\ c["docker ps"] # Failed
      BY <1>4, <1>6, <2>1, <2>4
    <3>2. a["docker inspect"] = c["docker inspect"]
      <4>1. "docker inspect" \in Details["docker"]
        BY ReadBy
      <4>2. "docker inspect" \in Opposed(f.id)
        BY <2>4, OpposedIs
      <4> QED
        BY <1>1, <4>1, <4>2 DEF FewerAnswers
    <3>3. /\ r.docker.available /\ second.docker.available
          /\ r.docker.containers = second.docker.containers
      BY <1>2, <1>6, <3>1, DockerIs
    <3>4. r.docker.inspects = second.docker.inspects
      <4>1. Inspects(a, ParsePs(c["docker ps"])) = Inspects(c, ParsePs(c["docker ps"]))
        BY <3>2, InspectsAre
      <4> QED
        BY <1>2, <1>6, <3>1, <4>1, DockerIs
    <3>5. f \in DockerPolicyFindings(ChosenPolicy, second.docker)
      BY <1>8, <3>3, <3>4, ContainersAre
    <3>6. f \in DockerJudged(second)
      BY <3>5 DEF DockerJudged
    <3> QED
      BY <1>8, <3>6, InFound DEF second
  <2> QED
    BY <2>3, <2>4
<1> QED
  BY <1>5, <1>7, <1>8 DEF first, second

\* The jobs: those the first step lists, whose scripts are looked at in the second.
LEMMA CronsEarned ==
    ASSUME NEW gather, NEW cached, "crons" \notin gather.late, NEW f \in Results(gather, cached).crons.findings,
           Opposed(f.id) \cap gather.faults = {},
           f.id \in StatIds => \A s \in ScriptsListed(gather.seen["crons"][1]) :
                s.script = f.subject => s \in ScriptsListed(gather.seen["crons"][2])
    PROVE  f \in Found(CleanResults(gather.seen["crons"][1])) \/ f \in Found(CleanResults(gather.seen["crons"][2]))
<1> DEFINE v == gather.seen["crons"][1]
           w == gather.seen["crons"][2]
           a == Answers("crons", gather)
           b == Answers("crons", Undisturbed(v))
           c == Answers("crons", Undisturbed(w))
<1>1. /\ FewerAnswers(a, b, Reads \ Details["crons"], gather.faults)
      /\ FewerAnswers(a, c, Details["crons"], gather.faults)
  BY FewerOfSteps DEF Groups
<1>2. /\ f \in GatherCrons(a).findings
      /\ CleanResults(v).crons = GatherCrons(b) /\ CleanResults(w).crons = GatherCrons(c)
  BY ResultsAre, CleanResultsAre
<1>3. ScriptsListed(v) = ActiveScripts(CollectCronEntries(b)) /\ ScriptsListed(w) = ActiveScripts(CollectCronEntries(c))
  BY ListsAre
<1>4. f.id \in StatIds => \A s \in ActiveScripts(CollectCronEntries(b)) :
            s.script = f.subject => s \in ActiveScripts(CollectCronEntries(c))
  BY <1>3
<1> HIDE DEF a, b, c
<1>5. f \in GatherCrons(b).findings \/ f \in GatherCrons(c).findings
  BY <1>1, <1>2, <1>4, CronsSeen
<1> QED
  BY <1>2, <1>5, InFound

\* The databases: those the first step detects, asked in the second.
LEMMA DatabasesEarned ==
    ASSUME EnginesAgree, NEW gather, NEW cached, "databases" \notin gather.late,
           gather.seen["databases"][1] \in Worlds, gather.seen["databases"][2] \in Worlds,
           NEW f \in Results(gather, cached).databases.findings, Opposed(f.id) \cap gather.faults = {},
           ~Gone(f, {gather.seen["databases"][1], gather.seen["databases"][2]})
    PROVE  f \in Found(CleanResults(gather.seen["databases"][1])) \/ f \in Found(CleanResults(gather.seen["databases"][2]))
<1> DEFINE v == gather.seen["databases"][1]
           w == gather.seen["databases"][2]
           a == Answers("databases", gather)
           b == Answers("databases", Undisturbed(v))
           c == Answers("databases", Undisturbed(w))
<1>1. /\ FewerAnswers(a, b, Reads \ Details["databases"], gather.faults)
      /\ FewerAnswers(a, c, Details["databases"], gather.faults)
  BY FewerOfSteps DEF Groups
<1>2. /\ f \in GatherDatabases(a).findings
      /\ CleanResults(v).databases = GatherDatabases(b) /\ CleanResults(w).databases = GatherDatabases(c)
  BY ResultsAre, CleanResultsAre
<1>3. Agree(b) /\ OfOneEngine(JournalsBy(c))
  BY ListsAre DEF EnginesAgree, Agree, OfOneEngine
<1>4. (\A u \in UnitsBy(b) : u.place \in Nat) /\ (\A u \in UnitsBy(c) : u.place \in Nat)
  BY ListsAre, RowsAssumption
<1>5. f.id = "db.redis.auth-unknown" /\ RedisBy(b) => RedisBy(c)
  BY ListsAre DEF Gone
<1>6. f.id \in {"db.blocked", "db.replication"} => Still(f.subject, PortsBy(b), PortsBy(c))
  BY ListsAre DEF Gone, Still
<1>7. f.id = "db.recent-errors" => Still(f.subject, JournalsBy(b), JournalsBy(c))
  BY ListsAre DEF Gone, Still
<1> HIDE DEF a, b, c
<1>8. f \in GatherDatabases(b).findings \/ f \in GatherDatabases(c).findings
  BY <1>1, <1>2, <1>3, <1>4, <1>5, <1>6, <1>7, DatabasesSeen
<1> QED
  BY <1>2, <1>8, InFound

\* A finding of a gather was earned in one of its states, or is said for want of an answer.
LEMMA EarnedOrExcused ==
    ASSUME HostsAnswer, InspectsListed, EnginesAgree, NEW gather, NEW cached, Review(gather, cached) # Failed,
           NEW states \in SUBSET Worlds, states # {}, ReadIn(gather, states),
           NEW f \in Review(gather, cached).findings, ~ForWantOfAnAnswer(f, gather.faults, states)
    PROVE  \E w \in states : f \in CleanFindings[w]
<1> DEFINE r == Results(gather, cached)
<1>1. Merged(r) # Failed /\ f \in Found(r)
  BY MergedFound DEF Review
<1>2. r.host # Failed
  BY <1>1 DEF Merged
<1>3. OwnIds(r)
  BY ResultsOwnIds
<1>4. f.id # "policy.partial" /\ Opposed(f.id) \cap gather.faults = {} /\ ~Gone(f, states)
  BY DEF ForWantOfAnAnswer
<1>5. \A area : f \notin Partial(area)
  BY <1>4, FindingHasId DEF Partial
<1>6. SUFFICES \E w \in states : f \in Found(CleanResults(w))
  BY CleanFound
<1>7. ASSUME NEW g \in Groups, g \notin gather.late
      PROVE  /\ gather.seen[g][1] \in states /\ gather.seen[g][1] \in Worlds
             /\ Details[g] # {} => gather.seen[g][2] \in states /\ gather.seen[g][2] \in Worlds
  BY <1>7 DEF ReadIn
<1>8. CASE f \in r.network.findings \/ (Matched /\ f \in PortsJudged(r))
  <2>1. "network" \notin gather.late
    <3>1. "network" \in gather.late => r.network.network = NoNetwork /\ r.network.findings = {}
      BY ResultsAre
    <3> HIDE DEF r
    <3> QED
      BY <1>5, <1>8, <3>1, NothingOfNone DEF PortsJudged
  <2>2. gather.seen["network"][1] \in states /\ gather.seen["network"][1] \in Worlds
    BY <1>7, <2>1 DEF Groups
  <2> QED
    BY <1>4, <1>8, <2>1, <2>2, NetworkEarned
<1>9. CASE Matched /\ f \in UnitsJudged(r)
  <2>1. "services" \notin gather.late
    <3>1. "services" \in gather.late => r.services.units = {}
      BY ResultsAre
    <3> HIDE DEF r
    <3> QED
      BY <1>5, <1>9, <3>1, NothingOfNone DEF UnitsJudged
  <2>2. gather.seen["services"][1] \in states
    BY <1>7, <2>1 DEF Groups
  <2> QED
    BY <1>4, <1>9, <2>1, <2>2, UnitsEarned
<1>10. CASE Matched /\ f \in LimitsJudged(r)
  <2>1. "host" \notin gather.late
    BY <1>2, ResultsAre
  <2>2. gather.seen["host"][1] \in states /\ gather.seen["host"][1] \in Worlds
    BY <1>7, <2>1 DEF Groups
  <2> QED
    BY <1>2, <1>4, <1>10, <2>2, LimitsEarned
<1>11. CASE f \in r.docker.findings \/ (Matched /\ f \in DockerJudged(r))
  <2>1. "docker" \notin gather.late
    <3>1. "docker" \in gather.late => r.docker = NoDocker
      BY ResultsAre
    <3>2. NoDocker.findings = {}
      BY DEF NoDocker
    <3> HIDE DEF r
    <3> QED
      BY <1>5, <1>11, <3>1, <3>2, NothingOfNone DEF DockerJudged
  <2>2. "docker" \in Groups /\ Details["docker"] # {}
    BY ReadBy DEF Groups
  <2>3. /\ gather.seen["docker"][1] \in states /\ gather.seen["docker"][2] \in states
        /\ gather.seen["docker"][2] \in Worlds
    BY <1>7, <2>1, <2>2
  <2>4. f.id = "policy.container.image" =>
            Contents[gather.seen["docker"][1]]["docker ps"] = Contents[gather.seen["docker"][2]]["docker ps"]
    BY <1>4, <2>3 DEF Gone
  <2> QED
    BY <1>4, <1>11, <2>1, <2>3, <2>4, DockerEarned
<1>12. CASE f \in r.crons.findings
  <2>1. "crons" \notin gather.late
    BY <1>12, ResultsAre
  <2>2. "crons" \in Groups /\ Details["crons"] # {}
    BY ReadBy DEF Groups
  <2>3. gather.seen["crons"][1] \in states /\ gather.seen["crons"][2] \in states
    BY <1>7, <2>1, <2>2
  <2>4. f.id \in StatIds => \A s \in ScriptsListed(gather.seen["crons"][1]) :
            s.script = f.subject => s \in ScriptsListed(gather.seen["crons"][2])
    BY <1>4, <2>3 DEF Gone, StatIds
  <2> QED
    BY <1>4, <1>12, <2>1, <2>3, <2>4, CronsEarned
<1>13. CASE f \in r.databases.findings
  <2>1. "databases" \notin gather.late
    BY <1>13, ResultsAre
  <2>2. "databases" \in Groups /\ Details["databases"] # {}
    BY ReadBy DEF Groups
  <2>3. /\ gather.seen["databases"][1] \in states /\ gather.seen["databases"][2] \in states
        /\ gather.seen["databases"][1] \in Worlds /\ gather.seen["databases"][2] \in Worlds
    BY <1>7, <2>1, <2>2
  <2>4. ~Gone(f, {gather.seen["databases"][1], gather.seen["databases"][2]})
    <3>1. \A these, those : these \subseteq those /\ Gone(f, these) => Gone(f, those)
      BY DEF Gone
    <3> QED
      BY <1>4, <2>3, <3>1
  <2> QED
    BY <1>4, <1>13, <2>1, <2>3, <2>4, DatabasesEarned
<1>14. CASE f \in Constants
  BY <1>14, InFound
<1> HIDE DEF r
<1> QED
  BY <1>1, <1>3, <1>5, <1>8, <1>9, <1>10, <1>11, <1>12, <1>13, <1>14, SourceOf

\* Neither a change while the host is read, nor reads that fail, nor a group that is cut
\* off (its results are empty) makes the checks and the policy accuse the host of something
\* it never was, but for what ForWantOfAnAnswer names: what is said where an answer that
\* would have denied it did not come, or where what was listed was gone when it was asked.
THEOREM NothingIsInvented ==
    ASSUME HostsAnswer, InspectsListed, EnginesAgree PROVE Spec => []NothingInvented
<1>1. Init => NothingInvented
  BY DEF Init, NothingInvented
<1>2. Gathered /\ NothingInvented /\ [Next]_vars => NothingInvented'
  <2> SUFFICES ASSUME Gathered, NothingInvented, [Next]_vars PROVE NothingInvented'
    OBVIOUS
  <2>1. CASE screen' = screen
    BY <2>1 DEF NothingInvented
  <2>2. CASE Apply /\ screen' # screen
    <3> DEFINE gather == [seen |-> seen, late |-> late, faults |-> faults]
               cached == Cached(screen)
               review == Review(gather, cached)
    <3>1. review # Failed
      BY <2>2 DEF Apply, Show
    <3>2. screen'.review = review /\ screen'.worlds = worlds /\ screen'.faults = faults
      BY <2>2, <3>1 DEF Apply, Show
    <3>3. worlds \in SUBSET Worlds /\ worlds # {} /\ ReadIn(gather, worlds)
      BY <2>2, WhatItRead
    <3> HIDE DEF review, cached
    <3>4. ASSUME NEW f \in review.findings, ~ForWantOfAnAnswer(f, faults, worlds)
          PROVE  \E w \in worlds : f \in CleanFindings[w]
      BY <3>1, <3>3, <3>4, EarnedOrExcused DEF review
    <3> QED
      BY <3>2, <3>4 DEF NothingInvented
  <2> QED
    BY <2>1, <2>2 DEF Next, vars, Change, Start, Read, Timeout, screenVars, hostVars, gatherVars
<1> QED
  BY <1>1, <1>2, GatheredHolds, PTL DEF Spec

-------------------------------------------------------------------------------
(* The policy of a host that names none. *)

\* Of some policies one is the first by name.
LEMMA FirstByName ==
    ASSUME NEW S \in SUBSET DOMAIN Config.policies, S # {}
    PROVE  \E n \in S : \A m \in S \ {n} : Before(n, m)
<1> DEFINE Earlier(n) == {m \in S : m # n /\ Before(m, n)}
           counts == {Cardinality(Earlier(n)) : n \in S}
<1>1. IsFiniteSet(S)
  BY PoliciesAssumption, FS_Subset
<1>2. \A n \in S : IsFiniteSet(Earlier(n)) /\ Cardinality(Earlier(n)) \in Nat
  BY <1>1, FS_Subset, FS_CardinalityType
<1>3. PICK n \in S : \A m \in S : Cardinality(Earlier(n)) <= Cardinality(Earlier(m))
  <2>1. counts \in SUBSET Nat /\ counts # {}
    BY <1>2
  <2>2. PICK k \in counts : \A j \in counts : k <= j
    BY <2>1, FirstPlace
  <2> QED
    BY <2>2
<1>4. ASSUME NEW m \in S \ {n} PROVE Before(n, m)
  <2>1. SUFFICES ASSUME Before(m, n) PROVE FALSE
    BY PoliciesAssumption
  <2>2. Earlier(m) \subseteq Earlier(n) /\ m \in Earlier(n) \ Earlier(m)
    BY <2>1, PoliciesAssumption
  <2>3. Earlier(m) \in SUBSET Earlier(n) /\ Earlier(n) # Earlier(m) /\ IsFiniteSet(Earlier(n))
    BY <1>2, <2>2
  <2> HIDE DEF Earlier
  <2>4. Cardinality(Earlier(m)) <= Cardinality(Earlier(n)) /\ Cardinality(Earlier(m)) # Cardinality(Earlier(n))
    BY <2>3, FS_Subset
  <2> QED
    BY <1>2, <1>3, <2>4
<1> QED
  BY <1>4

\* Of some policies that fit a host's tags one asks for the most of them.
LEMMA SomeAskForMost ==
    ASSUME NEW tags, IsFiniteSet(tags), NEW Fit \in SUBSET DOMAIN Config.policies, Fit # {},
           \A n \in Fit : MatchesTags(Config.policies[n], tags)
    PROVE  /\ \A n \in Fit : Cardinality(Config.policies[n].matchTags) \in Nat
           /\ \E n \in Fit : \A m \in Fit :
                  Cardinality(Config.policies[m].matchTags) <= Cardinality(Config.policies[n].matchTags)
<1> DEFINE Asked(n) == Cardinality(Config.policies[n].matchTags)
           spare == {Cardinality(tags) - Asked(n) : n \in Fit}
<1>1. Cardinality(tags) \in Nat
  BY FS_CardinalityType
<1>2. \A n \in Fit : Asked(n) \in Nat /\ Asked(n) <= Cardinality(tags)
  BY FS_Subset, FS_CardinalityType DEF MatchesTags
<1> HIDE DEF Asked
<1>3. spare \in SUBSET Nat /\ spare # {}
  BY <1>1, <1>2
<1>4. PICK k \in spare : \A j \in spare : k <= j
  BY <1>3, FirstPlace
<1>5. PICK n \in Fit : k = Cardinality(tags) - Asked(n)
  BY <1>4
<1>6. \A m \in Fit : Asked(m) <= Asked(n)
  <2> SUFFICES ASSUME NEW m \in Fit PROVE Asked(m) <= Asked(n)
    OBVIOUS
  <2>1. k <= Cardinality(tags) - Asked(m)
    BY <1>4
  <2> QED
    BY <1>1, <1>2, <1>5, <2>1
<1> QED
  BY <1>2, <1>6 DEF Asked

\* A host that names no policy is judged by the policy that asks for the most of its tags,
\* of those that ask for as many by the first in name, and by none only if none fits:
\* resolve_policy_for_host does not depend on the order it meets the policies in.
THEOREM TagsChooseThePolicy ==
    ASSUME NEW id \in DOMAIN Config.hosts, Config.hosts[id].policy = None
    PROVE  LET policies == Config.policies
               Fit      == {n \in DOMAIN policies : MatchesTags(policies[n], Config.hosts[id].tags)}
               chosen   == ForHost(Config, id)
               Asked(n) == Cardinality(policies[n].matchTags)
           IN  \/ Fit = {} /\ chosen.kind = "none"
               \/ /\ chosen.kind = "matched" /\ chosen.name \in Fit
                  /\ \A n \in Fit \ {chosen.name} :
                         \/ Asked(n) < Asked(chosen.name)
                         \/ Asked(n) = Asked(chosen.name) /\ Before(chosen.name, n)
<1> DEFINE policies == Config.policies
           tags == Config.hosts[id].tags
           Fit == {n \in DOMAIN policies : MatchesTags(policies[n], tags)}
           Asked(n) == Cardinality(policies[n].matchTags)
           Most == {n \in Fit : \A m \in Fit : Asked(m) <= Asked(n)}
           first == CHOOSE n \in Most : \A m \in Most \ {n} : Before(n, m)
<1>1. ForHost(Config, id) = TagFallback(policies, tags)
  BY DEF ForHost, ResolvePolicy
<1>2. CASE Fit = {}
  BY <1>1, <1>2 DEF TagFallback
<1>3. CASE Fit # {}
  <2>1. ForHost(Config, id) = [kind |-> "matched", name |-> first]
    BY <1>1, <1>3 DEF TagFallback
  <2>2. IsFiniteSet(tags)
    BY PoliciesAssumption
  <2>3. (\A n \in Fit : Asked(n) \in Nat) /\ Most # {}
    BY <1>3, <2>2, SomeAskForMost
  <2>4. \E n \in Most : \A m \in Most \ {n} : Before(n, m)
    BY <2>3, FirstByName
  <2>5. first \in Most /\ \A m \in Most \ {first} : Before(first, m)
    BY <2>4
  <2> HIDE DEF first
  <2>6. ASSUME NEW n \in Fit \ {first}, ~(Asked(n) < Asked(first))
        PROVE  Asked(n) = Asked(first) /\ Before(first, n)
    <3>1. Asked(n) = Asked(first)
      BY <2>3, <2>5, <2>6
    <3>2. n \in Most
      BY <2>5, <3>1
    <3> QED
      BY <2>5, <2>6, <3>1, <3>2
  <2> QED
    BY <2>1, <2>5, <2>6
<1> QED
  BY <1>2, <1>3
===============================================================================
