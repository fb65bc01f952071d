--------------------------------- MODULE Policy ---------------------------------
(***************************************************************************)
(* Expected-state policies: crates/systui-core/src/config.rs chooses the   *)
(* policy of a host, crates/systui-security/src/policy.rs compares it with *)
(* what was collected.                                                     *)
(*                                                                         *)
(* Of a finding's id the subject is what follows the name of the policy.   *)
(***************************************************************************)
EXTENDS Containers, HostState

CONSTANTS Before(_, _),         \* the order of the names of policies
          Canonical(_),         \* canonical_service_name: with .service behind it
          Stable(_)             \* stable: lower case, every other run of characters a dash

-------------------------------------------------------------------------------
(* The policy of a host *)

\* Policy::matches_tags
MatchesTags(policy, tags) == policy.matchTags # {} /\ policy.matchTags \subseteq tags

\* resolve_policy_for_host, without a policy of the host's own: the one that asks for the
\* most tags, of these the first by name.
TagFallback(policies, tags) ==
    LET Fit  == {n \in DOMAIN policies : MatchesTags(policies[n], tags)}
        Most == {n \in Fit : \A m \in Fit :
                    Cardinality(policies[m].matchTags) <= Cardinality(policies[n].matchTags)}
    IN  IF Fit = {} THEN [kind |-> "none", name |-> None]
        ELSE [kind |-> "matched", name |-> CHOOSE n \in Most : \A m \in Most \ {n} : Before(n, m)]

\* resolve_policy_for_host: a policy the host names is its policy, or is missing.
ResolvePolicy(policies, host) ==
    IF host.policy = None THEN TagFallback(policies, host.tags)
    ELSE [kind |-> IF host.policy \in DOMAIN policies THEN "matched" ELSE "missing", name |-> host.policy]

\* PolicySelection::for_host: a target that is no host of the inventory has no policy.
ForHost(config, id) ==
    IF id \in DOMAIN config.hosts THEN ResolvePolicy(config.policies, config.hosts[id])
    ELSE [kind |-> "none", name |-> None]

-------------------------------------------------------------------------------
(* Findings *)

Partial(area) == {Finding("policy.partial", area, "info")}

\* forbidden_port_severity
ForbiddenPortSeverity(port, exposures) ==
    LET seen == {e \in exposures : e.listener.port = port}
        Of(e) == IF ~e.external THEN "medium" ELSE IF Rank(e.severity) > Rank("high") THEN e.severity ELSE "high"
    IN  WorstSeverity({Finding("", "", "medium")} \cup {Finding("", "", Of(e)) : e \in seen})

\* Mutant: a network that could not be collected is one without listeners.
PortsOfNothing(policy, network, exposures) ==
    LET open == {l.port : l \in network.listeners}
    IN  {Finding("policy.port.missing", p, "medium") : p \in policy.expectedPorts \ open}
        \cup {Finding("policy.port.forbidden", p, ForbiddenPortSeverity(p, exposures)) :
                p \in policy.forbiddenPorts \cap open}

\* port_findings: without a network the ports are unknown, with one without listeners
\* they are missing.
PortFindings(policy, network, exposures) ==
    LET open == {l.port : l \in network.listeners}
    IN  IF policy.expectedPorts \cup policy.forbiddenPorts = {} THEN {}
        ELSE IF network = NoNetwork THEN Partial("network")
        ELSE {Finding("policy.port.missing", p, "medium") : p \in policy.expectedPorts \ open}
             \cup {Finding("policy.port.forbidden", p, ForbiddenPortSeverity(p, exposures)) :
                    p \in policy.forbiddenPorts \cap open}

\* service_findings, service_state_finding: of two units of one name the later counts.
ServiceFindings(policy, services) ==
    LET Named(name) == {u \in services : Canonical(u.name) = Canonical(name) \/ u.name = Canonical(name)}
        Unit(name)  == CHOOSE u \in Named(name) : \A v \in Named(name) : v.place <= u.place
    IN  IF policy.expectedServices \cup policy.forbiddenServices = {} THEN {}
        ELSE IF services = {} THEN Partial("services")
        ELSE {Finding("policy.service.missing", Stable(s), "medium") :
                    s \in {x \in policy.expectedServices : Named(x) = {}}}
             \cup {Finding("policy.service.state", Stable(s), IF IsFailed(Unit(s)) THEN "high" ELSE "medium") :
                    s \in {x \in policy.expectedServices : Named(x) # {} /\
                                (IsFailed(Unit(x)) \/ Unit(x).active # "active")}}
             \cup {Finding("policy.service.forbidden", Stable(s), IF Unit(s).active = "active" THEN "high" ELSE "low") :
                    s \in {x \in policy.forbiddenServices : Named(x) # {}}}

\* threshold_findings: a limit the policy does not set is Absent.
ThresholdFindings(policy, system) ==
    LET Over(value, limit) == limit # Absent /\ value >= limit
        Critical == {d \in system.disks : Over(d.use, policy.diskCritical)}
        Warning  == {d \in system.disks \ Critical : Over(d.use, policy.diskWarning)}
        Ram      == policy.ramWarning # Absent
                    /\ UsedAtLeast(system.memory.total, system.memory.available, policy.ramWarning)
        Load     == policy.loadPerCore # Absent /\ Overloaded(system.load, system.cpu.cores, policy.loadPerCore)
    IN  {Finding("policy.threshold.disk-critical", Stable(d.mount), "critical") : d \in Critical}
        \cup {Finding("policy.threshold.disk-warning", Stable(d.mount), "high") : d \in Warning}
        \cup When(Ram, {Finding("policy.threshold.ram", "", "medium")})
        \cup When(Load, {Finding("policy.threshold.load", "", "medium")})

\* docker_policy_findings, forbidden_container_finding: the image of an expected container
\* is that of its inspect, if there is one; forbidden images are looked for in the list.
DockerPolicyFindings(policy, docker) ==
    LET Listed(name)    == {c \in docker.containers : c.name = name}
        Inspected(name) == {i \in docker.inspects : i.name = name}
        Image(name)     == IF Inspected(name) # {} THEN (CHOOSE i \in Inspected(name) : TRUE).image
                           ELSE (CHOOSE c \in Listed(name) : TRUE).image
        Running(c)      == IF IsRunning(c) THEN "high" ELSE "medium"
        present         == {e \in policy.expectedContainers : Listed(e.name) # {}}
    IN  IF policy.expectedContainers = {} /\ policy.forbiddenContainers \cup policy.forbiddenImages = {} THEN {}
        ELSE IF ~docker.available THEN Partial("docker")
        ELSE {Finding("policy.container.missing", Stable(e.name), "medium") : e \in policy.expectedContainers \ present}
             \cup {Finding("policy.container.stopped", Stable(e.name), "medium") :
                    e \in {x \in present : \A c \in Listed(x.name) : ~IsRunning(c)}}
             \cup {Finding("policy.container.image", Stable(e.name), "medium") :
                    e \in {x \in present : x.image # None /\ Image(x.name) # x.image}}
             \cup {Finding("policy.container.forbidden", Stable(c.name), Running(c)) :
                    c \in {x \in docker.containers : x.name \in policy.forbiddenContainers}}
             \cup {Finding("policy.image.forbidden", Stable(c.image) \o "." \o Stable(c.name), Running(c)) :
                    c \in {x \in docker.containers : x.image \in policy.forbiddenImages}}

\* unsupported_fact_findings
UnsupportedFactFindings(policy) ==
    When(policy.users # {}, Partial("identity")) \cup When(policy.certs # {}, Partial("certificates"))

\* policy_findings, evaluate_matched, missing_policy
PolicyFindings(selection, policies, facts) ==
    CASE selection.kind = "matched" ->
            LET policy == policies[selection.name]
            IN  PortFindings(policy, facts.network, facts.exposures)
                \cup ServiceFindings(policy, facts.services)
                \cup ThresholdFindings(policy, facts.system)
                \cup DockerPolicyFindings(policy, facts.docker)
                \cup UnsupportedFactFindings(policy)
      [] selection.kind = "missing" -> {Finding("policy.config.missing", Stable(selection.name), "medium")}
      [] OTHER -> {}
===============================================================================
