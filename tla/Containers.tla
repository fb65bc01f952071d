------------------------------- MODULE Containers -------------------------------
(***************************************************************************)
(* Docker: what crates/systui-collectors/src/docker.rs reads through the   *)
(* docker command and what crates/systui-security/src/docker.rs says of    *)
(* it.  A line of output is a record, or Unreadable where serde refuses it.*)
(***************************************************************************)
EXTENDS Network

CONSTANTS Unreadable,               \* a line or document that is not the JSON expected
          RestartLoopThreshold      \* 5

Readable(lines) == {i \in DOMAIN lines : lines[i] # Unreadable}

-------------------------------------------------------------------------------
\* ContainerHealth::from_status_text: docker ps writes the health behind the status.
HealthOfStatus(status) ==
    CASE status = "Up (healthy)"          -> "healthy"
      [] status = "Up (unhealthy)"        -> "unhealthy"
      [] status = "Up (health: starting)" -> "starting"
      [] OTHER                            -> None

\* ContainerHealth::from_inspect; a container without a health check has none.
HealthOfInspect(status) == IF status \in {"healthy", "unhealthy", "starting"} THEN status ELSE None

\* parse_ps
ParsePs(lines) ==
    {[id |-> lines[i].id, name |-> lines[i].name, image |-> lines[i].image,
      state |-> lines[i].state, health |-> HealthOfStatus(lines[i].status)] : i \in Readable(lines)}

IsRunning(c) == c.state = "running"

\* parse_stats, container_stats: of the containers that run.
ParseStats(lines) == {[id |-> lines[i].id, cpu |-> lines[i].cpu, mem |-> lines[i].mem] : i \in Readable(lines)}

\* parse_inspect: a published port is a binding with a number for a host port.
ParseInspect(doc) ==
    [id |-> doc.id, name |-> doc.name, image |-> doc.image, privileged |-> doc.privileged,
     restartCount |-> doc.restartCount, memoryLimit |-> doc.memory, networks |-> doc.networks,
     mounts |-> doc.mounts, ports |-> {b \in doc.bindings : b.port # ""},
     health |-> HealthOfInspect(doc.health)]

\* inspect_container, for every container of the list, one command each; where the
\* command fails or its output cannot be read the container has no summary.
Inspects(a, containers) ==
    LET docs == OrElse(a["docker inspect"], <<>>)
    IN  {ParseInspect(docs[c.id]) :
            c \in {d \in containers : d.id \in DOMAIN docs /\ docs[d.id] # Unreadable}}

\* parse_compose_ls, compose_projects; services is the count in the status, 0 without one.
ParseCompose(lines) ==
    {[name |-> lines[i].name, status |-> lines[i].status, services |-> lines[i].services] : i \in Readable(lines)}

NoImages == [total |-> 0, reclaimable |-> "", dangling |-> 0]

\* image_hygiene: the row Images of docker system df, and a count that is 0 if it fails.
ImageHygiene(a) ==
    LET rows   == a["docker system df"]
        images == {i \in Readable(rows) : rows[i].kind = "Images"}
        first  == rows[CHOOSE i \in images : \A j \in images : i <= j]
    IN  IF rows = Failed THEN NoImages
        ELSE [(IF images = {} THEN NoImages
               ELSE [NoImages EXCEPT !.total = first.total, !.reclaimable = first.reclaimable])
              EXCEPT !.dangling = OrElse(a["docker images dangling"], 0)]

-------------------------------------------------------------------------------
(* Risks *)

\* DANGEROUS_MOUNT_SOURCES; a slash at the end changes nothing.
DangerousMounts == {"/", "/etc", "/etc/", "/var/run", "/var/run/", "/run", "/run/"}
SocketMounts    == {"/var/run/docker.sock", "/run/docker.sock"}

\* uses_latest_tag: no tag, the tag latest, or a port of the registry taken for one.
FloatingImages == {"app", "app:latest", "registry:5000/app"}

\* sensitive_port_findings: a host-mapped port is a listener to the exposure map.
SensitivePortFindings(c) ==
    {Finding("docker.sensitive-port", c.name \o "." \o e.listener.port, e.severity) :
        e \in {x \in ExposureMap({[ip |-> p.ip, port |-> p.port] : p \in c.ports}) :
                Rank(x.severity) >= Rank("high")}}

\* check_container
CheckContainer(c) ==
    When(c.privileged, {Finding("docker.privileged", c.name, "high")})
    \cup When(c.mounts \cap SocketMounts # {}, {Finding("docker.socket-mount", c.name, "critical")})
    \cup When(c.mounts \cap DangerousMounts # {}, {Finding("docker.dangerous-mount", c.name, "high")})
    \cup SensitivePortFindings(c)
    \cup When(c.health = "unhealthy", {Finding("docker.unhealthy", c.name, "medium")})
    \cup When(c.restartCount >= RestartLoopThreshold, {Finding("docker.restart-loop", c.name, "medium")})
    \cup When(c.image \in FloatingImages, {Finding("docker.latest-tag", c.name, "low")})
    \cup When(c.memoryLimit = 0, {Finding("docker.no-mem-limit", c.name, "low")})

\* docker_findings
DockerFindings(inspects) == UNION {CheckContainer(c) : c \in inspects}

-------------------------------------------------------------------------------
(* gather_docker of crates/systui-report/src/collect.rs *)

NoDocker == [available |-> FALSE, containers |-> {}, inspects |-> {}, stats |-> {},
             compose |-> {}, hygiene |-> NoImages, findings |-> {}]

\* The second half, after the list: inspects, then stats, projects and images.
DockerDetails(a, containers) ==
    LET inspects == Inspects(a, containers)
    IN  [available |-> TRUE, containers |-> containers, inspects |-> inspects,
         stats |-> ParseStats(OrElse(a["docker stats"], <<>>)),
         compose |-> ParseCompose(OrElse(a["docker compose ls"], <<>>)),
         hygiene |-> ImageHygiene(a), findings |-> DockerFindings(inspects)]
===============================================================================
