-------------------------------- MODULE Network --------------------------------
(***************************************************************************)
(* The network of a host: crates/systui-collectors/src/network.rs reads    *)
(* it, exposure.rs classifies its listeners and                            *)
(* crates/systui-security/src/ports.rs turns those into findings.          *)
(*                                                                         *)
(* Lines are told apart as far as the parsers do; addresses, names and     *)
(* ports are strings.                                                      *)
(***************************************************************************)
EXTENDS Findings

CONSTANTS NotJson,      \* the output of an ip that does not know -j
          Units         \* names that end in .service or .scope

None == "none"

\* A network group that gave up.
NoNetwork == [statics |-> Absent, listeners |-> {}, connections |-> {}]

-------------------------------------------------------------------------------
(* ip addr, ip route, resolv.conf: the slow-changing part. *)

\* family_from_str
Families == {"inet", "inet6"}

\* parse_ip_addr_json: one entry per interface.
ParseIpAddrJson(entries) ==
    {[name |-> e.name, state |-> IF e.state = "" THEN "UNKNOWN" ELSE e.state,
      addrs |-> {x \in e.addrs : x.family \in Families}] : e \in entries}

\* parse_ip_addr_text: an address belongs to the last header above it.
ParseIpAddrText(lines) ==
    LET Headers == {i \in DOMAIN lines : lines[i].kind = "header"}
        Own(h)  == {i \in DOMAIN lines : h < i /\ \A g \in Headers : g <= h \/ i < g}
    IN  {[name |-> lines[h].name, state |-> IF lines[h].state = "" THEN "UNKNOWN" ELSE lines[h].state,
          addrs |-> {[ip |-> lines[i].ip, family |-> lines[i].kind] :
                        i \in {j \in Own(h) : lines[j].kind \in Families}}] : h \in Headers}

\* collect_interfaces: JSON first, the plain output where that fails.
CollectInterfaces(a) ==
    IF a["ip -j addr"] \notin {Failed, NotJson} THEN ParseIpAddrJson(a["ip -j addr"])
    ELSE ParseIpAddrText(OrElse(a["ip addr"], <<>>))

\* parse_ip_route_json, parse_ip_route_text: fields a route does not name are absent.
ParseRoutes(lines) == {lines[i] : i \in {j \in DOMAIN lines : lines[j].dst # ""}}

CollectRoutes(a) ==
    IF a["ip -j route"] \notin {Failed, NotJson} THEN ParseRoutes(a["ip -j route"])
    ELSE ParseRoutes(OrElse(a["ip route"], <<>>))

\* parse_resolv_conf: of search and domain the last line wins.
ParseResolvConf(lines) ==
    LET Lists == {i \in DOMAIN lines : lines[i].word \in {"search", "domain"}}
    IN  [nameservers |-> {lines[i].rest : i \in {j \in DOMAIN lines :
                                lines[j].word = "nameserver" /\ lines[j].rest # ""}},
         search |-> IF Lists = {} THEN ""
                    ELSE lines[CHOOSE i \in Lists : \A j \in Lists : j <= i].rest]

\* collect_dns
CollectDns(a) == ParseResolvConf(OrElse(a["/etc/resolv.conf"], <<>>))

CollectStatics(a) ==
    [interfaces |-> CollectInterfaces(a), routes |-> CollectRoutes(a), dns |-> CollectDns(a)]

-------------------------------------------------------------------------------
(* ss: sockets and connections, read at every refresh. *)

\* parse_ss_process: the field ends at a blank, so a name with one hides its pid.
ParseProcess(users) == IF users.pid = None \/ users.blank THEN None ELSE users.pid

\* parse_ss_listener_line, parse_socket_addr: the heading has no numeric port.
IsListenerRow(row) == row.fields >= 6 /\ row.netid \in {"tcp", "udp"} /\ row.port # "Port"

\* unit_from_cgroup: the first line whose path holds a unit; of that path the last one.
UnitFromCgroup(paths) ==
    LET HasUnit(i) == \E k \in DOMAIN paths[i] : paths[i][k] \in Units
        line == CHOOSE i \in DOMAIN paths : HasUnit(i) /\ \A j \in 1 .. i - 1 : ~HasUnit(j)
        leaf == CHOOSE k \in DOMAIN paths[line] :
                    /\ paths[line][k] \in Units
                    /\ \A m \in DOMAIN paths[line] : paths[line][m] \in Units => m <= k
    IN  IF \E i \in DOMAIN paths : HasUnit(i) THEN paths[line][leaf] ELSE None

\* correlate_units, unit_for_pid: a process whose cgroup cannot be read has no unit.
UnitOf(a, pid) ==
    LET cgroups == OrElse(a["cgroups"], <<>>)
    IN  IF pid \in DOMAIN cgroups THEN UnitFromCgroup(cgroups[pid]) ELSE None

\* collect_listeners; sockets no field of theirs tells apart are one.
CollectListeners(a) ==
    LET rows == OrElse(a["ss -tulpn"], <<>>)
    IN  {[protocol |-> rows[i].netid, ip |-> rows[i].ip, port |-> rows[i].port,
          process |-> IF ParseProcess(rows[i].users) = None THEN None ELSE rows[i].users.name,
          unit |-> UnitOf(a, ParseProcess(rows[i].users))] :
            i \in {j \in DOMAIN rows : IsListenerRow(rows[j])}}

\* parse_ss_connection_line, collect_connections; rows that say the same are as many
\* connections.
CollectConnections(a) ==
    LET rows == OrElse(a["ss -tan"], <<>>)
    IN  {[place |-> i, state |-> rows[i].state, local |-> rows[i].local, peer |-> rows[i].peer] :
            i \in {j \in DOMAIN rows : rows[j].fields >= 5 /\ rows[j].local # "Port"}}

\* NetworkCollector::collect: what is cached is not read again.
CollectNetwork(a, cached) ==
    LET statics == IF cached.read THEN cached.statics ELSE CollectStatics(a)
    IN  [statics |-> statics, listeners |-> CollectListeners(a), connections |-> CollectConnections(a)]

-------------------------------------------------------------------------------
(* The exposure map *)

\* SENSITIVE_PORTS
SensitivePorts == [p \in {"22", "3306", "5432", "6379", "9200", "11211", "27017", "5984"} |->
                      IF p \in {"22", "3306", "5432"} THEN "high" ELSE "critical"]

\* bind_scope
Loopback(ip) == ip \in {"::1", "127.0.0.1", "127.0.0.53"}

\* classify: the severity a listener earns.
Exposure(l) ==
    IF Loopback(l.ip) THEN "info"
    ELSE IF l.port \in DOMAIN SensitivePorts THEN SensitivePorts[l.port]
    ELSE "low"

\* exposure_map, as the set of its entries; what build_evidence says of one is its listener.
ExposureMap(listeners) ==
    {[listener |-> l, external |-> ~Loopback(l.ip), severity |-> Exposure(l)] : l \in listeners}

\* check_exposed_ports
CheckExposedPorts(exposures) ==
    {Finding("net.sensitive-port", e.listener.port, e.severity) :
        e \in {x \in exposures : Rank(x.severity) >= Rank("high")}}
    \cup {Finding("net.unidentified-listener", e.listener.port, "low") :
        e \in {x \in exposures : x.external /\ x.listener.process = None}}
===============================================================================
