------------------------------ MODULE MCHostReview ------------------------------
(***************************************************************************)
(* A web server in a few states, read here or over ssh, with a policy that *)
(* expects most of what runs on it.  Every world is the base with what is  *)
(* different in it.                                                        *)
(***************************************************************************)
EXTENDS HostReview, TLC

CONSTANTS notInstalled, notJson, unreadable, failed, absent

\* Nothing here asks for a time of day: a calendar of one day is enough.
MCDateOf(d) == [month |-> 1, day |-> 1, weekday |-> 0]

\* The order of names and the two conversions of names, on the names there are.
MCBefore(m, n) == <<m, n>> \in {<<"base", "web">>, <<"base", "zone">>, <<"web", "zone">>}
MCCanonical(name) == CASE name = "nginx" -> "nginx.service" [] name = "redis" -> "redis.service" [] OTHER -> name
MCStable(name) == CASE name = "/var" -> "var" [] name = "app:2" -> "app-2" [] OTHER -> name

MCUnits == {"nginx.service", "redis.service", "redis-exporter.service"}
MCPseudoFs == {"tmpfs", "proc"}

-------------------------------------------------------------------------------
Sock(netid, ip, port, name, pid, blank) ==
    [fields |-> 7, netid |-> netid, ip |-> ip, port |-> port, users |-> [name |-> name, pid |-> pid, blank |-> blank]]
Heading == [Sock("Netid", "", "Port", "", None, FALSE) EXCEPT !.fields = 6]
Conn(state, local, peer) == [fields |-> 5, state |-> state, local |-> local, peer |-> peer]
Unit(name, active, sub) == [words |-> 5, name |-> name, active |-> active, sub |-> sub, description |-> ""]
Stat(writable, readable) == [worldWritable |-> writable, readable |-> readable]
Script(executable, writable) == [executable |-> executable, worldWritable |-> writable]
Cert(kind, path) == [kind |-> kind, path |-> path]
Line(id, name, image, state, status) ==
    [id |-> id, name |-> name, image |-> image, state |-> state, status |-> status]
Document(id, name, image) ==
    [id |-> id, name |-> name, image |-> image, privileged |-> FALSE, restartCount |-> 0, memory |-> 512,
     networks |-> {"bridge"}, mounts |-> {}, bindings |-> {}, health |-> "healthy"]
Message(priority) == [priority |-> priority]
Cpu(total, idle) == [total |-> total, idle |-> idle, cores |-> 2]
Redis(role) == [clients |-> 3, blocked |-> absent, role |-> role, replicas |-> absent, link |-> absent]
Mongo(state) == [current |-> 1, queue |-> absent, set |-> "rs0", state |-> state]
Meminfo(available) == [total |-> 100, available |-> available, free |-> 20, swapTotal |-> 10, swapFree |-> 10]
Package(security) == [package |-> TRUE, security |-> security]

Nightly == Fields(<<At(0), At(0), Star, Star, Star>>)
Often   == Fields(<<Star, Star, Star, Star, Star>>)

Base ==
    "ip -j addr"              :> {[name |-> "eth0", state |-> "UP", addrs |-> {[ip |-> "10.0.0.5", family |-> "inet"]}]}
 @@ "ip addr"                 :> <<[kind |-> "header", name |-> "eth0", state |-> "", ip |-> ""],
                                   [kind |-> "inet", name |-> "", state |-> "", ip |-> "10.0.0.5"],
                                   [kind |-> "link/ether", name |-> "", state |-> "", ip |-> ""]>>
 @@ "ip -j route"             :> <<[dst |-> "default", via |-> "10.0.0.1"]>>
 @@ "ip route"                :> <<[dst |-> "default", via |-> "10.0.0.1"], [dst |-> "", via |-> None]>>
 @@ "/etc/resolv.conf"        :> <<[word |-> "nameserver", rest |-> "10.0.0.2"], [word |-> "search", rest |-> "lan"],
                                   [word |-> "domain", rest |-> "example"]>>
 @@ "ss -tulpn"               :> <<Heading, Sock("tcp", "0.0.0.0", "22", "sshd", "10", FALSE),
                                   Sock("tcp", "0.0.0.0", "80", "nginx", "11", FALSE),
                                   Sock("tcp", "0.0.0.0", "6379", "redis-server", "12", FALSE),
                                   Sock("tcp", "127.0.0.1", "27017", "mongod", "14", FALSE),
                                   Sock("udp", "0.0.0.0", "68", "my daemon", "13", TRUE)>>
 @@ "ss -tan"                 :> <<Conn("ESTAB", "6379", "10.0.0.9"), Conn("ESTAB", "6379", "10.0.0.9"), Conn("LISTEN", "Port", "*")>>
 @@ "cgroups"                 :> ("11" :> <<<<"system.slice", "nginx.service">>>>
                                   @@ "12" :> <<<<"init.scope.d">>, <<"system.slice", "redis.service">>>>)
 @@ "/etc/ssh/sshd_config"    :> <<[key |-> "PermitRootLogin", value |-> "yes"]>>
 @@ "journalctl -u ssh"       :> 12
 @@ "/var/log/auth.log"       :> 3
 @@ "/var/log/secure"         :> 0
 @@ "/etc/sudoers"            :> {[kind |-> "Defaults", nopasswd |-> FALSE], [kind |-> "grant", nopasswd |-> FALSE]}
 @@ "/etc/sudoers.d"          :> {"deploy"}
 @@ "/etc/sudoers.d/*"        :> ("deploy" :> {[kind |-> "grant", nopasswd |-> TRUE]})
 @@ "ufw status"              :> notInstalled
 @@ "firewall-cmd --state"    :> notInstalled
 @@ "nft list ruleset"        :> {[kind |-> "table"], [kind |-> "chain"], [kind |-> "rule"]}
 @@ "iptables -S"             :> {}
 @@ "tab: firewall-cmd --state" :> notInstalled
 @@ "tab: ufw status"         :> notInstalled
 @@ "tab: nft list ruleset"   :> <<[kind |-> "table", name |-> "inet filter"], [kind |-> "chain", name |-> "input"],
                                   [kind |-> "rule", name |-> ""], [kind |-> "rule", name |-> ""]>>
 @@ "tab: iptables -S"        :> <<>>
 @@ "stat critical"           :> ("/etc/passwd" :> Stat(FALSE, TRUE) @@ "/etc/shadow" :> Stat(FALSE, FALSE))
 @@ "stat docker.sock"        :> ("/var/run/docker.sock" :> Stat(FALSE, FALSE))
 @@ "find suid"               :> {"sudo", "su"}
 @@ "cert dirs"               :> ("/etc/letsencrypt/live" :> {Cert("dir", "live/web")} @@ "live/web" :> {Cert("cert", "web.pem")})
 @@ "openssl x509"            :> ("web.pem" :> [dated |-> TRUE, hours |-> -1, issuer |-> "ca", subject |-> "web"])
 @@ "uname -n"                :> "web1"
 @@ "uname -r"                :> "6.1"
 @@ "/etc/os-release"         :> "Debian"
 @@ "tail /proc"              :> ("/proc/uptime" :> 10 @@ "/proc/loadavg" :> 100 @@ "/proc/meminfo" :> Meminfo(60)
                                   @@ "/proc/stat" :> Cpu(100, 50))
 @@ "/proc/uptime"            :> 10
 @@ "/proc/loadavg"           :> 100
 @@ "/proc/meminfo"           :> Meminfo(absent)
 @@ "/proc/stat"              :> Cpu(200, 120)
 @@ "df -P"                   :> {[filesystem |-> "sda1", mount |-> "/", use |-> 40],
                                  [filesystem |-> "sdb1", mount |-> "/var", use |-> 96],
                                  [filesystem |-> "tmpfs", mount |-> "/run", use |-> 100]}
 @@ "who"                     :> {"ann"}
 @@ "systemctl --failed"      :> <<>>
 @@ "systemctl list-units"    :> <<Unit("nginx.service", "active", "running"), Unit("redis.service", "active", "running"),
                                   [Unit("blank", "", "") EXCEPT !.words = 0]>>
 @@ "systemctl list-unit-files" :> {[dotted |-> TRUE, name |-> "nginx.service", state |-> "enabled"],
                                    [dotted |-> FALSE, name |-> "2", state |-> "unit"]}
 @@ "journalctl -p 3"         :> <<Message(3), Message(absent)>>
 @@ "ps -eo"                  :> {[pid |-> 1, ppid |-> absent, command |-> "init"], [pid |-> 11, ppid |-> 1, command |-> "nginx"]}
 @@ "--version"               :> ("redis-server" :> "" @@ "redis-cli" :> "7.0")
 @@ "credentials"             :> {"REDISCLI_AUTH"}
 @@ "database stats"          :> ("6379" :> Redis("master") @@ "27017" :> Mongo("1"))
 @@ "journalctl -u database"  :> ("redis.service" :> <<Message(3)>>)
 @@ "docker ps"               :> <<Line("c1", "app", "app:2", "running", "Up (healthy)"), unreadable>>
 @@ "docker inspect"          :> ("c1" :> [Document("c1", "app", "app:2") EXCEPT !.privileged = TRUE])
 @@ "docker stats"            :> <<[id |-> "c1", cpu |-> 5, mem |-> 7]>>
 @@ "docker compose ls"       :> <<[name |-> "web", status |-> "running(1)", services |-> 1]>>
 @@ "docker system df"        :> <<[kind |-> "Images", total |-> 4, reclaimable |-> "1GB"]>>
 @@ "docker images dangling"  :> 2
 @@ "crontab -l"              :> <<JobLine(Nightly, NoOne, Command("/opt/backup", TRUE)),
                                   Marked(JobLine(Often, NoOne, Command("/opt/old", TRUE))), Other("blank")>>
 @@ "/etc/crontab"            :> <<JobLine(Often, "root", Command("/tmp/poll", FALSE)), Marked(Prose(JobLine(Often, "root", Command(NoScript, TRUE))))>>
 @@ "/etc/cron.d"             :> {"poll", ".placeholder"}
 @@ "/etc/cron.d/*"           :> ("poll" :> <<JobLine(Often, "root", Command("/tmp/poll", FALSE))>>
                                   @@ ".placeholder" :> <<>>)
 @@ "/etc/anacrontab"         :> <<AnacronLine("7", Command("/opt/weekly", TRUE)), AnacronLine("3", Command(NoScript, TRUE))>>
 @@ "/etc/cron.periodic"      :> ("hourly" :> {} @@ "daily" :> {"logrotate", "README"} @@ "weekly" :> {} @@ "monthly" :> {})
 @@ "stat scripts"            :> ("/opt/backup" :> Script(TRUE, FALSE) @@ "/tmp/poll" :> Script(TRUE, TRUE)
                                   @@ "/opt/weekly" :> Script(FALSE, FALSE) @@ "logrotate" :> Script(TRUE, FALSE))
 @@ "apt"                     :> <<[package |-> FALSE, security |-> FALSE], Package(TRUE)>>
 @@ "dnf"                     :> notInstalled
 @@ "pacman"                  :> notInstalled
 @@ "zypper"                  :> notInstalled
 @@ "systemctl list-timers"   :> {[unit |-> "backup.timer", activates |-> "backup.service", first |-> "-"],
                                  [unit |-> "", activates |-> "", first |-> "2"]}

-------------------------------------------------------------------------------
\* After a deployment: other listeners, other jobs, the container created anew.
Deployed == [Base EXCEPT
    !["ss -tulpn"] = <<Heading, Sock("tcp", "0.0.0.0", "22", "sshd", "10", FALSE),
                       Sock("tcp", "127.0.0.1", "6379", "redis-server", "12", FALSE),
                       Sock("tcp", "127.0.0.1", "27017", "mongod", "14", FALSE)>>,
    !["systemctl list-units"] = <<Unit("nginx.service", "failed", "failed"), Unit("redis.service", "active", "running")>>,
    !["systemctl --failed"] = <<Unit("nginx.service", "failed", "failed")>>,
    !["/proc/meminfo"] = Meminfo(5), !["tail /proc"]["/proc/meminfo"] = Meminfo(5),
    !["database stats"] = "6379" :> Redis(absent) @@ "27017" :> Mongo(absent),
    !["docker ps"] = <<Line("c2", "app", "app:2", "running", "Up (unhealthy)"),
                       Line("c3", "miner", "miner", "exited", "Exited")>>,
    !["docker inspect"] = "c2" :> [Document("c2", "app", "app:2") EXCEPT !.privileged = TRUE, !.health = "unhealthy"]
                          @@ "c3" :> unreadable,
    !["crontab -l"] = <<>>,
    !["stat scripts"] = "/tmp/poll" :> Script(TRUE, TRUE) @@ "/opt/weekly" :> Script(FALSE, FALSE)
                        @@ "logrotate" :> Script(TRUE, FALSE)]

\* An old machine: no JSON, no docker, no systemd tools, another package manager.
Old == [Base EXCEPT
    !["ip -j addr"] = notJson, !["ip -j route"] = notJson, !["tail /proc"] = failed,
    !["docker ps"] = notInstalled, !["docker inspect"] = notInstalled, !["journalctl -u ssh"] = notInstalled, !["nft list ruleset"] = notInstalled,
    !["iptables -S"] = {[op |-> "-P", target |-> "DROP"]}, !["stat docker.sock"] = failed,
    !["tab: nft list ruleset"] = notInstalled, !["tab: iptables -S"] = <<[op |-> "-P", chain |-> "INPUT"]>>,
    !["systemctl list-units"] = notInstalled, !["apt"] = notInstalled,
    !["dnf"] = <<Package(FALSE), Package(FALSE)>>, !["journalctl -p 3"] = failed]

MCContents == "base" :> Base @@ "deployed" :> Deployed @@ "old" :> Old @@ "far" :> Old
MCBecomes == {<<"base", "deployed">>, <<"deployed", "base">>}

MCFaults == {{"ss -tulpn"}, {"stat scripts"}, {"docker inspect"}, {"database stats"}, {"credentials"},
             {"nft list ruleset", "cgroups"}, {"uname -n"}, {"journalctl -u ssh", "tail /proc"}, {"ip -j addr", "ip addr", "systemctl list-units"}}

PolicyOf(tags, ports) ==
    [matchTags |-> tags, expectedPorts |-> ports, forbiddenPorts |-> {"6379"}, expectedServices |-> {"nginx"},
     forbiddenServices |-> {"redis"}, diskCritical |-> 95, diskWarning |-> absent, ramWarning |-> 90,
     loadPerCore |-> absent, expectedContainers |-> {[name |-> "app", image |-> "app:2"]},
     forbiddenContainers |-> {"miner"}, forbiddenImages |-> {}, users |-> {"ann"}, certs |-> {}]
MCConfig ==
    [hosts    |-> "web1" :> [policy |-> None, tags |-> {"web", "prod"}],
     policies |-> "base" :> PolicyOf({"prod"}, {}) @@ "web" :> PolicyOf({"prod", "web"}, {"22", "80"})
                @@ "zone" :> PolicyOf({"prod", "web"}, {"443"})]

\* What the theorems suppose holds here.
ASSUME HostsAnswerHere    == HostsAnswer
ASSUME InspectsListedHere == InspectsListed
ASSUME EnginesAgreeHere   == EnginesAgree
===============================================================================
