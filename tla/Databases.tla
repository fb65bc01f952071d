------------------------------- MODULE Databases -------------------------------
(***************************************************************************)
(* Database discovery: crates/systui-collectors/src/database.rs finds the  *)
(* engines of a host by its services and listeners and asks them how they  *)
(* are, crates/systui-security/src/database.rs turns that into findings.   *)
(*                                                                         *)
(* An engine's name in a text is a member of EngineNames.  The summaries   *)
(* the findings are read off are kept as what the findings tell apart: a   *)
(* number of blocked operations, and the words of the replication.         *)
(***************************************************************************)
EXTENDS Network, HostState

\* DatabaseEngine, with default_port and the programs of version_probes.
Engines == {"postgresql", "redis", "mysql", "mongodb"}

DefaultPort == [e \in Engines |->
    CASE e = "postgresql" -> "5432" [] e = "redis" -> "6379" [] e = "mysql" -> "3306" [] e = "mongodb" -> "27017"]

VersionProbes == [e \in Engines |->
    CASE e = "postgresql" -> <<"postgres", "psql">>
      [] e = "redis"      -> <<"redis-server", "redis-cli">>
      [] e = "mysql"      -> <<"mysqld", "mariadbd", "mysql", "mariadb">>
      [] e = "mongodb"    -> <<"mongod", "mongosh", "mongo">>]

\* Names of processes, units and services that contain the name of an engine.
EngineNames == [e \in Engines |->
    CASE e = "postgresql" -> {"postgres", "postgresql.service"}
      [] e = "redis"      -> {"redis-server", "redis.service", "redis-exporter.service"}
      [] e = "mysql"      -> {"mysqld", "mariadbd", "mysql.service"}
      [] e = "mongodb"    -> {"mongod", "mongod.service"}]

-------------------------------------------------------------------------------
(* Detection *)

\* service_matches_engine: by the name or the description.
Matching(services, e) ==
    {s \in services : s.name \in EngineNames[e] \/ s.description \in EngineNames[e]}

\* engine_from_text, engine_for_listener: the unit, then the process, then the port.
EngineFromText(text) ==
    IF \E e \in Engines : text \in EngineNames[e] THEN CHOOSE e \in Engines : text \in EngineNames[e] ELSE None

EngineForListener(l) ==
    CASE EngineFromText(l.unit) # None                -> EngineFromText(l.unit)
      [] EngineFromText(l.process) # None             -> EngineFromText(l.process)
      [] \E e \in Engines : l.port = DefaultPort[e]   -> CHOOSE e \in Engines : l.port = DefaultPort[e]
      [] OTHER                                        -> None

\* service_for_listener: the service named like the unit, or else the first that matches.
ServiceForListener(l, e, services) ==
    LET own == {s \in Matching(services, e) : l.unit # None /\ s.name = l.unit}
    IN  CASE own # {}                  -> (CHOOSE s \in own : TRUE).name
          [] Matching(services, e) = {} -> None
          [] OTHER                      -> (CHOOSE s \in Matching(services, e) :
                \A t \in Matching(services, e) : s.place <= t.place).name

\* detect_database_instances: one instance for each listener of an engine, and one for
\* each service of an engine no listener took.
Instance(e, service, listener) == [engine |-> e, service |-> service, listener |-> listener]
NoListener == [protocol |-> None, ip |-> None, port |-> None, process |-> None, unit |-> None]

DetectInstances(services, listeners) ==
    LET found == {Instance(EngineForListener(l), ServiceForListener(l, EngineForListener(l), services), l) :
                    l \in {x \in listeners : EngineForListener(x) # None}}
        used  == {i.service : i \in found}
    IN  found \cup UNION {{Instance(e, s.name, NoListener) :
                    s \in {t \in Matching(services, e) : t.name \notin used}} : e \in Engines}

-------------------------------------------------------------------------------
(* Versions and credentials *)

\* collect_version: the first probe that answers with a line.
CollectVersion(a, e) ==
    LET said == OrElse(a["--version"], <<>>)
        Answers(k) == VersionProbes[e][k] \in DOMAIN said /\ said[VersionProbes[e][k]] # ""
        first == CHOOSE k \in DOMAIN VersionProbes[e] : Answers(k) /\ \A j \in 1 .. k - 1 : ~Answers(j)
    IN  IF \E k \in DOMAIN VersionProbes[e] : Answers(k) THEN said[VersionProbes[e][first]] ELSE None

\* credential_sources_for_engine, env_is_set, mysql_login_path_available: a probe that
\* fails is a source that is not there.
SourceProbes == [e \in Engines |->
    CASE e = "postgresql" -> {"/var/run/postgresql", "/root/.pgpass", "PGPASSWORD", "PGPASSFILE"}
      [] e = "redis"      -> {"REDISCLI_AUTH"}
      [] e = "mysql"      -> {"mysql_config_editor", "/var/run/mysqld", "MYSQL_PWD"}
      [] e = "mongodb"    -> {"MONGODB_URI"}]

CredentialSources(a, e) == SourceProbes[e] \cap OrElse(a["credentials"], {})

-------------------------------------------------------------------------------
(* Operational facts: connections, blocked work, replication, errors. *)

Unsaid == [connections |-> Absent, blocked |-> 0, replication |-> {}]

\* connection_summary: how many ss shows at the port, until the engine says more.
ConnectionSummary(l, connections) ==
    IF l = NoListener THEN Absent ELSE Cardinality({c \in connections : c.local = l.port})

\* apply_redis_info: a text without a role has the role unknown; a master that does not
\* tell its replicas has no summary.
ApplyRedis(said, info) ==
    [connections |-> IF info.clients # Absent THEN info.clients ELSE said.connections,
     blocked     |-> IF info.blocked # Absent THEN info.blocked ELSE said.blocked,
     replication |-> CASE info.role = "master" -> IF info.replicas = Absent THEN {} ELSE {"master", "with", "replicas"}
                       [] info.role = "slave"  -> IF info.link = Absent THEN {} ELSE {"replica,", "link", info.link}
                       [] info.role = Absent   -> {"role", "unknown"}
                       [] OTHER                -> {"role", info.role}]

\* apply_postgres_stats
ApplyPostgres(said, stats) ==
    [connections |-> IF stats.connections # Absent THEN stats.connections ELSE said.connections,
     blocked     |-> IF stats.locks # Absent THEN stats.locks ELSE said.blocked,
     replication |-> IF stats.replicas # Absent THEN {"streaming", "replicas"} ELSE {}]

\* What a summary says of something the engine did not tell.
OrUnknown(x) == IF x = Absent THEN "unknown" ELSE x

\* apply_mysql_stats: one of the two threads is enough for a summary, the other is unknown.
ApplyMysql(said, stats) ==
    [connections |-> IF stats.threads # Absent THEN stats.threads ELSE said.connections,
     blocked     |-> said.blocked,
     replication |-> IF stats.io = Absent /\ stats.sql = Absent THEN {}
                     ELSE {"replica", OrUnknown(stats.io), OrUnknown(stats.sql)}]

\* apply_mongo_status: of a replica set, its name and the state of the member.
ApplyMongo(said, status) ==
    IF status = NotJson THEN said
    ELSE [connections |-> IF status.current # Absent THEN status.current ELSE said.connections,
          blocked     |-> IF status.queue # Absent THEN status.queue ELSE said.blocked,
          replication |-> IF status.set = Absent THEN {}
                          ELSE {"replica", "set", status.set, "state", OrUnknown(status.state)}]

\* enrich_redis, enrich_postgres, enrich_mysql, enrich_mongo: an engine without a listener
\* is not asked; one that does not answer leaves what is known.  The answer of a port that
\* is asked is that of its engine.
Ask(a, e, l, said) ==
    LET stats == OrElse(a["database stats"], <<>>)
    IN  IF l = NoListener \/ l.port \notin DOMAIN stats THEN said
        ELSE CASE e = "redis"      -> ApplyRedis(said, stats[l.port])
               [] e = "postgresql" -> ApplyPostgres(said, stats[l.port])
               [] e = "mysql"      -> ApplyMysql(said, stats[l.port])
               [] e = "mongodb"    -> ApplyMongo(said, stats[l.port])

\* collect_recent_errors: of the unit, if the instance has one.
RecentErrors(a, service) ==
    LET logs == OrElse(a["journalctl -u database"], <<>>)
    IN  IF service # None /\ service \in DOMAIN logs THEN ParseJournal(logs[service]) ELSE <<>>

\* DatabaseCollector::collect, enrich_operational: with services and a network of its own,
\* either of which may be missing.
CollectDatabases(a) ==
    LET services == OrElse(CollectServices(a), {})
    IN  {[engine |-> i.engine, service |-> i.service, listener |-> i.listener,
          version |-> CollectVersion(a, i.engine), sources |-> CredentialSources(a, i.engine),
          said    |-> Ask(a, i.engine, i.listener,
                          [Unsaid EXCEPT !.connections = ConnectionSummary(i.listener, CollectConnections(a))]),
          errors  |-> RecentErrors(a, i.service)] : i \in DetectInstances(services, CollectListeners(a))}

-------------------------------------------------------------------------------
(* Findings *)

\* is_externally_reachable
External(i) == i.listener # NoListener /\ ~Loopback(i.listener.ip)

\* replication_finding looks for "down", "no", "fail" and "broken" in the text: words that
\* contain one of them.
Broken == {"down", "unknown", "No", "snow01"}

\* database_findings: what one instance earns, and all of them.
InstanceFindings(i) ==
    When(External(i),
         {Finding("db.exposed", i.engine \o "." \o i.listener.port,
                  IF i.engine \in {"redis", "mongodb"} THEN "critical" ELSE "high")}
         \cup When(i.engine = "redis" /\ i.sources = {}, {Finding("db.redis.auth-unknown", "", "critical")}))
    \cup When(i.said.blocked > 0, {Finding("db.blocked", i.engine, "medium")})
    \cup When(i.said.replication \cap Broken # {}, {Finding("db.replication", i.engine, "high")})
    \cup When(i.errors # <<>>, {Finding("db.recent-errors", i.engine, "medium")})

DatabaseFindings(instances) == UNION {InstanceFindings(i) : i \in instances}
===============================================================================
