------------------------------- MODULE HostChecks -------------------------------
(***************************************************************************)
(* The read-only posture checks of crates/systui-security: security_scan   *)
(* of lib.rs with ssh.rs, sudo.rs, system.rs and certs.rs.                 *)
(***************************************************************************)
EXTENDS Network, Integers

CONSTANTS CriticalFiles,        \* files whose permissions are inspected
          CertWarningDays,      \* config.security.cert_expiry_warning_days
          HoursPerCertDay,      \* 24: the hours of a day of num_days
          FewFailedLogins,      \* 10: from here on a finding is low
          ManyFailedLogins      \* 50: from here on it is medium

ASSUME ChecksAssumption ==
    CertWarningDays \in Nat /\ HoursPerCertDay \in Nat \ {0} /\ FewFailedLogins <= ManyFailedLogins

-------------------------------------------------------------------------------
(* ssh.rs *)

\* sshd_value: the first line with the key counts, also when it has no value.
SshdValue(config, key) ==
    LET Lines == {i \in DOMAIN config : config[i].key = key}
    IN  IF Lines = {} THEN "" ELSE config[CHOOSE i \in Lines : \A j \in Lines : i <= j].value

CheckSshdConfig(config) ==
    LET password == SshdValue(config, "PasswordAuthentication")
    IN  When(SshdValue(config, "PermitRootLogin") = "yes", {Finding("ssh.root-login", "", "high")})
        \cup When(password = "yes", {Finding("ssh.password-auth", "", "high")})
        \cup When(password = "", {Finding("ssh.password-auth-default", "", "low")})

CheckFailedLogins(count) ==
    IF count = 0 THEN {}
    ELSE {Finding("ssh.failed-logins", "",
            IF count < FewFailedLogins THEN "info" ELSE IF count < ManyFailedLogins THEN "low" ELSE "medium")}

\* failed_login_log: the journal, or the first log file that can be read.
FailedLoginLog(a) ==
    IF a["journalctl -u ssh"] # Failed THEN a["journalctl -u ssh"]
    ELSE IF a["/var/log/auth.log"] # Failed THEN a["/var/log/auth.log"]
    ELSE OrElse(a["/var/log/secure"], 0)

-------------------------------------------------------------------------------
(* sudo.rs *)

\* parse_sudoers: comments, Defaults and directives are no grants.
ParseSudoers(lines) == {l \in lines : l.kind = "grant"}

\* collect_sudoers
CollectSudoers(a) ==
    ParseSudoers(OrElse(a["/etc/sudoers"], {}))
    \cup UNION {ParseSudoers(OrElse(a["/etc/sudoers.d/*"], [n \in {name} |-> {}])[name]) :
                name \in OrElse(a["/etc/sudoers.d"], {})}

CheckSudo(grants) ==
    When(grants # {}, {Finding("sudo.grants", "", "info")})
    \cup When(\E g \in grants : g.nopasswd, {Finding("sudo.nopasswd", "", "medium")})

-------------------------------------------------------------------------------
(* system.rs *)

\* iptables_has_rules
IptablesHasRules(rules) == \E r \in rules : r.op \in {"-A", "-I"} \/ (r.op = "-P" /\ r.target # "ACCEPT")

\* probe_firewall and detect_firewall: the first tool that reports a ruleset.
DetectFirewall(a) ==
    CASE a["ufw status"] = "active"                                  -> "ufw"
      [] a["firewall-cmd --state"] = "running"                       -> "firewalld"
      [] \E l \in OrElse(a["nft list ruleset"], {}) : l.kind = "chain" -> "nftables"
      [] IptablesHasRules(OrElse(a["iptables -S"], {}))              -> "iptables"
      [] OTHER                                                       -> None

CheckFirewall(detected) == When(detected = None, {Finding("firewall.absent", "", "medium")})

\* run_stat: the output counts only when every file could be inspected.
RunStat(answer, files) == IF answer = Failed \/ ~(files \subseteq DOMAIN answer) THEN <<>> ELSE answer

\* check_file_perms
CheckFilePerms(stats) ==
    {Finding("fs.world-writable", f, "high") : f \in {g \in DOMAIN stats : stats[g].worldWritable}}
    \cup When("/etc/shadow" \in DOMAIN stats /\ stats["/etc/shadow"].readable,
              {Finding("fs.shadow-readable", "", "high")})

\* check_docker_socket
CheckDockerSocket(stats) ==
    IF stats = <<>> THEN {}
    ELSE IF stats["/var/run/docker.sock"].worldWritable
    THEN {Finding("docker.socket-world-writable", "", "critical")}
    ELSE {Finding("docker.socket-present", "", "info")}

\* SUID_ALLOWLIST, as far as the model has programs
SuidAllowlist == {"su", "sudo", "passwd", "mount", "ping", "crontab"}

\* run_find_suid and check_suid: find fails when one of its directories is missing.
CheckSuid(programs) ==
    When(OrElse(programs, {}) \ SuidAllowlist # {}, {Finding("suid.unexpected", "", "low")})

-------------------------------------------------------------------------------
(* certs.rs *)

\* discover_local_certs, collect_certs_in: the certificate files of each directory and of
\* the directories in it, no deeper; a directory that cannot be listed is left out.
CertDirs == {"/etc/letsencrypt/live", "/etc/nginx/ssl"}

CertsIn(listing, dir) ==
    IF dir \in DOMAIN listing THEN {e.path : e \in {x \in listing[dir] : x.kind = "cert"}} ELSE {}

DiscoverLocalCerts(listing) ==
    LET Below(dir) == {e.path : e \in {x \in listing[dir] : x.kind = "dir"}}
    IN  UNION {CertsIn(listing, dir) \cup UNION {CertsIn(listing, sub) : sub \in Below(dir)} :
                dir \in CertDirs \cap DOMAIN listing}

\* days_until_expiry: num_days cuts towards zero, on both sides of it.
DaysUntilExpiry(hours) ==
    IF hours >= 0 THEN hours \div HoursPerCertDay ELSE -((-hours) \div HoursPerCertDay)

\* check_certificate; dated: whether parse_openssl_date understands notAfter, and then
\* the hours left until it (none of both findings otherwise).
CheckCertificate(path, cert) ==
    LET days == DaysUntilExpiry(cert.hours)
    IN  When(cert.dated /\ days < 0, {Finding("cert.expired", path, "high")})
        \cup When(cert.dated /\ days >= 0 /\ days <= CertWarningDays, {Finding("cert.expiring", path, "medium")})
        \cup When(cert.issuer = cert.subject /\ cert.subject # "", {Finding("cert.self-signed", path, "low")})

\* certificate_findings, read_local_cert: a file openssl cannot read is passed over.
CertificateFindings(a) ==
    LET certs == OrElse(a["openssl x509"], <<>>)
    IN  UNION {CheckCertificate(path, certs[path]) :
                path \in DiscoverLocalCerts(OrElse(a["cert dirs"], <<>>)) \cap DOMAIN certs}

-------------------------------------------------------------------------------
(* security_scan *)
SecurityScan(a, exposures) ==
    (IF a["/etc/ssh/sshd_config"] = Failed THEN {} ELSE CheckSshdConfig(a["/etc/ssh/sshd_config"]))
    \cup CheckFailedLogins(FailedLoginLog(a))
    \cup CheckSudo(CollectSudoers(a))
    \cup CheckFirewall(DetectFirewall(a))
    \cup CheckFilePerms(RunStat(a["stat critical"], CriticalFiles))
    \cup CheckDockerSocket(RunStat(a["stat docker.sock"], {"/var/run/docker.sock"}))
    \cup CheckSuid(a["find suid"])
    \cup CheckExposedPorts(exposures)
    \cup CertificateFindings(a)
===============================================================================
