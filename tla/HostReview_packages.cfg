SPECIFICATION Spec
CONSTANTS
    Failed = failed
    Absent = absent
    NotInstalled = notInstalled
    NotJson = notJson
    Unreadable = unreadable
    failed = failed
    absent = absent
    notInstalled = notInstalled
    notJson = notJson
    unreadable = unreadable
    MinutesPerHour = 4
    HoursPerDay = 2
    DateOf <- MCDateOf
    Word = 64
    SearchDays = 1
    TempScripts = {"/tmp/poll"}
    HighFrequencyPerHour = 4
    Units <- MCUnits
    RestartLoopThreshold = 5
    DiskWarning = 80
    DiskCritical = 90
    RamWarning = 90
    LoadPerCore = 150
    ManyErrors = 20
    PseudoFs <- MCPseudoFs
    CriticalFiles = {"/etc/passwd", "/etc/shadow"}
    CertWarningDays = 30
    HoursPerCertDay = 24
    FewFailedLogins = 10
    ManyFailedLogins = 50
    Before <- MCBefore
    Canonical <- MCCanonical
    Stable <- MCStable
    Worlds = {"old", "far"}
    Contents <- MCContents
    Becomes = {}
    Remote = {"far"}
    Faults = {}
    Config <- MCConfig
    Target = "web1"
    Spread = {"network", "databases", "docker", "crons"}
    MaxGathers = 1
    MaxTroubles = 0
INVARIANT ManagerIsInstalled
CHECK_DEADLOCK FALSE
