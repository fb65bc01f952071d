SPECIFICATION FairSpec
CONSTANTS
    s1 = s1
    s2 = s2
    box = box
    pid = pid
    proc = proc
    job = job
    None = None
    Targets = {box, pid, proc, job}
    Protected = {pid}
    Lists <- LiveLists
    NewJobs = {}
    Phrases <- NoPhrases
    Queries = {q1, q2}
    Slots = {s1}
    Requested = {"SafeActions"}
    AutoRefresh = TRUE
    Keys = {"action", "logs", "quit"}
    MaxAttempts = 1
    MaxExternal = 0
PROPERTIES
    ActionsShown
    BackgroundEnds
    LogsCatchUp
