SPECIFICATION Spec
CONSTANTS
    s1 = s1
    s2 = s2
    box = box
    pid = pid
    proc = proc
    job = job
    None = None
    Targets = {box, pid, proc, job}
    Protected = {pid}
    Lists <- OfferLists
    NewJobs = {job}
    Phrases <- OfferPhrases
    Queries = {q1}
    Slots = {s1}
    Requested = {"ReadOnly", "SafeActions", "Privileged"}
    AutoRefresh = FALSE
    Keys = {"cron", "prune", "form", "action", "sort", "probe"}
    MaxAttempts = 1
    MaxExternal = 1
PROPERTIES
    GateSpec
