SPECIFICATION Spec
CONSTANTS
    s1 = s1
    s2 = s2
    box = box
    pid = pid
    proc = proc
    job = job
    None = None
    Targets = {box, pid, proc, job}
    Protected = {pid}
    Lists <- ScreenLists
    NewJobs = {}
    Phrases <- ScreenPhrases
    Queries = {q1}
    Slots = {s1, s2}
    Requested = {"Privileged"}
    AutoRefresh = FALSE
    Keys = {"select", "sort", "action", "refresh"}
    MaxAttempts = 1
    MaxExternal = 0
SYMMETRY SlotSymmetry
INVARIANTS
    TypeOK
    OfferIsPending
    RunningIsShown
    CursorOnRow
    OneGather
PROPERTIES
    AsksForDrawnRow
    ScreenNeverGoesBack
    GateSpec
