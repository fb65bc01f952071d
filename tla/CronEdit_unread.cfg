SPECIFICATION Spec
CONSTANTS
    j1 = j1
    j2 = j2
    s1 = s1
    s2 = s2
    Jobs = {j1, j2}
    None = None
    Torn = Torn
    Sessions = {s1}
    Crontabs <- OneCrontab
    MaxActions = 1
    MaxByHand = 0
PROPERTY NothingLostUnsaved
