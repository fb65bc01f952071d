SPECIFICATION Spec
CONSTANTS
    f = f
    g = g
    s1 = s1
    s2 = s2
    h1 = h1
    h2 = h2
    None = None
    Empty = Empty
    Torn = Torn
    Sessions = {s1, s2}
    Hosts = {h1, h2}
    Ids = {f, g}
    Statuses = {"open", "ignored"}
    Open = "open"
    Notes = {"n"}
    Queries = {"q1", "q2"}
    FindingLists <- MCFindingLists
    BaselineDays = 1
    MaxSnapshots = 2
    MaxNotes = 1
    MaxSearches = 2
    MaxDay = 2
    MaxStarts = 2
    MaxChanges = 2
SYMMETRY MCSymmetry
INVARIANTS
    TypeOK
    SeriesInOrder
    BaselineKept
    ChangesOnlyItsOwn
    WholeUnlessCrossed
    StatusShown
PROPERTIES
    HandledNotCounted
CHECK_DEADLOCK FALSE
