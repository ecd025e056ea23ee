\* Three requests of every kind for two bookmarks, and a crash.
SPECIFICATION Spec
CONSTANTS
    r1 = r1
    r2 = r2
    r3 = r3
    i1 = i1
    i2 = i2
    i3 = i3
    i4 = i4
    Requests = {r1, r2, r3}
    Asked <- MCAsked
    Items = {i1, i2, i3, i4}
    Listed <- MCListed
    Paths = {"a", "b", "c", "d"}
    FirstPath <- MCFirstPath
    Slash = "/"
    Default = i4
    None = None
    MaxCrashes = 1
INVARIANTS TypeOK AnswersTrue EditsWhatWasShown
SYMMETRY Symmetry
\* Every request may have been answered.
CHECK_DEADLOCK FALSE
