\* Two elements that close each other; two shows and one request of each.
CONSTANTS
    e1 = e1
    e2 = e2
    v1 = v1
    v2 = v2
    v3 = v3
    None = None
    Elements = {e1, e2}
    Values = {v1, v2}
    Invalid = {}
    Replies <- AnyReplies
    OptionSets <- PairOptions
    MaxShows = 2
    MaxSends = 1
SPECIFICATION Spec
\* The user may leave the page.
CHECK_DEADLOCK FALSE
SYMMETRY PairSymmetry
INVARIANTS
    DelayedOnlySaving
    OneEditing
