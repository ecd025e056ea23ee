\* One element with every set of options; three shows and two requests.
CONSTANTS
    e1 = e1
    e2 = e2
    v1 = v1
    v2 = v2
    v3 = v3
    None = None
    Elements = {e1}
    Values = {v1, v2, v3}
    Invalid = {v3}
    Replies <- MCReplies
    OptionSets <- AllOptions
    MaxShows = 3
    MaxSends = 2
SPECIFICATION Spec
\* The user may leave the page.
CHECK_DEADLOCK FALSE
INVARIANTS
    TypeOK
    SavingWaits
    FormFollowsElement
PROPERTIES
    ImplementsInPlaceEdit
    FormSettles
