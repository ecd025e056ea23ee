\* Two inputs share the page's cache of one url; three calls, one change of a source.
CONSTANTS
    i1 = i1
    i2 = i2
    u1 = u1
    a1 = a1
    v1 = v1
    v2 = v2
    p1 = p1
    Null = Null
    Empty = Empty
    EmptyText = EmptyText
    Initial <- MCInitial
    Inputs = {i1, i2}
    InitiallyDisabled = {i2}
    Urls = {u1}
    Arrays = {a1}
    Answers <- MCAnswers
    Values = {v1, v2}
    Texts <- MCTexts
    Prepend <- MCPrepend
    MaxCalls = 3
    MaxChanges = 1
SPECIFICATION Spec
\* Every call may have been answered.
CHECK_DEADLOCK FALSE
INVARIANTS
    TypeOK
    NoCallLost
    ListsIntact
    ShowsValue
PROPERTIES
    CalledBack
