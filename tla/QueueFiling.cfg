\* Every status and every two queue classes, while the node finishes requests.
SPECIFICATION Spec
CONSTANTS
    Requests = {q1, q2}
    Statuses <- AllStatuses
    Requested <- Combinations
    Mimes = {"a", "b"}
    Handled = {"a"}
    MinimumPriority = 2
    Live = TRUE
    None = None
INVARIANTS TypeOK FiledOnce FiledAsDocumented LowestIsLowest
SYMMETRY Symmetry
\* The constructor ends.
CHECK_DEADLOCK FALSE
