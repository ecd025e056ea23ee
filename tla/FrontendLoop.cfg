\* Where a blocked request ends.
SPECIFICATION Spec
CONSTANTS
    q1 = q1
    q2 = q2
    inside = inside
    outside = outside
    Navigations = {q1}
    Clients = {inside, outside}
    Threads = 1
    MaxEdition = 1
    Asked <- FewAddresses
    Keys <- FewAddresses
    HostLists <- OneList
    Covers <- Matched
    MaxHops = 4
    Names = {"name"}
    MaxRestarts = 0
INVARIANTS BlockedSeesErrorPage
