\* Two navigations of any host share one thread; one restart.
SPECIFICATION Spec
CONSTANTS
    q1 = q1
    q2 = q2
    inside = inside
    outside = outside
    Navigations = {q1, q2}
    Clients = {inside, outside}
    Threads = 1
    MaxEdition = 1
    Asked <- FewAddresses
    Keys <- FewAddresses
    HostLists <- SomeLists
    Covers <- Matched
    MaxHops = 4
    Names = {"name"}
    MaxRestarts = 1
INVARIANTS TypeOK BlockedGetsNothing BucketsFreed OnlyBlockedLoop
PROPERTIES ImplementsGateway
SYMMETRY Symmetry
