\* Two navigations, to addresses of every kind, share one thread; nobody changes the list.
SPECIFICATION FairSpec
CONSTANTS
    q1 = q1
    q2 = q2
    inside = inside
    outside = outside
    Navigations = {q1, q2}
    Clients = {inside, outside}
    Threads = 1
    MaxEdition = 1
    Asked <- AllAddresses
    Keys <- AnyAddresses
    HostLists <- OneList
    Covers <- Matched
    MaxHops = 4
    Names = {"name"}
    MaxRestarts = 0
PROPERTIES AllowedGetsAnswer
