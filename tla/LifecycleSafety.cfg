\* Two concurrent reloads, an unload, two loads by a user, two addresses.
SPECIFICATION Spec
CONSTANTS
    h1 = h1
    h2 = h2
    i1 = i1
    i2 = i2
    i3 = i3
    Instances = {i1, i2, i3}
    Hosts = {h1, h2}
    BindTo <- TwoHosts
    Reloads = {r1, r2}
    Kills = {k1}
    MaxLoads = 2
    LoadMayFail = TRUE
    Nobody = Nobody
INVARIANTS TypeOK AtMostOneServing OldPortsFreed OrphanOnlyIfEarly NoReloadLost
PROPERTIES ImplementsWebService
SYMMETRY Symmetry
\* Every request may have been made and every thread may have ended.
CHECK_DEADLOCK FALSE
