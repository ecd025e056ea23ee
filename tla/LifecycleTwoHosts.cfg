\* Two concurrent reloads of an interface bound to two addresses.
SPECIFICATION FairSpec
CONSTANTS
    h1 = h1
    h2 = h2
    i1 = i1
    i2 = i2
    i3 = i3
    Instances = {i1, i2, i3}
    Hosts = {h1, h2}
    BindTo <- TwoHosts
    Reloads = {r1, r2}
    Kills = {}
    MaxLoads = 1
    LoadMayFail = FALSE
    Nobody = Nobody
CONSTRAINT InOrder
PROPERTIES EveryReloadRestores
CHECK_DEADLOCK FALSE
