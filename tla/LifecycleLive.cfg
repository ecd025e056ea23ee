\* Two concurrent reloads and an unload of an interface bound to one address.
SPECIFICATION FairSpec
CONSTANTS
    h1 = h1
    h2 = h2
    i1 = i1
    i2 = i2
    i3 = i3
    Instances = {i1, i2, i3}
    Hosts = {h1}
    BindTo <- OneHost
    Reloads = {r1, r2}
    Kills = {k1}
    MaxLoads = 1
    LoadMayFail = FALSE
    Nobody = Nobody
CONSTRAINT InOrder
PROPERTIES ReloadRestores ThreadsEnd
\* Every request may have been made and every thread may have ended.
CHECK_DEADLOCK FALSE
