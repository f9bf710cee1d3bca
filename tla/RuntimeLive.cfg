SPECIFICATION FairSpec
CONSTANTS
    Ids = {i1, i2}
    Keys = {k1, k2}
    none = none
    Names = {n1, n2}
    MaxPolicy = 2
    unset = unset
    Handlers = {h1}
    HostName = n1
    MaxRequests = 2
PROPERTIES
    SettingsTakeEffect
    ServicesStop
