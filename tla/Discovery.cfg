SPECIFICATION FairSpec
CONSTANTS
    Devices = {d1}
    Hints = {h1}
    NoHint = nohint
    Metas = {m1}
    Sweepers = {s1}
    Clients = {c1}
    OfflineAfter = 1
    RemoveAfter = 2
    MaxLag = 1
    QueueSize = 1
INVARIANTS
    NoPanic
    NoSubscriberLeak
    CaughtUpAgrees
PROPERTIES
    SilentPeerIsForgotten
    SlowClientIsReleased
