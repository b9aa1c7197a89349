SPECIFICATION Spec
CONSTANTS
    A = A
    B = B
    Gone = Gone
    NoMap = NoMap
    NoFile = NoFile
    Players = {p1, p2}
    Maps = {A, B}
    Missing = {Gone}
    StartMap = A
    Exits <- MCOneWayGone
    Chapter <- MCNone
    EntCount <- MCEqual
    Percent = 50
    MaxFrags = 1
    MaxNpc = 0
    MaxCmds = 1
INVARIANT ConsumedOnSpawn
PROPERTIES PendingEnds CarriesOver
