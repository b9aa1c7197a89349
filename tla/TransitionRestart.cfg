SPECIFICATION Spec
CONSTANTS
    A = A
    B = B
    Gone = Gone
    NoMap = NoMap
    NoFile = NoFile
    Players = {p1}
    Maps = {A, B}
    Missing = {Gone}
    StartMap = A
    Exits <- MCExitsGone
    Chapter <- MCChapter
    EntCount <- MCLarger
    Percent = 50
    MaxFrags = 0
    MaxNpc = 0
    MaxCmds = 1
PROPERTY RestartBringsBackExits
