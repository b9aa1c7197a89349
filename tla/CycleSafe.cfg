SPECIFICATION Spec
CONSTANTS
    A = A
    B = B
    C = C
    Gone = Gone
    NoMap = NoMap
    NoFile = NoFile
    GotoNext = GotoNext
    Maps = {A, B, C}
    Missing = {Gone}
    Cycles <- MCCycles
    StartMap = A
    MaxCmds = 2
    MaxList = 4
    MaxCrashes = 1
INVARIANTS IndexInList FollowsCurrent TypeOK
PROPERTY NextmapIsStable
