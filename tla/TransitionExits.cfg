SPECIFICATION Spec
CONSTANTS
    A = A
    B = B
    Gone = Gone
    NoMap = NoMap
    NoFile = NoFile
    Players = {p1}
    Maps = {A, B}
    Missing = {Gone}
    StartMap = A
    Exits <- MCExitsGone
    Chapter <- MCChapter
    EntCount <- MCLarger
    Percent = 50
    MaxFrags = 1
    MaxNpc = 1
    MaxCmds = 2
INVARIANTS PendingFromHere PendingIsMoving SavedLevelsVisited TypeOK
INVARIANTS OwedIsSaved NpcConservation NpcsStayBehind
