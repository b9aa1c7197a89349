SPECIFICATION ServerSpec
CONSTANTS
    A = A
    B = B
    C = C
    NoMap = NoMap
    NoFile = NoFile
    GotoNext = GotoNext
    Maps = {A, B, C}
    Missing = {}
    Cycles <- MCPlayable
    StartMap = A
    MaxCmds = 2
    MaxList = 4
    MaxCrashes = 2
    r1 = r1
    r2 = r2
    r3 = r3
    r4 = r4
    r5 = r5
    Relays = {r1, r2, r3, r4, r5}
    NoOne = NoOne
    OnTrigger <- MCOnTrigger
    FastRetrigger = {r3}
    RemoveOnFire = {r4}
    RefireGap = 1
    Posts <- MCPosts
    MaxPosts = 3
    MaxFrame = 2
    MaxActions = 4
    MaxDepth = 2
    MaxCalls = 20
    MaxClients = 3
    MaxQuota = 2
    Settings <- MCSettings
INVARIANTS QueueTypeOK QueueInOrder WaitingIsWoken StayingBeforeRefire
INVARIANTS ActionTypeOK StackIsSound EndedBeforeDeleted CoveredIsSuspended
PROPERTIES EveryEntryPlayed Recovers
PROPERTIES FiresInOrder FrameEnds RefireEnds
PROPERTIES QuotaReached VacatesSlot
