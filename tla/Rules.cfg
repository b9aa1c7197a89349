SPECIFICATION Spec
CONSTANTS
    Players = {p1, p2}
    MaxAsk = 3
    DelayCap = 2
    ReadyDelay = 2
    ChatTime = 1
    MaxNext = 1
INVARIANTS ChangesOnce TypeOK
PROPERTIES RestartHappens ReadyIsHonoured LevelEnds CountdownWhenReady
