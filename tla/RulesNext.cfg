SPECIFICATION Spec
CONSTANTS
    Players = {p1}
    MaxAsk = 1
    DelayCap = 1
    ReadyDelay = 2
    ChatTime = 1
    MaxNext = 1
INVARIANT NextIsOneChange
