SPECIFICATION Spec
CONSTANTS
    Null = Null
    Players = {p1, p2, p3, p4, p5}
    MaxCalls = 2
    MaxVotes = 6
INVARIANTS OneVoteEach TypeOK
PROPERTIES MajorityIsHeard CleanUpKeepsVotes ShortByHalfOfGone
