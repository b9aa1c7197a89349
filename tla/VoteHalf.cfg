SPECIFICATION Spec
CONSTANTS
    Null = Null
    Players = {p1, p2, p3, p4, p5}
    MaxCalls = 1
    MaxVotes = 5
SYMMETRY PlayerSymmetry
PROPERTY HalfOfPlayers
