--------------------------- MODULE MCRockTheVote ---------------------------
(* RockTheVote for TLC: the players are interchangeable.                   *)
EXTENDS RockTheVote, TLC

PlayerSymmetry == Permutations(Players)
=============================================================================
