------------------------- MODULE MCLevelTransition -------------------------
(* Instances of LevelTransition for TLC: two levels that lead to each      *)
(* other; where exits are the question, the second has more entities than  *)
(* the first and a chapter exit, and the first an exit to a missing map.   *)
EXTENDS LevelTransition, TLC

CONSTANTS A, B, Gone

MCExits   == [m \in Maps |-> IF m = A THEN {B} ELSE {A}]
MCOneWayGone == [m \in Maps |-> IF m = A THEN {B, Gone} ELSE {}]
MCNone    == [m \in Maps |-> {}]
MCEqual   == [m \in Maps |-> 1]

MCExitsGone == [m \in Maps |-> IF m = A THEN {B, Gone} ELSE {A}]
MCChapter   == [m \in Maps |-> IF m = A THEN {} ELSE {A}]
MCLarger    == [m \in Maps |-> IF m = A THEN 1 ELSE 2]
=============================================================================
