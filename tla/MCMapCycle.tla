----------------------------- MODULE MCMapCycle -----------------------------
(* Instances of MapCycle for TLC: a cycle with a map in it twice, one that *)
(* is empty, and one that names a map that is not on the server.           *)
EXTENDS MapCycle, TLC

CONSTANTS A, B, C, Gone

MCCycles == {<<A, B, A>>, <<>>, <<Gone, B>>}
MCPlayable == {<<A, B, A, C>>, <<B, A>>, <<C>>}
=============================================================================
