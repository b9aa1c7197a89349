----------------------------- MODULE Carryover -----------------------------
(***************************************************************************)
(* What the saved player files promise.  The progress of a player is in    *)
(* one place: in his hands while he plays, in the bank while he is away,   *)
(* or nowhere.  It grows only in his hands and one point at a time; moving *)
(* it keeps all of it or loses all of it.                                  *)
(***************************************************************************)
EXTENDS Naturals

CONSTANT Players

VARIABLES where, worth

vars == <<where, worth>>

TypeOK == /\ where \in [Players -> {"none", "hand", "bank"}]
          /\ worth \in [Players -> Nat]

Init == /\ where = [p \in Players |-> "none"]
        /\ worth = [p \in Players |-> 0]

\* A player who plays earns a point.
Earn(p) == /\ where[p] = "hand"
           /\ where'[p] = "hand"
           /\ worth'[p] = worth[p] + 1

\* Progress is carried somewhere: from hand to bank and back.
Carry(p) == /\ where'[p] \in {"hand", "bank"}
            /\ worth'[p] = worth[p]

\* Progress is lost: the player is reset, or there is no place that holds it.
Lose(p) == /\ where'[p] \in {"none", "hand", "bank"}
           /\ worth'[p] = 0

\* Several players may lose or carry at once (a restart, a change of level).
Next == /\ where' \in [Players -> {"none", "hand", "bank"}]
        /\ DOMAIN worth' = Players
        /\ \A p \in Players : Earn(p) \/ Carry(p) \/ Lose(p)

Spec == Init /\ [][Next]_vars
=============================================================================
