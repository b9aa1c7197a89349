----------------------------- MODULE TimedEvents -----------------------------
(***************************************************************************)
(* What the queue of delayed inputs promises, whatever the handlers do     *)
(* that run while it is served: every event fires when it is due, earlier  *)
(* events first and of two for the same time the one posted first; none is *)
(* lost except that the entity that posted it may withdraw it; and a level *)
(* that is saved and restored keeps the order of its events.               *)
(***************************************************************************)
EXTENDS Integers, FiniteSets

CONSTANTS
    NoOne,      \* the caller of events nobody can withdraw
    MaxFrame    \* bound on the time that passes at once

VARIABLE pending    \* events: left until it is due, stamp (rank of posting), ...

Before(e, f) == e.left < f.left \/ (e.left = f.left /\ e.stamp < f.stamp)

Without(e) == {IF f.stamp > e.stamp THEN [f EXCEPT !.stamp = @ - 1] ELSE f :
               f \in pending \ {e}}

\* Posted last: the highest rank.
Post == \E e \in pending' : /\ e.left >= 0
                            /\ \A f \in pending : f.stamp < e.stamp
                            /\ pending' = pending \cup {e}

Fire == \E e \in pending : /\ e.left <= 0
                           /\ \A f \in pending \ {e} : Before(e, f)
                           /\ pending' = Without(e)

Withdraw == \E e \in pending : e.caller # NoOne /\ pending' = Without(e)

\* Time passes only when nothing is overdue.
Pass(d) == /\ \A e \in pending : e.left >= 0
           /\ pending' = {[e EXCEPT !.left = @ - d] : e \in pending}

\* Save and restore: the order stays, and what was due now is due in a moment.
Rank(e, S) == Cardinality({f \in S : Before(f, e)})
Reload ==
    /\ Cardinality(pending') = Cardinality(pending)
    /\ \A e \in pending : \E g \in pending' :
          /\ g = [e EXCEPT !.left = IF @ = 0 THEN 1 ELSE @, !.stamp = g.stamp]
          /\ Rank(g, pending') = Rank(e, pending)

Clear == pending' = {}

TimedInit == pending = {}
TimedNext == \/ Post \/ Fire \/ Withdraw \/ Reload \/ Clear
             \/ \E d \in 1..MaxFrame : Pass(d)
TimedSpec == TimedInit /\ [][TimedNext]_pending
=============================================================================
