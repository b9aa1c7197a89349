-------------------------- MODULE TimedEvents_proofs --------------------------
(***************************************************************************)
(* The linked list with the handlers that run while it is served           *)
(* implements the abstract set of timed events, for any relays, any        *)
(* connections between them and any inputs from outside.  A frame's        *)
(* ServiceEvents comes to an end, as long as what the relays post without  *)
(* a delay undoes no relay's waiting: every step of it, and of the input   *)
(* handlers it calls, brings a measure down that cannot fall for ever.     *)
(***************************************************************************)
EXTENDS EventQueue_proofs, FiniteSetTheorems, FunctionTheorems

\* The events of a list; those of S that are left when e has been taken.
Elements(q) == {q[i] : i \in 1..Len(q)}
LeftOf(S, e) == {Renumber(f, e.stamp) : f \in S \ {e}}
-----------------------------------------------------------------------------
(* Lists as sets.                                                          *)

LEMMA ElementFacts ==
    ASSUME NEW q \in Seq(Event), NEW e \in Elements(q)
    PROVE  e \in Event /\ e.left \in Int /\ e.stamp \in Nat \ {0}
<1>1. e \in Event
  BY DEF Elements
<1> QED
  BY <1>1 DEF Event

\* Events of a list whose ranks differ are different events.
LEMMA RankedApart ==
    ASSUME NEW q \in Seq(Event), Ranked(q), NEW i \in 1..Len(q), NEW j \in 1..Len(q)
    PROVE  /\ q[i] = q[j] <=> i = j
           /\ q[i].stamp = q[j].stamp <=> i = j
BY DEF Ranked

LEMMA RemoveIsLeftOf ==
    ASSUME NEW q \in Seq(Event), NEW k \in 1..Len(q), Ranked(q)
    PROVE  Elements(RemoveAt(q, k)) = LeftOf(Elements(q), q[k])
<1> DEFINE r == RemoveAt(q, k)
           s == q[k].stamp
<1>1. /\ Len(r) = Len(q) - 1
      /\ \A i \in 1..(Len(q) - 1) : /\ From(i, k) \in 1..Len(q) /\ From(i, k) # k
                                    /\ r[i] = Renumber(q[From(i, k)], s)
  BY RemoveFacts
<1>2. \A x \in 1..Len(q) : x # k => \E i \in 1..Len(r) : From(i, k) = x
  BY RemoveElements
<1> HIDE DEF r, s
<1>3. ASSUME NEW i \in 1..Len(r) PROVE r[i] \in {Renumber(f, s) : f \in Elements(q) \ {q[k]}}
  <2>1. From(i, k) \in 1..Len(q) /\ From(i, k) # k /\ r[i] = Renumber(q[From(i, k)], s)
    BY <1>1
  <2>2. q[From(i, k)] \in Elements(q) \ {q[k]}
    BY <2>1, RankedApart DEF Elements
  <2> QED
    BY <2>1, <2>2
<1>4. ASSUME NEW f \in Elements(q) \ {q[k]} PROVE Renumber(f, s) \in {r[i] : i \in 1..Len(r)}
  <2>1. PICK x \in 1..Len(q) : f = q[x]
    BY DEF Elements
  <2>2. PICK i \in 1..Len(r) : From(i, k) = x
    BY <1>2, <1>4, <2>1
  <2> QED
    BY <1>1, <2>1, <2>2
<1>5. {r[i] : i \in 1..Len(r)} = {Renumber(f, s) : f \in Elements(q) \ {q[k]}}
  BY <1>3, <1>4
<1> QED
  BY <1>5 DEF Elements, LeftOf, r, s

\* Of two events that are taken it does not matter which is taken first.
LEMMA TakeTwo ==
    ASSUME NEW q \in Seq(Event), Ranked(q), NEW a \in Elements(q), NEW b \in Elements(q), a # b
    PROVE  LeftOf(LeftOf(Elements(q), a), Renumber(b, a.stamp))
             = LeftOf(LeftOf(Elements(q), b), Renumber(a, b.stamp))
<1> DEFINE S == Elements(q)
<1>1. \A c, d \in S : c # d => c.stamp # d.stamp
  BY RankedApart DEF Elements
<1>2. \A f \in S : f \in Event /\ f.stamp \in Nat \ {0}
  BY ElementFacts
<1>3. ASSUME NEW c \in S, NEW d \in S, c # d, NEW f \in S, f # c
      PROVE  /\ Renumber(f, c.stamp) \in LeftOf(S, c)
             /\ Renumber(f, c.stamp) = Renumber(d, c.stamp) <=> f = d
  <2>1. /\ Renumber(f, c.stamp).stamp = IF f.stamp > c.stamp THEN f.stamp - 1 ELSE f.stamp
        /\ Renumber(d, c.stamp).stamp = IF d.stamp > c.stamp THEN d.stamp - 1 ELSE d.stamp
    BY <1>2, RenumberFacts
  <2>2. f # d => Renumber(f, c.stamp).stamp # Renumber(d, c.stamp).stamp
    BY <1>1, <1>2, <1>3, <2>1
  <2> QED
    BY <1>3, <2>2 DEF LeftOf
<1>4. ASSUME NEW c \in S, NEW d \in S, c # d
      PROVE  LeftOf(LeftOf(S, c), Renumber(d, c.stamp))
               = {Renumber(Renumber(f, c.stamp), Renumber(d, c.stamp).stamp) : f \in S \ {c, d}}
  BY <1>3, <1>4 DEF LeftOf
<1>5. ASSUME NEW f \in S \ {a, b}
      PROVE  Renumber(Renumber(f, a.stamp), Renumber(b, a.stamp).stamp)
               = Renumber(Renumber(f, b.stamp), Renumber(a, b.stamp).stamp)
  <2> DEFINE A == a.stamp
             B == b.stamp
             F == f.stamp
  <2>1. A \in Nat \ {0} /\ B \in Nat \ {0} /\ F \in Nat \ {0} /\ A # B /\ F # A /\ F # B
    BY <1>1, <1>2
  <2>2. /\ Renumber(b, A).stamp = IF B > A THEN B - 1 ELSE B
        /\ Renumber(a, B).stamp = IF A > B THEN A - 1 ELSE A
    BY <1>2, RenumberFacts
  <2>3. ASSUME NEW s \in Nat \ {0}, NEW t \in Nat \ {0}
        PROVE  Renumber(Renumber(f, s), t) =
                 [f EXCEPT !.stamp = LET g == IF F > s THEN F - 1 ELSE F
                                     IN  IF g > t THEN g - 1 ELSE g]
    <3>1. f \in Event
      BY <1>2
    <3>2. Renumber(f, s) = [f EXCEPT !.stamp = IF F > s THEN F - 1 ELSE F]
      BY <3>1 DEF Renumber, Event
    <3> QED
      BY <3>1, <3>2 DEF Renumber, Event
  <2> QED
    BY <2>1, <2>2, <2>3
<1> HIDE DEF S
<1>6. LeftOf(LeftOf(S, a), Renumber(b, a.stamp))
        = {Renumber(Renumber(f, a.stamp), Renumber(b, a.stamp).stamp) : f \in S \ {a, b}}
  BY <1>4 DEF S
<1>7. LeftOf(LeftOf(S, b), Renumber(a, b.stamp))
        = {Renumber(Renumber(f, b.stamp), Renumber(a, b.stamp).stamp) : f \in S \ {a, b}}
  <2>1. S \ {b, a} = S \ {a, b}
    OBVIOUS
  <2> QED
    BY <1>4, <2>1 DEF S
<1> QED
  BY <1>5, <1>6, <1>7 DEF S
-----------------------------------------------------------------------------
(* The abstract queue.                                                     *)

\* PendingEvents of a list, the position of the event being served, and the
\* events that are being restored.
PendingOf(q, k, s) ==
    LET left == IF k = 0 THEN q ELSE RemoveAt(q, k)
    IN  {left[i] : i \in 1..Len(left)} \cup Numbered(s, Len(left))

LEMMA PendingFacts ==
    /\ PendingEvents = PendingOf(queue, pe, saved)
    /\ PendingEvents' = PendingOf(queue', pe', saved')
BY DEF PendingEvents, PendingOf

\* When nothing is being restored.
LEMMA PendingIsList ==
    ASSUME NEW q \in Seq(Event), Ranked(q), NEW k \in 0..Len(q), NEW s, s = <<>>
    PROVE  PendingOf(q, k, s) = IF k = 0 THEN Elements(q) ELSE LeftOf(Elements(q), q[k])
<1>1. \A n : Numbered(s, n) = {}
  BY DEF Numbered
<1>2. k # 0 => Elements(RemoveAt(q, k)) = LeftOf(Elements(q), q[k])
  BY RemoveIsLeftOf
<1> QED
  BY <1>1, <1>2 DEF PendingOf, Elements

\* No rank in the list, or in what is left of it, is the next one or higher.
LEMMA NextRank ==
    ASSUME NEW q \in Seq(Event), Ranked(q), NEW k \in 0..Len(q), NEW n \in Event,
           n.stamp = Len(q) + 1,
           NEW f \in IF k = 0 THEN Elements(q) ELSE LeftOf(Elements(q), q[k])
    PROVE  f.stamp < (IF k = 0 THEN n ELSE Renumber(n, q[k].stamp)).stamp
<1>1. \A g \in Elements(q) : g \in Event /\ g.stamp \in Nat \ {0} /\ g.stamp <= Len(q)
  BY ElementFacts DEF Elements, Ranked
<1>2. CASE k = 0
  BY <1>1, <1>2
<1>3. CASE k # 0
  <2>1. k \in 1..Len(q) /\ q[k] \in Elements(q)
    BY <1>3 DEF Elements
  <2>2. PICK g \in Elements(q) \ {q[k]} : f = Renumber(g, q[k].stamp)
    BY <1>3 DEF LeftOf
  <2>3. g.stamp # q[k].stamp
    BY <2>1, <2>2, RankedApart DEF Elements
  <2>4. /\ f.stamp = IF g.stamp > q[k].stamp THEN g.stamp - 1 ELSE g.stamp
        /\ Renumber(n, q[k].stamp).stamp =
             IF n.stamp > q[k].stamp THEN n.stamp - 1 ELSE n.stamp
    BY <1>1, <2>1, <2>2, RenumberFacts
  <2>5. /\ g.stamp \in Nat /\ g.stamp <= Len(q) /\ Len(q) \in Nat
        /\ q[k].stamp \in Nat /\ q[k].stamp <= Len(q)
    BY <1>1, <2>1
  <2> QED
    BY <1>3, <2>3, <2>4, <2>5
<1> QED
  BY <1>2, <1>3
-----------------------------------------------------------------------------
(* The steps of the queue, as steps of the abstract one.                   *)

\* AddEvent adds one event.
LEMMA AddElement ==
    ASSUME TypeInv, NEW t \in Targets, NEW i \in Inputs \cup {"EnableRefire"},
           NEW d \in Int, NEW c \in Targets, NEW o \in Nat, AddEvent(t, i, d, c, o)
    PROVE  /\ Elements(queue') = Elements(queue) \cup {NewEvent(queue, t, i, d, c, o)}
           /\ Len(queue') = Len(queue) + 1
<1> DEFINE n == NewEvent(queue, t, i, d, c, o)
<1>1. /\ \A j \in 1..Len(queue') : queue'[j] = n \/ \E x \in 1..Len(queue) : queue'[j] = queue[x]
      /\ \A x \in 1..Len(queue) : \E j \in 1..Len(queue') : queue'[j] = queue[x]
      /\ \E j \in 1..Len(queue') : queue'[j] = n
  BY AddElements
<1>2. Len(queue') = Len(queue) + 1
  BY AddFacts DEF Added
<1> HIDE DEF n
<1>3. ASSUME NEW e \in Elements(queue') PROVE e \in Elements(queue) \cup {n}
  BY <1>1 DEF Elements
<1>4. ASSUME NEW e \in Elements(queue) \cup {n} PROVE e \in Elements(queue')
  BY <1>1 DEF Elements
<1>5. Elements(queue') = Elements(queue) \cup {n}
  BY <1>3, <1>4
<1> QED
  BY <1>2, <1>5 DEF n

\* Commands, think functions, outputs and EnableRefire: AddEvent posts.
LEMMA AddIsPost ==
    ASSUME OrderInv, NEW t \in Targets, NEW i \in Inputs \cup {"EnableRefire"},
           NEW d \in Nat, NEW c \in Targets, NEW o \in Nat, AddEvent(t, i, d, c, o),
           saved = <<>>, saved' = <<>>
    PROVE  Timed!Post
<1> DEFINE n == NewEvent(queue, t, i, d, c, o)
           new == IF pe = 0 THEN n ELSE Renumber(n, queue[pe].stamp)
<1>1. /\ TypeInv /\ d \in Int /\ queue \in Seq(Event) /\ Len(queue) \in Nat
      /\ Ranked(queue) /\ pe \in 0..Len(queue) /\ pe \in {0, 1}
  BY DEF OrderInv, TypeInv, QueueTypeOK
<1>2. /\ Ranked(queue') /\ pe' = pe /\ (pe = 1 => queue'[1] = queue[1])
  BY AddOrder
<1>3. queue' \in Seq(Event) /\ pe' \in 0..Len(queue')
  BY <1>1, AddTypes
<1>4. n \in Event /\ n.stamp = Len(queue) + 1 /\ n.left = d
  BY <1>1 DEF NewEvent, Event, Targets
<1>5. Elements(queue') = Elements(queue) \cup {n}
  BY <1>1, AddElement
<1> HIDE DEF n
<1>6. /\ PendingEvents = IF pe = 0 THEN Elements(queue) ELSE LeftOf(Elements(queue), queue[pe])
      /\ PendingEvents' = IF pe = 0 THEN Elements(queue') ELSE LeftOf(Elements(queue'), queue[pe])
  BY <1>1, <1>2, <1>3, PendingFacts, PendingIsList
<1>7. PendingEvents' = PendingEvents \cup {new}
  <2>1. CASE pe = 0
    BY <1>5, <1>6, <2>1
  <2>2. CASE pe # 0
    <3>1. queue[pe] \in Elements(queue) /\ queue[pe].stamp <= Len(queue) /\ queue[pe].stamp \in Nat
      BY <1>1, <2>2, EventFacts DEF Elements, Ranked
    <3>2. n # queue[pe]
      BY <1>1, <1>4, <3>1
    <3> QED
      BY <1>5, <1>6, <2>2, <3>2 DEF LeftOf
  <2> QED
    BY <2>1, <2>2
<1>8. new.left = d
  <2>1. CASE pe # 0
    <3>1. queue[pe].stamp \in Nat \ {0}
      BY <1>1, <2>1, EventFacts
    <3>2. Renumber(n, queue[pe].stamp).left = n.left
      BY <1>4, <3>1, RenumberFacts
    <3> QED
      BY <1>4, <2>1, <3>2
  <2> QED
    BY <1>4, <2>1
<1>9. \A f \in PendingEvents : f.stamp < new.stamp
  BY <1>1, <1>4, <1>6, NextRank
<1>10. new \in PendingEvents'
  BY <1>7
<1> QED
  BY <1>7, <1>8, <1>9, <1>10 DEF Timed!Post

\* The served event has fired when its handler begins: it is the head, which is
\* due and before all the others.
LEMMA TakeIsFire ==
    ASSUME OrderInv, Due, pe = 0, pe' = 1, queue' = queue, saved = <<>>, saved' = <<>>
    PROVE  Timed!Fire
<1> DEFINE e == queue[1]
<1>1. queue \in Seq(Event) /\ Ranked(queue) /\ Ordered(queue) /\ Len(queue) \in Nat
  BY DEF OrderInv, TypeInv, QueueTypeOK
<1>2. 1 \in 1..Len(queue) /\ 0 \in 0..Len(queue) /\ e.left <= 0
  BY <1>1 DEF Due
<1>3. PendingEvents = Elements(queue)
  BY <1>1, <1>2, PendingFacts, PendingIsList
<1>4. PendingEvents' = LeftOf(Elements(queue), e)
  <2>1. PendingOf(queue, 1, saved) = LeftOf(Elements(queue), queue[1])
    BY <1>1, <1>2, PendingIsList
  <2> QED
    BY <2>1, PendingFacts
<1>5. e \in PendingEvents
  BY <1>2, <1>3 DEF Elements
<1>6. ASSUME NEW f \in PendingEvents \ {e} PROVE Timed!Before(e, f)
  <2>1. PICK j \in 1..Len(queue) : f = queue[j]
    BY <1>3, <1>6 DEF Elements
  <2>2. Before(e, f)
    BY <1>1, <1>2, <1>6, <2>1 DEF Ordered
  <2> QED
    BY <2>2 DEF Before, Timed!Before
<1>7. PendingEvents' = Timed!Without(e)
  BY <1>3, <1>4 DEF LeftOf, Renumber, Timed!Without
<1> QED
  BY <1>2, <1>5, <1>6, <1>7 DEF Timed!Fire

\* CancelEvents: an event in the list is withdrawn, the one being served is
\* none of the pending any more.
LEMMA CancelIsWithdraw ==
    ASSUME OrderInv, CancelEvent, saved = <<>>
    PROVE  Timed!Withdraw \/ UNCHANGED PendingEvents
<1> DEFINE e == queue[cursor]
<1>1. /\ cursor \in 1..Len(queue) /\ queue' = RemoveAt(queue, cursor) /\ saved' = saved
      /\ pe' = IF pe = cursor THEN 0 ELSE IF pe > cursor THEN pe - 1 ELSE pe
      /\ e.caller = self /\ self \in Relays
  BY DEF CancelEvent, Cancelling, PostedBy, OrderInv, TypeInv, QueueTypeOK
<1>2. queue \in Seq(Event) /\ Ranked(queue) /\ Len(queue) \in Nat
  BY DEF OrderInv, TypeInv, QueueTypeOK
<1>3. queue' \in Seq(Event) /\ Len(queue') = Len(queue) - 1 /\ Ranked(queue')
  BY <1>1, <1>2, RemoveFacts, RemoveOrder DEF OrderInv
<1>4. Elements(queue') = LeftOf(Elements(queue), e)
  BY <1>1, <1>2, RemoveIsLeftOf
<1>5. e.caller # NoOne
  BY <1>1, RelaysAssumption
<1>6. pe \in {0, 1} /\ e \in Elements(queue)
  BY <1>1 DEF OrderInv, Elements
<1>7. CASE pe = 0
  <2>1. PendingEvents = Elements(queue)
    BY <1>2, <1>7, PendingFacts, PendingIsList
  <2>2. pe' = 0
    BY <1>1, <1>7
  <2>3. PendingEvents' = LeftOf(Elements(queue), e)
    BY <1>1, <1>3, <1>4, <2>2, PendingFacts, PendingIsList
  <2>4. PendingEvents' = Timed!Without(e)
    BY <2>1, <2>3 DEF LeftOf, Renumber, Timed!Without
  <2> QED
    BY <1>5, <1>6, <2>1, <2>4 DEF Timed!Withdraw
<1>8. CASE pe = 1 /\ cursor = 1
  <2>1. PendingEvents = LeftOf(Elements(queue), e)
    BY <1>1, <1>2, <1>8, PendingFacts, PendingIsList
  <2>2. pe' = 0
    BY <1>1, <1>8
  <2>3. PendingEvents' = LeftOf(Elements(queue), e)
    BY <1>1, <1>3, <1>4, <2>2, PendingFacts, PendingIsList
  <2> QED
    BY <2>1, <2>3
<1>9. CASE pe = 1 /\ cursor # 1
  <2> DEFINE a == queue[1]
             g == Renumber(e, a.stamp)
  <2>1. /\ 1 \in 1..Len(queue) /\ 1 \in 1..Len(queue') /\ From(1, cursor) = 1
        /\ a \in Elements(queue) /\ a # e
    BY <1>1, <1>2, <1>3, <1>9, RankedApart DEF From, Elements
  <2>2. PendingEvents = LeftOf(Elements(queue), a)
    BY <1>2, <1>9, <2>1, PendingFacts, PendingIsList
  <2>3. pe' = 1 /\ queue'[1] = Renumber(a, e.stamp)
    <3>1. pe' = 1
      BY <1>1, <1>9
    <3>2. 1 \in 1..(Len(queue) - 1)
      BY <1>3, <2>1
    <3>3. RemoveAt(queue, cursor)[1] = Renumber(queue[From(1, cursor)], queue[cursor].stamp)
      BY <1>1, <1>2, <3>2, RemoveFacts
    <3> QED
      BY <1>1, <2>1, <3>1, <3>3
  <2>4. PendingEvents' = LeftOf(LeftOf(Elements(queue), e), Renumber(a, e.stamp))
    <3>1. PendingOf(queue', 1, saved') = LeftOf(Elements(queue'), queue'[1])
      BY <1>1, <1>3, <2>1, PendingIsList
    <3> QED
      BY <1>4, <2>3, <3>1, PendingFacts
  <2>5. PendingEvents' = LeftOf(PendingEvents, g)
    BY <1>2, <1>6, <2>1, <2>2, <2>4, TakeTwo
  <2>6. g \in PendingEvents
    BY <1>6, <2>1, <2>2 DEF LeftOf
  <2>7. g.caller = e.caller
    <3>1. e \in Event /\ a.stamp \in Nat \ {0}
      BY <1>2, <1>6, <2>1, ElementFacts
    <3> QED
      BY <3>1, RenumberFacts
  <2>8. PendingEvents' = Timed!Without(g)
    BY <2>5 DEF LeftOf, Renumber, Timed!Without
  <2> QED
    BY <1>5, <2>6, <2>7, <2>8 DEF Timed!Withdraw
<1> QED
  BY <1>6, <1>7, <1>8, <1>9

\* RemoveEvent( pe ): the event that has fired goes from the list.
LEMMA ServedIsStutter ==
    ASSUME OrderInv, Served, saved = <<>>
    PROVE  UNCHANGED PendingEvents
<1>1. /\ pe \in 1..Len(queue) /\ queue' = RemoveAt(queue, pe) /\ pe' = 0 /\ saved' = saved
      /\ queue \in Seq(Event) /\ Ranked(queue)
  BY DEF Served, OrderInv, TypeInv, QueueTypeOK
<1>2. queue' \in Seq(Event) /\ Ranked(queue') /\ Elements(queue') = LeftOf(Elements(queue), queue[pe])
  BY <1>1, RemoveFacts, RemoveOrder, RemoveIsLeftOf DEF OrderInv
<1>3. PendingEvents = LeftOf(Elements(queue), queue[pe])
  BY <1>1, PendingFacts, PendingIsList
<1>4. PendingEvents' = Elements(queue')
  BY <1>1, <1>2, PendingFacts, PendingIsList
<1> QED
  BY <1>2, <1>3, <1>4

\* Between the frames nothing is overdue, so time may pass.
LEMMA FrameIsPass ==
    ASSUME OrderInv, NEW d \in 1..MaxFrame, Frame(d), saved = <<>>
    PROVE  Timed!Pass(d)
<1>1. /\ d \in Nat /\ queue' = Ahead(queue, d) /\ pe = 0 /\ pe' = 0 /\ saved' = saved
      /\ queue \in Seq(Event) /\ Ranked(queue) /\ NoneOverdue(queue)
  BY DelaysAssumption DEF Frame, OrderInv, TypeInv, QueueTypeOK
<1>2. /\ queue' \in Seq(Event) /\ Len(queue') = Len(queue)
      /\ \A i \in 1..Len(queue) : queue'[i] = [queue[i] EXCEPT !.left = @ - d]
  BY ZenonT(60), <1>1, AheadFacts
<1>3. \A i \in 1..Len(queue) : queue'[i].stamp = queue[i].stamp
  <2> TAKE i \in 1..Len(queue)
  <2>1. queue[i] \in Event /\ queue'[i] = [queue[i] EXCEPT !.left = @ - d]
    BY <1>1, <1>2
  <2> QED
    BY <2>1 DEF Event
<1>4. Ranked(queue')
  BY <1>1, <1>2, <1>3 DEF Ranked
<1>5. PendingEvents = Elements(queue) /\ PendingEvents' = Elements(queue')
  BY <1>1, <1>2, <1>4, PendingFacts, PendingIsList
<1>6. Elements(queue') = {[e EXCEPT !.left = @ - d] : e \in Elements(queue)}
  <2> DEFINE Later(e) == [e EXCEPT !.left = @ - d]
  <2>1. \A i \in 1..Len(queue) : queue'[i] = Later(queue[i])
    BY <1>2
  <2> HIDE DEF Later
  <2>2. ASSUME NEW e \in Elements(queue') PROVE \E f \in Elements(queue) : e = Later(f)
    BY <1>2, <2>1 DEF Elements
  <2>3. ASSUME NEW f \in Elements(queue) PROVE Later(f) \in Elements(queue')
    BY <1>2, <2>1 DEF Elements
  <2>4. Elements(queue') = {Later(f) : f \in Elements(queue)}
    BY <2>2, <2>3
  <2> QED
    BY <2>4 DEF Later
<1>7. \A e \in Elements(queue) : e.left >= 0
  BY <1>1 DEF Elements, NoneOverdue
<1>8. \A e \in PendingEvents : e.left >= 0
  BY <1>5, <1>7
<1>9. PendingEvents' = {[e EXCEPT !.left = @ - d] : e \in PendingEvents}
  BY <1>5, <1>6
<1> QED
  BY <1>8, <1>9 DEF Timed!Pass
-----------------------------------------------------------------------------
(* Saving and restoring.                                                   *)

LEMMA SameCardinality == \A S : Timed!Cardinality(S) = Cardinality(S)
BY DEF Timed!Cardinality, Cardinality

\* As many values as there are positions, if no two are equal.
LEMMA Distinct ==
    ASSUME NEW n \in Nat, NEW h, \A i, j \in 1..n : i # j => h[i] # h[j]
    PROVE  Cardinality({h[i] : i \in 1..n}) = n
<1> DEFINE T == {h[i] : i \in 1..n}
           b == [i \in 1..n |-> h[i]]
<1>1. b \in [1..n -> T] /\ \A i, j \in 1..n : b[i] = b[j] => i = j
  OBVIOUS
<1>2. \A t \in T : \E i \in 1..n : b[i] = t
  OBVIOUS
<1>3. b \in Bijection(1..n, T)
  <2> HIDE DEF b, T
  <2> QED
    BY <1>1, <1>2, Fun_IsBij
<1>4. ExistsBijection(1..n, T)
  BY <1>3 DEF ExistsBijection
<1> QED
  BY <1>4, FS_CountingElements

\* In a list that is in order, i - 1 events are before the one at i.
LEMMA RankInOrder ==
    ASSUME NEW n \in Nat, NEW h, NEW i \in 1..n,
           \A j \in 1..n : h[j].left \in Int /\ h[j].stamp \in Int,
           \A j, k \in 1..n : j < k => Timed!Before(h[j], h[k])
    PROVE  Timed!Rank(h[i], {h[j] : j \in 1..n}) = i - 1
<1>1. \A j \in 1..n : Timed!Before(h[j], h[i]) <=> j < i
  <2> TAKE j \in 1..n
  <2>1. CASE j < i
    BY <2>1
  <2>2. CASE j = i
    BY <2>2 DEF Timed!Before
  <2>3. CASE j > i
    <3>1. Timed!Before(h[i], h[j])
      BY <2>3
    <3> QED
      BY <2>3, <3>1 DEF Timed!Before
  <2> QED
    BY <2>1, <2>2, <2>3
<1>2. {f \in {h[j] : j \in 1..n} : Timed!Before(f, h[i])} = {h[j] : j \in 1..(i - 1)}
  <2>1. ASSUME NEW j \in 1..n, Timed!Before(h[j], h[i]) PROVE j \in 1..(i - 1)
    BY <1>1, <2>1
  <2>2. ASSUME NEW j \in 1..(i - 1) PROVE j \in 1..n /\ Timed!Before(h[j], h[i])
    BY <1>1
  <2> QED
    BY <2>1, <2>2
<1>3. \A j, k \in 1..(i - 1) : j # k => h[j] # h[k]
  <2>1. ASSUME NEW j \in 1..(i - 1), NEW k \in 1..(i - 1), j < k PROVE h[j] # h[k]
    <3>1. j \in 1..n /\ k \in 1..n
      OBVIOUS
    <3>2. Timed!Before(h[j], h[k])
      BY <2>1, <3>1
    <3> QED
      BY <3>1, <3>2 DEF Timed!Before
  <2> QED
    BY <2>1
<1>4. i - 1 \in Nat
  OBVIOUS
<1>5. Cardinality({h[j] : j \in 1..(i - 1)}) = i - 1
  BY <1>3, <1>4, Distinct
<1> QED
  BY <1>2, <1>5, SameCardinality DEF Timed!Rank

\* The queue goes to the file in its order, so it comes back in its order.
LEMMA SaveIsReload ==
    ASSUME OrderInv, SaveAndClear, saved = <<>>
    PROVE  Timed!Reload
<1> DEFINE n == Len(queue)
           g == [i \in 1..n |-> [queue[i] EXCEPT !.left = SavedTime(@), !.stamp = i]]
<1>1. /\ queue \in Seq(Event) /\ n \in Nat /\ Ranked(queue) /\ Ordered(queue)
      /\ NoneOverdue(queue) /\ pe = 0 /\ pe' = 0 /\ queue' = <<>>
      /\ saved' = [i \in 1..n |-> [queue[i] EXCEPT !.left = SavedTime(@)]]
  BY DEF SaveAndClear, OrderInv, TypeInv, QueueTypeOK
<1>2. PendingEvents = Elements(queue)
  BY <1>1, PendingFacts, PendingIsList
<1>3. ASSUME NEW i \in 1..n
      PROVE  /\ queue[i] \in Event /\ queue[i].left \in Int /\ queue[i].left >= 0
             /\ queue[i].stamp \in Int
             /\ g[i].left = SavedTime(queue[i].left) /\ g[i].stamp = i
  <2>1. queue[i] \in Event /\ queue[i].left >= 0
    BY <1>1 DEF NoneOverdue
  <2>2. g[i] = [queue[i] EXCEPT !.left = SavedTime(@), !.stamp = i]
    OBVIOUS
  <2> HIDE DEF g
  <2> QED
    BY <2>1, <2>2 DEF Event
<1>4. PendingEvents' = {g[i] : i \in 1..n}
  <2>1. Len(saved') = n /\ Len(queue') = 0
    BY <1>1
  <2>2. {queue'[i] : i \in 1..Len(queue')} = {}
    BY <2>1
  <2>3. PendingEvents' = Numbered(saved', 0)
    BY <1>1, <2>1, <2>2, PendingFacts DEF PendingOf
  <2>4. ASSUME NEW i \in 1..n PROVE [saved'[i] EXCEPT !.stamp = 0 + i] = g[i]
    <3>1. queue[i] \in Event
      BY <1>3
    <3>2. saved'[i] = [queue[i] EXCEPT !.left = SavedTime(@)] /\ 0 + i = i
      BY <1>1
    <3> QED
      BY <3>1, <3>2 DEF Event
  <2>5. Numbered(saved', 0) = {[saved'[i] EXCEPT !.stamp = 0 + i] : i \in 1..n}
    BY <2>1 DEF Numbered
  <2> HIDE DEF g
  <2> QED
    BY <2>3, <2>4, <2>5
<1> HIDE DEF g
<1>5. \A i, j \in 1..n : i < j => Timed!Before(queue[i], queue[j])
  BY <1>1 DEF Ordered, Before, Timed!Before
<1>6. \A i, j \in 1..n : i < j => Timed!Before(g[i], g[j])
  <2> SUFFICES ASSUME NEW i \in 1..n, NEW j \in 1..n, i < j PROVE Timed!Before(g[i], g[j])
    OBVIOUS
  <2>1. Timed!Before(queue[i], queue[j])
    BY <1>5
  <2>2. queue[i].left <= queue[j].left
    BY <1>3, <2>1 DEF Timed!Before
  <2>3. SavedTime(queue[i].left) <= SavedTime(queue[j].left)
    BY <1>3, <2>2 DEF SavedTime
  <2>4. SavedTime(queue[i].left) \in Int /\ SavedTime(queue[j].left) \in Int
    BY <1>3 DEF SavedTime
  <2> QED
    BY <1>3, <2>3, <2>4 DEF Timed!Before
<1>7. \A i \in 1..n : g[i].left \in Int /\ g[i].stamp \in Int
  BY <1>3 DEF SavedTime
<1>8. Cardinality(PendingEvents') = Cardinality(PendingEvents)
  <2>1. Cardinality({g[i] : i \in 1..n}) = n
    <3>1. \A i, j \in 1..n : i # j => g[i] # g[j]
      BY <1>3
    <3> QED
      BY <1>1, <3>1, Distinct
  <2>2. Cardinality({queue[i] : i \in 1..n}) = n
    <3>1. \A i, j \in 1..n : i # j => queue[i] # queue[j]
      BY <1>1, RankedApart
    <3> QED
      BY <1>1, <3>1, Distinct
  <2> QED
    BY <1>2, <1>4, <2>1, <2>2 DEF Elements
<1>9. ASSUME NEW e \in PendingEvents
      PROVE  \E f \in PendingEvents' :
                /\ f = [e EXCEPT !.left = IF @ = 0 THEN 1 ELSE @, !.stamp = f.stamp]
                /\ Timed!Rank(f, PendingEvents') = Timed!Rank(e, PendingEvents)
  <2>1. PICK i \in 1..n : e = queue[i]
    BY <1>2 DEF Elements
  <2>2. g[i] = [e EXCEPT !.left = IF @ = 0 THEN 1 ELSE @, !.stamp = g[i].stamp]
    BY <1>3, <2>1 DEF g, SavedTime
  <2>3. Timed!Rank(g[i], PendingEvents') = i - 1
    BY <1>1, <1>4, <1>6, <1>7, RankInOrder
  <2>4. Timed!Rank(e, PendingEvents) = i - 1
    <3> DEFINE N == n
    <3>1. /\ N \in Nat /\ i \in 1..N /\ Elements(queue) = {queue[j] : j \in 1..N}
          /\ \A j \in 1..N : queue[j].left \in Int /\ queue[j].stamp \in Int
          /\ \A j, k \in 1..N : j < k => Timed!Before(queue[j], queue[k])
      BY <1>1, <1>3, <1>5 DEF Elements
    <3> HIDE DEF N, n
    <3>2. Timed!Rank(queue[i], {queue[j] : j \in 1..N}) = i - 1
      BY <3>1, RankInOrder
    <3> QED
      BY <1>2, <2>1, <3>1, <3>2
  <2> QED
    BY <1>4, <2>2, <2>3, <2>4
<1>10. Timed!Cardinality(PendingEvents') = Timed!Cardinality(PendingEvents)
  BY <1>8, SameCardinality
<1> QED
  BY <1>9, <1>10 DEF Timed!Reload

\* What is restored next has the next rank, as it had among those to be restored.
LEMMA RestoreIsStutter ==
    ASSUME OrderInv, RestoreEvent
    PROVE  UNCHANGED PendingEvents
<1> DEFINE s == saved[1]
           n == NewEvent(queue, s.target, s.input, s.left, s.caller, s.output)
           N == Len(queue)
<1>1. /\ phase = "restoring" /\ saved # <<>> /\ saved' = Tail(saved) /\ pe = 0
      /\ AddEvent(s.target, s.input, s.left, s.caller, s.output)
      /\ queue \in Seq(Event) /\ saved \in Seq(Event) /\ N \in Nat
      /\ Len(saved) \in Nat
  BY DEF RestoreEvent, OrderInv, TypeInv, QueueTypeOK
<1>2. 1 \in 1..Len(saved) /\ s \in Event /\ s.left >= 0
  BY <1>1 DEF OrderInv, NoneOverdue
<1>3. /\ s.target \in Targets /\ s.input \in Inputs \cup {"EnableRefire"}
      /\ s.left \in Nat /\ s.left \in Int /\ s.caller \in Targets /\ s.output \in Nat
  BY <1>2 DEF Event, Targets
<1>4. pe' = 0
  <2>1. OrderInv /\ AddEvent(s.target, s.input, s.left, s.caller, s.output)
    BY <1>1
  <2> HIDE DEF s
  <2> QED
    BY <1>1, <1>3, <2>1, AddOrder
<1>5. Elements(queue') = Elements(queue) \cup {n} /\ Len(queue') = N + 1
  <2>1. TypeInv /\ AddEvent(s.target, s.input, s.left, s.caller, s.output)
    BY <1>1 DEF OrderInv
  <2> HIDE DEF s
  <2> QED
    BY <1>3, <2>1, AddElement
<1>6. n = [s EXCEPT !.stamp = N + 1]
  BY <1>2 DEF NewEvent, Event
<1>7. Numbered(saved, N) = {n} \cup Numbered(saved', N + 1)
  <2>1. Len(saved') = Len(saved) - 1 /\ \A i \in 1..Len(saved') : saved'[i] = saved[i + 1]
    BY <1>1, <1>2
  <2> DEFINE At(i) == [saved[i] EXCEPT !.stamp = N + i]
  <2>2. Numbered(saved, N) = {At(i) : i \in 1..Len(saved)}
    BY DEF Numbered
  <2>3. At(1) = n
    BY <1>6
  <2>4. Numbered(saved', N + 1) = {At(i + 1) : i \in 1..Len(saved')}
    <3>1. \A i \in 1..Len(saved') : [saved'[i] EXCEPT !.stamp = N + 1 + i] = At(i + 1)
      <4> TAKE i \in 1..Len(saved')
      <4>1. N + 1 + i = N + (i + 1) /\ saved'[i] = saved[i + 1]
        BY <1>1, <2>1
      <4> QED
        BY <4>1
    <3>2. Numbered(saved', N + 1) = {[saved'[i] EXCEPT !.stamp = N + 1 + i] : i \in 1..Len(saved')}
      BY DEF Numbered
    <3> HIDE DEF At
    <3> QED
      BY <3>1, <3>2
  <2> HIDE DEF At, n, s
  <2>5. ASSUME NEW i \in 1..Len(saved), i # 1 PROVE \E j \in 1..Len(saved') : At(i) = At(j + 1)
    <3>1. i - 1 \in 1..Len(saved') /\ i = (i - 1) + 1
      BY <1>1, <2>1, <2>5
    <3> QED
      BY <3>1
  <2>6. ASSUME NEW j \in 1..Len(saved') PROVE j + 1 \in 1..Len(saved)
    BY <1>1, <2>1
  <2> QED
    BY <1>2, <2>2, <2>3, <2>4, <2>5, <2>6
<1>8. PendingEvents = Elements(queue) \cup Numbered(saved, N)
  BY <1>1, PendingFacts DEF PendingOf, Elements
<1>9. PendingEvents' = Elements(queue') \cup Numbered(saved', N + 1)
  BY <1>4, <1>5, PendingFacts DEF PendingOf, Elements
<1> HIDE DEF n
<1> QED
  BY <1>5, <1>7, <1>8, <1>9
-----------------------------------------------------------------------------
(* Every step of the queue is one of the abstract queue, or none.          *)

LEMMA PendingStep == OrderInv /\ [QueueNext]_queueVars => [Timed!TimedNext]_PendingEvents
<1> SUFFICES ASSUME OrderInv, [QueueNext]_queueVars
             PROVE  Timed!TimedNext \/ UNCHANGED PendingEvents
  OBVIOUS
<1>a. TypeInv
  BY DEF OrderInv
<1>b. phase # "restoring" => saved = <<>>
  BY <1>a DEF TypeInv, QueueTypeOK
<1>s. queue' = queue /\ pe' = pe /\ saved' = saved => UNCHANGED PendingEvents
  BY PendingFacts
<1>1. ASSUME NEW p \in Posts, Post(p) PROVE Timed!Post
  <2>1. p.target \in Targets /\ p.input \in Inputs /\ p.delay \in Nat /\ NoOne \in Targets
    BY RelaysAssumption DEF Connection, Targets
  <2>2. AddEvent(p.target, p.input, p.delay, NoOne, 0) /\ saved = <<>> /\ saved' = <<>>
    BY <1>1, <1>b DEF Post
  <2> QED
    BY <2>1, <2>2, AddIsPost
<1>2. ASSUME NEW d \in 1..MaxFrame, Frame(d) PROVE Timed!Pass(d)
  BY <1>2, <1>b, FrameIsPass DEF Frame
<1>3. CASE ServeNoOne
  <2>1. Due /\ pe = 0 /\ pe' = 1 /\ queue' = queue /\ saved = <<>> /\ saved' = <<>>
    BY <1>3, <1>a, <1>b DEF ServeNoOne, Due, TypeInv, QueueTypeOK
  <2> QED
    BY <2>1, TakeIsFire DEF Timed!TimedNext
<1>4. ASSUME NEW r \in Relays,
             InputFlags(r) \/ IgnoreTrigger(r) \/ InputTrigger(r) \/ InputCancelPending(r)
      PROVE  Timed!Fire
  <2>1. \E input \in Inputs \cup {"EnableRefire"} : Serve(r, input)
    BY <1>4 DEF InputFlags, IgnoreTrigger, InputTrigger, InputCancelPending, Inputs
  <2>2. queue' = queue /\ saved' = saved
    BY <1>4 DEF InputFlags, IgnoreTrigger, InputTrigger, InputCancelPending
  <2>3. Due /\ pe = 0 /\ pe' = 1 /\ saved = <<>> /\ saved' = <<>>
    BY <1>a, <1>b, <2>1, <2>2 DEF Serve, Due, TypeInv, QueueTypeOK
  <2> QED
    BY <2>2, <2>3, TakeIsFire
<1>5. CASE FireOutput
  <2> DEFINE c == OnTrigger[self][output]
  <2>1. /\ Firing /\ AddEvent(c.target, c.input, c.delay, self, output)
        /\ saved = <<>> /\ saved' = <<>>
    BY <1>5, <1>b DEF FireOutput, Firing
  <2>2. /\ c.target \in Targets /\ c.input \in Inputs /\ c.delay \in Nat
        /\ self \in Targets /\ output \in Nat
    BY <1>a, <2>1, ConnectionFacts
  <2>3. c.input \in Inputs \cup {"EnableRefire"}
    BY <2>2
  <2> HIDE DEF c
  <2>4. Timed!Post
    BY <2>1, <2>2, <2>3, AddIsPost
  <2> QED
    BY <2>4 DEF Timed!TimedNext
<1>6. CASE FiredAndWaits
  <2>1. /\ self \in Targets /\ RefireDelay \in Nat
        /\ AddEvent(self, "EnableRefire", RefireDelay, self, 0)
        /\ saved = <<>> /\ saved' = <<>>
    BY <1>6, <1>a, <1>b, DelaysAssumption
    DEF FiredAndWaits, Fired, Targets, RefireDelay, TypeInv, QueueTypeOK
  <2> QED
    BY <2>1, AddIsPost DEF Timed!TimedNext
<1>7. CASE CancelEvent
  BY <1>7, <1>b, CancelIsWithdraw DEF CancelEvent, Cancelling, Timed!TimedNext
<1>8. CASE Served
  BY <1>8, <1>b, ServedIsStutter DEF Served
<1>9. CASE SaveAndClear
  BY <1>9, <1>b, SaveIsReload DEF SaveAndClear, Timed!TimedNext
<1>10. CASE RestoreEvent
  BY <1>10, RestoreIsStutter
<1>11. CASE ClearQueue
  <2>1. Len(queue') = 0 /\ pe' = 0 /\ saved' = <<>>
    BY <1>11, <1>b DEF ClearQueue
  <2>2. PendingEvents' = {}
    BY <2>1, PendingFacts DEF PendingOf, Numbered
  <2> QED
    BY <2>2 DEF Timed!Clear, Timed!TimedNext
<1>12. CASE ServiceEventQueue \/ ServiceDone \/ SkipSpent \/ FiredAndRemoved \/ FiredFast
  BY <1>12, <1>s DEF ServiceEventQueue, ServiceDone, SkipSpent, FiredAndRemoved, FiredFast
<1>13. CASE PassEvent \/ CancelDone \/ Unnoticed \/ RestoreDone
  BY <1>13, <1>s DEF PassEvent, CancelDone, Unnoticed, RestoreDone
<1>14. CASE UNCHANGED queueVars
  BY <1>14, <1>s DEF queueVars, serviceVars
<1> QED
  BY <1>1, <1>2, <1>3, <1>4, <1>5, <1>6, <1>7, <1>8, <1>9, <1>10, <1>11, <1>12, <1>13, <1>14
  DEF QueueNext, Service, Restore, Timed!TimedNext

\* The linked list keeps the promise of the set of timed events: every event
\* fires when it is due, in the order of the times and of the posting, whatever
\* its handlers post and cancel meanwhile (an event that cancels itself has
\* fired already), and none is lost, also not by saving and restoring.
THEOREM FiresInOrderCorrect == QueueSpec => FiresInOrder
<1>1. QueueInit => Timed!TimedInit
  <2> SUFFICES ASSUME QueueInit PROVE PendingEvents = {}
    BY DEF Timed!TimedInit
  <2>1. Len(queue) = 0 /\ pe = 0 /\ saved = <<>>
    BY DEF QueueInit
  <2> QED
    BY <2>1, PendingFacts DEF PendingOf, Numbered
<1> QED
  BY <1>1, OrderInit, OrderStep, PendingStep, PTL DEF QueueSpec, FiresInOrder, Timed!TimedSpec
-----------------------------------------------------------------------------
(* A frame comes to its end.                                               *)

\* What is asked of a level's relays: there are finitely many of them, time has
\* not become too large for the 0.001 s, and nothing that is posted without a
\* delay is a CancelPending or comes from a relay that need not wait.
Harmless ==
    /\ IsFiniteSet(Relays)
    /\ RefireGap = 1
    /\ \A r \in Relays : \A j \in 1..Len(OnTrigger[r]) :
          OnTrigger[r][j].delay = 0 =>
              /\ OnTrigger[r][j].input # "CancelPending"
              /\ r \notin FastRetrigger \ RemoveOnFire

\* The events of this frame that may yet make a relay ready: a CancelPending does
\* so when its handler returns.
Wakers == {i \in 1..Len(queue) :
              /\ queue[i].left <= 0
              /\ queue[i].input \in {"EnableRefire", "CancelPending"}
              /\ i # pe \/ phase = "cancelling"}

\* The relays that a Trigger makes fire, unless they are disabled.
Ready == Relays \ (waiting \cup gone)

\* A relay is firing that will not be ready afterwards.
FiresAway == phase = "firing" /\ self \notin FastRetrigger \ RemoveOnFire

\* The connections it has yet to post; the events yet to be served.
OutputsLeft == Len(OnTrigger[self]) + 1 - output
DueLeft == {i \in 1..Len(queue) : queue[i].left <= 0 /\ i # pe}
LeftToDo == IF FiresAway THEN OutputsLeft ELSE Cardinality(DueLeft)

\* The turns a handler has left, and the return to the list.
Turns == CASE phase = "firing" -> 2 + OutputsLeft
           [] phase = "cancelling" -> 3 + Len(queue) - cursor
           [] phase \in {"thinking", "handled"} -> 1
           [] OTHER -> 0

\* The measure falls: the first of its parts that changes gets smaller.
Nearer ==
    \/ Cardinality(Wakers') < Cardinality(Wakers)
    \/ /\ Cardinality(Wakers') = Cardinality(Wakers)
       /\ \/ Cardinality(Ready') < Cardinality(Ready)
          \/ /\ Ready' = Ready
             /\ \/ FiresAway' /\ ~ FiresAway
                \/ /\ FiresAway' <=> FiresAway
                   /\ \/ LeftToDo' < LeftToDo
                      \/ LeftToDo' = LeftToDo /\ Turns' < Turns

\* A frame gets nearer to its end with every step of ServiceEvents.
ServiceGetsNearer ==
    [][Service => phase' \in {"between", "undefined"} \/ Nearer]_queueVars

\* Its parts are natural numbers.
MeasureIsNatural ==
    /\ Cardinality(Wakers) \in Nat /\ Cardinality(Ready) \in Nat
    /\ LeftToDo \in Nat /\ Turns \in Nat

\* What holds while handlers run: the relay that fires was ready, and what is
\* served when events are cancelled is a CancelPending that is due.
ServiceInv ==
    /\ TypeInv
    /\ phase = "firing" => self \in Ready /\ output <= Len(OnTrigger[self]) + 1
    /\ phase = "cancelling" => cursor <= Len(queue) + 1
    /\ phase = "cancelling" /\ pe # 0 =>
           queue[pe].left <= 0 /\ queue[pe].input = "CancelPending"
-----------------------------------------------------------------------------
(* Counting places of a list.                                              *)

\* The places of S are those of T when the one at k is left out.
Matches(S, T, k, n) == /\ S \subseteq 1..n /\ T \subseteq 1..(n + 1)
                       /\ \A i \in 1..n : i \in S <=> From(i, k) \in T

LEMMA PlacesCounted ==
    ASSUME NEW n \in Nat, NEW k \in 1..(n + 1), NEW S, NEW T, Matches(S, T, k, n)
    PROVE  Cardinality(S) = Cardinality(T \ {k})
<1>0. /\ S \subseteq 1..n /\ T \subseteq 1..(n + 1)
      /\ \A i \in 1..n : i \in S <=> From(i, k) \in T
  BY DEF Matches
<1> DEFINE f == [i \in S |-> From(i, k)]
<1>1. IsFiniteSet(S)
  <2>1. IsFiniteSet(1..n)
    BY FS_Interval
  <2> QED BY <1>0, <2>1, FS_Subset
<1>2. \A i \in S : From(i, k) \in T \ {k}
  BY <1>0 DEF From
<1>3. \A i, j \in S : From(i, k) = From(j, k) => i = j
  BY <1>0 DEF From
<1>4. ASSUME NEW t \in T \ {k} PROVE \E i \in S : From(i, k) = t
  <2>1. CASE t < k
    <3>1. t \in 1..n /\ From(t, k) = t
      BY <1>0, <2>1 DEF From
    <3>2. t \in S
      BY <1>0, <3>1
    <3> QED BY <3>1, <3>2
  <2>2. CASE t > k
    <3>1. t - 1 \in 1..n /\ From(t - 1, k) = t
      BY <1>0, <2>2 DEF From
    <3>2. t - 1 \in S
      BY <1>0, <3>1
    <3> QED BY <3>1, <3>2
  <2> QED BY <1>0, <2>1, <2>2
<1>5. f \in Bijection(S, T \ {k})
  BY <1>2, <1>3, <1>4 DEF Bijection, Injection, IsInjective, Surjection
<1>6. ExistsBijection(S, T \ {k})
  BY <1>5 DEF ExistsBijection
<1> HIDE DEF f
<1> QED BY <1>1, <1>6, FS_Bijection

LEMMA CountsAreNatural ==
    ASSUME TypeInv
    PROVE  /\ IsFiniteSet(Wakers) /\ Cardinality(Wakers) \in Nat
           /\ IsFiniteSet(DueLeft) /\ Cardinality(DueLeft) \in Nat
           /\ Wakers \in SUBSET (1..Len(queue)) /\ DueLeft \in SUBSET (1..Len(queue))
<1>1. Len(queue) \in Nat
  BY DEF TypeInv, QueueTypeOK
<1>2. IsFiniteSet(1..Len(queue))
  BY <1>1, FS_Interval
<1>3. Wakers \in SUBSET (1..Len(queue)) /\ DueLeft \in SUBSET (1..Len(queue))
  BY DEF Wakers, DueLeft
<1> QED BY <1>2, <1>3, FS_Subset, FS_CardinalityType

\* A place less.
LEMMA OneLess ==
    ASSUME NEW S, IsFiniteSet(S), NEW k \in S
    PROVE  Cardinality(S \ {k}) = Cardinality(S) - 1 /\ Cardinality(S) \in Nat
BY FS_RemoveElement, FS_CardinalityType

\* An event that is added counts only if it is due.
LEMMA AddCounts ==
    ASSUME TypeInv, TypeInv', NEW t \in Targets, NEW i \in Inputs \cup {"EnableRefire"},
           NEW d \in Int, NEW c \in Targets, NEW o \in Nat, AddEvent(t, i, d, c, o),
           phase # "cancelling", phase' # "cancelling",
           d <= 0 => i \notin {"EnableRefire", "CancelPending"}
    PROVE  /\ Cardinality(Wakers') = Cardinality(Wakers)
           /\ d > 0 => Cardinality(DueLeft') = Cardinality(DueLeft)
<1>1. PICK k \in 1..(Len(queue) + 1) : Added(k, t, i, d, c, o)
  BY AddFacts
<1>2. /\ Len(queue) \in Nat /\ Len(queue') = Len(queue) + 1 /\ pe \in Nat
      /\ pe' = IF pe >= k THEN pe + 1 ELSE pe
  BY <1>1 DEF Added, TypeInv, QueueTypeOK
<1>3. queue'[k].left = d /\ queue'[k].input = i
  BY <1>1 DEF Added, NewEvent
<1>4. ASSUME NEW j \in 1..Len(queue)
      PROVE  /\ From(j, k) \in 1..Len(queue') /\ queue'[From(j, k)] = queue[j]
             /\ From(j, k) = pe' <=> j = pe
  <2>1. CASE j < k
    BY <1>1, <1>2, <2>1 DEF Added, From
  <2>2. CASE j >= k
    <3>1. /\ j + 1 \in 1..(Len(queue) + 1) /\ j + 1 > k /\ (j + 1) - 1 = j
          /\ From(j, k) = j + 1
      BY <1>2, <2>2 DEF From
    <3> QED BY <1>1, <1>2, <2>2, <3>1 DEF Added
  <2> QED BY <2>1, <2>2
<1>5. /\ Wakers \in SUBSET (1..Len(queue)) /\ Wakers' \in SUBSET (1..(Len(queue) + 1))
      /\ DueLeft \in SUBSET (1..Len(queue)) /\ DueLeft' \in SUBSET (1..(Len(queue) + 1))
  BY <1>2 DEF Wakers, DueLeft
<1>6. Cardinality(Wakers') = Cardinality(Wakers)
  <2>1. \A j \in 1..Len(queue) : j \in Wakers <=> From(j, k) \in Wakers'
    BY <1>4 DEF Wakers
  <2>2. k \notin Wakers'
    BY <1>3 DEF Wakers
  <2>3. Matches(Wakers, Wakers', k, Len(queue))
    BY <1>5, <2>1 DEF Matches
  <2>5. Cardinality(Wakers) = Cardinality(Wakers' \ {k})
    BY <1>2, <2>3, PlacesCounted
  <2>4. Wakers' \ {k} = Wakers'
    BY <2>2
  <2> QED BY <2>4, <2>5
<1>7. ASSUME d > 0 PROVE Cardinality(DueLeft') = Cardinality(DueLeft)
  <2>1. \A j \in 1..Len(queue) : j \in DueLeft <=> From(j, k) \in DueLeft'
    BY <1>4 DEF DueLeft
  <2>2. k \notin DueLeft'
    BY <1>3, <1>7 DEF DueLeft
  <2>3. Matches(DueLeft, DueLeft', k, Len(queue))
    BY <1>5, <2>1 DEF Matches
  <2>5. Cardinality(DueLeft) = Cardinality(DueLeft' \ {k})
    BY <1>2, <2>3, PlacesCounted
  <2>4. DueLeft' \ {k} = DueLeft'
    BY <2>2
  <2> QED BY <2>4, <2>5
<1> QED BY <1>6, <1>7

\* The event at place i is the one that was there or behind it.
LEMMA RemovedAlike ==
    ASSUME TypeInv, NEW k \in 1..Len(queue), queue' = RemoveAt(queue, k),
           NEW i \in 1..(Len(queue) - 1)
    PROVE  /\ From(i, k) \in 1..Len(queue)
           /\ queue'[i].left = queue[From(i, k)].left
           /\ queue'[i].input = queue[From(i, k)].input
<1>1. queue \in Seq(Event)
  BY DEF TypeInv, QueueTypeOK
<1>2. /\ From(i, k) \in 1..Len(queue)
      /\ queue'[i] = Renumber(queue[From(i, k)], queue[k].stamp)
  BY <1>1, RemoveFacts
<1> DEFINE e == queue[From(i, k)]
           s == queue[k].stamp
<1>3. e \in Event /\ s \in Nat \ {0}
  BY <1>1, <1>2, EventFacts
<1> HIDE DEF e, s
<1>4. Renumber(e, s).left = e.left /\ Renumber(e, s).input = e.input
  BY <1>3, RenumberFacts
<1>5. queue'[i] = Renumber(e, s)
  BY <1>2 DEF e, s
<1>6. queue'[i].left = e.left /\ queue'[i].input = e.input
  BY <1>4, <1>5
<1> QED BY <1>2, <1>6 DEF e

\* An event that is removed no longer counts.
LEMMA RemoveCounts ==
    ASSUME TypeInv, NEW k \in 1..Len(queue), queue' = RemoveAt(queue, k),
           pe' = IF pe = k THEN 0 ELSE IF pe > k THEN pe - 1 ELSE pe,
           phase' = "cancelling" <=> phase = "cancelling"
    PROVE  /\ Cardinality(Wakers') = Cardinality(Wakers \ {k})
           /\ Cardinality(DueLeft') = Cardinality(DueLeft \ {k})
<1>1. queue \in Seq(Event) /\ Len(queue) \in Nat /\ pe \in 0..Len(queue)
  BY DEF TypeInv, QueueTypeOK
<1>2. /\ Len(queue') = Len(queue) - 1
      /\ \A i \in 1..(Len(queue) - 1) :
            /\ From(i, k) \in 1..Len(queue) /\ From(i, k) # k
            /\ queue'[i] = Renumber(queue[From(i, k)], queue[k].stamp)
  BY <1>1, RemoveFacts
<1>3. ASSUME NEW i \in 1..(Len(queue) - 1)
      PROVE  /\ From(i, k) \in 1..Len(queue)
             /\ queue'[i].left = queue[From(i, k)].left
             /\ queue'[i].input = queue[From(i, k)].input
             /\ i = pe' <=> From(i, k) = pe
  <2>1. i = pe' <=> From(i, k) = pe
    BY <1>1 DEF From
  <2> QED BY <2>1, RemovedAlike
<1>5. /\ Wakers' \in SUBSET (1..(Len(queue) - 1)) /\ Wakers \in SUBSET (1..Len(queue))
      /\ DueLeft' \in SUBSET (1..(Len(queue) - 1)) /\ DueLeft \in SUBSET (1..Len(queue))
  BY <1>2 DEF Wakers, DueLeft
<1>6. \A i \in 1..(Len(queue) - 1) : i \in Wakers' <=> From(i, k) \in Wakers
  BY <1>2, <1>3 DEF Wakers
<1>7. \A i \in 1..(Len(queue) - 1) : i \in DueLeft' <=> From(i, k) \in DueLeft
  BY <1>2, <1>3 DEF DueLeft
<1> DEFINE n == Len(queue) - 1
<1>8. n \in Nat /\ k \in 1..(n + 1) /\ n + 1 = Len(queue)
  BY <1>1
<1>9. Matches(Wakers', Wakers, k, n) /\ Matches(DueLeft', DueLeft, k, n)
  BY <1>5, <1>6, <1>7, <1>8 DEF Matches
<1> HIDE DEF n
<1> QED BY <1>8, <1>9, PlacesCounted
-----------------------------------------------------------------------------
(* What holds while handlers run.                                          *)

LEMMA ServiceInit == QueueInit => ServiceInv
BY TypeInit DEF QueueInit, ServiceInv

LEMMA ServiceStep == ServiceInv /\ [QueueNext]_queueVars => ServiceInv'
<1> SUFFICES ASSUME ServiceInv, [QueueNext]_queueVars PROVE ServiceInv'
  OBVIOUS
<1>0. TypeInv /\ TypeInv'
  BY TypeStep DEF ServiceInv
<1>1. Len(queue) \in Nat /\ pe \in Nat /\ (queue # <<>> => Len(queue) > 0)
  BY <1>0 DEF TypeInv, QueueTypeOK
<1> USE DEF ServiceInv
<1>2. ASSUME phase' \notin {"firing", "cancelling"} PROVE ServiceInv'
  BY <1>0, <1>2
<1>3. ASSUME NEW p \in Posts, Post(p) PROVE ServiceInv'
  BY <1>2, <1>3 DEF Post
<1>4. ASSUME NEW d \in 1..MaxFrame, Frame(d) PROVE ServiceInv'
  BY <1>2, <1>4 DEF Frame
<1>5. CASE \/ ServiceEventQueue \/ ServiceDone \/ ServeNoOne
           \/ \E r \in Relays : InputFlags(r) \/ IgnoreTrigger(r)
           \/ FiredAndRemoved \/ FiredFast \/ FiredAndWaits \/ CancelDone \/ Served
           \/ Unnoticed \/ SaveAndClear \/ RestoreEvent \/ RestoreDone \/ ClearQueue
  BY <1>2, <1>5 DEF ServiceEventQueue, ServiceDone, ServeNoOne, InputFlags, IgnoreTrigger,
     FiredAndRemoved, FiredFast, FiredAndWaits, CancelDone, Served, Unnoticed, SaveAndClear,
     RestoreEvent, RestoreDone, ClearQueue
<1>6. ASSUME NEW r \in Relays, InputTrigger(r) PROVE ServiceInv'
  <2>1. Len(OnTrigger[r]) \in Nat
    BY RelaysAssumption
  <2>2. /\ phase' = "firing" /\ self' = r /\ output' = 1
        /\ waiting' = waiting /\ gone' = gone /\ r \notin waiting /\ r \notin gone
    BY <1>6 DEF InputTrigger, Serve, MayFire, relayVars
  <2>3. self' \in Ready'
    BY <2>2 DEF Ready
  <2> QED BY <1>0, <2>1, <2>2, <2>3
<1>7. ASSUME NEW r \in Relays, InputCancelPending(r) PROVE ServiceInv'
  BY <1>0, <1>1, <1>7 DEF InputCancelPending, Serve, Due
<1>8. CASE FireOutput \/ SkipSpent
  <2>1. /\ phase' = "firing" /\ phase = "firing" /\ self' = self /\ output' = output + 1
        /\ output <= Len(OnTrigger[self])
        /\ waiting' = waiting /\ gone' = gone
    BY <1>8 DEF FireOutput, SkipSpent, Firing, relayVars
  <2>2. self' \in Ready'
    BY <2>1 DEF Ready
  <2>3. output \in Nat /\ Len(OnTrigger[self]) \in Nat
    BY <1>0, <2>1, RelaysAssumption DEF TypeInv, QueueTypeOK
  <2> QED BY <1>0, <2>1, <2>2, <2>3
<1>9. CASE CancelEvent
  <2>1. /\ phase = "cancelling" /\ phase' = phase /\ cursor' = cursor
        /\ cursor <= Len(queue) /\ queue' = RemoveAt(queue, cursor)
        /\ pe' = IF pe = cursor THEN 0 ELSE IF pe > cursor THEN pe - 1 ELSE pe
    BY <1>9 DEF CancelEvent, Cancelling
  <2>2. cursor \in 1..Len(queue)
    BY <1>0, <1>1, <2>1 DEF TypeInv, QueueTypeOK
  <2>3. Len(queue') = Len(queue) - 1
    BY <1>0, <2>1, <2>2, RemoveFacts DEF TypeInv, QueueTypeOK
  <2>4. ASSUME pe' # 0 PROVE queue'[pe'].left <= 0 /\ queue'[pe'].input = "CancelPending"
    <3>1. /\ pe # 0 /\ pe # cursor /\ pe' \in 1..(Len(queue) - 1)
          /\ From(pe', cursor) = pe
      BY <1>0, <1>1, <2>1, <2>2, <2>3, <2>4 DEF TypeInv, QueueTypeOK, From
    <3>2. /\ queue'[pe'].left = queue[From(pe', cursor)].left
          /\ queue'[pe'].input = queue[From(pe', cursor)].input
      BY <1>0, <2>1, <2>2, <3>1, RemovedAlike
    <3> QED BY <2>1, <3>1, <3>2
  <2> QED BY <1>0, <1>1, <2>1, <2>2, <2>3, <2>4
<1>10. CASE PassEvent
  BY <1>0, <1>1, <1>10 DEF PassEvent, Cancelling, TypeInv, QueueTypeOK
<1>11. CASE UNCHANGED queueVars
  BY <1>0, <1>11 DEF queueVars, serviceVars, relayVars, Ready
<1> QED
  BY <1>3, <1>4, <1>5, <1>6, <1>7, <1>8, <1>9, <1>10, <1>11 DEF QueueNext, Service, Restore
-----------------------------------------------------------------------------
(* Every step of ServiceEvents brings the measure down.                    *)

LEMMA FinitelyReady ==
    ASSUME IsFiniteSet(Relays)
    PROVE  IsFiniteSet(Ready) /\ Cardinality(Ready) \in Nat
<1>1. Ready \in SUBSET Relays
  BY DEF Ready
<1> QED BY <1>1, FS_Subset, FS_CardinalityType

\* The head is taken: it is no longer due, and wakes nobody any more unless it
\* is a CancelPending whose handler has just been called.
LEMMA HeadTaken ==
    ASSUME ServiceInv, Due, pe' = 1, queue' = queue
    PROVE  /\ Cardinality(DueLeft') < Cardinality(DueLeft)
           /\ phase' = "cancelling" => Wakers' = Wakers
           /\ phase' # "cancelling" => Wakers' = Wakers \ {1}
           /\ 1 \in Wakers <=> queue[1].input \in {"EnableRefire", "CancelPending"}
<1>1. TypeInv /\ phase = "service" /\ pe = 0 /\ 1 \in 1..Len(queue) /\ queue[1].left <= 0
  BY DEF ServiceInv, Due, TypeInv, QueueTypeOK
<1>2. DueLeft' = DueLeft \ {1} /\ 1 \in DueLeft
  BY <1>1 DEF DueLeft
<1>3. Cardinality(DueLeft') < Cardinality(DueLeft)
  <2>1. IsFiniteSet(DueLeft)
    BY <1>1, CountsAreNatural
  <2> QED BY <1>2, <2>1, OneLess
<1>4. /\ phase' = "cancelling" => Wakers' = Wakers
      /\ phase' # "cancelling" => Wakers' = Wakers \ {1}
      /\ 1 \in Wakers <=> queue[1].input \in {"EnableRefire", "CancelPending"}
  BY <1>1 DEF Wakers
<1> QED BY <1>3, <1>4

\* The head's input does not make a relay fire.
LEMMA HandledNearer ==
    ASSUME ServiceInv, Due, pe' = 1, queue' = queue, phase' \in {"handled", "cancelling"},
           \/ Ready' = Ready
           \/ phase' = "handled" /\ queue[1].input = "EnableRefire"
    PROVE  Nearer
<1>1. TypeInv /\ phase = "service"
  BY DEF ServiceInv, Due
<1>2. /\ Cardinality(DueLeft') < Cardinality(DueLeft)
      /\ phase' = "cancelling" => Wakers' = Wakers
      /\ phase' # "cancelling" => Wakers' = Wakers \ {1}
      /\ 1 \in Wakers <=> queue[1].input \in {"EnableRefire", "CancelPending"}
  BY HeadTaken
<1>3. CASE 1 \in Wakers /\ phase' # "cancelling"
  <2>1. IsFiniteSet(Wakers)
    BY <1>1, CountsAreNatural
  <2>2. Cardinality(Wakers') < Cardinality(Wakers)
    BY <1>2, <1>3, <2>1, OneLess
  <2> QED BY <2>2 DEF Nearer
<1>4. CASE ~ (1 \in Wakers /\ phase' # "cancelling")
  <2>1. Wakers' = Wakers
    BY <1>2, <1>4
  <2>2. Ready' = Ready
    BY <1>2, <1>4
  <2>3. ~ FiresAway /\ ~ FiresAway'
    BY <1>1 DEF FiresAway
  <2>4. LeftToDo' < LeftToDo
    BY <1>2, <2>3 DEF LeftToDo
  <2> QED BY <2>1, <2>2, <2>3, <2>4 DEF Nearer
<1> QED BY <1>3, <1>4

LEMMA TriggerNearer ==
    ASSUME ServiceInv, NEW r \in Relays, InputTrigger(r)
    PROVE  Nearer
<1>1. /\ Due /\ pe' = 1 /\ queue' = queue /\ phase = "service" /\ phase' = "firing"
      /\ queue[1].input = "Trigger" /\ waiting' = waiting /\ gone' = gone
  BY DEF InputTrigger, Serve, Due, relayVars
<1>2. /\ Cardinality(DueLeft') < Cardinality(DueLeft)
      /\ Wakers' = Wakers \ {1} /\ 1 \notin Wakers
  BY <1>1, HeadTaken
<1>3. Wakers' = Wakers /\ Ready' = Ready /\ ~ FiresAway
  BY <1>1, <1>2 DEF Ready, FiresAway
<1>4. CASE FiresAway'
  BY <1>3, <1>4 DEF Nearer
<1>5. CASE ~ FiresAway'
  <2>1. LeftToDo' < LeftToDo
    BY <1>2, <1>3, <1>5 DEF LeftToDo
  <2> QED BY <1>3, <1>5, <2>1 DEF Nearer
<1> QED BY <1>4, <1>5

LEMMA OutputNearer ==
    ASSUME Harmless, ServiceInv, TypeInv', FireOutput \/ SkipSpent
    PROVE  Nearer
<1>1. /\ phase = "firing" /\ phase' = "firing" /\ self' = self /\ output' = output + 1
      /\ Firing /\ waiting' = waiting /\ gone' = gone /\ output <= Len(OnTrigger[self])
  BY DEF FireOutput, SkipSpent, Firing, relayVars
<1>2. TypeInv /\ self \in Relays /\ output \in 1..Len(OnTrigger[self])
      /\ Len(OnTrigger[self]) \in Nat
  BY <1>1, RelaysAssumption DEF ServiceInv, TypeInv, QueueTypeOK
<1>3. Ready' = Ready /\ (FiresAway' <=> FiresAway)
  BY <1>1 DEF Ready, FiresAway
<1>4. OutputsLeft' < OutputsLeft /\ Turns' < Turns
  BY <1>1, <1>2 DEF OutputsLeft, Turns
<1>5. /\ Cardinality(Wakers') = Cardinality(Wakers)
      /\ ~ FiresAway => Cardinality(DueLeft') = Cardinality(DueLeft)
  <2>1. CASE SkipSpent
    <3>1. Wakers' = Wakers /\ DueLeft' = DueLeft
      BY <1>1, <2>1 DEF SkipSpent, Wakers, DueLeft
    <3> QED BY <3>1
  <2>2. CASE FireOutput
    <3> DEFINE c == OnTrigger[self][output]
    <3>1. /\ c.target \in Targets /\ c.input \in Inputs /\ c.delay \in Nat
          /\ self \in Targets /\ output \in Nat
      BY <1>1, <1>2, ConnectionFacts
    <3>2. AddEvent(c.target, c.input, c.delay, self, output)
      BY <2>2 DEF FireOutput
    <3>3. c.delay = 0 => c.input # "CancelPending" /\ self \notin FastRetrigger \ RemoveOnFire
      BY <1>2 DEF Harmless
    <3> HIDE DEF c
    <3>4. c.delay <= 0 => c.input \notin {"EnableRefire", "CancelPending"}
      BY <3>1, <3>3 DEF Inputs
    <3>5. /\ Cardinality(Wakers') = Cardinality(Wakers)
          /\ c.delay > 0 => Cardinality(DueLeft') = Cardinality(DueLeft)
      <4>1. c.delay \in Int /\ c.input \in Inputs \cup {"EnableRefire"}
        BY <3>1
      <4> QED BY <1>1, <1>2, <3>1, <3>2, <3>4, <4>1, AddCounts
    <3>6. ~ FiresAway => c.delay > 0
      BY <1>1, <3>1, <3>3 DEF FiresAway
    <3> QED BY <3>5, <3>6
  <2> QED BY <2>1, <2>2
<1>6. CASE FiresAway
  <2>1. LeftToDo' < LeftToDo
    BY <1>3, <1>4, <1>6 DEF LeftToDo
  <2> QED BY <1>3, <1>5, <2>1 DEF Nearer
<1>7. CASE ~ FiresAway
  <2>1. LeftToDo' = LeftToDo
    BY <1>3, <1>5, <1>7 DEF LeftToDo
  <2> QED BY <1>3, <1>4, <1>5, <2>1 DEF Nearer
<1> QED BY <1>6, <1>7

\* A relay that has fired is not ready any more, or need not wait.
LEMMA FiredNearer ==
    ASSUME Harmless, ServiceInv, TypeInv', FiredAndRemoved \/ FiredFast \/ FiredAndWaits
    PROVE  Nearer
<1>1. /\ phase = "firing" /\ phase' = "handled" /\ output > Len(OnTrigger[self])
      /\ TypeInv /\ self \in Ready /\ self \in Relays
      /\ output = Len(OnTrigger[self]) + 1
  <2>1. phase = "firing" /\ phase' = "handled" /\ output > Len(OnTrigger[self])
    BY DEF FiredAndRemoved, FiredFast, FiredAndWaits, Fired
  <2>2. /\ TypeInv /\ self \in Ready /\ self \in Relays /\ output \in Nat
        /\ output <= Len(OnTrigger[self]) + 1
    BY <2>1 DEF ServiceInv, TypeInv, QueueTypeOK
  <2>3. Len(OnTrigger[self]) \in Nat
    BY <2>2, RelaysAssumption
  <2> QED BY <2>1, <2>2, <2>3
<1>2. ASSUME Ready' = Ready \ {self} PROVE Cardinality(Ready') < Cardinality(Ready)
  <2>1. IsFiniteSet(Ready)
    BY FinitelyReady DEF Harmless
  <2> QED BY <1>1, <1>2, <2>1, OneLess
<1>3. CASE FiredAndRemoved
  <2>1. queue' = queue /\ pe' = pe /\ waiting' = waiting /\ gone' = gone \cup {self}
    BY <1>3 DEF FiredAndRemoved
  <2>2. Wakers' = Wakers
    BY <1>1, <2>1 DEF Wakers
  <2>3. Ready' = Ready \ {self}
    BY <2>1 DEF Ready
  <2> QED BY <1>2, <2>2, <2>3 DEF Nearer
<1>4. CASE FiredFast
  <2>1. /\ queue' = queue /\ pe' = pe /\ waiting' = waiting /\ gone' = gone
        /\ self \in FastRetrigger \ RemoveOnFire
    BY <1>4 DEF FiredFast, relayVars
  <2>2. Wakers' = Wakers /\ DueLeft' = DueLeft
    BY <1>1, <2>1 DEF Wakers, DueLeft
  <2>3. Ready' = Ready /\ ~ FiresAway /\ ~ FiresAway'
    BY <1>1, <2>1 DEF Ready, FiresAway
  <2>4. LeftToDo' = LeftToDo
    BY <2>2, <2>3 DEF LeftToDo
  <2>5. Turns' = 1 /\ Turns = 2
    <3>1. Len(OnTrigger[self]) \in Nat
      BY <1>1, RelaysAssumption
    <3> QED BY <1>1, <3>1 DEF Turns, OutputsLeft
  <2> QED BY <2>2, <2>3, <2>4, <2>5 DEF Nearer
<1>5. CASE FiredAndWaits
  <2>1. /\ AddEvent(self, "EnableRefire", RefireDelay, self, 0)
        /\ waiting' = waiting \cup {self} /\ gone' = gone
    BY <1>5 DEF FiredAndWaits
  <2>2. RefireDelay \in Int /\ RefireDelay > 0 /\ self \in Targets
    BY <1>1 DEF RefireDelay, Harmless, Targets, TypeInv, QueueTypeOK
  <2>3. Cardinality(Wakers') = Cardinality(Wakers)
    <3>1. "EnableRefire" \in Inputs \cup {"EnableRefire"} /\ 0 \in Nat
      OBVIOUS
    <3>2. RefireDelay <= 0 => "EnableRefire" \notin {"EnableRefire", "CancelPending"}
      BY <2>2
    <3> QED BY <1>1, <2>1, <2>2, <3>1, <3>2, AddCounts
  <2>4. Ready' = Ready \ {self}
    BY <2>1 DEF Ready
  <2> QED BY <1>2, <2>3, <2>4 DEF Nearer
<1> QED BY <1>3, <1>4, <1>5

LEMMA CancelNearer ==
    ASSUME ServiceInv, CancelEvent \/ PassEvent
    PROVE  Nearer
<1>1. /\ phase = "cancelling" /\ phase' = "cancelling" /\ cursor \in 1..Len(queue)
      /\ TypeInv /\ Len(queue) \in Nat /\ waiting' = waiting /\ gone' = gone
  BY DEF CancelEvent, PassEvent, Cancelling, ServiceInv, TypeInv, QueueTypeOK, relayVars
<1>2. Ready' = Ready /\ ~ FiresAway /\ ~ FiresAway'
  BY <1>1 DEF Ready, FiresAway
<1>3. CASE PassEvent
  <2>1. queue' = queue /\ pe' = pe /\ cursor' = cursor + 1
    BY <1>3 DEF PassEvent
  <2>2. Wakers' = Wakers /\ DueLeft' = DueLeft
    BY <1>1, <2>1 DEF Wakers, DueLeft
  <2>3. LeftToDo' = LeftToDo
    BY <1>2, <2>2 DEF LeftToDo
  <2>4. Turns' < Turns
    BY <1>1, <2>1 DEF Turns
  <2> QED BY <1>2, <2>2, <2>3, <2>4 DEF Nearer
<1>4. CASE CancelEvent
  <2>1. /\ queue' = RemoveAt(queue, cursor) /\ cursor' = cursor
        /\ pe' = IF pe = cursor THEN 0 ELSE IF pe > cursor THEN pe - 1 ELSE pe
    BY <1>4 DEF CancelEvent
  <2>2. /\ Cardinality(Wakers') = Cardinality(Wakers \ {cursor})
        /\ Cardinality(DueLeft') = Cardinality(DueLeft \ {cursor})
    BY <1>1, <2>1, RemoveCounts
  <2>3. IsFiniteSet(Wakers) /\ IsFiniteSet(DueLeft)
    BY <1>1, CountsAreNatural
  <2>4. \/ Cardinality(Wakers') < Cardinality(Wakers)
        \/ Cardinality(Wakers') = Cardinality(Wakers)
    <3>1. CASE cursor \in Wakers
      BY <2>2, <2>3, <3>1, OneLess
    <3>2. CASE cursor \notin Wakers
      <4>1. Wakers \ {cursor} = Wakers
        BY <3>2
      <4> QED BY <2>2, <4>1
    <3> QED BY <3>1, <3>2
  <2>5. \/ Cardinality(DueLeft') < Cardinality(DueLeft)
        \/ Cardinality(DueLeft') = Cardinality(DueLeft)
    <3>1. CASE cursor \in DueLeft
      BY <2>2, <2>3, <3>1, OneLess
    <3>2. CASE cursor \notin DueLeft
      <4>1. DueLeft \ {cursor} = DueLeft
        BY <3>2
      <4> QED BY <2>2, <4>1
    <3> QED BY <3>1, <3>2
  <2>6. LeftToDo' < LeftToDo \/ LeftToDo' = LeftToDo
    BY <1>2, <2>5 DEF LeftToDo
  <2>7. Turns' < Turns
    <3>1. Len(queue') = Len(queue) - 1
      BY <1>1, <2>1, RemoveFacts DEF TypeInv, QueueTypeOK
    <3> QED BY <1>1, <2>1, <3>1 DEF Turns
  <2> QED BY <1>2, <2>4, <2>6, <2>7 DEF Nearer
<1> QED BY <1>3, <1>4

\* When the handler of a CancelPending returns, its event has done its waking.
LEMMA CancelDoneNearer ==
    ASSUME ServiceInv, CancelDone, phase' # "undefined"
    PROVE  Nearer
<1>1. /\ phase = "cancelling" /\ phase' = "handled" /\ pe # 0 /\ pe' = pe /\ queue' = queue
  BY DEF CancelDone
<1>2. TypeInv /\ pe \in 1..Len(queue)
  BY <1>1 DEF ServiceInv, TypeInv, QueueTypeOK
<1>3. pe \in Wakers
  BY <1>1, <1>2 DEF ServiceInv, Wakers
<1>4. Wakers' = Wakers \ {pe}
  BY <1>1 DEF Wakers
<1>5. IsFiniteSet(Wakers)
  BY <1>2, CountsAreNatural
<1>6. Cardinality(Wakers') < Cardinality(Wakers)
  BY <1>3, <1>4, <1>5, OneLess
<1> QED BY <1>6 DEF Nearer

LEMMA ServedNearer ==
    ASSUME ServiceInv, Served \/ ServiceEventQueue
    PROVE  Nearer
<1>1. /\ TypeInv /\ phase \in {"handled", "thinking"} /\ phase' = "service"
      /\ waiting' = waiting /\ gone' = gone
  BY DEF Served, ServiceEventQueue, ServiceInv, relayVars
<1>2. Ready' = Ready /\ ~ FiresAway /\ ~ FiresAway' /\ Turns' < Turns
  BY <1>1 DEF Ready, FiresAway, Turns
<1>3. /\ Cardinality(Wakers') = Cardinality(Wakers)
      /\ Cardinality(DueLeft') = Cardinality(DueLeft)
  <2>1. CASE Served
    <3>1. pe \in 1..Len(queue) /\ pe' = 0 /\ queue' = RemoveAt(queue, pe) /\ phase = "handled"
      BY <1>1, <2>1 DEF Served, TypeInv, QueueTypeOK
    <3>2. /\ Cardinality(Wakers') = Cardinality(Wakers \ {pe})
          /\ Cardinality(DueLeft') = Cardinality(DueLeft \ {pe})
      BY <1>1, <3>1, RemoveCounts
    <3>3. Wakers \ {pe} = Wakers /\ DueLeft \ {pe} = DueLeft
      BY <3>1 DEF Wakers, DueLeft
    <3> QED BY <3>2, <3>3
  <2>2. CASE ServiceEventQueue
    <3>1. queue' = queue /\ pe' = pe /\ phase = "thinking"
      BY <2>2 DEF ServiceEventQueue
    <3>2. Wakers' = Wakers /\ DueLeft' = DueLeft
      BY <1>1, <3>1 DEF Wakers, DueLeft
    <3> QED BY <3>2
  <2> QED BY <2>1, <2>2
<1>4. LeftToDo' = LeftToDo
  BY <1>2, <1>3 DEF LeftToDo
<1> QED BY <1>2, <1>3, <1>4 DEF Nearer

LEMMA EveryStepNearer ==
    ASSUME Harmless, ServiceInv, TypeInv', Service, phase' \notin {"between", "undefined"}
    PROVE  Nearer
<1>1. CASE ServeNoOne
  <2>1. Due /\ pe' = 1 /\ queue' = queue /\ phase' = "handled" /\ Ready' = Ready
    BY <1>1 DEF ServeNoOne, relayVars, Ready
  <2> QED BY <2>1, HandledNearer
<1>2. ASSUME NEW r \in Relays, InputFlags(r) PROVE Nearer
  <2>1. /\ Due /\ pe' = 1 /\ queue' = queue /\ phase' = "handled" /\ gone' = gone
        /\ waiting' = waiting \/ queue[1].input = "EnableRefire"
    BY <1>2 DEF InputFlags, Serve
  <2>2. Ready' = Ready \/ queue[1].input = "EnableRefire"
    BY <2>1 DEF Ready
  <2> QED BY <2>1, <2>2, HandledNearer
<1>3. ASSUME NEW r \in Relays, IgnoreTrigger(r) \/ InputCancelPending(r) PROVE Nearer
  <2>1. /\ Due /\ pe' = 1 /\ queue' = queue /\ phase' \in {"handled", "cancelling"}
        /\ Ready' = Ready
    BY <1>3 DEF IgnoreTrigger, InputCancelPending, Serve, relayVars, Ready
  <2> QED BY <2>1, HandledNearer
<1>4. ASSUME NEW r \in Relays, InputTrigger(r) PROVE Nearer
  BY <1>4, TriggerNearer
<1>5. CASE FireOutput \/ SkipSpent
  BY <1>5, OutputNearer
<1>6. CASE FiredAndRemoved \/ FiredFast \/ FiredAndWaits
  BY <1>6, FiredNearer
<1>7. CASE CancelEvent \/ PassEvent
  BY <1>7, CancelNearer
<1>8. CASE CancelDone
  BY <1>8, CancelDoneNearer
<1>9. CASE Served \/ ServiceEventQueue
  BY <1>9, ServedNearer
<1>10. ~ ServiceDone
  BY DEF ServiceDone
<1> QED
  BY <1>1, <1>2, <1>3, <1>4, <1>5, <1>6, <1>7, <1>8, <1>9, <1>10 DEF Service

LEMMA MeasureNatural ==
    ASSUME Harmless, ServiceInv
    PROVE  MeasureIsNatural
<1>1. TypeInv
  BY DEF ServiceInv
<1>2. Cardinality(Wakers) \in Nat /\ Cardinality(DueLeft) \in Nat /\ Cardinality(Ready) \in Nat
  BY <1>1, CountsAreNatural, FinitelyReady DEF Harmless
<1>3. phase = "firing" => OutputsLeft \in Nat
  <2> SUFFICES ASSUME phase = "firing" PROVE OutputsLeft \in Nat
    OBVIOUS
  <2>1. self \in Relays /\ output \in Nat /\ output <= Len(OnTrigger[self]) + 1
    BY <1>1 DEF ServiceInv, TypeInv, QueueTypeOK
  <2>2. Len(OnTrigger[self]) \in Nat
    BY <2>1, RelaysAssumption
  <2> QED BY <2>1, <2>2 DEF OutputsLeft
<1>4. LeftToDo \in Nat
  BY <1>2, <1>3 DEF LeftToDo, FiresAway
<1>5. Turns \in Nat
  <2>1. CASE phase = "firing"
    BY <1>3, <2>1 DEF Turns
  <2>2. CASE phase = "cancelling"
    BY <1>1, <2>2 DEF Turns, ServiceInv, TypeInv, QueueTypeOK
  <2>3. CASE phase \notin {"firing", "cancelling"}
    BY <2>3 DEF Turns
  <2> QED BY <2>1, <2>2, <2>3
<1> QED BY <1>2, <1>4, <1>5 DEF MeasureIsNatural

\* ServiceEvents cannot go on for ever: every one of its steps, and of the
\* handlers it calls, ends the frame (or loses the server) or brings the measure
\* down, whose parts are natural numbers.
THEOREM ServiceGetsNearerCorrect ==
    ASSUME Harmless
    PROVE  QueueSpec => []MeasureIsNatural /\ ServiceGetsNearer
<1>1. ServiceInv => MeasureIsNatural
  BY MeasureNatural
<1>2. ServiceInv /\ [QueueNext]_queueVars =>
        [Service => phase' \in {"between", "undefined"} \/ Nearer]_queueVars
  <2>1. ServiceInv /\ [QueueNext]_queueVars => TypeInv'
    BY TypeStep DEF ServiceInv
  <2> QED BY <2>1, EveryStepNearer
<1> QED
  BY <1>1, <1>2, ServiceInit, ServiceStep, PTL DEF QueueSpec, ServiceGetsNearer
=============================================================================
