-------------------------- MODULE EventQueue_proofs --------------------------
(***************************************************************************)
(* What the queue of inputs and its relays guarantee for any relays, any   *)
(* connections between them, and any inputs from outside.                  *)
(***************************************************************************)
EXTENDS EventQueue, TLAPS



LEMMA InsertFacts ==
    ASSUME NEW q \in Seq(Event), NEW k \in 1..(Len(q) + 1), NEW e \in Event
    PROVE  /\ InsertAt(q, k, e) \in Seq(Event)
           /\ Len(InsertAt(q, k, e)) = Len(q) + 1
           /\ InsertAt(q, k, e)[k] = e
           /\ \A i \in 1..(Len(q) + 1) : i < k => InsertAt(q, k, e)[i] = q[i]
           /\ \A i \in 1..(Len(q) + 1) : i > k => InsertAt(q, k, e)[i] = q[i - 1]
<1>1. \A i \in 1..(Len(q) + 1) :
        (IF i < k THEN q[i] ELSE IF i = k THEN e ELSE q[i - 1]) \in Event
  OBVIOUS
<1> QED
  BY <1>1 DEF InsertAt

LEMMA LaterFacts ==
    ASSUME NEW e \in Event, NEW t \in Int
    PROVE  [e EXCEPT !.left = t] \in Event
BY DEF Event

LEMMA RenumberFacts ==
    ASSUME NEW e \in Event, NEW s \in Nat \ {0}
    PROVE  /\ Renumber(e, s) \in Event
           /\ Renumber(e, s).stamp = IF e.stamp > s THEN e.stamp - 1 ELSE e.stamp
           /\ Renumber(e, s).left = e.left /\ Renumber(e, s).target = e.target
           /\ Renumber(e, s).input = e.input /\ Renumber(e, s).caller = e.caller
           /\ Renumber(e, s).output = e.output
<1>1. e.stamp > s => [e EXCEPT !.stamp = e.stamp - 1] \in Event
  BY DEF Event
<1>2. Renumber(e, s) \in Event
  BY <1>1 DEF Renumber
<1>3. Renumber(e, s).stamp = IF e.stamp > s THEN e.stamp - 1 ELSE e.stamp
  BY DEF Renumber, Event
<1>4. /\ Renumber(e, s).left = e.left /\ Renumber(e, s).target = e.target
      /\ Renumber(e, s).input = e.input /\ Renumber(e, s).caller = e.caller
      /\ Renumber(e, s).output = e.output
  BY DEF Renumber, Event
<1> QED
  BY <1>2, <1>3, <1>4

\* Where the event at place i came from when the one at k was removed.
From(i, k) == IF i < k THEN i ELSE i + 1

LEMMA RemoveFacts ==
    ASSUME NEW q \in Seq(Event), NEW k \in 1..Len(q)
    PROVE  /\ RemoveAt(q, k) \in Seq(Event)
           /\ Len(RemoveAt(q, k)) = Len(q) - 1
           /\ \A i \in 1..(Len(q) - 1) :
                 /\ From(i, k) \in 1..Len(q) /\ From(i, k) # k
                 /\ RemoveAt(q, k)[i] = Renumber(q[From(i, k)], q[k].stamp)
<1>1. q[k].stamp \in Nat \ {0}
  <2>1. q[k] \in Event
    OBVIOUS
  <2> QED
    BY <2>1 DEF Event
<1>2. \A i \in 1..(Len(q) - 1) : From(i, k) \in 1..Len(q) /\ From(i, k) # k
  BY DEF From
<1>3. RemoveAt(q, k) =
        [i \in 1..(Len(q) - 1) |-> Renumber(q[From(i, k)], q[k].stamp)]
  BY DEF RemoveAt, From
<1>4. \A i \in 1..(Len(q) - 1) : Renumber(q[From(i, k)], q[k].stamp) \in Event
  <2> TAKE i \in 1..(Len(q) - 1)
  <2>1. q[From(i, k)] \in Event
    BY <1>2
  <2> QED
    BY <1>1, <2>1, RenumberFacts
<1> QED
  BY <1>2, <1>3, <1>4

LEMMA AheadFacts ==
    ASSUME NEW q \in Seq(Event), NEW d \in Nat
    PROVE  /\ Ahead(q, d) \in Seq(Event)
           /\ Len(Ahead(q, d)) = Len(q)
           /\ \A i \in 1..Len(q) : Ahead(q, d)[i] = [q[i] EXCEPT !.left = @ - d]
<1>1. \A i \in 1..Len(q) : [q[i] EXCEPT !.left = @ - d] \in Event
  <2> TAKE i \in 1..Len(q)
  <2>1. q[i] \in Event
    OBVIOUS
  <2>2. q[i].left - d \in Int
    BY <2>1 DEF Event
  <2> QED
    BY <2>1, <2>2, LaterFacts
<1> QED
  BY <1>1 DEF Ahead
-----------------------------------------------------------------------------
\* Types, and where the loops are.
TypeInv == /\ QueueTypeOK
           /\ phase = "cancelling" => cursor >= 1
           /\ phase = "firing" => output >= 1

Targets == Relays \cup {NoOne}

\* What AddEvent does to the queue: the new event is at place k.
Added(k, t, i, d, c, o) ==
    /\ Place(queue, d, k)
    /\ NewEvent(queue, t, i, d, c, o) \in Event
    /\ pe' = IF pe >= k THEN pe + 1 ELSE pe
    /\ queue' \in Seq(Event) /\ Len(queue') = Len(queue) + 1
    /\ queue'[k] = NewEvent(queue, t, i, d, c, o)
    /\ \A j \in 1..(Len(queue) + 1) : j < k => queue'[j] = queue[j]
    /\ \A j \in 1..(Len(queue) + 1) : j > k => queue'[j] = queue[j - 1]

LEMMA AddFacts ==
    ASSUME TypeInv, NEW t \in Targets, NEW i \in Inputs \cup {"EnableRefire"},
           NEW d \in Int, NEW c \in Targets, NEW o \in Nat, AddEvent(t, i, d, c, o)
    PROVE  \E k \in 1..(Len(queue) + 1) : Added(k, t, i, d, c, o)
<1>1. PICK k \in 1..(Len(queue) + 1) :
        /\ Place(queue, d, k)
        /\ queue' = InsertAt(queue, k, NewEvent(queue, t, i, d, c, o))
        /\ pe' = IF pe >= k THEN pe + 1 ELSE pe
  BY DEF AddEvent
<1>2. queue \in Seq(Event)
  BY DEF TypeInv, QueueTypeOK
<1>3. NewEvent(queue, t, i, d, c, o) \in Event
  BY <1>2 DEF NewEvent, Event, Targets
<1>4. Added(k, t, i, d, c, o)
  BY ZenonT(60), <1>1, <1>2, <1>3, InsertFacts DEF Added
<1> QED
  BY <1>4

\* The queue has the events it had and the new one.
LEMMA AddElements ==
    ASSUME TypeInv, NEW t \in Targets, NEW i \in Inputs \cup {"EnableRefire"},
           NEW d \in Int, NEW c \in Targets, NEW o \in Nat, AddEvent(t, i, d, c, o)
    PROVE  /\ \A j \in 1..Len(queue') :
                 \/ queue'[j] = NewEvent(queue, t, i, d, c, o)
                 \/ \E x \in 1..Len(queue) : queue'[j] = queue[x]
           /\ \A x \in 1..Len(queue) : \E j \in 1..Len(queue') : queue'[j] = queue[x]
           /\ \E j \in 1..Len(queue') : queue'[j] = NewEvent(queue, t, i, d, c, o)
<1>1. PICK k \in 1..(Len(queue) + 1) : Added(k, t, i, d, c, o)
  BY AddFacts
<1>2. Len(queue') = Len(queue) + 1 /\ Len(queue) \in Nat
  BY <1>1 DEF Added, TypeInv, QueueTypeOK
<1>3. /\ queue'[k] = NewEvent(queue, t, i, d, c, o)
      /\ \A j \in 1..(Len(queue) + 1) : j < k => queue'[j] = queue[j]
      /\ \A j \in 1..(Len(queue) + 1) : j > k => queue'[j] = queue[j - 1]
  BY <1>1 DEF Added
<1>4. ASSUME NEW j \in 1..Len(queue')
      PROVE  \/ queue'[j] = NewEvent(queue, t, i, d, c, o)
             \/ \E x \in 1..Len(queue) : queue'[j] = queue[x]
  <2>1. CASE j < k
    BY <1>2, <1>3, <2>1
  <2>2. CASE j > k
    <3>1. j - 1 \in 1..Len(queue) /\ queue'[j] = queue[j - 1]
      BY <1>2, <1>3, <2>2
    <3> QED
      BY <3>1
  <2> QED
    BY <1>2, <1>3, <2>1, <2>2
<1>5. ASSUME NEW x \in 1..Len(queue)
      PROVE  \E j \in 1..Len(queue') : queue'[j] = queue[x]
  <2>1. CASE x < k
    BY <1>2, <1>3, <2>1
  <2>2. CASE x >= k
    <3>1. x + 1 \in 1..(Len(queue) + 1) /\ x + 1 > k /\ (x + 1) - 1 = x
      BY <1>2, <2>2
    <3>2. queue'[x + 1] = queue[x]
      BY <1>3, <3>1
    <3> QED
      BY <1>2, <3>1, <3>2
  <2> QED
    BY <1>2, <2>1, <2>2
<1> QED
  BY <1>2, <1>3, <1>4, <1>5

LEMMA AddTypes ==
    ASSUME TypeInv, NEW t \in Targets, NEW i \in Inputs \cup {"EnableRefire"},
           NEW d \in Int, NEW c \in Targets, NEW o \in Nat, AddEvent(t, i, d, c, o)
    PROVE  /\ queue' \in Seq(Event) /\ Len(queue') = Len(queue) + 1
           /\ pe' \in 0..Len(queue') /\ (pe = 0 <=> pe' = 0)
<1>1. PICK k \in 1..(Len(queue) + 1) : Added(k, t, i, d, c, o)
  BY AddFacts
<1> QED
  BY <1>1 DEF TypeInv, QueueTypeOK, Added

LEMMA SavedFacts ==
    ASSUME NEW q \in Seq(Event), NEW i \in 1..Len(q)
    PROVE  /\ [q[i] EXCEPT !.left = SavedTime(@)] \in Event
           /\ q[i].left \in Int
<1>1. q[i] \in Event
  OBVIOUS
<1>2. q[i].left \in Int /\ SavedTime(q[i].left) \in Int
  BY <1>1 DEF Event, SavedTime
<1> QED
  BY <1>1, <1>2, LaterFacts

\* The connection that is being posted is one of the relay's.
LEMMA ConnectionFacts ==
    ASSUME TypeInv, Firing
    PROVE  /\ OnTrigger[self][output] \in Connection
           /\ OnTrigger[self][output].target \in Targets
           /\ OnTrigger[self][output].input \in Inputs
           /\ OnTrigger[self][output].delay \in Nat
           /\ self \in Targets /\ self \in Relays /\ output \in Nat
<1>1. self \in Relays /\ OnTrigger[self] \in Seq(Connection)
  BY RelaysAssumption DEF TypeInv, QueueTypeOK, Firing
<1>2. output \in 1..Len(OnTrigger[self])
  BY <1>1 DEF TypeInv, QueueTypeOK, Firing
<1>3. OnTrigger[self][output] \in Connection
  BY <1>1, <1>2
<1> QED
  BY <1>1, <1>2, <1>3 DEF Connection, Targets

LEMMA TypeInit == QueueInit => TypeInv
BY DEF QueueInit, TypeInv, QueueTypeOK

LEMMA TypeStep == TypeInv /\ [QueueNext]_queueVars => TypeInv'
<1> SUFFICES ASSUME TypeInv, [QueueNext]_queueVars PROVE TypeInv'
  OBVIOUS
<1> USE DEF TypeInv, QueueTypeOK
<1>0. Len(queue) \in Nat /\ (queue # <<>> <=> Len(queue) > 0)
  OBVIOUS
<1>1. ASSUME NEW p \in Posts, Post(p) PROVE TypeInv'
  <2>1. p.target \in Targets /\ p.input \in Inputs /\ p.delay \in Int
    BY RelaysAssumption DEF Connection, Targets
  <2>2. AddEvent(p.target, p.input, p.delay, NoOne, 0) /\ NoOne \in Targets
    BY <1>1 DEF Post, Targets
  <2>3. queue' \in Seq(Event) /\ pe' \in 0..Len(queue') /\ (pe = 0 <=> pe' = 0)
    BY <2>1, <2>2, AddTypes
  <2> QED
    BY <1>1, <2>3 DEF Post, relayVars
<1>2. ASSUME NEW d \in 1..MaxFrame, Frame(d) PROVE TypeInv'
  <2>1. d \in Nat
    BY DelaysAssumption
  <2>2. queue' \in Seq(Event)
    BY <1>2, <2>1, AheadFacts DEF Frame
  <2> QED
    BY <1>2, <2>2 DEF Frame, relayVars
<1>3. CASE ServiceEventQueue \/ ServiceDone
  BY <1>3 DEF ServiceEventQueue, ServiceDone, relayVars
<1>4. CASE ServeNoOne
  BY <1>0, <1>4 DEF ServeNoOne, Due, relayVars
<1>5. ASSUME NEW r \in Relays, InputFlags(r) PROVE TypeInv'
  BY <1>0, <1>5 DEF InputFlags, Serve, Due
<1>6. ASSUME NEW r \in Relays, IgnoreTrigger(r) \/ InputTrigger(r) \/ InputCancelPending(r)
      PROVE TypeInv'
  BY <1>0, <1>6 DEF IgnoreTrigger, InputTrigger, InputCancelPending, Serve, Due, relayVars
<1>7. CASE FireOutput
  <2> DEFINE c == OnTrigger[self][output]
  <2>1. Firing /\ AddEvent(c.target, c.input, c.delay, self, output)
    BY <1>7 DEF FireOutput
  <2>2. /\ c.target \in Targets /\ c.input \in Inputs /\ c.delay \in Nat
        /\ self \in Targets /\ self \in Relays /\ output \in Nat
    BY <2>1, ConnectionFacts
  <2>3. queue' \in Seq(Event) /\ pe' \in 0..Len(queue') /\ (pe = 0 <=> pe' = 0)
    BY <2>1, <2>2, AddTypes
  <2>4. longest' \in Nat
    BY <1>7, <2>2 DEF FireOutput
  <2>5. spent' \subseteq Relays \X Nat
    BY <1>7, <2>2 DEF FireOutput
  <2> QED
    BY <1>7, <2>3, <2>4, <2>5 DEF FireOutput
<1>8. CASE SkipSpent \/ FiredAndRemoved \/ FiredFast
  BY <1>8 DEF SkipSpent, Firing, FiredAndRemoved, FiredFast, Fired, relayVars
<1>9. CASE FiredAndWaits
  <2>1. /\ self \in Relays /\ self \in Targets /\ RefireDelay \in Nat
        /\ AddEvent(self, "EnableRefire", RefireDelay, self, 0)
    BY <1>9, DelaysAssumption DEF FiredAndWaits, Fired, Targets, RefireDelay
  <2>2. queue' \in Seq(Event) /\ pe' \in 0..Len(queue') /\ (pe = 0 <=> pe' = 0)
    BY <2>1, AddTypes
  <2> QED
    BY <1>9, <2>1, <2>2 DEF FiredAndWaits, Fired
<1>10. CASE CancelEvent
  <2>1. cursor \in 1..Len(queue)
    BY <1>10 DEF CancelEvent, Cancelling
  <2>2. queue' \in Seq(Event) /\ Len(queue') = Len(queue) - 1
    BY <1>10, <2>1, RemoveFacts DEF CancelEvent
  <2> QED
    BY <1>10, <2>1, <2>2 DEF CancelEvent, Cancelling, relayVars
<1>11. CASE PassEvent \/ CancelDone \/ Unnoticed
  BY <1>11 DEF PassEvent, Cancelling, CancelDone, Unnoticed, relayVars
<1>12. CASE Served
  <2>1. pe \in 1..Len(queue)
    BY <1>12 DEF Served
  <2>2. queue' \in Seq(Event)
    BY <1>12, <2>1, RemoveFacts DEF Served
  <2> QED
    BY <1>12, <2>2 DEF Served, relayVars
<1>13. CASE SaveAndClear
  <2>1. saved' \in Seq(Event)
    BY <1>13, SavedFacts DEF SaveAndClear
  <2> QED
    BY <1>13, <2>1 DEF SaveAndClear, relayVars
<1>14. CASE RestoreEvent
  <2>1. saved[1] \in Event /\ saved' \in Seq(Event)
    BY <1>14 DEF RestoreEvent
  <2>2. /\ saved[1].target \in Targets /\ saved[1].input \in Inputs \cup {"EnableRefire"}
        /\ saved[1].left \in Int /\ saved[1].caller \in Targets /\ saved[1].output \in Nat
    BY <2>1 DEF Event, Targets
  <2>3. queue' \in Seq(Event) /\ pe' \in 0..Len(queue') /\ (pe = 0 <=> pe' = 0)
    BY <1>14, <2>2, AddTypes DEF RestoreEvent
  <2> QED
    BY <1>14, <2>1, <2>3 DEF RestoreEvent, relayVars
<1>15. CASE RestoreDone \/ ClearQueue
  BY <1>15 DEF RestoreDone, ClearQueue, relayVars
<1>16. CASE UNCHANGED queueVars
  BY <1>16 DEF queueVars, serviceVars, relayVars
<1> QED
  BY <1>1, <1>2, <1>3, <1>4, <1>5, <1>6, <1>7, <1>8, <1>9, <1>10, <1>11, <1>12,
     <1>13, <1>14, <1>15, <1>16 DEF QueueNext, Service, Restore

\* Every variable holds a value of its type, and an event is being served
\* exactly while a handler runs that has not deleted it.
THEOREM QueueTypeCorrect == QueueSpec => []QueueTypeOK
<1>1. TypeInv => QueueTypeOK
  BY DEF TypeInv
<1> QED
  BY <1>1, TypeInit, TypeStep, PTL DEF QueueSpec
-----------------------------------------------------------------------------
\* Two events that differ at most in their rank.
Alike(e, f) == /\ e.left = f.left /\ e.target = f.target /\ e.input = f.input
               /\ e.caller = f.caller /\ e.output = f.output

\* The list is in order, every event has a rank of its own, and the event that
\* is being served is its head, which is due.
Ranked(q) == /\ \A i \in 1..Len(q) : q[i].stamp <= Len(q)
             /\ \A i, j \in 1..Len(q) : i # j => q[i].stamp # q[j].stamp
NoneOverdue(q) == \A i \in 1..Len(q) : q[i].left >= 0
OrderInv == /\ TypeInv
            /\ Ordered(queue) /\ Ranked(queue)
            /\ pe \in {0, 1}
            /\ pe = 1 => queue[1].left <= 0
            /\ phase \in {"between", "restoring"} => NoneOverdue(queue)
            /\ NoneOverdue(saved)

LEMMA EventFacts ==
    ASSUME NEW q \in Seq(Event), NEW i \in 1..Len(q)
    PROVE  /\ q[i] \in Event /\ q[i].left \in Int /\ q[i].stamp \in Nat \ {0}
           /\ q[i].output \in Nat
<1>1. q[i] \in Event
  OBVIOUS
<1> QED
  BY <1>1 DEF Event

\* An event that is not overdue finds its place behind the one being served.
LEMMA AddOrder ==
    ASSUME OrderInv, NEW t \in Targets, NEW i \in Inputs \cup {"EnableRefire"},
           NEW d \in Nat, NEW c \in Targets, NEW o \in Nat, AddEvent(t, i, d, c, o)
    PROVE  /\ Ordered(queue') /\ Ranked(queue') /\ pe' = pe
           /\ pe = 1 => queue'[1] = queue[1]
<1>0. TypeInv /\ d \in Int
  BY DEF OrderInv
<1>a. PICK k \in 1..(Len(queue) + 1) : Added(k, t, i, d, c, o)
  BY <1>0, AddFacts
<1>1. /\ Place(queue, d, k)
      /\ pe' = IF pe >= k THEN pe + 1 ELSE pe
      /\ queue' \in Seq(Event) /\ Len(queue') = Len(queue) + 1
      /\ queue'[k] = NewEvent(queue, t, i, d, c, o)
      /\ \A j \in 1..(Len(queue) + 1) : j < k => queue'[j] = queue[j]
      /\ \A j \in 1..(Len(queue) + 1) : j > k => queue'[j] = queue[j - 1]
  BY <1>a DEF Added
<1>2. queue \in Seq(Event) /\ Len(queue) \in Nat
  BY DEF OrderInv, TypeInv, QueueTypeOK
<1>3. queue'[k].left = d /\ queue'[k].stamp = Len(queue) + 1
  BY <1>1 DEF NewEvent
<1>4. \A j \in 1..Len(queue) : /\ queue[j].left \in Int /\ queue[j].stamp \in Nat
                               /\ queue[j].stamp <= Len(queue)
  BY <1>2, EventFacts DEF OrderInv, Ranked
<1>5. Ordered(queue')
  <2> SUFFICES ASSUME NEW x \in 1..Len(queue'), NEW y \in 1..Len(queue'), x < y
               PROVE  Before(queue'[x], queue'[y])
    BY DEF Ordered
  <2>1. CASE y < k
    <3>1. /\ queue'[x] = queue[x] /\ queue'[y] = queue[y]
          /\ x \in 1..Len(queue) /\ y \in 1..Len(queue)
      BY <1>1, <1>2, <2>1
    <3> QED
      BY <3>1 DEF OrderInv, Ordered
  <2>2. CASE y = k
    BY <1>1, <1>2, <1>3, <1>4, <2>2 DEF Place, Before
  <2>3. CASE y > k /\ x < k
    <3>1. /\ queue'[x] = queue[x] /\ queue'[y] = queue[y - 1]
          /\ x \in 1..Len(queue) /\ y - 1 \in 1..Len(queue) /\ x < y - 1
      BY <1>1, <1>2, <2>3
    <3> QED
      BY <3>1 DEF OrderInv, Ordered
  <2>4. CASE y > k /\ x = k
    <3>1. queue'[y] = queue[y - 1] /\ y - 1 \in 1..Len(queue) /\ k <= Len(queue)
      BY <1>1, <1>2, <2>4
    <3>2. queue[k].left > d
      BY <1>1, <3>1 DEF Place
    <3>3. y - 1 = k \/ Before(queue[k], queue[y - 1])
      BY <1>1, <1>2, <2>4, <3>1 DEF OrderInv, Ordered
    <3>4. queue[y - 1].left > d
      BY <1>4, <3>1, <3>2, <3>3 DEF Before
    <3> QED
      BY <1>3, <2>4, <3>1, <3>4 DEF Before
  <2>5. CASE x > k
    <3>1. /\ queue'[x] = queue[x - 1] /\ queue'[y] = queue[y - 1]
          /\ x - 1 \in 1..Len(queue) /\ y - 1 \in 1..Len(queue) /\ x - 1 < y - 1
      <4>1. y > k /\ x > k /\ x \in 1..(Len(queue) + 1) /\ y \in 1..(Len(queue) + 1)
        BY <1>1, <1>2, <2>5
      <4>2. queue'[x] = queue[x - 1] /\ queue'[y] = queue[y - 1]
        BY <1>1, <4>1
      <4> QED
        BY <1>2, <4>1, <4>2
    <3> QED
      BY <3>1 DEF OrderInv, Ordered
  <2> QED
    BY <1>1, <1>2, <2>1, <2>2, <2>3, <2>4, <2>5
<1>6. Ranked(queue')
  <2> SUFFICES ASSUME NEW x \in 1..Len(queue'), NEW y \in 1..Len(queue')
               PROVE  /\ queue'[x].stamp <= Len(queue')
                      /\ x # y => queue'[x].stamp # queue'[y].stamp
    BY DEF Ranked
  <2> DEFINE Old(z) == IF z < k THEN z ELSE z - 1
  <2>1. \A z \in 1..Len(queue') :
           z # k => Old(z) \in 1..Len(queue) /\ queue'[z] = queue[Old(z)]
    BY <1>1, <1>2
  <2>2. x # y /\ x # k /\ y # k => Old(x) # Old(y)
    BY <1>1, <1>2
  <2> HIDE DEF Old
  <2>3. \A z \in 1..Len(queue') :
           z # k => queue'[z].stamp \in Nat /\ queue'[z].stamp <= Len(queue)
    BY <1>4, <2>1
  <2>4. x # y /\ x # k /\ y # k => queue'[x].stamp # queue'[y].stamp
    BY SMTT(30), <2>1, <2>2 DEF OrderInv, Ranked
  <2> QED
    BY <1>1, <1>2, <1>3, <2>3, <2>4
<1>7. pe' = pe
  <2>1. CASE pe = 0
    BY <1>1, <2>1
  <2>2. CASE pe = 1
    <3>1. 1 \in 1..Len(queue) /\ queue[1].left <= d
      BY <1>2, <1>4, <2>2 DEF OrderInv, TypeInv, QueueTypeOK
    <3>2. k # 1
      BY <1>1, <1>4, <3>1 DEF Place
    <3> QED
      BY <1>1, <2>2, <3>2
  <2> QED
    BY <2>1, <2>2 DEF OrderInv
<1>8. pe = 1 => queue'[1] = queue[1]
  BY <1>1, <1>2, <1>7
<1> QED
  BY <1>5, <1>6, <1>7, <1>8

LEMMA AddNoneOverdue ==
    ASSUME OrderInv, NEW t \in Targets, NEW i \in Inputs \cup {"EnableRefire"},
           NEW d \in Nat, NEW c \in Targets, NEW o \in Nat, AddEvent(t, i, d, c, o),
           NoneOverdue(queue)
    PROVE  NoneOverdue(queue')
<1>1. TypeInv /\ d \in Int
  BY DEF OrderInv
<1>2. NewEvent(queue, t, i, d, c, o).left = d
  BY DEF NewEvent
<1>3. \A j \in 1..Len(queue') : \/ queue'[j] = NewEvent(queue, t, i, d, c, o)
                                \/ \E x \in 1..Len(queue) : queue'[j] = queue[x]
  BY <1>1, AddElements
<1> QED
  BY <1>2, <1>3 DEF NoneOverdue

\* What removal does to the events that stay.
LEMMA RemoveElements ==
    ASSUME NEW q \in Seq(Event), NEW k \in 1..Len(q), Ranked(q)
    PROVE  /\ \A i \in 1..Len(RemoveAt(q, k)) :
                 /\ From(i, k) \in 1..Len(q) /\ From(i, k) # k
                 /\ Alike(RemoveAt(q, k)[i], q[From(i, k)])
           /\ \A i, j \in 1..Len(RemoveAt(q, k)) :
                 q[From(i, k)].stamp < q[From(j, k)].stamp
                    => RemoveAt(q, k)[i].stamp < RemoveAt(q, k)[j].stamp
           /\ \A x \in 1..Len(q) : x # k =>
                 \E i \in 1..Len(RemoveAt(q, k)) : From(i, k) = x
<1> DEFINE r == RemoveAt(q, k)
           s == q[k].stamp
<1>1. /\ r \in Seq(Event) /\ Len(r) = Len(q) - 1 /\ Len(q) \in Nat
      /\ \A i \in 1..(Len(q) - 1) : /\ From(i, k) \in 1..Len(q) /\ From(i, k) # k
                                    /\ r[i] = Renumber(q[From(i, k)], s)
  BY RemoveFacts
<1>2. s \in Nat \ {0}
  BY EventFacts
<1>3. ASSUME NEW i \in 1..Len(r)
      PROVE  /\ From(i, k) \in 1..Len(q) /\ From(i, k) # k
             /\ Alike(r[i], q[From(i, k)])
             /\ q[From(i, k)].stamp \in Nat /\ q[From(i, k)].stamp # s
             /\ r[i].stamp = IF q[From(i, k)].stamp > s THEN q[From(i, k)].stamp - 1
                             ELSE q[From(i, k)].stamp
  <2> DEFINE f == q[From(i, k)]
             g == r[i]
  <2>1. From(i, k) \in 1..Len(q) /\ From(i, k) # k /\ g = Renumber(f, s)
    BY <1>1
  <2>2. f \in Event /\ f.stamp \in Nat /\ f.stamp # s
    BY <2>1, EventFacts DEF Ranked
  <2> HIDE DEF r, s, f, g
  <2>3. Alike(g, f) /\ g.stamp = IF f.stamp > s THEN f.stamp - 1 ELSE f.stamp
    BY <1>2, <2>1, <2>2, RenumberFacts DEF Alike
  <2> QED
    BY <2>1, <2>2, <2>3 DEF f, g
<1>4. ASSUME NEW i \in 1..Len(r), NEW j \in 1..Len(r),
             q[From(i, k)].stamp < q[From(j, k)].stamp
      PROVE  r[i].stamp < r[j].stamp
  <2> HIDE DEF r, s
  <2>1. /\ q[From(i, k)].stamp \in Nat /\ q[From(i, k)].stamp # s
        /\ r[i].stamp = IF q[From(i, k)].stamp > s THEN q[From(i, k)].stamp - 1
                        ELSE q[From(i, k)].stamp
    BY <1>3
  <2>2. /\ q[From(j, k)].stamp \in Nat /\ q[From(j, k)].stamp # s
        /\ r[j].stamp = IF q[From(j, k)].stamp > s THEN q[From(j, k)].stamp - 1
                        ELSE q[From(j, k)].stamp
    BY <1>3
  <2> QED
    BY SMTT(30), <1>2, <1>4, <2>1, <2>2
<1>5. ASSUME NEW x \in 1..Len(q), x # k
      PROVE  \E i \in 1..Len(r) : From(i, k) = x
  <2>1. CASE x < k
    BY <1>1, <2>1 DEF From
  <2>2. CASE x > k
    <3>1. x - 1 \in 1..Len(r) /\ From(x - 1, k) = x
      BY <1>1, <2>2 DEF From
    <3> QED
      BY <3>1
  <2> QED
    BY <1>5, <2>1, <2>2
<1> QED
  BY <1>3, <1>4, <1>5

LEMMA RemoveOrder ==
    ASSUME NEW q \in Seq(Event), NEW k \in 1..Len(q), Ordered(q), Ranked(q)
    PROVE  /\ Ordered(RemoveAt(q, k)) /\ Ranked(RemoveAt(q, k))
           /\ k # 1 => RemoveAt(q, k)[1].left = q[1].left
<1> DEFINE r == RemoveAt(q, k)
           s == q[k].stamp
<1>1. /\ r \in Seq(Event) /\ Len(r) = Len(q) - 1 /\ Len(q) \in Nat
      /\ \A i \in 1..(Len(q) - 1) : /\ From(i, k) \in 1..Len(q) /\ From(i, k) # k
                                    /\ r[i] = Renumber(q[From(i, k)], s)
  BY RemoveFacts
<1>2. s \in Nat \ {0} /\ s <= Len(q)
  BY EventFacts DEF Ranked
<1>3. \A i \in 1..Len(r) :
        /\ q[From(i, k)].left \in Int /\ q[From(i, k)].stamp \in Nat
        /\ q[From(i, k)].stamp # s /\ q[From(i, k)].stamp <= Len(q)
        /\ r[i].left = q[From(i, k)].left
        /\ r[i].stamp = IF q[From(i, k)].stamp > s THEN q[From(i, k)].stamp - 1
                        ELSE q[From(i, k)].stamp
  <2> TAKE i \in 1..Len(r)
  <2>1. From(i, k) \in 1..Len(q) /\ From(i, k) # k /\ r[i] = Renumber(q[From(i, k)], s)
    BY <1>1
  <2>2. q[From(i, k)] \in Event /\ q[From(i, k)].left \in Int /\ q[From(i, k)].stamp \in Nat
    BY <2>1, EventFacts
  <2>3. q[From(i, k)].stamp # s /\ q[From(i, k)].stamp <= Len(q)
    BY <2>1 DEF Ranked
  <2>4. /\ r[i].left = q[From(i, k)].left
        /\ r[i].stamp = IF q[From(i, k)].stamp > s THEN q[From(i, k)].stamp - 1
                        ELSE q[From(i, k)].stamp
    <3> DEFINE f == q[From(i, k)]
               g == r[i]
    <3>1. f \in Event /\ s \in Nat \ {0} /\ g = Renumber(f, s)
      BY <1>2, <2>1, <2>2
    <3> HIDE DEF r, s, f, g
    <3>2. g.left = f.left /\ g.stamp = IF f.stamp > s THEN f.stamp - 1 ELSE f.stamp
      BY <3>1, RenumberFacts
    <3> QED
      BY <3>2 DEF f, g
  <2> QED
    BY <2>2, <2>3, <2>4
<1>4. \A i, j \in 1..Len(r) : i < j => From(i, k) < From(j, k)
  BY <1>1 DEF From
<1>5. \A i, j \in 1..Len(r) : i # j => From(i, k) # From(j, k)
  BY <1>1 DEF From
<1> HIDE DEF r, s
<1>6. Ordered(r)
  <2> SUFFICES ASSUME NEW x \in 1..Len(r), NEW y \in 1..Len(r), x < y
               PROVE  Before(r[x], r[y])
    BY DEF Ordered
  <2>1. Before(q[From(x, k)], q[From(y, k)])
    BY <1>1, <1>4 DEF Ordered
  <2> QED
    BY SMTT(30), <1>2, <1>3, <2>1 DEF Before
<1>7. Ranked(r)
  <2>0. Len(r) = Len(q) - 1 /\ Len(q) \in Nat
    BY <1>1
  <2>1. ASSUME NEW x \in 1..Len(r) PROVE r[x].stamp <= Len(r)
    <3>1. /\ q[From(x, k)].stamp \in Nat
          /\ q[From(x, k)].stamp # s /\ q[From(x, k)].stamp <= Len(q)
          /\ r[x].stamp = IF q[From(x, k)].stamp > s THEN q[From(x, k)].stamp - 1
                          ELSE q[From(x, k)].stamp
      BY <1>3
    <3> QED
      BY <1>2, <2>0, <3>1
  <2>2. ASSUME NEW x \in 1..Len(r), NEW y \in 1..Len(r), x # y
        PROVE  r[x].stamp # r[y].stamp
    <3>1. q[From(x, k)].stamp # q[From(y, k)].stamp
      BY <1>1, <1>5, <2>2 DEF Ranked
    <3>2. /\ q[From(x, k)].stamp \in Nat /\ q[From(y, k)].stamp \in Nat
          /\ q[From(x, k)].stamp # s /\ q[From(y, k)].stamp # s
          /\ r[x].stamp = IF q[From(x, k)].stamp > s THEN q[From(x, k)].stamp - 1
                          ELSE q[From(x, k)].stamp
          /\ r[y].stamp = IF q[From(y, k)].stamp > s THEN q[From(y, k)].stamp - 1
                          ELSE q[From(y, k)].stamp
      BY <1>3
    <3> QED
      BY SMTT(30), <1>2, <3>1, <3>2
  <2> QED
    BY <2>1, <2>2 DEF Ranked
<1>8. k # 1 => r[1].left = q[1].left
  <2>1. k # 1 => 1 \in 1..Len(r) /\ From(1, k) = 1
    BY <1>1 DEF From
  <2> QED
    BY <1>3, <2>1
<1> QED
  BY <1>6, <1>7, <1>8 DEF r

LEMMA OrderInit == QueueInit => OrderInv
<1> SUFFICES ASSUME QueueInit PROVE OrderInv
  OBVIOUS
<1>1. TypeInv /\ Len(queue) = 0 /\ Len(saved) = 0 /\ pe = 0
  BY TypeInit DEF QueueInit
<1> QED
  BY <1>1 DEF OrderInv, Ordered, Ranked, NoneOverdue

LEMMA OrderStep == OrderInv /\ [QueueNext]_queueVars => OrderInv'
<1> SUFFICES ASSUME OrderInv, [QueueNext]_queueVars PROVE OrderInv'
  OBVIOUS
<1>a. TypeInv /\ TypeInv'
  BY TypeStep DEF OrderInv
<1>b. queue \in Seq(Event) /\ saved \in Seq(Event) /\ Len(queue) \in Nat
  BY <1>a DEF TypeInv, QueueTypeOK
<1>c. (saved' = saved) => NoneOverdue(saved')
  BY DEF OrderInv
<1>1. ASSUME NEW p \in Posts, Post(p) PROVE OrderInv'
  <2>1. /\ p.target \in Targets /\ p.input \in Inputs /\ p.delay \in Nat
        /\ NoOne \in Targets
    BY RelaysAssumption DEF Connection, Targets
  <2>2. AddEvent(p.target, p.input, p.delay, NoOne, 0) /\ phase' = phase /\ saved' = saved
    BY <1>1 DEF Post
  <2>3. Ordered(queue') /\ Ranked(queue') /\ pe' = pe /\ (pe = 1 => queue'[1] = queue[1])
    BY <2>1, <2>2, AddOrder
  <2>4. NoneOverdue(queue) => NoneOverdue(queue')
    BY <2>1, <2>2, AddNoneOverdue
  <2> QED
    BY <1>a, <2>2, <2>3, <2>4 DEF OrderInv, NoneOverdue
<1>2. ASSUME NEW d \in 1..MaxFrame, Frame(d) PROVE OrderInv'
  <2>1. /\ d \in Nat /\ queue' = Ahead(queue, d) /\ pe = 0 /\ pe' = 0 /\ saved' = saved
        /\ phase' = "thinking"
    BY <1>2, <1>a, DelaysAssumption DEF Frame, TypeInv, QueueTypeOK
  <2>2. Len(queue') = Len(queue) /\ \A i \in 1..Len(queue) :
           /\ queue'[i].left = queue[i].left - d /\ queue'[i].stamp = queue[i].stamp
           /\ queue[i].left \in Int
    <3>1. Len(queue') = Len(queue)
      BY <1>b, <2>1, AheadFacts
    <3>2. ASSUME NEW i \in 1..Len(queue)
          PROVE  /\ queue'[i].left = queue[i].left - d /\ queue'[i].stamp = queue[i].stamp
                 /\ queue[i].left \in Int
      <4>1. queue'[i] = [queue[i] EXCEPT !.left = @ - d]
        BY ZenonT(60), <1>b, <2>1, AheadFacts
      <4>2. queue[i] \in Event
        BY <1>b
      <4> QED
        BY <4>1, <4>2 DEF Event
    <3> QED
      BY <3>1, <3>2
  <2>3. Ordered(queue')
    BY <2>1, <2>2 DEF OrderInv, Ordered, Before
  <2>4. Ranked(queue')
    BY <2>2 DEF OrderInv, Ranked
  <2> QED
    BY <1>a, <1>c, <2>1, <2>3, <2>4 DEF OrderInv
<1>3. CASE ServeNoOne
  BY <1>3, <1>a DEF ServeNoOne, Due, OrderInv, NoneOverdue
<1>4. ASSUME NEW r \in Relays, InputFlags(r) PROVE OrderInv'
  BY <1>4, <1>a DEF InputFlags, Serve, Due, OrderInv, NoneOverdue
<1>5. ASSUME NEW r \in Relays, IgnoreTrigger(r) \/ InputTrigger(r) \/ InputCancelPending(r)
      PROVE OrderInv'
  BY <1>5, <1>a DEF IgnoreTrigger, InputTrigger, InputCancelPending, Serve, Due, OrderInv,
     NoneOverdue
<1>6. CASE FireOutput
  <2> DEFINE c == OnTrigger[self][output]
  <2>1. /\ Firing /\ AddEvent(c.target, c.input, c.delay, self, output) /\ saved' = saved
        /\ phase' = "firing"
    BY <1>6 DEF FireOutput, Firing
  <2>2. /\ c.target \in Targets /\ c.input \in Inputs /\ c.delay \in Nat
        /\ self \in Targets /\ output \in Nat
    BY <1>a, <2>1, ConnectionFacts
  <2>3. Ordered(queue') /\ Ranked(queue') /\ pe' = pe /\ (pe = 1 => queue'[1] = queue[1])
    BY <2>1, <2>2, AddOrder
  <2> QED
    BY <1>a, <1>c, <2>1, <2>3 DEF OrderInv
<1>7. CASE FiredAndWaits
  <2>1. /\ self \in Targets /\ RefireDelay \in Nat /\ saved' = saved
        /\ AddEvent(self, "EnableRefire", RefireDelay, self, 0)
        /\ phase' = "handled"
    BY <1>7, <1>a, DelaysAssumption
    DEF FiredAndWaits, Fired, Targets, RefireDelay, TypeInv, QueueTypeOK
  <2>2. Ordered(queue') /\ Ranked(queue') /\ pe' = pe /\ (pe = 1 => queue'[1] = queue[1])
    BY <2>1, AddOrder
  <2> QED
    BY <1>a, <1>c, <2>1, <2>2 DEF OrderInv
<1>8. CASE CancelEvent
  <2>1. /\ cursor \in 1..Len(queue) /\ queue' = RemoveAt(queue, cursor) /\ saved' = saved
        /\ pe' = IF pe = cursor THEN 0 ELSE IF pe > cursor THEN pe - 1 ELSE pe
        /\ phase' = "cancelling"
    BY <1>8, <1>a DEF CancelEvent, Cancelling, TypeInv, QueueTypeOK
  <2>2. /\ Ordered(queue') /\ Ranked(queue')
        /\ cursor # 1 => queue'[1].left = queue[1].left
    BY <1>b, <2>1, RemoveOrder DEF OrderInv
  <2> QED
    BY <1>a, <1>c, <2>1, <2>2 DEF OrderInv
<1>9. CASE Served
  <2>1. /\ pe \in 1..Len(queue) /\ queue' = RemoveAt(queue, pe) /\ saved' = saved /\ pe' = 0
        /\ phase' = "service"
    BY <1>9, <1>a DEF Served, TypeInv, QueueTypeOK
  <2>2. Ordered(queue') /\ Ranked(queue')
    BY <1>b, <2>1, RemoveOrder DEF OrderInv
  <2> QED
    BY <1>a, <1>c, <2>1, <2>2 DEF OrderInv
<1>10. CASE SaveAndClear
  <2>1. /\ Len(queue') = 0 /\ pe' = 0 /\ NoneOverdue(queue)
        /\ saved' = [i \in 1..Len(queue) |-> [queue[i] EXCEPT !.left = SavedTime(@)]]
    BY <1>10, <1>a DEF SaveAndClear, TypeInv, QueueTypeOK, OrderInv
  <2>2. ASSUME NEW i \in 1..Len(saved') PROVE saved'[i].left >= 0
    <3>1. i \in 1..Len(queue) /\ saved'[i] = [queue[i] EXCEPT !.left = SavedTime(@)]
      BY <1>b, <2>1
    <3>2. queue[i] \in Event /\ queue[i].left \in Int /\ queue[i].left >= 0
      BY <1>b, <2>1, <3>1, EventFacts DEF NoneOverdue
    <3> QED
      BY <3>1, <3>2 DEF Event, SavedTime
  <2>3. NoneOverdue(saved')
    BY <2>2 DEF NoneOverdue
  <2>4. Ordered(queue') /\ Ranked(queue') /\ NoneOverdue(queue')
    BY <2>1 DEF Ordered, Ranked, NoneOverdue
  <2> QED
    BY <1>a, <2>1, <2>3, <2>4 DEF OrderInv
<1>11. CASE RestoreEvent
  <2>1. /\ phase = "restoring" /\ phase' = phase /\ saved # <<>> /\ saved' = Tail(saved)
        /\ AddEvent(saved[1].target, saved[1].input, saved[1].left,
                    saved[1].caller, saved[1].output)
    BY <1>11 DEF RestoreEvent
  <2>2. saved[1] \in Event /\ saved[1].left >= 0 /\ Len(saved) \in Nat /\ Len(saved) >= 1
    BY <1>b, <2>1 DEF OrderInv, NoneOverdue
  <2>3. /\ saved[1].target \in Targets /\ saved[1].input \in Inputs \cup {"EnableRefire"}
        /\ saved[1].left \in Nat /\ saved[1].caller \in Targets /\ saved[1].output \in Nat
    BY <2>2 DEF Event, Targets
  <2>4. Ordered(queue') /\ Ranked(queue') /\ pe' = pe /\ (pe = 1 => queue'[1] = queue[1])
    BY <2>1, <2>3, AddOrder
  <2>5. NoneOverdue(queue')
    BY <2>1, <2>3, AddNoneOverdue DEF OrderInv
  <2>6. NoneOverdue(saved')
    <3>1. Len(saved') = Len(saved) - 1 /\ \A i \in 1..Len(saved') : saved'[i] = saved[i + 1]
      BY <1>b, <2>1, <2>2
    <3> QED
      BY <2>2, <3>1 DEF OrderInv, NoneOverdue
  <2> QED
    BY <1>a, <2>4, <2>5, <2>6 DEF OrderInv
<1>12. CASE ServiceDone
  <2>1. /\ queue # <<>> => queue[1].left > 0
        /\ queue' = queue /\ saved' = saved /\ pe' = pe
    BY <1>12 DEF ServiceDone
  <2>2. NoneOverdue(queue)
    <3>1. ASSUME NEW i \in 1..Len(queue) PROVE queue[i].left >= 0
      <4>1. 1 \in 1..Len(queue) /\ queue[1].left > 0
        BY <1>b, <2>1
      <4>2. i = 1 \/ Before(queue[1], queue[i])
        BY <1>b, <4>1 DEF OrderInv, Ordered
      <4>3. queue[1].left \in Int /\ queue[i].left \in Int
        BY <1>b, <4>1, EventFacts
      <4> QED
        BY <4>1, <4>2, <4>3 DEF Before
    <3> QED
      BY <3>1 DEF NoneOverdue
  <2> QED
    BY <1>a, <2>1, <2>2 DEF OrderInv
<1>13. CASE ClearQueue
  <2>1. Len(queue') = 0 /\ pe' = 0 /\ saved' = saved
    BY <1>13 DEF ClearQueue
  <2> QED
    BY <1>a, <1>c, <2>1 DEF OrderInv, Ordered, Ranked, NoneOverdue
<1>14. CASE SkipSpent \/ FiredAndRemoved \/ FiredFast
  BY <1>14, <1>a DEF SkipSpent, Firing, FiredAndRemoved, FiredFast, Fired, OrderInv
<1>15. CASE PassEvent \/ CancelDone \/ Unnoticed
  BY <1>15, <1>a DEF PassEvent, Cancelling, CancelDone, Unnoticed, OrderInv
<1>16. CASE ServiceEventQueue \/ RestoreDone
  BY <1>16, <1>a DEF ServiceEventQueue, RestoreDone, OrderInv
<1>17. CASE UNCHANGED queueVars
  BY <1>17, <1>a DEF queueVars, serviceVars, OrderInv
<1> QED
  BY <1>1, <1>2, <1>3, <1>4, <1>5, <1>6, <1>7, <1>8, <1>9, <1>10, <1>11, <1>12,
     <1>13, <1>14, <1>15, <1>16, <1>17 DEF QueueNext, Service, Restore

\* Whatever handlers add and cancel, and however often it is saved: the queue is
\* in the order of the times and of the posting, and its head is what is served.
THEOREM QueueInOrderCorrect == QueueSpec => []QueueInOrder
<1>1. OrderInv => QueueInOrder
  BY DEF OrderInv, QueueInOrder
<1> QED
  BY <1>1, OrderInit, OrderStep, PTL DEF QueueSpec
-----------------------------------------------------------------------------
(* The relays that wait are woken.                                         *)

\* Only these relays ever wait.
Waiters == Relays \ (FastRetrigger \cup RemoveOnFire)

\* An EnableRefire comes from the relay it goes to.
Own(e) == e.input = "EnableRefire" =>
             e.target \in Waiters /\ e.caller = e.target /\ e.output = 0

WakeInv ==
    /\ OrderInv
    /\ \A i \in 1..Len(queue) : Own(queue[i])
    /\ \A i \in 1..Len(saved) : Own(saved[i])
    /\ waiting \subseteq Waiters /\ gone \subseteq RemoveOnFire
    /\ WaitingIsWoken
    /\ phase = "handled" => \A r \in waiting : ~ Wakes(queue[pe], r)
    /\ phase \in {"firing", "cancelling"} /\ pe # 0 => queue[pe].input # "EnableRefire"

LEMMA TargetsFacts == Relays \subseteq Targets /\ NoOne \in Targets
BY DEF Targets

\* Adding an event loses none of those that wake.
LEMMA AddWoken ==
    ASSUME TypeInv, NEW t \in Targets, NEW i \in Inputs \cup {"EnableRefire"},
           NEW d \in Int, NEW c \in Targets, NEW o \in Nat, AddEvent(t, i, d, c, o),
           \A x \in 1..Len(queue) : Own(queue[x]),
           i = "EnableRefire" => t \in Waiters /\ c = t /\ o = 0
    PROVE  /\ \A j \in 1..Len(queue') : Own(queue'[j])
           /\ \A r \in Relays : (\E x \in 1..Len(queue) : Wakes(queue[x], r))
                 => \E j \in 1..Len(queue') : Wakes(queue'[j], r)
           /\ i = "EnableRefire" => \E j \in 1..Len(queue') : Wakes(queue'[j], t)
<1> DEFINE e == NewEvent(queue, t, i, d, c, o)
<1>1. e.target = t /\ e.input = i /\ e.caller = c /\ e.output = o
  BY DEF NewEvent
<1>2. /\ \A j \in 1..Len(queue') : \/ queue'[j] = e
                                   \/ \E x \in 1..Len(queue) : queue'[j] = queue[x]
      /\ \A x \in 1..Len(queue) : \E j \in 1..Len(queue') : queue'[j] = queue[x]
      /\ \E j \in 1..Len(queue') : queue'[j] = e
  BY AddElements
<1> HIDE DEF e
<1>3. Own(e)
  BY <1>1 DEF Own
<1>4. \A j \in 1..Len(queue') : Own(queue'[j])
  BY <1>2, <1>3
<1>5. ASSUME NEW r \in Relays, NEW x \in 1..Len(queue), Wakes(queue[x], r)
      PROVE  \E j \in 1..Len(queue') : Wakes(queue'[j], r)
  BY <1>2, <1>5
<1>6. i = "EnableRefire" => \E j \in 1..Len(queue') : Wakes(queue'[j], t)
  BY <1>1, <1>2 DEF Wakes
<1> QED
  BY <1>4, <1>5, <1>6

LEMMA WakeInit == QueueInit => WakeInv
<1> SUFFICES ASSUME QueueInit PROVE WakeInv
  OBVIOUS
<1>1. /\ OrderInv /\ Len(queue) = 0 /\ Len(saved) = 0 /\ pe = 0 /\ phase = "between"
      /\ waiting = {} /\ gone = {}
  BY OrderInit DEF QueueInit
<1> QED
  BY <1>1 DEF WakeInv, WaitingIsWoken

LEMMA WakeStep == WakeInv /\ [QueueNext]_queueVars => WakeInv'
<1> SUFFICES ASSUME WakeInv, [QueueNext]_queueVars PROVE WakeInv'
  OBVIOUS
<1>a. OrderInv /\ OrderInv' /\ TypeInv
  BY OrderStep DEF WakeInv, OrderInv
<1>b. queue \in Seq(Event) /\ saved \in Seq(Event) /\ Len(queue) \in Nat /\ pe \in Nat
  BY <1>a DEF TypeInv, QueueTypeOK
<1>c. waiting \subseteq Relays /\ Waiters \subseteq Relays
  BY DEF WakeInv, Waiters
<1>1. ASSUME NEW p \in Posts, Post(p) PROVE WakeInv'
  <2>1. /\ p.target \in Targets /\ p.input \in Inputs /\ p.delay \in Nat
        /\ NoOne \in Targets /\ p.input # "EnableRefire"
    BY RelaysAssumption DEF Connection, Targets, Inputs
  <2>2. AddEvent(p.target, p.input, p.delay, NoOne, 0)
    BY <1>1 DEF Post
  <2>3. /\ \A j \in 1..Len(queue') : Own(queue'[j])
        /\ \A r \in Relays : (\E x \in 1..Len(queue) : Wakes(queue[x], r))
                 => \E j \in 1..Len(queue') : Wakes(queue'[j], r)
    BY <1>a, <2>1, <2>2, AddWoken DEF WakeInv
  <2>4. WaitingIsWoken'
    BY <1>1, <1>c, <2>3 DEF Post, relayVars, WakeInv, WaitingIsWoken
  <2> QED
    BY <1>1, <1>a, <2>3, <2>4 DEF Post, relayVars, WakeInv
<1>2. ASSUME NEW d \in 1..MaxFrame, Frame(d) PROVE WakeInv'
  <2>1. d \in Nat /\ queue' = Ahead(queue, d)
    BY <1>2, DelaysAssumption DEF Frame
  <2>2. Len(queue') = Len(queue)
    BY <1>b, <2>1, AheadFacts
  <2>3. ASSUME NEW i \in 1..Len(queue)
        PROVE  /\ queue'[i].input = queue[i].input /\ queue'[i].target = queue[i].target
               /\ queue'[i].caller = queue[i].caller /\ queue'[i].output = queue[i].output
    <3>1. queue'[i] = [queue[i] EXCEPT !.left = @ - d]
      BY ZenonT(60), <1>b, <2>1, AheadFacts
    <3>2. queue[i] \in Event
      BY <1>b
    <3> QED
      BY <3>1, <3>2 DEF Event
  <2>4. \A j \in 1..Len(queue') : Own(queue'[j])
    BY <2>2, <2>3 DEF WakeInv, Own
  <2>5. WaitingIsWoken'
    BY <1>2, <2>2, <2>3 DEF Frame, relayVars, WakeInv, WaitingIsWoken, Wakes
  <2> QED
    BY <1>2, <1>a, <2>4, <2>5 DEF Frame, relayVars, WakeInv
<1>3. CASE ServeNoOne
  <2>1. queue' = queue /\ saved' = saved /\ waiting' = waiting /\ gone' = gone /\ pe' = 1
        /\ phase = "service" /\ phase' = "handled" /\ 1 \in 1..Len(queue)
        /\ queue[1].target \in {NoOne} \cup gone
    BY <1>3, <1>b DEF ServeNoOne, Due, relayVars
  <2>2. \A r \in waiting : ~ Wakes(queue[1], r)
    BY <2>1, <1>c, RelaysAssumption DEF WakeInv, Wakes, Waiters
  <2> QED
    BY <1>a, <2>1, <2>2 DEF WakeInv, WaitingIsWoken
<1>4. ASSUME NEW r \in Relays, InputFlags(r) PROVE WakeInv'
  <2>1. /\ queue' = queue /\ saved' = saved /\ gone' = gone /\ pe' = 1
        /\ phase = "service" /\ phase' = "handled"
        /\ queue[1].target = r
        /\ \/ queue[1].input # "EnableRefire" /\ waiting' = waiting
           \/ queue[1].input = "EnableRefire" /\ waiting' = waiting \ {r}
    BY <1>4 DEF InputFlags, Serve, Due
  <2>2. \A s \in waiting' : ~ Wakes(queue[1], s)
    BY <2>1 DEF Wakes
  <2> QED
    BY <1>a, <2>1, <2>2 DEF WakeInv, WaitingIsWoken
<1>5. ASSUME NEW r \in Relays, IgnoreTrigger(r) \/ InputTrigger(r) \/ InputCancelPending(r)
      PROVE WakeInv'
  <2>1. /\ queue' = queue /\ saved' = saved /\ gone' = gone /\ pe' = 1 /\ waiting' = waiting
        /\ phase = "service" /\ phase' \in {"handled", "firing", "cancelling"}
        /\ queue[1].input # "EnableRefire"
    BY <1>5 DEF IgnoreTrigger, InputTrigger, InputCancelPending, Serve, Due, relayVars
  <2> QED
    BY <1>a, <2>1 DEF WakeInv, WaitingIsWoken, Wakes
<1>6. CASE FireOutput
  <2> DEFINE c == OnTrigger[self][output]
  <2>1. /\ Firing /\ AddEvent(c.target, c.input, c.delay, self, output) /\ saved' = saved
        /\ phase = "firing" /\ phase' = "firing" /\ waiting' = waiting /\ gone' = gone
    BY <1>6 DEF FireOutput, Firing
  <2>2. /\ c.target \in Targets /\ c.input \in Inputs /\ c.delay \in Nat
        /\ self \in Targets /\ output \in Nat
    BY <1>a, <2>1, ConnectionFacts
  <2>3. c.input # "EnableRefire"
    BY <2>2 DEF Inputs
  <2>4. /\ \A j \in 1..Len(queue') : Own(queue'[j])
        /\ \A r \in Relays : (\E x \in 1..Len(queue) : Wakes(queue[x], r))
                 => \E j \in 1..Len(queue') : Wakes(queue'[j], r)
    BY <1>a, <2>1, <2>2, <2>3, AddWoken DEF WakeInv
  <2>5. pe' = pe /\ (pe = 1 => queue'[1] = queue[1])
    BY <1>a, <2>1, <2>2, AddOrder
  <2>6. WaitingIsWoken'
    BY <1>c, <2>1, <2>4 DEF WakeInv, WaitingIsWoken
  <2> QED
    BY <1>a, <2>1, <2>4, <2>5, <2>6 DEF WakeInv, OrderInv
<1>7. CASE FiredAndWaits
  <2>1. /\ self \in Targets /\ self \in Waiters /\ RefireDelay \in Nat /\ saved' = saved
        /\ AddEvent(self, "EnableRefire", RefireDelay, self, 0)
        /\ phase = "firing" /\ phase' = "handled" /\ waiting' = waiting \cup {self}
        /\ gone' = gone
    BY <1>7, <1>a, DelaysAssumption
    DEF FiredAndWaits, Fired, Targets, RefireDelay, TypeInv, QueueTypeOK, Waiters
  <2>2. /\ \A j \in 1..Len(queue') : Own(queue'[j])
        /\ \A r \in Relays : (\E x \in 1..Len(queue) : Wakes(queue[x], r))
                 => \E j \in 1..Len(queue') : Wakes(queue'[j], r)
        /\ \E j \in 1..Len(queue') : Wakes(queue'[j], self)
    BY SMTT(30), <1>a, <2>1, AddWoken DEF WakeInv
  <2>3. pe' = pe /\ (pe = 1 => queue'[1] = queue[1])
    BY <1>a, <2>1, AddOrder
  <2>4. pe = 1
    BY <1>a, <2>1 DEF OrderInv, TypeInv, QueueTypeOK
  <2>5. WaitingIsWoken'
    BY <1>c, <2>1, <2>2 DEF WakeInv, WaitingIsWoken
  <2> QED
    BY <1>a, <2>1, <2>2, <2>3, <2>4, <2>5 DEF WakeInv, Wakes
<1>8. CASE CancelEvent
  <2>1. /\ cursor \in 1..Len(queue) /\ queue' = RemoveAt(queue, cursor) /\ saved' = saved
        /\ pe' = IF pe = cursor THEN 0 ELSE IF pe > cursor THEN pe - 1 ELSE pe
        /\ phase = "cancelling" /\ phase' = "cancelling" /\ self' = self
        /\ waiting' = waiting /\ gone' = gone /\ queue[cursor].caller = self
    BY <1>8, <1>a DEF CancelEvent, Cancelling, TypeInv, QueueTypeOK, relayVars, PostedBy
  <2>2. /\ \A i \in 1..Len(queue') :
              /\ From(i, cursor) \in 1..Len(queue) /\ From(i, cursor) # cursor
              /\ Alike(queue'[i], queue[From(i, cursor)])
        /\ \A x \in 1..Len(queue) : x # cursor =>
              \E i \in 1..Len(queue') : From(i, cursor) = x
    BY <1>a, <1>b, <2>1, RemoveElements DEF OrderInv
  <2>3. \A j \in 1..Len(queue') : Own(queue'[j])
    BY <2>2 DEF WakeInv, Own, Alike
  <2>4. ASSUME NEW r \in waiting, r # self, NEW x \in 1..Len(queue), Wakes(queue[x], r)
        PROVE  \E j \in 1..Len(queue') : Wakes(queue'[j], r)
    <3>1. x # cursor
      BY <2>1, <2>4 DEF WakeInv, Own, Wakes
    <3>2. PICK j \in 1..Len(queue') : From(j, cursor) = x
      BY <2>2, <3>1
    <3> QED
      BY <2>2, <2>4, <3>2 DEF Alike, Wakes
  <2>5. WaitingIsWoken'
    BY <2>1, <2>4 DEF WakeInv, WaitingIsWoken
  <2>6. pe' # 0 => queue'[pe'].input # "EnableRefire"
    <3>1. CASE pe' # 0
      <4>1. pe = 1 /\ pe' = 1 /\ cursor > 1 /\ From(1, cursor) = 1
        BY <1>a, <2>1, <3>1 DEF OrderInv, From
      <4>2. 1 \in 1..Len(queue')
        BY <1>a, <4>1 DEF OrderInv, TypeInv, QueueTypeOK
      <4> QED
        BY <2>1, <2>2, <4>1, <4>2 DEF Alike, WakeInv
    <3> QED
      BY <3>1
  <2> QED
    BY <1>a, <2>1, <2>3, <2>5, <2>6 DEF WakeInv
<1>9. CASE Served
  <2>1. /\ pe \in 1..Len(queue) /\ queue' = RemoveAt(queue, pe) /\ saved' = saved /\ pe' = 0
        /\ phase = "handled" /\ phase' = "service" /\ waiting' = waiting /\ gone' = gone
    BY <1>9, <1>a DEF Served, TypeInv, QueueTypeOK, relayVars
  <2>2. /\ \A i \in 1..Len(queue') :
              /\ From(i, pe) \in 1..Len(queue) /\ From(i, pe) # pe
              /\ Alike(queue'[i], queue[From(i, pe)])
        /\ \A x \in 1..Len(queue) : x # pe =>
              \E i \in 1..Len(queue') : From(i, pe) = x
    BY <1>a, <1>b, <2>1, RemoveElements DEF OrderInv
  <2>3. \A j \in 1..Len(queue') : Own(queue'[j])
    BY <2>2 DEF WakeInv, Own, Alike
  <2>4. ASSUME NEW r \in waiting, NEW x \in 1..Len(queue), Wakes(queue[x], r)
        PROVE  \E j \in 1..Len(queue') : Wakes(queue'[j], r)
    <3>1. x # pe
      BY <2>1, <2>4 DEF WakeInv
    <3>2. PICK j \in 1..Len(queue') : From(j, pe) = x
      BY <2>2, <3>1
    <3> QED
      BY <2>2, <2>4, <3>2 DEF Alike, Wakes
  <2>5. WaitingIsWoken'
    BY <2>1, <2>4 DEF WakeInv, WaitingIsWoken
  <2> QED
    BY <1>a, <2>1, <2>3, <2>5 DEF WakeInv
<1>10. CASE SaveAndClear
  <2>1. /\ Len(queue') = 0 /\ pe' = 0 /\ waiting' = waiting /\ gone' = gone
        /\ saved' = [i \in 1..Len(queue) |-> [queue[i] EXCEPT !.left = SavedTime(@)]]
        /\ phase = "between" /\ phase' = "restoring" /\ saved = <<>>
    BY <1>10, <1>a DEF SaveAndClear, TypeInv, QueueTypeOK, relayVars
  <2>2. ASSUME NEW i \in 1..Len(queue)
        PROVE  /\ saved'[i].input = queue[i].input /\ saved'[i].target = queue[i].target
               /\ saved'[i].caller = queue[i].caller /\ saved'[i].output = queue[i].output
    <3>1. saved'[i] = [queue[i] EXCEPT !.left = SavedTime(@)] /\ queue[i] \in Event
      BY <1>b, <2>1
    <3> QED
      BY <3>1 DEF Event
  <2>3. Len(saved') = Len(queue) /\ Len(saved) = 0
    BY <1>b, <2>1
  <2>4. \A j \in 1..Len(saved') : Own(saved'[j])
    BY <2>2, <2>3 DEF WakeInv, Own
  <2>5. WaitingIsWoken'
    BY <2>1, <2>2, <2>3 DEF WakeInv, WaitingIsWoken, Wakes
  <2> QED
    BY SMTT(30), <1>a, <2>1, <2>4, <2>5 DEF WakeInv
<1>11. CASE RestoreEvent
  <2>1. /\ phase = "restoring" /\ phase' = phase /\ saved # <<>> /\ saved' = Tail(saved)
        /\ AddEvent(saved[1].target, saved[1].input, saved[1].left,
                    saved[1].caller, saved[1].output)
        /\ waiting' = waiting /\ gone' = gone
    BY <1>11 DEF RestoreEvent, relayVars
  <2>2. saved[1] \in Event /\ Own(saved[1]) /\ Len(saved) \in Nat /\ Len(saved) >= 1
    BY <1>b, <2>1 DEF WakeInv
  <2>3. /\ saved[1].target \in Targets /\ saved[1].input \in Inputs \cup {"EnableRefire"}
        /\ saved[1].left \in Int /\ saved[1].caller \in Targets /\ saved[1].output \in Nat
    BY <2>2 DEF Event, Targets
  <2>4. /\ \A j \in 1..Len(queue') : Own(queue'[j])
        /\ \A r \in Relays : (\E x \in 1..Len(queue) : Wakes(queue[x], r))
                 => \E j \in 1..Len(queue') : Wakes(queue'[j], r)
        /\ saved[1].input = "EnableRefire" =>
              \E j \in 1..Len(queue') : Wakes(queue'[j], saved[1].target)
    BY <1>a, <2>1, <2>2, <2>3, AddWoken DEF WakeInv, Own
  <2>5. Len(saved') = Len(saved) - 1 /\ \A i \in 1..Len(saved') : saved'[i] = saved[i + 1]
    BY <1>b, <2>1, <2>2
  <2>6. \A i \in 1..Len(saved') : Own(saved'[i])
    BY <2>2, <2>5 DEF WakeInv
  <2>7. ASSUME NEW r \in waiting, NEW i \in 1..Len(saved), Wakes(saved[i], r)
        PROVE  \/ \E j \in 1..Len(queue') : Wakes(queue'[j], r)
               \/ \E j \in 1..Len(saved') : Wakes(saved'[j], r)
    <3>1. CASE i = 1
      BY <2>4, <2>7, <3>1 DEF Wakes
    <3>2. CASE i # 1
      <4>1. i - 1 \in 1..Len(saved') /\ saved'[i - 1] = saved[i]
        BY <2>2, <2>5, <3>2
      <4> QED
        BY <2>7, <4>1
    <3> QED
      BY <3>1, <3>2
  <2>8. WaitingIsWoken'
    BY <1>c, <2>1, <2>4, <2>7 DEF WakeInv, WaitingIsWoken
  <2> QED
    BY <1>a, <2>1, <2>4, <2>6, <2>8 DEF WakeInv
<1>12. CASE CancelDone
  <2>1. /\ queue' = queue /\ saved' = saved /\ gone' = gone /\ pe' = pe
        /\ waiting' = waiting \ {self} /\ phase = "cancelling"
        /\ phase' = IF pe = 0 THEN "undefined" ELSE "handled"
    BY <1>12 DEF CancelDone
  <2> QED
    BY <1>a, <2>1 DEF WakeInv, WaitingIsWoken, Wakes
<1>13. CASE ClearQueue
  <2>1. /\ Len(queue') = 0 /\ saved' = saved /\ waiting' = {} /\ gone' = {}
        /\ phase' = "between"
    BY <1>13 DEF ClearQueue
  <2> QED
    BY <1>a, <2>1 DEF WakeInv, WaitingIsWoken
<1>14. CASE SkipSpent \/ FiredAndRemoved \/ FiredFast
  <2>1. /\ queue' = queue /\ saved' = saved /\ pe' = pe /\ waiting' = waiting
        /\ gone' \subseteq gone \cup RemoveOnFire
        /\ phase = "firing" /\ phase' \in {"firing", "handled"}
    BY <1>14 DEF SkipSpent, Firing, FiredAndRemoved, FiredFast, Fired, relayVars
  <2>2. pe = 1
    BY <1>a, <2>1 DEF OrderInv, TypeInv, QueueTypeOK
  <2> QED
    BY <1>a, <2>1, <2>2 DEF WakeInv, WaitingIsWoken, Wakes
<1>15. CASE PassEvent
  BY <1>15, <1>a DEF PassEvent, Cancelling, relayVars, WakeInv, WaitingIsWoken
<1>16. CASE ServiceEventQueue \/ ServiceDone \/ RestoreDone \/ Unnoticed
  BY <1>16, <1>a DEF ServiceEventQueue, ServiceDone, RestoreDone, Unnoticed, relayVars,
     WakeInv, WaitingIsWoken
<1>17. CASE UNCHANGED queueVars
  BY <1>17, <1>a DEF queueVars, serviceVars, relayVars, WakeInv, WaitingIsWoken
<1> QED
  BY <1>1, <1>2, <1>3, <1>4, <1>5, <1>6, <1>7, <1>8, <1>9, <1>10, <1>11, <1>12,
     <1>13, <1>14, <1>15, <1>16, <1>17 DEF QueueNext, Service, Restore

\* A relay that waits is woken: no cancellation, restart of the list, save or
\* removal of another event loses its EnableRefire.
THEOREM WaitingIsWokenCorrect == QueueSpec => []WaitingIsWoken
<1>1. WakeInv => WaitingIsWoken
  BY DEF WakeInv
<1> QED
  BY <1>1, WakeInit, WakeStep, PTL DEF QueueSpec
-----------------------------------------------------------------------------
(* A relay refires after the outputs that stay on its list.                *)

\* The events of r that matter: its EnableRefire is behind all of them.
Mark(e, r) == Wakes(e, r) \/ Staying(e, r)
Behind(q, r) == \A i, j \in 1..Len(q) : Mark(q[i], r) /\ Wakes(q[j], r) => i <= j

Busy(r) == phase \in {"firing", "cancelling"} /\ self = r

InLine(r) == /\ Behind(queue, r) /\ Behind(saved, r)
             /\ (\E j \in 1..Len(queue) : Wakes(queue[j], r))
                   => \A i \in 1..Len(saved) : ~ Mark(saved[i], r)
IdleHasNone(r) ==
    r \notin waiting /\ ~ Busy(r) => /\ \A i \in 1..Len(queue) : Mark(queue[i], r) => i = pe
                                     /\ \A i \in 1..Len(saved) : ~ Mark(saved[i], r)
FiringKnowsLongest(r) ==
    phase = "firing" /\ self = r =>
        /\ r \notin waiting
        /\ \A i \in 1..Len(queue) : /\ ~ Wakes(queue[i], r)
                                    /\ Staying(queue[i], r) => queue[i].left <= longest
CancelledSoFar(r) ==
    phase = "cancelling" /\ self = r =>
        \A i \in 1..Len(queue) : i < cursor => queue[i].caller # r
Refires(r) == InLine(r) /\ IdleHasNone(r) /\ FiringKnowsLongest(r) /\ CancelledSoFar(r)

\* What is restored goes to the end of the list.
Rising == /\ \A i, j \in 1..Len(saved) : i < j => saved[i].left <= saved[j].left
          /\ \A i \in 1..Len(queue), j \in 1..Len(saved) : queue[i].left <= saved[j].left

RefireInv == WakeInv /\ Rising /\ \A r \in Waiters : Refires(r)

\* Adding keeps them in line if the new event is behind the others or alone.
LEMMA BehindAdd ==
    ASSUME queue \in Seq(Event), NEW t \in Targets, NEW i \in Inputs \cup {"EnableRefire"},
           NEW d \in Nat, NEW c \in Targets, NEW o \in Nat,
           NEW k \in 1..(Len(queue) + 1), Added(k, t, i, d, c, o),
           NEW r \in Relays, Behind(queue, r),
           Mark(NewEvent(queue, t, i, d, c, o), r) =>
              \A j \in 1..Len(queue) : ~ Wakes(queue[j], r),
           Wakes(NewEvent(queue, t, i, d, c, o), r) =>
              \A j \in 1..Len(queue) : Mark(queue[j], r) => j < k
    PROVE  Behind(queue', r)
<1> DEFINE e == NewEvent(queue, t, i, d, c, o)
           Old(z) == IF z < k THEN z ELSE z - 1
<1>1. /\ Len(queue') = Len(queue) + 1 /\ Len(queue) \in Nat /\ k \in Nat
      /\ queue'[k] = e
      /\ \A j \in 1..(Len(queue) + 1) : j < k => queue'[j] = queue[j]
      /\ \A j \in 1..(Len(queue) + 1) : j > k => queue'[j] = queue[j - 1]
  BY DEF Added
<1>2. \A z \in 1..Len(queue') :
         z # k => Old(z) \in 1..Len(queue) /\ queue'[z] = queue[Old(z)]
  BY <1>1
<1>3. \A x, y \in 1..Len(queue') :
         x # k /\ y # k /\ Old(x) <= Old(y) => x <= y
  BY <1>1
<1>4. \A x \in 1..Len(queue') : x # k /\ Old(x) < k => x <= k
  BY <1>1
<1> HIDE DEF e, Old
<1>5. ASSUME NEW x \in 1..Len(queue'), NEW y \in 1..Len(queue'),
             Mark(queue'[x], r), Wakes(queue'[y], r)
      PROVE  x <= y
  <2>1. CASE x = k /\ y = k
    BY <2>1
  <2>2. CASE x = k /\ y # k
    BY <1>1, <1>2, <1>5, <2>2 DEF e
  <2>3. CASE x # k /\ y = k
    <3>1. Old(x) \in 1..Len(queue) /\ Mark(queue[Old(x)], r) /\ Wakes(e, r)
      BY <1>1, <1>2, <1>5, <2>3
    <3>2. Old(x) < k
      BY <3>1 DEF e
    <3> QED
      BY <1>4, <2>3, <3>2
  <2>4. CASE x # k /\ y # k
    <3>1. /\ Old(x) \in 1..Len(queue) /\ Mark(queue[Old(x)], r)
          /\ Old(y) \in 1..Len(queue) /\ Wakes(queue[Old(y)], r)
      BY <1>2, <1>5, <2>4
    <3>2. Old(x) <= Old(y)
      BY <3>1 DEF Behind
    <3> QED
      BY <1>3, <2>4, <3>2
  <2> QED
    BY <2>1, <2>2, <2>3, <2>4
<1> QED
  BY <1>5 DEF Behind

LEMMA BehindRemove ==
    ASSUME NEW q \in Seq(Event), NEW k \in 1..Len(q), Ranked(q), NEW r, Behind(q, r)
    PROVE  Behind(RemoveAt(q, k), r)
<1> DEFINE p == RemoveAt(q, k)
<1>1. \A i \in 1..Len(p) : /\ From(i, k) \in 1..Len(q) /\ Alike(p[i], q[From(i, k)])
  BY RemoveElements
<1>2. \A i, j \in 1..Len(p) : From(i, k) <= From(j, k) => i <= j
  BY RemoveFacts DEF From
<1> HIDE DEF p
<1>3. \A i \in 1..Len(p) : /\ Mark(p[i], r) <=> Mark(q[From(i, k)], r)
                           /\ Wakes(p[i], r) <=> Wakes(q[From(i, k)], r)
  BY <1>1 DEF Alike, Mark, Wakes, Staying, IsOutput
<1>4. Behind(p, r)
  BY <1>1, <1>2, <1>3 DEF Behind
<1> QED
  BY <1>4 DEF p

\* An event that does not matter to r changes nothing for it.
LEMMA AddUnmarked ==
    ASSUME OrderInv, NEW t \in Targets, NEW i \in Inputs \cup {"EnableRefire"},
           NEW d \in Nat, NEW c \in Targets, NEW o \in Nat, AddEvent(t, i, d, c, o),
           NEW r \in Relays, Behind(queue, r), ~ Mark(NewEvent(queue, t, i, d, c, o), r)
    PROVE  /\ Behind(queue', r)
           /\ \A j \in 1..Len(queue') :
                 Mark(queue'[j], r) => \E x \in 1..Len(queue) : queue'[j] = queue[x]
           /\ (\A x \in 1..Len(queue) : Mark(queue[x], r) => x = pe) =>
                 \A j \in 1..Len(queue') : Mark(queue'[j], r) => j = pe'
<1> DEFINE e == NewEvent(queue, t, i, d, c, o)
<1>0. TypeInv /\ d \in Int /\ queue \in Seq(Event) /\ Len(queue) \in Nat /\ pe \in {0, 1}
  BY DEF OrderInv, TypeInv, QueueTypeOK
<1>1. PICK k \in 1..(Len(queue) + 1) : Added(k, t, i, d, c, o)
  BY <1>0, AddFacts
<1>2. Behind(queue', r)
  BY <1>0, <1>1, BehindAdd DEF Mark
<1>3. pe' = pe
  BY AddOrder
<1>4. /\ Len(queue') = Len(queue) + 1 /\ queue'[k] = e
      /\ \A j \in 1..(Len(queue) + 1) : j < k => queue'[j] = queue[j]
      /\ \A j \in 1..(Len(queue) + 1) : j > k => queue'[j] = queue[j - 1]
  BY <1>0, <1>1 DEF Added
<1>6. pe = 1 => k > 1
  <2>1. pe' = IF pe >= k THEN pe + 1 ELSE pe
    BY <1>1 DEF Added
  <2> QED
    BY <1>3, <2>1
<1> HIDE DEF e
<1>5. ASSUME NEW j \in 1..Len(queue'), Mark(queue'[j], r)
      PROVE  /\ \E x \in 1..Len(queue) : queue'[j] = queue[x]
             /\ (\A x \in 1..Len(queue) : Mark(queue[x], r) => x = pe) => j = pe
  <2>1. j # k
    BY <1>4, <1>5 DEF e
  <2>2. CASE j < k
    <3>1. j \in 1..Len(queue) /\ queue'[j] = queue[j]
      BY <1>0, <1>4, <2>2
    <3> QED
      BY <1>5, <3>1
  <2>3. CASE j > k
    <3>1. j - 1 \in 1..Len(queue) /\ queue'[j] = queue[j - 1]
      BY <1>0, <1>4, <2>3
    <3>2. pe = 1 => j - 1 # 1
      BY <1>0, <1>6, <2>3
    <3>3. j - 1 # pe
      BY <1>0, <2>3, <3>1, <3>2
    <3> QED
      BY <1>5, <3>1, <3>3
  <2> QED
    BY <1>0, <1>4, <2>1, <2>2, <2>3
<1> QED
  BY <1>2, <1>3, <1>5

LEMMA RefireInit == QueueInit => RefireInv
<1> SUFFICES ASSUME QueueInit PROVE RefireInv
  OBVIOUS
<1>1. /\ WakeInv /\ Len(queue) = 0 /\ Len(saved) = 0 /\ phase = "between"
  BY WakeInit DEF QueueInit
<1> QED
  BY <1>1 DEF RefireInv, Rising, Refires, InLine, Behind, IdleHasNone,
     FiringKnowsLongest, CancelledSoFar

\* Outside a restoration nothing is saved.
LEMMA NothingSaved ==
    ASSUME TypeInv, phase # "restoring"
    PROVE  Len(saved) = 0 /\ Rising
<1>1. saved = <<>>
  BY DEF TypeInv, QueueTypeOK
<1> QED
  BY <1>1 DEF Rising

LEMMA RefireStep == RefireInv /\ [QueueNext]_queueVars => RefireInv'
<1> SUFFICES ASSUME RefireInv, [QueueNext]_queueVars PROVE RefireInv'
  OBVIOUS
<1>a. OrderInv /\ TypeInv /\ WakeInv /\ WakeInv' /\ TypeInv' /\ OrderInv'
  BY WakeStep DEF RefireInv, WakeInv, OrderInv
<1>b. queue \in Seq(Event) /\ saved \in Seq(Event) /\ Len(queue) \in Nat /\ pe \in {0, 1}
  BY <1>a DEF OrderInv, TypeInv, QueueTypeOK
<1>c. Waiters \subseteq Relays /\ NoOne \notin Relays /\ NoOne \in Targets
  BY RelaysAssumption DEF Waiters, Targets
<1>d. phase # "restoring" => Len(saved) = 0
  BY <1>a, NothingSaved
<1>e. phase' # "restoring" => Len(saved') = 0 /\ Rising'
  <2>1. saved' # <<>> => phase' = "restoring"
    BY <1>a DEF TypeInv, QueueTypeOK
  <2> QED
    BY <2>1 DEF Rising
<1>f. phase \in {"between", "thinking", "service", "undefined", "restoring"} => pe = 0
  BY <1>a DEF TypeInv, QueueTypeOK
<1> SUFFICES Rising' /\ \A r \in Waiters : Refires(r)'
  BY <1>a DEF RefireInv
<1>1. ASSUME NEW p \in Posts, Post(p) PROVE Rising' /\ \A r \in Waiters : Refires(r)'
  <2>1. /\ p.target \in Targets /\ p.input \in Inputs /\ p.delay \in Nat
        /\ p.input # "EnableRefire"
    BY RelaysAssumption DEF Connection, Targets, Inputs
  <2>2. /\ AddEvent(p.target, p.input, p.delay, NoOne, 0)
        /\ phase \in {"between", "thinking"} /\ phase' = phase /\ waiting' = waiting
    BY <1>1 DEF Post, relayVars
  <2>3. ASSUME NEW r \in Waiters PROVE Refires(r)'
    <3>1. ~ Mark(NewEvent(queue, p.target, p.input, p.delay, NoOne, 0), r)
      BY <1>c, <2>1 DEF NewEvent, Mark, Wakes, Staying, IsOutput
    <3>2. Refires(r) /\ Behind(queue, r)
      BY DEF RefireInv, Refires, InLine
    <3>3. /\ Behind(queue', r)
          /\ (\A x \in 1..Len(queue) : Mark(queue[x], r) => x = pe) =>
                 \A j \in 1..Len(queue') : Mark(queue'[j], r) => j = pe'
      BY <1>a, <1>c, <2>1, <2>2, <3>1, <3>2, AddUnmarked
    <3>4. Len(saved') = 0
      BY <1>e, <2>2
    <3> QED
      BY <2>2, <3>2, <3>3, <3>4 DEF Refires, InLine, Behind, IdleHasNone,
         FiringKnowsLongest, CancelledSoFar, Busy
  <2> QED
    BY <1>e, <2>2, <2>3
<1>2. ASSUME NEW d \in 1..MaxFrame, Frame(d)
      PROVE Rising' /\ \A r \in Waiters : Refires(r)'
  <2>1. /\ d \in Nat /\ queue' = Ahead(queue, d) /\ pe' = pe /\ waiting' = waiting
        /\ phase = "between" /\ phase' = "thinking"
    BY <1>2, DelaysAssumption DEF Frame, relayVars
  <2>2. Len(queue') = Len(queue) /\ Len(saved') = 0 /\ Rising'
    BY <1>b, <1>e, <2>1, AheadFacts
  <2>3. ASSUME NEW i \in 1..Len(queue), NEW r
        PROVE  /\ Mark(queue'[i], r) <=> Mark(queue[i], r)
               /\ Wakes(queue'[i], r) <=> Wakes(queue[i], r)
    <3>1. queue'[i] = [queue[i] EXCEPT !.left = @ - d]
      BY ZenonT(60), <1>b, <2>1, AheadFacts
    <3>2. queue[i] \in Event
      BY <1>b
    <3>3. /\ queue'[i].input = queue[i].input /\ queue'[i].target = queue[i].target
          /\ queue'[i].caller = queue[i].caller /\ queue'[i].output = queue[i].output
      BY <3>1, <3>2 DEF Event
    <3> QED
      BY <3>3 DEF Mark, Wakes, Staying, IsOutput
  <2>4. ASSUME NEW r \in Waiters PROVE Refires(r)'
    <3>1. Refires(r) /\ Behind(queue, r)
      BY DEF RefireInv, Refires, InLine
    <3>2. Behind(queue', r)
      BY <2>2, <2>3, <3>1 DEF Behind
    <3>3. r \notin waiting => \A i \in 1..Len(queue') : Mark(queue'[i], r) => i = pe
      BY <2>1, <2>2, <2>3, <3>1 DEF Refires, IdleHasNone, Busy
    <3> QED
      BY <2>1, <2>2, <3>2, <3>3 DEF Refires, InLine, Behind, IdleHasNone,
         FiringKnowsLongest, CancelledSoFar
  <2> QED
    BY <2>2, <2>4
\* Before an input is served there is no mark of an idle relay.
<1>g. ASSUME phase = "service", NEW r \in Waiters, r \notin waiting
      PROVE  \A i \in 1..Len(queue) : ~ Mark(queue[i], r)
  <2>1. IdleHasNone(r) /\ pe = 0
    BY <1>f, <1>g DEF RefireInv, Refires
  <2> QED
    BY <1>g, <2>1 DEF IdleHasNone, Busy
<1>3. ASSUME ServeNoOne \/ \E r \in Relays : IgnoreTrigger(r)
      PROVE Rising' /\ \A r \in Waiters : Refires(r)'
  <2>1. /\ queue' = queue /\ waiting' = waiting
        /\ phase = "service" /\ phase' = "handled"
    BY <1>3 DEF ServeNoOne, IgnoreTrigger, Serve, Due, relayVars
  <2>2. Rising' /\ Len(saved') = 0
    BY <1>e, <2>1
  <2>3. ASSUME NEW r \in Waiters PROVE Refires(r)'
    <3>1. Behind(queue, r)
      BY DEF RefireInv, Refires, InLine
    <3> QED
      BY <1>g, <2>1, <2>2, <3>1 DEF Refires, InLine, Behind, IdleHasNone,
         FiringKnowsLongest, CancelledSoFar, Busy
  <2> QED
    BY <2>2, <2>3
<1>4. ASSUME NEW s \in Relays, InputFlags(s)
      PROVE Rising' /\ \A r \in Waiters : Refires(r)'
  <2>1. /\ queue' = queue /\ pe' = 1 /\ phase = "service" /\ phase' = "handled"
        /\ queue[1].target = s /\ queue # <<>>
        /\ \/ waiting' = waiting
           \/ queue[1].input = "EnableRefire" /\ waiting' = waiting \ {s}
    BY <1>4 DEF InputFlags, Serve, Due
  <2>2. Rising' /\ Len(saved') = 0 /\ 1 \in 1..Len(queue)
    BY <1>b, <1>e, <2>1
  <2>3. ASSUME NEW r \in Waiters PROVE Refires(r)'
    <3>1. Behind(queue, r)
      BY DEF RefireInv, Refires, InLine
    <3>2. CASE r \in waiting /\ r \notin waiting'
      <4>1. Wakes(queue[1], r)
        BY <2>1, <3>2 DEF Wakes
      <4>2. \A i \in 1..Len(queue) : Mark(queue[i], r) => i = 1
        BY <1>b, <2>2, <3>1, <4>1 DEF Behind
      <4> QED
        BY <2>1, <2>2, <3>1, <4>2 DEF Refires, InLine, Behind, IdleHasNone,
           FiringKnowsLongest, CancelledSoFar
    <3>3. CASE ~ (r \in waiting /\ r \notin waiting')
      BY <1>g, <2>1, <2>2, <3>1, <3>3 DEF Refires, InLine, Behind, IdleHasNone,
         FiringKnowsLongest, CancelledSoFar
    <3> QED
      BY <3>2, <3>3
  <2> QED
    BY <2>2, <2>3
<1>5. ASSUME NEW s \in Relays, InputTrigger(s) \/ InputCancelPending(s)
      PROVE Rising' /\ \A r \in Waiters : Refires(r)'
  <2>1. /\ queue' = queue /\ waiting' = waiting /\ phase = "service" /\ self' = s
        /\ \/ phase' = "firing" /\ s \notin waiting
           \/ phase' = "cancelling" /\ cursor' = 1
    BY <1>5 DEF InputTrigger, InputCancelPending, Serve, Due, relayVars, MayFire
  <2>2. Rising' /\ Len(saved') = 0
    BY <1>e, <2>1
  <2>3. ASSUME NEW r \in Waiters PROVE Refires(r)'
    <3>1. Behind(queue, r)
      BY DEF RefireInv, Refires, InLine
    <3>2. r \notin waiting => \A i \in 1..Len(queue) : ~ Mark(queue[i], r)
      BY <1>g, <2>1
    <3>3. InLine(r)' /\ IdleHasNone(r)'
      BY <2>1, <2>2, <3>1, <3>2 DEF InLine, Behind, IdleHasNone
    <3>4. FiringKnowsLongest(r)'
      BY <2>1, <3>2 DEF FiringKnowsLongest, Mark
    <3>5. CancelledSoFar(r)'
      BY <2>1 DEF CancelledSoFar
    <3> QED
      BY <3>3, <3>4, <3>5 DEF Refires
  <2> QED
    BY <2>2, <2>3
<1>6. CASE FireOutput
  <2> DEFINE c == OnTrigger[self][output]
             e == NewEvent(queue, c.target, c.input, c.delay, self, output)
  <2>1. /\ Firing /\ AddEvent(c.target, c.input, c.delay, self, output)
        /\ phase = "firing" /\ phase' = "firing" /\ waiting' = waiting /\ self' = self
        /\ longest' = IF ~ c.once /\ c.delay > longest THEN c.delay ELSE longest
    BY <1>6 DEF FireOutput, Firing
  <2>2. /\ c.target \in Targets /\ c.input \in Inputs /\ c.delay \in Nat
        /\ self \in Targets /\ output \in Nat /\ longest \in Nat
    BY <1>a, <2>1, ConnectionFacts DEF TypeInv, QueueTypeOK
  <2>3. c.input # "EnableRefire" /\ c.delay \in Int
    BY <2>2 DEF Inputs
  <2>4. Rising' /\ Len(saved') = 0
    BY <1>e, <2>1
  <2>5. /\ e.caller = self /\ e.input = c.input /\ e.output = output /\ e.left = c.delay
    BY DEF NewEvent
  <2>6. ASSUME NEW r \in Waiters, r # self PROVE Refires(r)'
    <3>1. ~ Mark(e, r)
      BY <2>3, <2>5, <2>6 DEF Mark, Wakes, Staying, IsOutput
    <3>2. Refires(r) /\ Behind(queue, r)
      BY DEF RefireInv, Refires, InLine
    <3>3. /\ Behind(queue', r)
          /\ (\A x \in 1..Len(queue) : Mark(queue[x], r) => x = pe) =>
                 \A j \in 1..Len(queue') : Mark(queue'[j], r) => j = pe'
      BY <1>a, <1>c, <2>1, <2>2, <3>1, <3>2, AddUnmarked
    <3> QED
      BY <2>1, <2>4, <2>6, <3>2, <3>3 DEF Refires, InLine, Behind, IdleHasNone,
         FiringKnowsLongest, CancelledSoFar, Busy
  <2>7. ASSUME NEW r \in Waiters, r = self PROVE Refires(r)'
    <3>1. /\ Behind(queue, self) /\ self \notin waiting
          /\ \A i \in 1..Len(queue) :
                /\ ~ Wakes(queue[i], self)
                /\ Staying(queue[i], self) => queue[i].left <= longest
      BY <2>1, <2>7 DEF RefireInv, Refires, InLine, FiringKnowsLongest
    <3>2. PICK k \in 1..(Len(queue) + 1) :
             Added(k, c.target, c.input, c.delay, self, output)
      BY <1>a, <2>1, <2>2, <2>3, AddFacts
    <3>3. ~ Wakes(e, self)
      BY <2>3, <2>5 DEF Wakes
    <3>4. Behind(queue', self)
      BY <1>b, <1>c, <2>2, <2>7, <3>1, <3>2, <3>3, BehindAdd
    <3>5. \A j \in 1..Len(queue') : \/ queue'[j] = e
                                    \/ \E x \in 1..Len(queue) : queue'[j] = queue[x]
      BY <1>a, <2>1, <2>2, <2>3, AddElements
    <3>6. longest' \in Nat /\ longest <= longest' /\ (~ c.once => c.delay <= longest')
      BY <2>1, <2>2
    <3>7. Staying(e, self) => e.left <= longest'
      BY <2>5, <3>6 DEF Staying
    <3> HIDE DEF e
    <3>8. ASSUME NEW j \in 1..Len(queue')
          PROVE  /\ ~ Wakes(queue'[j], self)
                 /\ Staying(queue'[j], self) => queue'[j].left <= longest'
      <4>1. CASE queue'[j] = e
        BY <3>3, <3>7, <4>1
      <4>2. ASSUME NEW x \in 1..Len(queue), queue'[j] = queue[x]
            PROVE  /\ ~ Wakes(queue'[j], self)
                   /\ Staying(queue'[j], self) => queue'[j].left <= longest'
        <5>1. queue[x].left \in Int
          BY <1>b, EventFacts
        <5> QED
          BY <2>2, <3>1, <3>6, <4>2, <5>1
      <4> QED
        BY <3>5, <4>1, <4>2
    <3> QED
      BY <2>1, <2>4, <2>7, <3>1, <3>4, <3>8 DEF Refires, InLine, Behind, IdleHasNone,
         FiringKnowsLongest, CancelledSoFar, Busy
  <2> QED
    BY <2>4, <2>6, <2>7
<1>7. CASE FiredAndWaits
  <2> DEFINE e == NewEvent(queue, self, "EnableRefire", RefireDelay, self, 0)
  <2>1. /\ self \in Targets /\ RefireDelay \in Nat /\ RefireDelay \in Int
        /\ longest <= RefireDelay /\ longest \in Nat
        /\ AddEvent(self, "EnableRefire", RefireDelay, self, 0) /\ self \in Waiters
        /\ phase = "firing" /\ phase' = "handled" /\ waiting' = waiting \cup {self}
    BY <1>7, <1>a, DelaysAssumption
    DEF FiredAndWaits, Fired, Targets, RefireDelay, TypeInv, QueueTypeOK, Waiters
  <2>2. Rising' /\ Len(saved') = 0
    BY <1>e, <2>1
  <2>3. e.caller = self /\ e.target = self /\ e.output = 0
    BY DEF NewEvent
  <2>4. ASSUME NEW r \in Waiters, r # self PROVE Refires(r)'
    <3>1. ~ Mark(e, r)
      BY <2>3, <2>4 DEF Mark, Wakes, Staying, IsOutput
    <3>2. Refires(r) /\ Behind(queue, r)
      BY DEF RefireInv, Refires, InLine
    <3>3. /\ Behind(queue', r)
          /\ (\A x \in 1..Len(queue) : Mark(queue[x], r) => x = pe) =>
                 \A j \in 1..Len(queue') : Mark(queue'[j], r) => j = pe'
      BY SMTT(30), <1>a, <1>c, <2>1, <3>1, <3>2, AddUnmarked
    <3> QED
      BY <2>1, <2>2, <2>4, <3>2, <3>3 DEF Refires, InLine, Behind, IdleHasNone,
         FiringKnowsLongest, CancelledSoFar, Busy
  <2>5. Behind(queue', self)
    <3>1. /\ Behind(queue, self)
          /\ \A i \in 1..Len(queue) :
                /\ ~ Wakes(queue[i], self)
                /\ Staying(queue[i], self) => queue[i].left <= longest
      BY <2>1 DEF RefireInv, Refires, InLine, FiringKnowsLongest
    <3>2. PICK k \in 1..(Len(queue) + 1) :
             Added(k, self, "EnableRefire", RefireDelay, self, 0)
      BY <1>a, <2>1, AddFacts
    <3>3. ASSUME NEW j \in 1..Len(queue), Mark(queue[j], self) PROVE j < k
      <4>1. queue[j].left \in Int /\ queue[j].left <= RefireDelay
        BY <1>b, <2>1, <3>1, <3>3, EventFacts DEF Mark
      <4>2. CASE k <= j
        <5>1. /\ k \in 1..Len(queue) /\ queue[k].left > RefireDelay
              /\ queue[k].left \in Int
          BY <1>b, <3>2, <4>2, EventFacts DEF Added, Place
        <5>2. k = j \/ Before(queue[k], queue[j])
          BY <1>a, <4>2, <5>1 DEF OrderInv, Ordered
        <5> QED
          BY <2>1, <4>1, <5>1, <5>2 DEF Before
      <4> QED
        BY <1>b, <4>2
    <3> QED
      BY <1>b, <1>c, <2>1, <3>1, <3>2, <3>3, BehindAdd
  <2>6. ASSUME NEW r \in Waiters, r = self PROVE Refires(r)'
    BY <2>1, <2>2, <2>5, <2>6 DEF Refires, InLine, Behind, IdleHasNone,
       FiringKnowsLongest, CancelledSoFar, Busy
  <2> QED
    BY <2>2, <2>4, <2>6
<1>8. CASE CancelEvent
  <2>1. /\ cursor \in 1..Len(queue) /\ queue' = RemoveAt(queue, cursor)
        /\ pe' = IF pe = cursor THEN 0 ELSE IF pe > cursor THEN pe - 1 ELSE pe
        /\ phase = "cancelling" /\ phase' = "cancelling" /\ self' = self
        /\ waiting' = waiting /\ cursor' = cursor
    BY <1>8, <1>a DEF CancelEvent, Cancelling, TypeInv, QueueTypeOK, relayVars
  <2>2. \A i \in 1..Len(queue') :
              /\ From(i, cursor) \in 1..Len(queue) /\ From(i, cursor) # cursor
              /\ Alike(queue'[i], queue[From(i, cursor)])
    BY <1>a, <1>b, <2>1, RemoveElements DEF OrderInv
  <2>3. Rising' /\ Len(saved') = 0
    BY <1>e, <2>1
  <2>4. ASSUME NEW r \in Waiters PROVE Refires(r)'
    <3>1. Refires(r) /\ Behind(queue, r)
      BY DEF RefireInv, Refires, InLine
    <3>2. Behind(queue', r)
      BY <1>a, <1>b, <2>1, <3>1, BehindRemove DEF OrderInv
    <3>3. CancelledSoFar(r)'
      <4>1. \A i \in 1..Len(queue') : i < cursor => From(i, cursor) = i
        BY DEF From
      <4> QED
        BY <2>1, <2>2, <3>1, <4>1 DEF Refires, CancelledSoFar, Alike
    <3>4. IdleHasNone(r)'
      <4>1. ASSUME r \notin waiting, r # self, NEW i \in 1..Len(queue'), Mark(queue'[i], r)
            PROVE  i = pe'
        <5>1. From(i, cursor) \in 1..Len(queue) /\ From(i, cursor) # cursor
              /\ Mark(queue[From(i, cursor)], r)
          BY <2>2, <4>1 DEF Alike, Mark, Wakes, Staying, IsOutput
        <5>2. From(i, cursor) = pe
          BY <3>1, <4>1, <5>1 DEF Refires, IdleHasNone, Busy
        <5> QED
          BY <1>b, <2>1, <5>1, <5>2 DEF From
      <4> QED
        BY <2>1, <2>3, <4>1 DEF IdleHasNone, Busy
    <3> QED
      BY <2>1, <2>3, <3>2, <3>3, <3>4 DEF Refires, InLine, Behind, FiringKnowsLongest
  <2> QED
    BY <2>3, <2>4
<1>9. CASE Served
  <2>1. /\ pe \in 1..Len(queue) /\ queue' = RemoveAt(queue, pe) /\ pe' = 0
        /\ phase = "handled" /\ phase' = "service" /\ waiting' = waiting
    BY <1>9, <1>a DEF Served, TypeInv, QueueTypeOK, relayVars
  <2>2. \A i \in 1..Len(queue') :
              /\ From(i, pe) \in 1..Len(queue) /\ From(i, pe) # pe
              /\ Alike(queue'[i], queue[From(i, pe)])
    BY <1>a, <1>b, <2>1, RemoveElements DEF OrderInv
  <2>3. Rising' /\ Len(saved') = 0
    BY <1>e, <2>1
  <2>4. ASSUME NEW r \in Waiters PROVE Refires(r)'
    <3>1. Refires(r) /\ Behind(queue, r)
      BY DEF RefireInv, Refires, InLine
    <3>2. Behind(queue', r)
      BY <1>a, <1>b, <2>1, <3>1, BehindRemove DEF OrderInv
    <3>3. \A i \in 1..Len(queue') : Mark(queue'[i], r) => Mark(queue[From(i, pe)], r)
      BY <2>2 DEF Alike, Mark, Wakes, Staying, IsOutput
    <3>4. r \notin waiting => \A i \in 1..Len(queue') : ~ Mark(queue'[i], r)
      BY <2>1, <2>2, <3>1, <3>3 DEF Refires, IdleHasNone, Busy
    <3> QED
      BY <2>1, <2>3, <3>2, <3>4 DEF Refires, InLine, Behind, IdleHasNone,
         FiringKnowsLongest, CancelledSoFar
  <2> QED
    BY <2>3, <2>4
<1>10. CASE SaveAndClear
  <2>1. /\ queue' = <<>> /\ Len(queue') = 0 /\ waiting' = waiting
        /\ saved' = [i \in 1..Len(queue) |-> [queue[i] EXCEPT !.left = SavedTime(@)]]
        /\ phase = "between" /\ phase' = "restoring"
    BY <1>10 DEF SaveAndClear, relayVars
  <2>2. Len(saved') = Len(queue)
    BY <1>b, <2>1
  <2>3. ASSUME NEW i \in 1..Len(queue)
        PROVE  /\ \A r : /\ Mark(saved'[i], r) <=> Mark(queue[i], r)
                         /\ Wakes(saved'[i], r) <=> Wakes(queue[i], r)
               /\ saved'[i].left = IF queue[i].left = 0 THEN 1 ELSE queue[i].left
               /\ queue[i].left \in Nat
    <3>1. saved'[i] = [queue[i] EXCEPT !.left = SavedTime(@)] /\ queue[i] \in Event
      BY <1>b, <2>1
    <3>2. /\ saved'[i].input = queue[i].input /\ saved'[i].target = queue[i].target
          /\ saved'[i].caller = queue[i].caller /\ saved'[i].output = queue[i].output
          /\ saved'[i].left = SavedTime(queue[i].left)
      BY <3>1 DEF Event
    <3>3. queue[i].left \in Int /\ queue[i].left >= 0
      BY <1>a, <1>b, <2>1, EventFacts DEF OrderInv, NoneOverdue
    <3> QED
      BY <3>2, <3>3 DEF Mark, Wakes, Staying, IsOutput, SavedTime
  <2>4. Rising'
    <3>0. Len(queue') = 0
      BY <2>1
    <3>1. ASSUME NEW i \in 1..Len(queue), NEW j \in 1..Len(queue), i < j
          PROVE  saved'[i].left <= saved'[j].left
      <4>1. queue[i].left <= queue[j].left
        BY <1>a, <2>3, <3>1 DEF OrderInv, Ordered, Before
      <4> QED
        BY <2>3, <4>1
    <3> QED
      BY <2>2, <3>0, <3>1 DEF Rising
  <2>5. ASSUME NEW r \in Waiters PROVE Refires(r)'
    <3>1. Refires(r) /\ Behind(queue, r) /\ pe = 0
      BY <1>f, <2>1 DEF RefireInv, Refires, InLine
    <3>2. Behind(saved', r)
      BY <2>2, <2>3, <3>1 DEF Behind
    <3>3. r \notin waiting => \A i \in 1..Len(queue) : ~ Mark(queue[i], r)
      BY <2>1, <3>1 DEF Refires, IdleHasNone, Busy
    <3>4. Len(queue') = 0 /\ phase' = "restoring" /\ waiting' = waiting
      BY <2>1
    <3>5. InLine(r)'
      BY <3>2, <3>4 DEF InLine, Behind
    <3>6. IdleHasNone(r)'
      <4>1. \A i \in 1..Len(queue) : Mark(saved'[i], r) <=> Mark(queue[i], r)
        BY <2>3
      <4>2. r \notin waiting => \A i \in 1..Len(saved') : ~ Mark(saved'[i], r)
        BY <2>2, <3>3, <4>1
      <4> QED
        BY <3>4, <4>2 DEF IdleHasNone
    <3> QED
      BY <3>4, <3>5, <3>6 DEF Refires, FiringKnowsLongest, CancelledSoFar
  <2> QED
    BY <2>4, <2>5
<1>11. CASE RestoreEvent
  <2> DEFINE s == saved[1]
             e == NewEvent(queue, s.target, s.input, s.left, s.caller, s.output)
  <2>1. /\ phase = "restoring" /\ phase' = phase /\ saved # <<>> /\ saved' = Tail(saved)
        /\ AddEvent(s.target, s.input, s.left, s.caller, s.output)
        /\ waiting' = waiting
    BY <1>11 DEF RestoreEvent, relayVars
  <2>2. /\ s \in Event /\ s.left >= 0 /\ Len(saved) \in Nat /\ Len(saved) >= 1
        /\ 1 \in 1..Len(saved)
    BY <1>a, <1>b, <2>1 DEF OrderInv, NoneOverdue
  <2>3. /\ s.target \in Targets /\ s.input \in Inputs \cup {"EnableRefire"}
        /\ s.left \in Nat /\ s.caller \in Targets /\ s.output \in Nat /\ s.left \in Int
    BY <2>2 DEF Event, Targets
  <2>4. Len(saved') = Len(saved) - 1 /\ \A i \in 1..Len(saved') : saved'[i] = saved[i + 1]
    BY <1>b, <2>1, <2>2
  <2>5. \A r : (Mark(e, r) <=> Mark(s, r)) /\ (Wakes(e, r) <=> Wakes(s, r))
    BY DEF NewEvent, Mark, Wakes, Staying, IsOutput
  <2>6. e.left = s.left
    BY DEF NewEvent
  <2>7. \A j \in 1..Len(queue') : \/ queue'[j] = e
                                  \/ \E x \in 1..Len(queue) : queue'[j] = queue[x]
    <3>1. AddEvent(s.target, s.input, s.left, s.caller, s.output)
      BY <2>1
    <3> HIDE DEF s
    <3>2. PICK k \in 1..(Len(queue) + 1) :
             Added(k, s.target, s.input, s.left, s.caller, s.output)
      BY <1>a, <2>3, <3>1, AddFacts
    <3>3. queue'[k] = e /\ Len(queue') = Len(queue) + 1
      BY <3>2 DEF Added
    <3> HIDE DEF e
    <3>4. Len(queue) \in Nat
      BY <1>b
    <3>5. ASSUME NEW j \in 1..Len(queue'), j < k
          PROVE  j \in 1..Len(queue) /\ queue'[j] = queue[j]
      BY <3>2, <3>3, <3>4, <3>5 DEF Added
    <3>6. ASSUME NEW j \in 1..Len(queue'), j > k
          PROVE  j - 1 \in 1..Len(queue) /\ queue'[j] = queue[j - 1]
      BY <3>2, <3>3, <3>4, <3>6 DEF Added
    <3> QED
      BY <3>2, <3>3, <3>4, <3>5, <3>6
  <2>8. PICK k \in 1..(Len(queue) + 1) :
           Added(k, s.target, s.input, s.left, s.caller, s.output)
    BY <1>a, <2>1, <2>3, AddFacts
  <2>9. k = Len(queue) + 1
    <3>1. CASE k <= Len(queue)
      <4>1. k \in 1..Len(queue) /\ queue[k].left > s.left /\ queue[k].left \in Int
        BY <1>b, <2>8, <3>1, EventFacts DEF Added, Place
      <4>2. queue[k].left <= s.left
        BY <2>2, <4>1 DEF RefireInv, Rising
      <4> QED
        BY <2>3, <4>1, <4>2
    <3> QED
      BY <1>b, <3>1
  <2>10. Rising'
    <3> HIDE DEF e
    <3>1. \A i, j \in 1..Len(saved') : i < j => saved'[i].left <= saved'[j].left
      <4>1. ASSUME NEW i \in 1..Len(saved'), NEW j \in 1..Len(saved'), i < j
            PROVE  saved'[i].left <= saved'[j].left
        <5>1. i + 1 \in 1..Len(saved) /\ j + 1 \in 1..Len(saved) /\ i + 1 < j + 1
          BY <2>2, <2>4, <4>1
        <5> QED
          BY <2>4, <5>1 DEF RefireInv, Rising
      <4> QED
        BY <4>1
    <3>2. ASSUME NEW i \in 1..Len(queue'), NEW j \in 1..Len(saved')
          PROVE  queue'[i].left <= saved'[j].left
      <4>1. j + 1 \in 1..Len(saved) /\ 1 < j + 1 /\ saved'[j] = saved[j + 1]
        BY <2>2, <2>4
      <4>2. CASE queue'[i] = e
        BY <2>2, <2>6, <4>1, <4>2 DEF RefireInv, Rising
      <4>3. CASE \E x \in 1..Len(queue) : queue'[i] = queue[x]
        BY <4>1, <4>3 DEF RefireInv, Rising
      <4> QED
        BY <2>7, <4>2, <4>3
    <3> QED
      BY <3>1, <3>2 DEF Rising
  <2>11. ASSUME NEW r \in Waiters PROVE Refires(r)'
    <3>1. Refires(r) /\ InLine(r) /\ Behind(queue, r) /\ Behind(saved, r)
      BY DEF RefireInv, Refires, InLine
    <3>2. Behind(queue', r)
      <4>1. Mark(e, r) => \A j \in 1..Len(queue) : ~ Wakes(queue[j], r)
        BY <2>2, <2>5, <3>1 DEF InLine
      <4>2. Wakes(e, r) => \A j \in 1..Len(queue) : Mark(queue[j], r) => j < k
        BY <1>b, <2>9
      <4> QED
        BY <1>b, <1>c, <2>3, <2>8, <3>1, <4>1, <4>2, BehindAdd
    <3>3. Behind(saved', r)
      <4>1. ASSUME NEW i \in 1..Len(saved'), NEW j \in 1..Len(saved'),
                   Mark(saved'[i], r), Wakes(saved'[j], r)
            PROVE  i <= j
        <5>1. i + 1 \in 1..Len(saved) /\ j + 1 \in 1..Len(saved)
          BY <2>2, <2>4
        <5>2. i + 1 <= j + 1
          BY <2>4, <3>1, <4>1, <5>1 DEF Behind
        <5> QED
          BY <5>2
      <4> QED
        BY <4>1 DEF Behind
    <3>4. ASSUME NEW j \in 1..Len(queue'), Wakes(queue'[j], r), NEW i \in 1..Len(saved')
          PROVE  ~ Mark(saved'[i], r)
      <4>1. i + 1 \in 1..Len(saved) /\ i + 1 > 1 /\ saved'[i] = saved[i + 1]
        BY <2>2, <2>4
      <4> HIDE DEF e
      <4>2. CASE queue'[j] = e
        BY <2>2, <2>5, <3>1, <3>4, <4>1, <4>2 DEF Behind
      <4>3. CASE \E x \in 1..Len(queue) : queue'[j] = queue[x]
        BY <3>1, <3>4, <4>1, <4>3 DEF InLine
      <4> QED
        BY <2>7, <4>2, <4>3
    <3>5. ASSUME r \notin waiting
          PROVE  /\ \A i \in 1..Len(queue') : ~ Mark(queue'[i], r)
                 /\ \A i \in 1..Len(saved') : ~ Mark(saved'[i], r)
      <4>1. /\ \A i \in 1..Len(queue) : ~ Mark(queue[i], r)
            /\ \A i \in 1..Len(saved) : ~ Mark(saved[i], r)
        BY <1>f, <2>1, <3>1, <3>5 DEF Refires, IdleHasNone, Busy
      <4>2. ~ Mark(e, r)
        BY <2>2, <2>5, <4>1
      <4> HIDE DEF e
      <4>3. \A i \in 1..Len(saved') : i + 1 \in 1..Len(saved)
        BY <2>2, <2>4
      <4> QED
        BY <2>4, <2>7, <4>1, <4>2, <4>3
    <3>6. InLine(r)'
      BY <3>2, <3>3, <3>4 DEF InLine
    <3>7. IdleHasNone(r)'
      BY <2>1, <3>5 DEF IdleHasNone
    <3> QED
      BY <2>1, <3>6, <3>7 DEF Refires, FiringKnowsLongest, CancelledSoFar
  <2> QED
    BY <2>10, <2>11
<1>12. CASE CancelDone
  <2>1. /\ queue' = queue /\ pe' = pe /\ cursor > Len(queue)
        /\ waiting' = waiting \ {self} /\ phase = "cancelling"
        /\ phase' \in {"undefined", "handled"}
    BY <1>12 DEF CancelDone
  <2>2. Rising' /\ Len(saved') = 0
    BY <1>e, <2>1
  <2>3. ASSUME NEW r \in Waiters PROVE Refires(r)'
    <3>1. Refires(r) /\ Behind(queue, r)
      BY DEF RefireInv, Refires, InLine
    <3>2. ASSUME r = self PROVE \A i \in 1..Len(queue) : ~ Mark(queue[i], r)
      <4>1. \A i \in 1..Len(queue) : i < cursor
        BY <1>a, <1>b, <2>1 DEF TypeInv, QueueTypeOK
      <4>2. \A i \in 1..Len(queue) : queue[i].caller # r
        BY <2>1, <3>1, <3>2, <4>1 DEF Refires, CancelledSoFar
      <4> QED
        BY <1>a, <4>2 DEF WakeInv, Own, Mark, Wakes, Staying, IsOutput
    <3>3. r # self /\ r \notin waiting =>
             \A i \in 1..Len(queue) : Mark(queue[i], r) => i = pe
      BY <3>1 DEF Refires, IdleHasNone, Busy
    <3> QED
      BY <2>1, <2>2, <3>1, <3>2, <3>3 DEF Refires, InLine, Behind, IdleHasNone,
         FiringKnowsLongest, CancelledSoFar
  <2> QED
    BY <2>2, <2>3
<1>13. CASE ClearQueue
  <2>1. Len(queue') = 0 /\ phase' = "between"
    BY <1>13 DEF ClearQueue
  <2>2. Rising' /\ Len(saved') = 0
    BY <1>e, <2>1
  <2> QED
    BY <2>1, <2>2 DEF Refires, InLine, Behind, IdleHasNone, FiringKnowsLongest,
       CancelledSoFar
<1>14. CASE FiredAndRemoved \/ FiredFast
  <2>1. /\ queue' = queue /\ pe' = pe /\ waiting' = waiting /\ self \notin Waiters
        /\ phase' = "handled"
    BY <1>14 DEF FiredAndRemoved, FiredFast, Fired, relayVars, Waiters
  <2>2. Rising' /\ Len(saved') = 0
    BY <1>e, <2>1
  <2>3. \A r \in Waiters : Refires(r)
    BY DEF RefireInv
  <2> QED
    BY <2>1, <2>2, <2>3 DEF Refires, InLine, Behind, IdleHasNone, FiringKnowsLongest,
       CancelledSoFar, Busy
<1>15. CASE SkipSpent
  <2>1. /\ queue' = queue /\ pe' = pe /\ waiting' = waiting /\ saved' = saved
        /\ phase' = phase /\ self' = self /\ longest' = longest /\ cursor' = cursor
    BY <1>15 DEF SkipSpent, relayVars
  <2>2. Rising /\ \A r \in Waiters : Refires(r)
    BY DEF RefireInv
  <2> QED
    BY <2>1, <2>2 DEF Refires, InLine, Behind, IdleHasNone, FiringKnowsLongest,
       CancelledSoFar, Busy, Rising
<1>16. CASE PassEvent
  <2>1. /\ queue' = queue /\ pe' = pe /\ waiting' = waiting /\ saved' = saved
        /\ phase = "cancelling" /\ phase' = phase /\ self' = self
        /\ cursor' = cursor + 1 /\ cursor \in Nat /\ queue[cursor].caller # self
    BY <1>16, <1>a DEF PassEvent, Cancelling, relayVars, PostedBy, TypeInv, QueueTypeOK
  <2>2. Rising /\ \A r \in Waiters : Refires(r)
    BY DEF RefireInv
  <2>3. ASSUME NEW r \in Waiters PROVE CancelledSoFar(r)'
    <3>1. \A i \in 1..Len(queue) : i < cursor + 1 => i < cursor \/ i = cursor
      BY <2>1
    <3> QED
      BY <2>1, <2>2, <3>1 DEF Refires, CancelledSoFar
  <2> QED
    BY <2>1, <2>2, <2>3 DEF Refires, InLine, Behind, IdleHasNone, FiringKnowsLongest,
       Busy, Rising
<1>17. CASE ServiceEventQueue \/ ServiceDone \/ RestoreDone \/ Unnoticed
  <2>1. /\ queue' = queue /\ pe' = pe /\ waiting' = waiting
        /\ phase \in {"thinking", "service", "restoring", "undefined"}
        /\ phase' \in {"service", "between"}
    BY <1>17 DEF ServiceEventQueue, ServiceDone, RestoreDone, Unnoticed, relayVars
  <2>2. Rising' /\ Len(saved') = 0
    BY <1>e, <2>1
  <2>3. \A r \in Waiters : Refires(r)
    BY DEF RefireInv
  <2> QED
    BY <2>1, <2>2, <2>3 DEF Refires, InLine, Behind, IdleHasNone, FiringKnowsLongest,
       CancelledSoFar, Busy
<1>18. CASE UNCHANGED queueVars
  <2>1. Rising /\ \A r \in Waiters : Refires(r)
    BY DEF RefireInv
  <2> QED
    BY <1>18, <2>1 DEF queueVars, serviceVars, relayVars, Refires, InLine, Behind,
       IdleHasNone, FiringKnowsLongest, CancelledSoFar, Busy, Rising
<1> QED
  BY <1>1, <1>2, <1>3, <1>4, <1>5, <1>6, <1>7, <1>8, <1>9, <1>10, <1>11, <1>12,
     <1>13, <1>14, <1>15, <1>16, <1>17, <1>18 DEF QueueNext, Service, Restore

\* A relay that may be triggered again has no output left in the queue of a
\* connection that stays on its list, however it was triggered, cancelled,
\* saved and restored, and whatever the connections are.
THEOREM StayingBeforeRefireCorrect == QueueSpec => []StayingBeforeRefire
<1>1. RefireInv => StayingBeforeRefire
  <2> SUFFICES ASSUME RefireInv, NEW r \in Relays, MayRefire(r)
               PROVE  /\ \A i \in 1..Len(queue) : Staying(queue[i], r) => i = pe
                      /\ \A i \in 1..Len(saved) : ~ Staying(saved[i], r)
    BY DEF StayingBeforeRefire
  <2>1. r \in Waiters /\ r \notin waiting /\ ~ Busy(r)
    BY DEF MayRefire, Waiters, Busy
  <2> QED
    BY <2>1 DEF RefireInv, Refires, IdleHasNone, Mark
<1> QED
  BY <1>1, RefireInit, RefireStep, PTL DEF QueueSpec
=============================================================================
