----------------------------- MODULE EventQueue -----------------------------
(***************************************************************************)
(* The queue of delayed entity inputs (g_EventQueue) and the logic_relays  *)
(* that post to it while it is being served.  The queue is a linked list   *)
(* in the order of the fire times; ServiceEvents fires its head as long as *)
(* it is due, and the handler of the input runs while the event is still   *)
(* in the list: it may add events, and cancel events, among them the one   *)
(* that is being served.                                                   *)
(*                                                                         *)
(* Times are relative to curtime, in units of the 0.001 s by which a relay *)
(* waits longer than its last output.  Names are unique; entities other    *)
(* than relays only post.  The loops of FireOutput and CancelEvents make   *)
(* one turn per step, and nothing happens between the turns.               *)
(***************************************************************************)
EXTENDS Integers, Sequences

CONSTANTS
    Relays,
    NoOne,          \* no entity: an unknown target, no caller
    OnTrigger,      \* [Relays -> Seq of connections]
    FastRetrigger,  \* relays with SF_ALLOW_FAST_RETRIGGER
    RemoveOnFire,   \* relays with SF_REMOVE_ON_FIRE
    RefireGap,      \* curtime + 0.001 in units; 0 once curtime is too large
    Posts,          \* inputs the rest of the game and the operator post
    MaxPosts,       \* bound: they post only into a queue shorter than this
    MaxFrame        \* bound on the time between two frames

Inputs == {"Trigger", "Enable", "Disable", "Toggle", "CancelPending"}
Connection == [target : Relays \cup {NoOne}, input : Inputs, delay : Nat,
               once : BOOLEAN]    \* once: m_nTimesToFire is 1, not EVENT_FIRE_ALWAYS

ASSUME RelaysAssumption == /\ NoOne \notin Relays
                           /\ OnTrigger \in [Relays -> Seq(Connection)]
                           /\ Posts \subseteq Connection
ASSUME DelaysAssumption == /\ RefireGap \in {0, 1}
                          /\ MaxPosts \in Nat /\ MaxFrame \in Nat \ {0}

VARIABLES
    queue,      \* the events in the list m_Events
    phase,      \* where the frame is, see PhaseOK
    pe,         \* position of the event being served, 0 if there is none
    self,       \* the relay whose input handler runs
    output,     \* FireOutput: the connection it is at
    longest,    \* GetMaxDelay of the connections that stay
    cursor,     \* CancelEvents: the event it is at
    saved,      \* Restore: the events it has yet to add
    disabled, waiting,  \* relays: m_bDisabled, m_bWaitForRefire
    gone,       \* relays UTIL_Remove was called for
    spent       \* <<relay, connection>> removed from the action list

serviceVars == <<phase, pe, self, output, longest, cursor>>
relayVars   == <<disabled, waiting, gone, spent>>
queueVars   == <<queue, serviceVars, saved, relayVars>>

\* stamp: history, the rank of the event in the order of posting.
Event == [stamp : Nat \ {0}, left : Int, target : Relays \cup {NoOne},
          input : Inputs \cup {"EnableRefire"}, caller : Relays \cup {NoOne},
          output : Nat]
-----------------------------------------------------------------------------
(* The list.                                                               *)

\* AddEvent: the first place behind which every event is later.
BadPlace(q, t, k) == /\ \A i \in 1..(k - 1) : q[i].left < t  \* before its equals
                     /\ k <= Len(q) => q[k].left >= t
Place(q, t, k) == /\ \A i \in 1..(k - 1) : q[i].left <= t
                  /\ k <= Len(q) => q[k].left > t

InsertAt(q, k, e) ==
    [i \in 1..(Len(q) + 1) |-> IF i < k THEN q[i] ELSE IF i = k THEN e ELSE q[i - 1]]

\* The events posted after the one that is removed move up in that order.
Renumber(e, s) == IF e.stamp > s THEN [e EXCEPT !.stamp = @ - 1] ELSE e

\* RemoveEvent
RemoveAt(q, k) ==
    [i \in 1..(Len(q) - 1) |->
        Renumber(IF i < k THEN q[i] ELSE q[i + 1], q[k].stamp)]

NewEvent(q, target, input, delay, caller, out) ==
    [stamp |-> Len(q) + 1, left |-> delay, target |-> target, input |-> input,
     caller |-> caller, output |-> out]

\* AddEvent; the event being served may move.
AddEvent(target, input, delay, caller, out) ==
    \E k \in 1..(Len(queue) + 1) :
        /\ Place(queue, delay, k)
        /\ queue' = InsertAt(queue, k, NewEvent(queue, target, input, delay, caller, out))
        /\ pe' = IF pe >= k THEN pe + 1 ELSE pe

Ahead(q, d) == [i \in 1..Len(q) |-> [q[i] EXCEPT !.left = @ - d]]
-----------------------------------------------------------------------------
(* Between frames, and the frame's clock.                                  *)

\* Commands between frames, think and touch functions in them.
Post(p) ==
    /\ phase \in {"between", "thinking"}
    /\ Len(queue) < MaxPosts
    /\ AddEvent(p.target, p.input, p.delay, NoOne, 0)
    /\ UNCHANGED <<phase, self, output, longest, cursor, saved, relayVars>>

\* CServerGameDLL::GameFrame: time has passed, entities think ...
Frame(d) ==
    /\ phase = "between"
    /\ queue' = Ahead(queue, d)
    /\ phase' = "thinking"
    /\ UNCHANGED <<pe, self, output, longest, cursor, saved, relayVars>>

\* ... and ServiceEventQueue is called.
ServiceEventQueue ==
    /\ phase = "thinking"
    /\ phase' = "service"
    /\ UNCHANGED <<queue, pe, self, output, longest, cursor, saved, relayVars>>

ServiceDone ==
    /\ phase = "service"
    /\ queue # <<>> => queue[1].left > 0
    /\ phase' = "between"
    /\ UNCHANGED <<queue, pe, self, output, longest, cursor, saved, relayVars>>
-----------------------------------------------------------------------------
(* ServiceEvents: the head is due, its target is found and gets the input. *)

Due == phase = "service" /\ queue # <<>> /\ queue[1].left <= 0

Serve(r, input) ==
    /\ Due
    /\ queue[1].target = r /\ r \in Relays \ gone /\ queue[1].input = input
    /\ pe' = 1

\* No entity of that name: unhandled input.
ServeNoOne ==
    /\ Due
    /\ queue[1].target \in {NoOne} \cup gone
    /\ pe' = 1 /\ phase' = "handled"
    /\ UNCHANGED <<queue, self, output, longest, cursor, saved, relayVars>>

\* InputEnable, InputDisable, InputToggle, InputEnableRefire
InputFlags(r) ==
    /\ \/ /\ Serve(r, "Enable")
          /\ disabled' = disabled \ {r} /\ UNCHANGED waiting
       \/ /\ Serve(r, "Disable")
          /\ disabled' = disabled \cup {r} /\ UNCHANGED waiting
       \/ /\ Serve(r, "Toggle")
          /\ disabled' = (disabled \ {r}) \cup ({r} \ disabled) /\ UNCHANGED waiting
       \/ /\ Serve(r, "EnableRefire")
          /\ waiting' = waiting \ {r} /\ UNCHANGED disabled
    /\ phase' = "handled"
    /\ UNCHANGED <<queue, self, output, longest, cursor, saved, gone, spent>>

\* InputTrigger
MayFire(r) == r \notin disabled /\ r \notin waiting

IgnoreTrigger(r) ==
    /\ Serve(r, "Trigger") /\ ~ MayFire(r)
    /\ phase' = "handled"
    /\ UNCHANGED <<queue, self, output, longest, cursor, saved, relayVars>>

InputTrigger(r) ==
    /\ Serve(r, "Trigger") /\ MayFire(r)
    /\ phase' = "firing" /\ self' = r /\ output' = 1 /\ longest' = 0
    /\ UNCHANGED <<queue, cursor, saved, relayVars>>

Firing == phase = "firing" /\ output <= Len(OnTrigger[self])

\* FireOutput posts a connection and takes it off the list if it was the last
\* time; GetMaxDelay, called afterwards, sees those that are left.
FireOutput ==
    /\ Firing
    /\ <<self, output>> \notin spent
    /\ LET c == OnTrigger[self][output] IN
       /\ AddEvent(c.target, c.input, c.delay, self, output)
       /\ spent' = IF c.once THEN spent \cup {<<self, output>>} ELSE spent
       /\ longest' = IF ~ c.once /\ c.delay > longest THEN c.delay ELSE longest
    /\ output' = output + 1
    /\ UNCHANGED <<phase, self, cursor, saved, disabled, waiting, gone>>

SkipSpent ==
    /\ Firing
    /\ <<self, output>> \in spent
    /\ output' = output + 1
    /\ UNCHANGED <<queue, phase, pe, self, longest, cursor, saved, relayVars>>

Fired == phase = "firing" /\ output > Len(OnTrigger[self])

FiredAndRemoved ==
    /\ Fired /\ self \in RemoveOnFire
    /\ gone' = gone \cup {self}
    /\ phase' = "handled"
    /\ UNCHANGED <<queue, pe, self, output, longest, cursor, saved, disabled, waiting, spent>>

FiredFast ==
    /\ Fired /\ self \in FastRetrigger \ RemoveOnFire
    /\ phase' = "handled"
    /\ UNCHANGED <<queue, pe, self, output, longest, cursor, saved, relayVars>>

BadRefireDelay == longest                                 \* without the 0.001
Bad2RefireDelay == RefireGap                              \* not the longest delay
RefireDelay == longest + RefireGap

FiredAndWaits ==
    /\ Fired /\ self \notin FastRetrigger \cup RemoveOnFire
    /\ waiting' = waiting \cup {self}
    /\ AddEvent(self, "EnableRefire", RefireDelay, self, 0)
    /\ phase' = "handled"
    /\ UNCHANGED <<self, output, longest, cursor, saved, disabled, gone, spent>>
-----------------------------------------------------------------------------
(* InputCancelPending: CancelEvents( this ) deletes every event this relay *)
(* posted, the one that is being served if it is one of them.              *)

InputCancelPending(r) ==
    /\ Serve(r, "CancelPending")
    /\ phase' = "cancelling" /\ self' = r /\ cursor' = 1
    /\ UNCHANGED <<queue, output, longest, saved, relayVars>>

Cancelling == phase = "cancelling" /\ cursor <= Len(queue)

BadPostedBy(e, r) == e.target = r                         \* as CancelEventOn does
PostedBy(e, r) == e.caller = r

CancelEvent ==
    /\ Cancelling /\ PostedBy(queue[cursor], self)
    /\ queue' = RemoveAt(queue, cursor)
    /\ pe' = IF pe = cursor THEN 0 ELSE IF pe > cursor THEN pe - 1 ELSE pe
    /\ UNCHANGED <<phase, self, output, longest, cursor, saved, relayVars>>

PassEvent ==
    /\ Cancelling /\ ~ PostedBy(queue[cursor], self)
    /\ cursor' = cursor + 1
    /\ UNCHANGED <<queue, phase, pe, self, output, longest, saved, relayVars>>

\* ServiceEvents goes on with pe: if it was deleted, with freed memory.
BadCancelDone ==                                          \* as if it were there
    /\ phase = "cancelling" /\ cursor > Len(queue)
    /\ waiting' = waiting \ {self}
    /\ phase' = "handled"
    /\ UNCHANGED <<queue, pe, self, output, longest, cursor, saved, disabled, gone, spent>>
Bad2CancelDone ==                                         \* goes on waiting
    /\ phase = "cancelling" /\ cursor > Len(queue)
    /\ phase' = IF pe = 0 THEN "undefined" ELSE "handled"
    /\ UNCHANGED <<queue, pe, self, output, longest, cursor, saved, relayVars>>
CancelDone ==
    /\ phase = "cancelling" /\ cursor > Len(queue)
    /\ waiting' = waiting \ {self}
    /\ phase' = IF pe = 0 THEN "undefined" ELSE "handled"
    /\ UNCHANGED <<queue, pe, self, output, longest, cursor, saved, disabled, gone, spent>>

\* The freed event is unlinked and freed again: that may go unnoticed.
Unnoticed ==
    /\ phase = "undefined"
    /\ phase' = "service"
    /\ self' = NoOne /\ cursor' = 0
    /\ UNCHANGED <<queue, pe, output, longest, saved, relayVars>>

\* RemoveEvent( pe ), and on with the head of the list.
Served ==
    /\ phase = "handled"
    /\ queue' = RemoveAt(queue, pe)
    /\ phase' = "service"
    /\ pe' = 0 /\ self' = NoOne /\ output' = 0 /\ longest' = 0 /\ cursor' = 0
    /\ UNCHANGED <<saved, relayVars>>
-----------------------------------------------------------------------------
(* Save and Restore; restarts.                                             *)

\* WriteTime: a time that is now is saved as a moment later.
SavedTime(t) == IF t = 0 THEN 1 ELSE t

\* The level is left and saved, and comes back when a player returns.
SaveAndClear ==
    /\ phase = "between"
    /\ saved' = [i \in 1..Len(queue) |-> [queue[i] EXCEPT !.left = SavedTime(@)]]
    /\ queue' = <<>>
    /\ phase' = "restoring"
    /\ UNCHANGED <<pe, self, output, longest, cursor, relayVars>>

RestoreEvent ==
    /\ phase = "restoring" /\ saved # <<>>
    /\ AddEvent(saved[1].target, saved[1].input, saved[1].left,
                saved[1].caller, saved[1].output)
    /\ saved' = Tail(saved)
    /\ UNCHANGED <<phase, self, output, longest, cursor, relayVars>>

RestoreDone ==
    /\ phase = "restoring" /\ saved = <<>>
    /\ phase' = "between"
    /\ UNCHANGED <<queue, pe, self, output, longest, cursor, saved, relayVars>>

\* CleanUpMap, CWorld::Spawn, or a new process: entities and queue are new.
ClearQueue ==
    /\ phase \in {"between", "undefined"}
    /\ queue' = <<>> /\ phase' = "between" /\ pe' = 0
    /\ self' = NoOne /\ cursor' = 0
    /\ disabled' = {} /\ waiting' = {} /\ gone' = {} /\ spent' = {}
    /\ UNCHANGED <<output, longest, saved>>
-----------------------------------------------------------------------------
QueueInit ==
    /\ queue = <<>> /\ phase = "between" /\ pe = 0
    /\ self = NoOne /\ output = 0 /\ longest = 0 /\ cursor = 0 /\ saved = <<>>
    /\ disabled = {} /\ waiting = {} /\ gone = {} /\ spent = {}

\* ServiceEvents and the handlers it calls.
Service ==
    \/ ServeNoOne
    \/ \E r \in Relays : \/ InputFlags(r) \/ IgnoreTrigger(r)
                         \/ InputTrigger(r) \/ InputCancelPending(r)
    \/ FireOutput \/ SkipSpent \/ FiredAndRemoved \/ FiredFast \/ FiredAndWaits
    \/ CancelEvent \/ PassEvent \/ CancelDone
    \/ Served \/ ServiceEventQueue \/ ServiceDone

Restore == RestoreEvent \/ RestoreDone

QueueNext ==
    \/ \E p \in Posts : Post(p)
    \/ \E d \in 1..MaxFrame : Frame(d)
    \/ Service
    \/ Unnoticed
    \/ SaveAndClear \/ Restore
    \/ ClearQueue

\* Frames are run, also when the level is left again and again.
QueueFairness == /\ SF_queueVars(\E d \in 1..MaxFrame : Frame(d))
                 /\ WF_queueVars(Service) /\ WF_queueVars(Restore)

QueueSpec == QueueInit /\ [][QueueNext]_queueVars /\ QueueFairness
-----------------------------------------------------------------------------
\* Every variable holds a value of its type, and an event is being served
\* exactly while a handler runs that has not deleted it.
QueueTypeOK ==
    /\ queue \in Seq(Event) /\ saved \in Seq(Event)
    /\ phase \in {"between", "thinking", "service", "handled", "firing", "cancelling",
                  "undefined", "restoring"}
    /\ saved # <<>> => phase = "restoring"
    /\ pe \in 0..Len(queue)
    /\ phase \in {"handled", "firing"} => pe # 0
    /\ phase \in {"between", "thinking", "service", "undefined", "restoring"} => pe = 0
    /\ self \in Relays \cup {NoOne} /\ output \in Nat /\ longest \in Nat /\ cursor \in Nat
    /\ phase \in {"firing", "cancelling"} => self \in Relays
    /\ disabled \subseteq Relays /\ waiting \subseteq Relays /\ gone \subseteq Relays
    /\ spent \subseteq Relays \X Nat

Before(e, f) == e.left < f.left \/ (e.left = f.left /\ e.stamp < f.stamp)
Ordered(q) == \A i, j \in 1..Len(q) : i < j => Before(q[i], q[j])

\* Whatever handlers add and cancel while the queue is served, and however
\* often it is saved and restored: it is in the order of the times, events for
\* the same time in the order of their posting, and the event that is served is
\* its head, so nothing that is added runs ahead of it.
QueueInOrder == Ordered(queue) /\ pe \in {0, 1}

\* A relay that waits is woken: its EnableRefire is in the queue (or about to be
\* restored), not lost to a cancellation, a save or an input it sent itself.
Wakes(e, r) == e.input = "EnableRefire" /\ e.target = r
WaitingIsWoken ==
    \A r \in waiting :
        \/ \E i \in 1..Len(queue) : Wakes(queue[i], r)
        \/ \E i \in 1..Len(saved) : Wakes(saved[i], r)
        \/ phase = "cancelling" /\ self = r

\* A relay "cannot be refired until after the last output has been fired": one
\* that may fire has no output in the queue but the event being served.
IsOutput(e, r) == e.caller = r /\ e.output # 0
MayRefire(r) == r \notin waiting \cup FastRetrigger \cup RemoveOnFire
                /\ ~ (phase \in {"firing", "cancelling"} /\ self = r)
OutputsBeforeRefire ==
    \A r \in Relays : MayRefire(r) =>
        \A i \in 1..Len(queue) : IsOutput(queue[i], r) => i = pe

\* What holds of it: a connection that fires every time is not left in the
\* queue.  (One that fires only once is off the relay's list when the longest
\* delay is looked for.)
Staying(e, r) == IsOutput(e, r) /\ ~ OnTrigger[r][e.output].once
StayingBeforeRefire ==
    \A r \in Relays : MayRefire(r) =>
        /\ \A i \in 1..Len(queue) : Staying(queue[i], r) => i = pe
        /\ \A i \in 1..Len(saved) : ~ Staying(saved[i], r)

\* The frame ends: relays that trigger one another without a delay do not keep
\* ServiceEvents busy for ever, because each waits a moment before it refires.
FrameEnds == phase = "thinking" ~> phase \in {"between", "undefined"}

\* A relay that waits (some never do) may fire again, unless the server is lost
\* or restarted.
RefireEnds == \A r \in Relays \ (FastRetrigger \cup RemoveOnFire) :
                  r \in waiting ~> r \notin waiting \/ phase = "undefined"

\* The abstract queue: the event being served has fired already, those that
\* are being restored are there already.
Numbered(q, n) == {[q[i] EXCEPT !.stamp = n + i] : i \in 1..Len(q)}
PendingEvents ==
    LET left == IF pe = 0 THEN queue ELSE RemoveAt(queue, pe)
    IN {left[i] : i \in 1..Len(left)} \cup Numbered(saved, Len(left))
Timed == INSTANCE TimedEvents WITH pending <- PendingEvents

\* Events fire when they are due, in the order of their times and their posting,
\* and none is lost: the queue implements TimedEvents.
FiresInOrder == Timed!TimedSpec
=============================================================================
