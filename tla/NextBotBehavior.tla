-------------------------- MODULE NextBotBehavior --------------------------
(***************************************************************************)
(* The actions of a bot (Behavior and Action): a stack of actions, each of *)
(* which may contain a stack of its own.  An action says what becomes of   *)
(* it when it is started, updated, suspended or resumed, and asks for      *)
(* changes when it handles an event; the bookkeeping creates, covers,      *)
(* resumes, ends and deletes actions through raw pointers.                 *)
(*                                                                         *)
(* What the virtual functions of an action answer is left open; OnEnd does *)
(* nothing.  An update is one step, with at most one event in it.  The     *)
(* operators map the memory to the memories the code may leave behind; a   *)
(* function f among their arguments is what the calls they make do.        *)
(***************************************************************************)
EXTENDS Integers, Sequences, FiniteSets

CONSTANTS
    MaxActions, \* bound on the actions in memory; a new one takes the first free place
    MaxDepth,   \* bound on the nesting of actions
    MaxCalls    \* bound on the nesting of calls; updates that nest deeper are left out

ASSUME ActionsAssumption ==
    MaxActions \in Nat \ {0} /\ MaxDepth \in Nat /\ MaxCalls \in Nat

VARIABLES
    action,     \* the actions in memory, see Action
    top,        \* m_action: the top of the stack, 0 if there is none
    started,    \* m_me is set
    missed,     \* history: an action was deleted in an update and had no OnEnd
    wild        \* history: a destructor used an action deleted before

actionVars == <<action, top, started, missed, wild>>

Places == 1..MaxActions
Null == 0
Pointer == Places \cup {Null}

\* Priorities: RESULT_NONE, RESULT_TRY, RESULT_CRITICAL.
Priorities == 0..2
Changes == {"CHANGE_TO", "SUSPEND_FOR", "DONE"}

Action == [state : {"free", "made", "started", "ended"}, suspended : BOOLEAN,
           under : Pointer, over : Pointer,       \* m_buriedUnderMe, m_coveringMe
           parent : Pointer, child : Pointer,
           want : Changes \cup {"CONTINUE"}, goal : Pointer, priority : Priorities]

Blank(state) ==
    [state |-> state, suspended |-> FALSE, under |-> Null, over |-> Null,
     parent |-> Null, child |-> Null, want |-> "CONTINUE", goal |-> Null, priority |-> 0]

\* The memory an operator works on: top stays what it was before the update,
\* dead is m_deadActionVector, quiet says that no more events come.
Memories == [act : [Places -> Action], top : Pointer, dead : Seq(Places),
             quiet : BOOLEAN, missed : BOOLEAN, wild : BOOLEAN]
Memory == [act |-> action, top |-> top, dead |-> <<>>, quiet |-> FALSE,
           missed |-> FALSE, wild |-> wild]

Free(s) == {a \in Places : s.act[a].state = "free"}
Fresh(s) == CHOOSE a \in Free(s) : \A b \in Free(s) : a <= b
New(s) == [s EXCEPT !.act[Fresh(s)] = Blank("made")]

Results == [type : Changes \cup {"CONTINUE"}, goal : Pointer]
Result(type, goal) == [type |-> type, goal |-> goal]
Continue == Result("CONTINUE", Null)
Done == Result("DONE", Null)

Requests(s, a) == s.act[a].want \in Changes
BadClearEvent(s, a) == [s EXCEPT !.act[a].want = "CONTINUE"]   \* not the action
ClearEvent(s, a) ==
    [s EXCEPT !.act[a].want = "CONTINUE", !.act[a].goal = Null, !.act[a].priority = 0]
-----------------------------------------------------------------------------
(* Where pointers lead.                                                    *)

At(p) == {p} \ {Null}
Reach(link, from) ==
    {a \in Places : \A C \in SUBSET Places :
                       from \subseteq C /\ (\A b \in C : link[b] \subseteq C) => a \in C}

Stack(s, a) == Reach([b \in Places |-> At(s.act[b].under)], At(a))
Owned(s, a) == {s.act[a].under, s.act[a].child, s.act[a].goal} \ {Null}
Reached(s, a) == Reach([b \in Places |-> Owned(s, b)], At(a))
Pointers(r) == {r.under, r.over, r.parent, r.child, r.goal} \ {Null}
-----------------------------------------------------------------------------
(* ~Action.                                                                *)

BadUncover(s, a) == s                                     \* the cover is left
Uncover(s, a) ==
    IF s.act[a].under = Null THEN s ELSE [s EXCEPT !.act[s.act[a].under].over = Null]

Leave(s, a) ==
    LET p == s.act[a].parent IN
    IF p # Null /\ s.act[p].child = a
    THEN [s EXCEPT !.act[p].child = s.act[a].under] ELSE s

Dangling(s, a) ==
    s.act[a].state = "free" \/ \E p \in Pointers(s.act[a]) : s.act[p].state = "free"

\* Deletes the children, what covers a, and the action it was to change to.
Deletion == [what : {"action", "stack", "dead"}, s : Memories, a : Pointer]
DeleteBy(f, what, s, a) == f[[what |-> what, s |-> s, a |-> a]]

DeleteAction(f, s, a) ==
    LET s1 == Leave([s EXCEPT !.wild = @ \/ Dangling(s, a),
                              !.missed = @ \/ s.act[a].state = "started"], a)
        S2 == {Uncover(t, a) : t \in DeleteBy(f, "stack", s1, s1.act[a].child)}
        S3 == UNION {DeleteBy(f, "action", t, t.act[a].over) : t \in S2}
        S4 == UNION {DeleteBy(f, "action", t, t.act[a].goal) : t \in S3}
    IN  {[t EXCEPT !.act[a] = Blank("free")] : t \in S4}

DeleteStack(f, s, a) ==
    UNION {DeleteBy(f, "stack", t, s.act[a].under) : t \in DeleteBy(f, "action", s, a)}

PurgeDead(f, s) ==
    IF s.dead = <<>> THEN {s}
    ELSE UNION {DeleteBy(f, "dead", [t EXCEPT !.dead = Tail(s.dead)], Null) :
                t \in DeleteBy(f, "action", s, Head(s.dead))}

Deletions[n \in Nat] ==
    IF n = 0 THEN [d \in Deletion |-> {}]
    ELSE [d \in Deletion |->
            CASE d.what = "dead" -> PurgeDead(Deletions[n - 1], d.s)
              [] d.what # "dead" /\ d.a = Null -> {d.s}
              [] d.what = "stack" /\ d.a # Null -> DeleteStack(Deletions[n - 1], d.s, d.a)
              [] d.what = "action" /\ d.a # Null -> DeleteAction(Deletions[n - 1], d.s, d.a)]

Delete(s, a) == DeleteBy(Deletions[MaxCalls], "action", s, a)
Purged(s) == DeleteBy(Deletions[MaxCalls], "dead", s, Null)

\* DestroyAction: deleted at the end of the update.
Destroy(s, a) == [s EXCEPT !.dead = Append(@, a)]
-----------------------------------------------------------------------------
(* Events.                                                                 *)

\* Those whose handlers an event may reach, level by level: the top first, what
\* is buried when it has no answer.
Levels(s) ==
    {a \in Reach([b \in Places |-> IF s.act[b].state = "started" THEN At(s.act[b].child) ELSE {}],
                 At(s.top)) : s.act[a].state = "started"}
Responders(s) == UNION {Stack(s, a) : a \in Levels(s)}

\* StorePendingEventResult
Store(s, a, r, p) ==
    IF p >= s.act[a].priority
    THEN {[t EXCEPT !.act[a].want = r.type, !.act[a].goal = r.goal, !.act[a].priority = p] :
          t \in Delete(s, s.act[a].goal)}
    ELSE Delete(s, r.goal)

\* One responder of one level answers; more answers are more events.
Handled(s) ==
    UNION {Store(s, a, Done, p)
           \cup IF Free(s) = {} THEN {}
                ELSE UNION {Store(New(s), a, Result(t, Fresh(s)), p) :
                            t \in {"CHANGE_TO", "SUSPEND_FOR"}} :
           a \in Responders(s), p \in Priorities \ {0}}

MayHandle(s) ==
    {s} \cup IF s.quiet THEN {} ELSE {[t EXCEPT !.quiet = TRUE] : t \in Handled(s)}
-----------------------------------------------------------------------------
(* What a virtual function of an action does and answers; SuspendFor       *)
(* forgets what events have asked of the action.                           *)

Answers(s, a, types) ==
    UNION {{o \in {[s |-> t, r |-> Continue], [s |-> t, r |-> Done]} \cup
                  (IF Free(t) = {} THEN {}
                   ELSE {[s |-> New(t), r |-> Result("CHANGE_TO", Fresh(t))],
                         [s |-> ClearEvent(New(t), a), r |-> Result("SUSPEND_FOR", Fresh(t))]}) :
                o.r.type \in types} :
           t \in MayHandle(s)}

\* InvokeOnEnd: of a, if it was started, of its children and of what covers it.
Ending(s, a) ==
    {b \in Reach([b \in Places |-> IF s.act[b].state = "started"
                                   THEN Stack(s, s.act[b].child) \cup At(s.act[b].over) ELSE {}],
                 {a}) : s.act[b].state = "started"}
BadEnd(s, a) ==                                           \* not the children
    IF s.act[a].state # "started" THEN s
    ELSE [s EXCEPT !.act[a].state = "ended"]
End(s, a) ==
    LET ending == Ending(s, a)
        act == [b \in Places |-> IF b \in ending THEN [s.act[b] EXCEPT !.state = "ended"]
                                 ELSE s.act[b]]
    IN  IF act = s.act THEN s ELSE [s EXCEPT !.act = act]
-----------------------------------------------------------------------------
(* The calls of an update: f maps one to its outcomes, each the memory, the *)
(* action that is on top then, and the answer.                              *)

Calls == [what : {"apply", "suspend", "resume", "update"}, s : Memories, a : Pointer,
          r : Results]
Outcome(s, a, r) == [s |-> s, a |-> a, r |-> r]

Apply(f, s, a, r) == f[[what |-> "apply", s |-> s, a |-> a, r |-> r]]
OnSuspend(f, s, a) == f[[what |-> "suspend", s |-> s, a |-> a, r |-> Continue]]
OnResume(f, s, a) == f[[what |-> "resume", s |-> s, a |-> a, r |-> Continue]]
OnUpdate(f, s, a) == f[[what |-> "update", s |-> s, a |-> a, r |-> Continue]]

Topmost(s, a) == {b \in Reach([b \in Places |-> At(s.act[b].over)], {a}) :
                    s.act[b].over = Null}
Depth(s, a) == Cardinality(Reach([b \in Places |-> At(s.act[b].parent)], {a}))

SetChild(s, a, c) == [s EXCEPT !.act[a].child = c]

\* InvokeOnStart: the links, the child action if it has one, and OnStart.
Link(s, a, prior, buried) ==
    LET p == IF prior = Null THEN s.act[a].parent ELSE s.act[prior].parent
        s1 == [s EXCEPT !.act[a].state = "started", !.act[a].parent = p,
                        !.act[a].under = buried, !.act[a].over = Null,
                        !.act[a].child = Null]
        s2 == IF p = Null THEN s1 ELSE SetChild(s1, p, a)
    IN  IF buried = Null THEN s2 ELSE [s2 EXCEPT !.act[buried].over = a]

StartChild(f, s, a) ==
    {s} \cup
    IF Free(s) = {} \/ Depth(s, a) >= MaxDepth THEN {}
    ELSE LET c == Fresh(s)
             t == SetChild([New(s) EXCEPT !.act[c].parent = a], a, c)
         IN  {SetChild(o.s, a, o.a) : o \in Apply(f, t, c, Result("CHANGE_TO", c))}

OnStart(f, s, a, prior, buried) ==
    UNION {Answers(t, a, Changes \cup {"CONTINUE"}) :
           t \in StartChild(f, Link(s, a, prior, buried), a)}

\* InvokeOnSuspend: the child first; an action that is done rather than
\* suspended gives way to the one under it.
DoSuspend(f, s, a) ==
    LET c == s.act[a].child
        inner == IF c = Null THEN {s} ELSE {SetChild(o.s, a, o.a) : o \in OnSuspend(f, s, c)}
        asked == UNION {Answers([t EXCEPT !.act[a].suspended = TRUE], a, {"CONTINUE", "DONE"}) :
                        t \in inner}
    IN  {IF o.r = Done THEN Outcome(Destroy(End(o.s, a), a), o.s.act[a].under, Continue)
                       ELSE Outcome(o.s, a, Continue) : o \in asked}

\* InvokeOnResume: not when a change is pending.
DoResume(f, s, a) ==
    LET p == s.act[a].parent
        s1 == [s EXCEPT !.act[a].suspended = FALSE, !.act[a].over = Null]
        s2 == IF p = Null THEN s1 ELSE SetChild(s1, p, a)
        c == s2.act[a].child
        inner == IF c = Null THEN {s2}
                 ELSE UNION {{SetChild(o.s, a, o.a) : o \in Apply(f, q.s, c, q.r)} :
                             q \in OnResume(f, s2, c)}
    IN  IF ~ s.act[a].suspended \/ Requests(s, a) THEN {Outcome(s, a, Continue)}
        ELSE UNION {{Outcome(o.s, a, o.r) : o \in Answers(t, a, Changes \cup {"CONTINUE"})} :
                    t \in inner}

\* ApplyResult: the memory, and the action that is on top now.
ChangeTo(f, s, a, n) ==
    UNION {Apply(f, IF a # n THEN Destroy(o.s, a) ELSE o.s, n, o.r) :
           o \in OnStart(f, End(s, a), n, a, s.act[a].under)}
BadSuspendFor(f, s, a, n) ==                              \* covers without asking
    UNION {Apply(f, q.s, n, q.r) : q \in OnStart(f, s, n, a, a)}
SuspendFor(f, s, a, n) ==
    UNION {UNION {Apply(f, q.s, n, q.r) : q \in OnStart(f, o.s, n, o.a, o.a)} :
           o \in UNION {OnSuspend(f, s, b) : b \in Topmost(s, a)}}
ResumeUnder(f, s, a) ==
    LET b == s.act[a].under IN
    IF b = Null THEN {Outcome(Destroy(End(s, a), a), Null, Continue)}
    ELSE UNION {Apply(f, Destroy(o.s, a), b, o.r) : o \in OnResume(f, End(s, a), b)}

DoApply(f, s, a, r) ==
    CASE r.type = "CHANGE_TO" -> ChangeTo(f, s, a, r.goal)
      [] r.type = "SUSPEND_FOR" -> SuspendFor(f, s, a, r.goal)
      [] r.type = "DONE" -> ResumeUnder(f, s, a)
      [] r.type = "CONTINUE" -> {Outcome(s, a, Continue)}
-----------------------------------------------------------------------------
\* IsOutOfScope
Under(s, a) == Stack(s, s.act[a].under)
OutOfScope(s, a) == \E b \in Under(s, a) : s.act[b].want \in {"CHANGE_TO", "DONE"}

\* ProcessPendingEvents: of the action itself, or a SUSPEND_FOR buried in the
\* stack, of the uppermost such action.
Asking(s, a) == {b \in Under(s, a) : s.act[b].want = "SUSPEND_FOR"}
Pending(s, a) ==
    IF Requests(s, a) THEN {a} ELSE {b \in Asking(s, a) : Asking(s, a) \subseteq Stack(s, b)}

Honour(s, a, b) == Outcome(ClearEvent(s, b), a, Result(s.act[b].want, s.act[b].goal))

\* InvokeUpdate
DoUpdate(f, s, a) ==
    LET c == s.act[a].child
        inner == IF c = Null THEN {s}
                 ELSE UNION {{SetChild(o.s, a, o.a) : o \in Apply(f, q.s, c, q.r)} :
                             q \in OnUpdate(f, s, c)}
    IN  IF OutOfScope(s, a) THEN {Outcome(s, a, Done)}
        ELSE IF s.act[a].state # "started" THEN {Outcome(s, a, Result("CHANGE_TO", a))}
        ELSE IF Pending(s, a) # {} THEN {Honour(s, a, b) : b \in Pending(s, a)}
        ELSE UNION {{Outcome(o.s, a, o.r) : o \in Answers(t, a, Changes \cup {"CONTINUE"})} :
                    t \in inner}

Call(f, c) ==
    CASE c.a = Null -> {}
      [] c.a # Null /\ c.what = "apply" -> DoApply(f, c.s, c.a, c.r)
      [] c.a # Null /\ c.what = "suspend" -> DoSuspend(f, c.s, c.a)
      [] c.a # Null /\ c.what = "resume" -> DoResume(f, c.s, c.a)
      [] c.a # Null /\ c.what = "update" -> DoUpdate(f, c.s, c.a)

Runs[n \in Nat] == [c \in Calls |-> IF n = 0 THEN {} ELSE Call(Runs[n - 1], c)]
-----------------------------------------------------------------------------
\* What nothing reaches is lost in the code, here its place is free; a pointer to
\* it, or to a deleted action, is a wild one.
Stray(s, a) == \E b \in Reached(s, a) :
                  s.act[b].state = "free" \/ ~ Pointers(s.act[b]) \subseteq Reached(s, a)

\* Actions are numbered between updates: each before that which it is to change
\* to, then come its children, then what is buried under it.
Ranks(s, a) ==
    LET reached == Reached(s, a)
        below == UNION {{<<b, c>> : c \in Reached(s, b)} : b \in reached}
        NoLater(b, c) ==
            \/ <<b, c>> \in below
            \/ \E d \in reached : LET r == s.act[d] IN
                 \/ <<r.goal, b>> \in below /\ (<<r.child, c>> \in below \/ <<r.under, c>> \in below)
                 \/ <<r.child, b>> \in below /\ <<r.under, c>> \in below
    IN  {<<Cardinality({b \in reached : NoLater(b, c)}), c>> : c \in reached}
Numbers(s, a) ==
    LET ranks == Ranks(s, a)
    IN  {<<q[2], Cardinality({r \in ranks : r[1] < q[1] \/ (r[1] = q[1] /\ r[2] <= q[2])})>> :
         q \in ranks}

Number(numbers, p) == LET of == {i \in Places : <<p, i>> \in numbers}
                      IN  IF of = {} THEN Null ELSE CHOOSE i \in of : TRUE

Packed(s, numbers) ==
    [i \in Places |->
        LET of == {b \in Places : <<b, i>> \in numbers} IN
        IF of = {} THEN Blank("free")
        ELSE [s.act[CHOOSE b \in of : TRUE] EXCEPT
                  !.under = Number(numbers, @), !.over = Number(numbers, @),
                  !.parent = Number(numbers, @), !.child = Number(numbers, @),
                  !.goal = Number(numbers, @)]]

\* The memory s is left behind, with a on top.
Left(s, a) ==
    LET numbers == Numbers(s, a) IN
    /\ action' = Packed(s, numbers) /\ top' = Number(numbers, a)
    /\ missed' = s.missed /\ wild' = (s.wild \/ Stray(s, a))

\* Behavior::Update
Update ==
    /\ top # Null
    /\ started' = TRUE
    /\ \E q \in OnUpdate(Runs[MaxCalls], Memory, top) :
          \E o \in Apply(Runs[MaxCalls], q.s, top, q.r) :
             \E t \in Purged(o.s) : Left(t, o.a)

\* An event comes between two updates.
BotEvent ==
    /\ \E s \in Handled(Memory) : Left(s, top)
    /\ UNCHANGED started

\* IIntention::Reset, when the bot spawns: ~Behavior, and a new one.  What it
\* does not reach is lost.
Bottom(s) == CHOOSE b \in Stack(s, s.top) : s.act[b].under = Null
Destructed == LET s == IF started THEN End(Memory, top) ELSE Memory
              IN  Delete(s, Bottom(s))

FirstAction == [a \in Places |-> Blank(IF a = 1 THEN "made" ELSE "free")]

Reset ==
    /\ action' = FirstAction /\ top' = 1 /\ started' = FALSE /\ missed' = FALSE
    /\ wild' = (wild \/ (top # Null /\ \E t \in Destructed : t.wild))

ActionInit == /\ action = FirstAction /\ top = 1
              /\ started = FALSE /\ missed = FALSE /\ wild = FALSE

ActionNext == Update \/ BotEvent \/ Reset

ActionSpec == ActionInit /\ [][ActionNext]_actionVars
-----------------------------------------------------------------------------
\* Every variable holds a value of its type, and a pending result the action it
\* is about.
ActionTypeOK ==
    /\ action \in [Places -> Action] /\ top \in Pointer
    /\ started \in BOOLEAN /\ missed \in BOOLEAN /\ wild \in BOOLEAN
    /\ \A a \in Places :
        /\ action[a].want \in {"CHANGE_TO", "SUSPEND_FOR"} <=> action[a].goal # Null
        /\ action[a].want = "CONTINUE" <=> action[a].priority = 0

InTree == Reached(Memory, top) \ {action[a].goal : a \in Places}

\* Between updates the pointers of the bot reach nothing that is deleted or
\* ended, and no action twice; those up the hierarchy match those down.
StackIsSound ==
    /\ ~ wild
    /\ \A a \in InTree :
        /\ action[a].state = IF started THEN "started" ELSE "made"
        /\ \A b \in InTree \ {a} : Owned(Memory, a) \cap Owned(Memory, b) = {}
        /\ action[a].over # Null => action[action[a].over].under = a
        /\ action[a].parent # Null => a \in Stack(Memory, action[action[a].parent].child)

\* "An Action can count on each OnStart() being followed (eventually) with an
\* OnEnd()": so it is, as long as the behaviour itself is not deleted.
EndedBeforeDeleted == ~ missed

\* What is covered is suspended, however it came to be covered.
CoveredIsSuspended ==
    \A a \in InTree : LET b == action[a].under IN b # Null => action[b].suspended
=============================================================================
