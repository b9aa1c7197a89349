----------------------- MODULE NextBotBehavior_proofs -----------------------
(***************************************************************************)
(* The stack of actions of a bot, for any number of actions and any nesting *)
(* of them and of the calls: what a deletion frees, the types of what      *)
(* every call leaves behind, and what holds between two updates.  For the  *)
(* last, Sound says what holds of the memory in the middle of an update,   *)
(* Promises what a call makes of it, and ActionInv is the invariant.       *)
(***************************************************************************)
EXTENDS NextBotBehavior, FiniteSetTheorems, WellFoundedInduction, TLAPS
-----------------------------------------------------------------------------
(* Where pointers lead.                                                    *)

Links == [Places -> SUBSET Places]
Closed(link, C) == \A b \in C : link[b] \subseteq C

LEMMA ReachMinimal ==
    ASSUME NEW link, NEW from, NEW C \in SUBSET Places, from \subseteq C, Closed(link, C)
    PROVE  Reach(link, from) \subseteq C
BY DEF Reach, Closed

LEMMA ReachCloses ==
    ASSUME NEW link \in Links, NEW from \in SUBSET Places
    PROVE  /\ Reach(link, from) \in SUBSET Places
           /\ from \subseteq Reach(link, from)
           /\ Closed(link, Reach(link, from))
<1>1. \A b \in Reach(link, from) : \A c \in link[b] : c \in Reach(link, from)
  BY DEF Reach, Links
<1> QED BY <1>1 DEF Reach, Closed

\* What is reached is one of the first, or linked to from something reached.
LEMMA ReachOwner ==
    ASSUME NEW link \in Links, NEW from \in SUBSET Places, NEW x \in Reach(link, from)
    PROVE  x \in from \/ \E y \in Reach(link, from) : x \in link[y]
<1> DEFINE C == {z \in Reach(link, from) : z \in from \/ \E y \in Reach(link, from) : z \in link[y]}
<1>1. C \in SUBSET Places /\ from \subseteq C /\ Closed(link, C)
  BY ReachCloses DEF Closed
<1> HIDE DEF C
<1>2. x \in C
  BY <1>1, ReachMinimal
<1> QED BY <1>2 DEF C

LEMMA ReachOnSame ==
    ASSUME NEW link \in Links, NEW other \in Links, NEW from \in SUBSET Places,
           \A b \in Reach(link, from) : other[b] = link[b]
    PROVE  Reach(other, from) = Reach(link, from)
<1>1. Reach(other, from) \subseteq Reach(link, from)
  BY ReachCloses, ReachMinimal DEF Closed
<1>2. Closed(link, Reach(other, from))
  BY <1>1, ReachCloses DEF Closed
<1>3. Reach(link, from) \subseteq Reach(other, from)
  BY <1>2, ReachCloses, ReachMinimal
<1> QED BY <1>1, <1>3

LEMMA ReachParts ==
    ASSUME NEW link \in Links, NEW from \in SUBSET Places, NEW more \in SUBSET Places
    PROVE  Reach(link, from \cup more) = Reach(link, from) \cup Reach(link, more)
<1> DEFINE F == Reach(link, from)
           M == Reach(link, more)
           U == Reach(link, from \cup more)
<1>1. /\ F \in SUBSET Places /\ from \subseteq F /\ Closed(link, F)
      /\ M \in SUBSET Places /\ more \subseteq M /\ Closed(link, M)
      /\ U \in SUBSET Places /\ from \cup more \subseteq U /\ Closed(link, U)
  BY ReachCloses
<1>2. F \cup M \in SUBSET Places /\ from \cup more \subseteq F \cup M /\ Closed(link, F \cup M)
  BY <1>1 DEF Closed
<1>3. F \subseteq U /\ M \subseteq U
  BY <1>1, ReachMinimal
<1> HIDE DEF F, M
<1>4. U \subseteq F \cup M
  BY <1>2, ReachMinimal
<1> QED BY <1>3, <1>4 DEF F, M

LEMMA ReachFirst ==
    ASSUME NEW link \in Links, NEW a \in Places
    PROVE  Reach(link, {a}) = {a} \cup Reach(link, link[a])
<1>0. link[a] \in SUBSET Places
  BY DEF Links
<1>1. /\ Reach(link, {a}) \in SUBSET Places /\ a \in Reach(link, {a})
      /\ Closed(link, Reach(link, {a}))
      /\ Reach(link, link[a]) \in SUBSET Places /\ link[a] \subseteq Reach(link, link[a])
      /\ Closed(link, Reach(link, link[a]))
  BY <1>0, ReachCloses
<1> DEFINE C == {a} \cup Reach(link, link[a])
<1>2. C \in SUBSET Places /\ {a} \subseteq C /\ Closed(link, C)
  BY <1>1 DEF Closed
<1> HIDE DEF C
<1>3. Reach(link, {a}) \subseteq C
  BY <1>2, ReachMinimal
<1>4. Reach(link, link[a]) \subseteq Reach(link, {a})
  BY <1>1, ReachMinimal DEF Closed
<1> QED BY <1>1, <1>3, <1>4 DEF C

LEMMA ReachNothing ==
    ASSUME NEW link \in Links
    PROVE  Reach(link, {}) = {}
BY ReachMinimal DEF Closed

\* Where every place is linked to from one place at most, and no first one from
\* any, what is reached from two of them is apart.
LEMMA ReachApart ==
    ASSUME NEW link \in Links, NEW from \in SUBSET Places, NEW more \in SUBSET Places,
           from \cap more = {},
           NEW T \in SUBSET Places, Closed(link, T), from \cup more \subseteq T,
           \A x, y \in T : x # y => link[x] \cap link[y] = {},
           \A x \in T : link[x] \cap (from \cup more) = {}
    PROVE  Reach(link, from) \cap Reach(link, more) = {}
<1> DEFINE F == Reach(link, from)
           M == Reach(link, more)
           C == F \ M
<1>1. /\ F \in SUBSET Places /\ from \subseteq F /\ Closed(link, F)
      /\ M \in SUBSET Places /\ more \subseteq M /\ Closed(link, M)
  BY ReachCloses
<1>2. F \subseteq T /\ M \subseteq T
  BY ReachMinimal
<1>3. \A x \in M : x \in more \/ \E y \in M : x \in link[y]
  BY ReachOwner
<1>4. from \subseteq C
  BY <1>1, <1>2, <1>3
<1>5. ASSUME NEW b \in C, NEW c \in link[b] PROVE c \in C
  <2>1. c \in F /\ b \in T /\ b \notin M
    BY <1>1, <1>2, <1>5 DEF Closed
  <2>2. c \notin more
    BY <2>1
  <2>3. ASSUME c \in M PROVE FALSE
    <3>1. PICK y \in M : c \in link[y]
      BY <1>3, <2>2, <2>3
    <3> QED BY <1>2, <2>1, <3>1, <1>5
  <2> QED BY <2>1, <2>3
<1>6. C \in SUBSET Places /\ Closed(link, C)
  BY <1>1, <1>5 DEF Closed
<1> HIDE DEF C
<1>7. F \subseteq C
  BY <1>4, <1>6, ReachMinimal
<1> QED BY <1>7 DEF C

Actions == {r \in Action :
               /\ r.want \in {"CHANGE_TO", "SUSPEND_FOR"} <=> r.goal # Null
               /\ r.want = "CONTINUE" <=> r.priority = 0}
Typed == {s \in Memories : s.act \in [Places -> Actions]}
Answered == {r \in Results : r.type \in {"CHANGE_TO", "SUSPEND_FOR"} <=> r.goal # Null}
-----------------------------------------------------------------------------
LEMMA PlacesFacts ==
    /\ Null \in Pointer /\ Null \notin Places /\ Places \subseteq Pointer
    /\ Places \subseteq Nat /\ \A p \in Pointer : p # Null => p \in Places
    /\ 1 \in Places
BY ActionsAssumption DEF Places, Null, Pointer

LEMMA SmallestPlace ==
    ASSUME NEW S \in SUBSET Places, S # {}
    PROVE  \E i \in S : \A j \in S : i <= j
<1>1. S \subseteq Nat
  BY DEF Places
<1>2. PICK i \in S : \A j \in S : ~ (<<j, i>> \in OpToRel(<, Nat))
  BY <1>1, NatLessThanWellFounded, WFMin
<1>3. \A j \in S : ~ (j < i)
  BY <1>1, <1>2 DEF OpToRel
<1> QED
  BY <1>1, <1>3

LEMMA FreshFree ==
    ASSUME NEW s, Free(s) # {}
    PROVE  Fresh(s) \in Places /\ s.act[Fresh(s)].state = "free"
<1>1. Free(s) \in SUBSET Places
  BY DEF Free
<1>2. Fresh(s) \in Free(s)
  BY <1>1, SmallestPlace DEF Fresh
<1> QED BY <1>2 DEF Free

LEMMA BlankTyped ==
    /\ Blank("free") \in Actions /\ Blank("made") \in Actions
BY PlacesFacts DEF Blank, Actions, Action, Changes, Priorities

LEMMA PutTyped ==
    ASSUME NEW s \in Typed, NEW a \in Places, NEW r \in Actions
    PROVE  [s EXCEPT !.act[a] = r] \in Typed
BY DEF Typed, Memories, Actions

\* A field of an action is set; what is wanted has fields of its own.
LEMMA FieldsTyped ==
    ASSUME NEW r \in Actions, NEW p \in Pointer
    PROVE  /\ [r EXCEPT !.under = p] \in Actions
           /\ [r EXCEPT !.over = p] \in Actions
           /\ [r EXCEPT !.parent = p] \in Actions
           /\ [r EXCEPT !.child = p] \in Actions
BY DEF Actions, Action

LEMMA FlagsTyped ==
    ASSUME NEW r \in Actions
    PROVE  /\ \A b \in BOOLEAN : [r EXCEPT !.suspended = b] \in Actions
           /\ \A x \in {"free", "made", "started", "ended"} : [r EXCEPT !.state = x] \in Actions
BY DEF Actions, Action

LEMMA WishTyped ==
    ASSUME NEW r \in Actions
    PROVE  /\ [r EXCEPT !.want = "CONTINUE", !.goal = Null, !.priority = 0] \in Actions
           /\ \A q \in Answered, p \in Priorities \ {0} : q.type \in Changes =>
                 [r EXCEPT !.want = q.type, !.goal = q.goal, !.priority = p] \in Actions
<1>1. [r EXCEPT !.want = "CONTINUE", !.goal = Null, !.priority = 0] \in Actions
  <2> DEFINE q == [r EXCEPT !.want = "CONTINUE", !.goal = Null, !.priority = 0]
  <2>0. r \in Action /\ Null \in Pointer /\ 0 \in Priorities
    BY PlacesFacts DEF Actions, Priorities
  <2>1. q \in Action /\ q.want = "CONTINUE" /\ q.goal = Null /\ q.priority = 0
    BY <2>0 DEF Action
  <2> QED BY <2>1 DEF Actions
<1>2. ASSUME NEW q \in Answered, NEW p \in Priorities \ {0}, q.type \in Changes
      PROVE  [r EXCEPT !.want = q.type, !.goal = q.goal, !.priority = p] \in Actions
  BY <1>2, PlacesFacts DEF Actions, Action, Priorities, Changes, Answered, Results
<1> QED BY <1>1, <1>2

LEMMA RecordTyped ==
    ASSUME NEW s \in Typed, NEW a \in Places
    PROVE  s.act[a] \in Actions
BY DEF Typed

LEMMA PointersTyped ==
    ASSUME NEW s \in Typed, NEW a \in Places
    PROVE  /\ s.act[a].under \in Pointer /\ s.act[a].over \in Pointer
           /\ s.act[a].parent \in Pointer /\ s.act[a].child \in Pointer
           /\ s.act[a].goal \in Pointer
BY DEF Typed, Actions, Action

LEMMA EndTyped ==
    ASSUME NEW s \in Typed, NEW a \in Places
    PROVE  End(s, a) \in Typed
<1> DEFINE act == [b \in Places |-> IF b \in Ending(s, a) THEN [s.act[b] EXCEPT !.state = "ended"]
                                    ELSE s.act[b]]
<1>1. act \in [Places -> Actions]
  BY RecordTyped, FlagsTyped
<1> HIDE DEF act
<1>2. [s EXCEPT !.act = act] \in Typed
  BY <1>1 DEF Typed, Memories, Actions
<1> QED BY <1>2 DEF End, act
-----------------------------------------------------------------------------
(* What a call does when it may nest n + 1 deep, from what it does n deep.  *)

LEMMA NatSmallest ==
    ASSUME NEW S \in SUBSET Nat, S # {}
    PROVE  \E i \in S : \A j \in S : i <= j
<1>2. PICK i \in S : \A j \in S : ~ (<<j, i>> \in OpToRel(<, Nat))
  BY NatLessThanWellFounded, WFMin
<1>3. \A j \in S : ~ (j < i)
  BY <1>2 DEF OpToRel
<1> QED
  BY <1>3

\* Induction over a set of numbers.
LEMMA NatAll ==
    ASSUME NEW S \in SUBSET Nat, 0 \in S, \A n \in Nat : n \in S => n + 1 \in S
    PROVE  S = Nat
<1> SUFFICES ASSUME Nat \ S # {} PROVE FALSE
  OBVIOUS
<1>1. PICK k \in Nat \ S : \A j \in Nat \ S : k <= j
  BY NatSmallest
<1>2. k # 0 /\ k - 1 \in Nat /\ k - 1 \notin S
  BY <1>1
<1>3. k - 1 \in Nat \ S /\ ~ (k <= k - 1)
  BY <1>2
<1> QED BY <1>1, <1>3

NoDeletion == [d \in Deletion |-> {}]
DeletionStep(f) ==
    [d \in Deletion |->
        CASE d.what = "dead" -> PurgeDead(f, d.s)
          [] d.what # "dead" /\ d.a = Null -> {d.s}
          [] d.what = "stack" /\ d.a # Null -> DeleteStack(f, d.s, d.a)
          [] d.what = "action" /\ d.a # Null -> DeleteAction(f, d.s, d.a)]

NoCall == [c \in Calls |-> {}]
CallStep(f) == [c \in Calls |-> Call(f, c)]

\* The one or the other.
None(w) == IF w = "calls" THEN NoCall ELSE NoDeletion
Step(w, f) == IF w = "calls" THEN CallStep(f) ELSE DeletionStep(f)

LEMMA Unfolds ==
    ASSUME NEW w
    PROVE  \E g : g = [n \in Nat |-> IF n = 0 THEN None(w) ELSE Step(w, g[n - 1])]
<1> DEFINE Upto(g, k) == g = [n \in 0..k |-> IF n = 0 THEN None(w) ELSE Step(w, g[n - 1])]
           Some == {k \in Nat : \E g : Upto(g, k)}
           G(k) == CHOOSE g : Upto(g, k)
           f == [n \in Nat |-> G(n)[n]]
<1>1. \A k \in Nat : \E g : Upto(g, k)
  <2>1. 0 \in Some
    <3> DEFINE g == [n \in 0..0 |-> None(w)]
    <3>1. g = [n \in 0..0 |-> IF n = 0 THEN None(w) ELSE Step(w, g[n - 1])]
      OBVIOUS
    <3> HIDE DEF g
    <3> QED BY <3>1
  <2>2. ASSUME NEW k \in Nat, k \in Some PROVE k + 1 \in Some
    <3>1. PICK g : Upto(g, k)
      BY <2>2
    <3> DEFINE h == [n \in 0..(k + 1) |-> IF n = 0 THEN None(w) ELSE Step(w, g[n - 1])]
    <3>2. \A n \in 0..k : h[n] = g[n]
      <4>1. \A n \in 0..k : g[n] = IF n = 0 THEN None(w) ELSE Step(w, g[n - 1])
        BY <3>1
      <4> QED BY <4>1
    <3>3. \A n \in 0..(k + 1) : n # 0 => n - 1 \in 0..k
      OBVIOUS
    <3>4. \A n \in 0..(k + 1) :
             h[n] = IF n = 0 THEN None(w) ELSE Step(w, h[n - 1])
      BY <3>2, <3>3
    <3>5. DOMAIN h = 0..(k + 1) /\ h = [n \in DOMAIN h |-> h[n]]
      OBVIOUS
    <3> HIDE DEF h
    <3>6. h = [n \in 0..(k + 1) |-> IF n = 0 THEN None(w) ELSE Step(w, h[n - 1])]
      BY <3>4, <3>5
    <3> QED BY <3>6
  <2> HIDE DEF Upto
  <2>3. Some = Nat
    BY <2>1, <2>2, NatAll
  <2> QED BY <2>3
<1>2. \A k \in Nat : Upto(G(k), k)
  <2> HIDE DEF Upto
  <2> QED BY <1>1
<1>3. \A k, n \in Nat : n <= k =>
         G(k)[n] = IF n = 0 THEN None(w) ELSE Step(w, G(k)[n - 1])
  <2> SUFFICES ASSUME NEW k \in Nat, NEW n \in Nat, n <= k
               PROVE  G(k)[n] = IF n = 0 THEN None(w) ELSE Step(w, G(k)[n - 1])
    OBVIOUS
  <2> DEFINE g == G(k)
  <2>1. g = [i \in 0..k |-> IF i = 0 THEN None(w) ELSE Step(w, g[i - 1])]
    BY <1>2
  <2> HIDE DEF g
  <2>2. n \in 0..k
    OBVIOUS
  <2>3. g[n] = IF n = 0 THEN None(w) ELSE Step(w, g[n - 1])
    BY <2>1, <2>2
  <2> QED BY <2>3 DEF g
<1> HIDE DEF G
<1>4. \A n \in Nat : \A k, l \in Nat : n <= k /\ n <= l => G(k)[n] = G(l)[n]
  <2> DEFINE S == {n \in Nat : \A k, l \in Nat : n <= k /\ n <= l => G(k)[n] = G(l)[n]}
  <2>1. 0 \in S
    BY <1>3
  <2>2. ASSUME NEW n \in Nat, n \in S PROVE n + 1 \in S
    <3>1. ASSUME NEW k \in Nat, NEW l \in Nat, n + 1 <= k, n + 1 <= l
          PROVE  G(k)[n + 1] = G(l)[n + 1]
      <4>1. n + 1 \in Nat /\ n + 1 # 0 /\ (n + 1) - 1 = n /\ n <= k /\ n <= l
        BY <3>1
      <4>2. G(k)[n + 1] = Step(w, G(k)[n]) /\ G(l)[n + 1] = Step(w, G(l)[n])
        BY <1>3, <3>1, <4>1
      <4>3. G(k)[n] = G(l)[n]
        BY <2>2, <4>1
      <4> QED BY <4>2, <4>3
    <3> QED BY <3>1
  <2>0. S \in SUBSET Nat
    OBVIOUS
  <2> HIDE DEF S
  <2>3. S = Nat
    BY <2>0, <2>1, <2>2, NatAll
  <2> QED BY <2>3 DEF S
<1>5. \A n \in Nat : f[n] = IF n = 0 THEN None(w) ELSE Step(w, f[n - 1])
  <2> SUFFICES ASSUME NEW n \in Nat
               PROVE  f[n] = IF n = 0 THEN None(w) ELSE Step(w, f[n - 1])
    OBVIOUS
  <2>1. f[n] = IF n = 0 THEN None(w) ELSE Step(w, G(n)[n - 1])
    BY <1>3
  <2>2. n # 0 => n - 1 \in Nat /\ n - 1 <= n
    OBVIOUS
  <2>3. n # 0 => G(n)[n - 1] = f[n - 1]
    BY <1>4, <2>2
  <2> QED BY <2>1, <2>3
<1>6. f = [n \in Nat |-> IF n = 0 THEN None(w) ELSE Step(w, f[n - 1])]
  <2> HIDE DEF f
  <2>1. f = [n \in Nat |-> f[n]]
    BY DEF f
  <2> QED BY <1>5, <2>1
<1> HIDE DEF f
<1> QED BY <1>6

LEMMA DeletionsUnfold ==
    /\ Deletions[0] = NoDeletion
    /\ \A n \in Nat : Deletions[n + 1] = DeletionStep(Deletions[n])
<1>1. \E g : g = [n \in Nat |-> IF n = 0 THEN NoDeletion ELSE DeletionStep(g[n - 1])]
  <2>1. \E g : g = [n \in Nat |-> IF n = 0 THEN None("deletion") ELSE Step("deletion", g[n - 1])]
    BY Unfolds
  <2>2. None("deletion") = NoDeletion
    BY DEF None
  <2>3. \A f : Step("deletion", f) = DeletionStep(f)
    BY DEF Step
  <2> QED BY <2>1, <2>2, <2>3
<1>2. Deletions = [n \in Nat |-> IF n = 0 THEN NoDeletion ELSE DeletionStep(Deletions[n - 1])]
  BY <1>1, Zenon DEF Deletions, NoDeletion, DeletionStep
<1>3. \A n \in Nat : n + 1 \in Nat /\ n + 1 # 0 /\ (n + 1) - 1 = n
  OBVIOUS
<1> QED BY <1>2, <1>3

LEMMA RunsUnfold ==
    /\ Runs[0] = NoCall
    /\ \A n \in Nat : Runs[n + 1] = CallStep(Runs[n])
<1>1. \E g : g = [n \in Nat |-> IF n = 0 THEN NoCall ELSE CallStep(g[n - 1])]
  <2>1. \E g : g = [n \in Nat |-> IF n = 0 THEN None("calls") ELSE Step("calls", g[n - 1])]
    BY Unfolds
  <2>2. None("calls") = NoCall
    BY DEF None
  <2>3. \A f : Step("calls", f) = CallStep(f)
    BY DEF Step
  <2> QED BY <2>1, <2>2, <2>3
<1>2. \E g : g = [n \in Nat |-> [c \in Calls |-> IF n = 0 THEN {} ELSE Call(g[n - 1], c)]]
  BY <1>1 DEF NoCall, CallStep
<1>4. Runs = [n \in Nat |-> [c \in Calls |-> IF n = 0 THEN {} ELSE Call(Runs[n - 1], c)]]
  BY <1>2, Zenon DEF Runs
<1>3. \A n \in Nat : n + 1 \in Nat /\ n + 1 # 0 /\ (n + 1) - 1 = n
  OBVIOUS
<1>5. Runs[0] = NoCall
  BY <1>4 DEF NoCall
<1>6. ASSUME NEW n \in Nat PROVE Runs[n + 1] = CallStep(Runs[n])
  BY <1>3, <1>4 DEF CallStep
<1> QED BY <1>5, <1>6
-----------------------------------------------------------------------------
(* ~Action.                                                                *)

Own(s) == [b \in Places |-> Owned(s, b)]

\* A forest of actions that nobody uses any more: T has all that they own, each
\* of them once, and their pointers match.
Forest(s, T) ==
    /\ T \in SUBSET Places /\ Closed(Own(s), T)
    /\ \A x \in T : s.act[x].state # "free"
    /\ \A x, y \in T : x # y => Owned(s, x) \cap Owned(s, y) = {}
    /\ \A x \in T : LET r == s.act[x] IN
        /\ r.child # Null => r.child \notin {r.under, r.goal}
        /\ r.goal # Null => r.goal # r.under
        /\ r.child # Null => s.act[r.child].parent \in {x, Null}
        /\ r.under # Null => s.act[r.under].parent = r.parent
        /\ r.goal # Null => /\ Owned(s, r.goal) = {} /\ s.act[r.goal].parent = Null
                            /\ s.act[r.goal].over = Null
        /\ r.over # Null => r.over \in T /\ s.act[r.over].under = x

\* A place outside of T that is in use, or none.
Outside(s, T, p) == p # Null => p \in Places \ T /\ s.act[p].state # "free"

\* The top of a stack of such actions.
StackDeletable(s, a) ==
    /\ a \in Places /\ Forest(s, Reached(s, a))
    /\ \A x \in Reached(s, a) : a \notin Owned(s, x)
    /\ Outside(s, Reached(s, a), s.act[a].parent)

\* An action, what it contains, and what it was to change to.
Below(s, a) == Reached(s, s.act[a].child) \cup Reached(s, s.act[a].goal)
\* Removable: but for what covers it.
Removable(s, a) ==
    /\ a \in Places /\ s.act[a].state # "free"
    /\ Forest(s, Below(s, a)) /\ a \notin Below(s, a)
    /\ \A x \in Below(s, a) : Owned(s, x) \cap {s.act[a].child, s.act[a].goal} = {}
    /\ s.act[a].child # Null => /\ s.act[a].child # s.act[a].goal
                                /\ s.act[s.act[a].child].parent \in {a, Null}
    /\ s.act[a].goal # Null => LET g == s.act[a].goal IN
         Owned(s, g) = {} /\ s.act[g].parent = Null /\ s.act[g].over = Null
    /\ Outside(s, {a} \cup Below(s, a), s.act[a].parent)
    /\ Outside(s, {a} \cup Below(s, a), s.act[a].under)
Deletable(s, a) == Removable(s, a) /\ s.act[a].over = Null

\* The parent whose child an action is.
Parents(s, a) == {p \in {s.act[a].parent} : p # Null /\ s.act[p].child = a}

\* T is gone; those of P may have another child, and nothing covers those of B.
Gone(s, t, T, P, B) ==
    /\ t \in Typed
    /\ t.top = s.top /\ t.dead = s.dead /\ t.quiet = s.quiet
    /\ t.wild = s.wild
    /\ \A x \in T : t.act[x] = Blank("free")
    /\ \A x \in Places \ T :
        /\ t.act[x].state = s.act[x].state /\ t.act[x].suspended = s.act[x].suspended
        /\ t.act[x].under = s.act[x].under /\ t.act[x].parent = s.act[x].parent
        /\ t.act[x].want = s.act[x].want /\ t.act[x].goal = s.act[x].goal
        /\ t.act[x].priority = s.act[x].priority
        /\ x \notin P => t.act[x].child = s.act[x].child
        /\ t.act[x].over = IF x \in B THEN Null ELSE s.act[x].over

LEMMA OwnFacts ==
    ASSUME NEW s \in Typed
    PROVE  /\ Own(s) \in Links
           /\ \A a \in Places : Own(s)[a] = Owned(s, a) /\ Owned(s, a) \in SUBSET Places
           /\ \A p \in Pointer : /\ At(p) \in SUBSET Places
                                 /\ Reached(s, p) = Reach(Own(s), At(p))
                                 /\ Reached(s, p) \in SUBSET Places
                                 /\ Closed(Own(s), Reached(s, p))
                                 /\ p # Null => p \in Reached(s, p)
           /\ Reached(s, Null) = {}
<1>1. \A a \in Places : Owned(s, a) \in SUBSET Places
  BY PointersTyped, PlacesFacts DEF Owned
<1>2. Own(s) \in Links
  BY <1>1 DEF Own, Links
<1>3. \A p \in Pointer : Reached(s, p) = Reach(Own(s), At(p))
  BY DEF Reached, Own
<1>4. \A p \in Pointer : At(p) \in SUBSET Places /\ (p # Null => p \in At(p))
  BY PlacesFacts DEF At
<1>5. At(Null) = {}
  BY DEF At
<1>6. \A p \in Pointer : /\ Reached(s, p) \in SUBSET Places
                         /\ Closed(Own(s), Reached(s, p))
                         /\ p # Null => p \in Reached(s, p)
  BY <1>2, <1>3, <1>4, ReachCloses
<1>7. Reached(s, Null) = {}
  BY <1>2, <1>3, <1>5, ReachNothing, PlacesFacts
<1> QED BY <1>1, <1>2, <1>3, <1>4, <1>6, <1>7 DEF Own

\* The parts of a stack.
LEMMA StackParts ==
    ASSUME NEW s \in Typed, NEW a \in Places, StackDeletable(s, a)
    PROVE  LET r == s.act[a] IN
           /\ Reached(s, a) = {a} \cup Below(s, a) \cup Reached(s, r.under)
           /\ a \notin Below(s, a) /\ a \notin Reached(s, r.under)
           /\ Below(s, a) \cap Reached(s, r.under) = {}
<1> DEFINE r == s.act[a]
           T == Reached(s, a)
<1>0. /\ r.under \in Pointer /\ r.child \in Pointer /\ r.goal \in Pointer
      /\ Own(s) \in Links /\ Own(s)[a] = At(r.under) \cup (At(r.child) \cup At(r.goal))
      /\ At(r.under) \in SUBSET Places /\ At(r.child) \in SUBSET Places
      /\ At(r.goal) \in SUBSET Places
  BY OwnFacts, PointersTyped DEF Owned, At
<1>1. Reached(s, a) = Reach(Own(s), {a})
  BY OwnFacts, PlacesFacts DEF At
<1>2. Reached(s, a) = {a} \cup Reach(Own(s), At(r.under) \cup (At(r.child) \cup At(r.goal)))
  BY <1>0, <1>1, ReachFirst
<1>3. Reach(Own(s), At(r.under) \cup (At(r.child) \cup At(r.goal)))
        = Reach(Own(s), At(r.under)) \cup Reach(Own(s), At(r.child) \cup At(r.goal))
  BY <1>0, ReachParts
<1>4. Reach(Own(s), At(r.child) \cup At(r.goal)) = Below(s, a)
  BY <1>0, ReachParts, OwnFacts DEF Below
<1>5. Reach(Own(s), At(r.under)) = Reached(s, r.under)
  BY <1>0, OwnFacts
<1>6. T \in SUBSET Places /\ Closed(Own(s), T) /\ a \in T
  BY OwnFacts, PlacesFacts
<1>7. At(r.under) \cup (At(r.child) \cup At(r.goal)) \subseteq T \ {a}
  BY <1>0, <1>6, OwnFacts DEF StackDeletable, Closed
<1>8. Closed(Own(s), T \ {a})
  BY <1>6, OwnFacts DEF StackDeletable, Closed
<1>9. Reach(Own(s), At(r.under) \cup (At(r.child) \cup At(r.goal))) \subseteq T \ {a}
  BY <1>0, <1>6, <1>7, <1>8, ReachMinimal
<1>10. At(r.under) \cap (At(r.child) \cup At(r.goal)) = {}
  BY <1>6 DEF StackDeletable, Forest, At
<1>11. \A x, y \in T \ {a} : x # y => Own(s)[x] \cap Own(s)[y] = {}
  BY OwnFacts, <1>6 DEF StackDeletable, Forest
<1>12. \A x \in T \ {a} : Own(s)[x] \cap (At(r.under) \cup (At(r.child) \cup At(r.goal))) = {}
  BY <1>0, <1>6, OwnFacts DEF StackDeletable, Forest
<1>13. T \ {a} \in SUBSET Places
  BY <1>6
<1> HIDE DEF r, T
<1>14. Reach(Own(s), At(r.under)) \cap Reach(Own(s), At(r.child) \cup At(r.goal)) = {}
  BY <1>0, <1>7, <1>8, <1>10, <1>11, <1>12, <1>13, ReachApart
<1>15. LET q == s.act[a] IN
       /\ Reached(s, a) = {a} \cup Below(s, a) \cup Reached(s, q.under)
       /\ a \notin Below(s, a) /\ a \notin Reached(s, q.under)
       /\ Below(s, a) \cap Reached(s, q.under) = {}
  BY <1>2, <1>3, <1>4, <1>5, <1>9, <1>14 DEF r
<1> QED BY <1>15

LEMMA ReachedOnSame ==
    ASSUME NEW s \in Typed, NEW t \in Typed, NEW q \in Pointer,
           \A x \in Reached(s, q) : /\ t.act[x].under = s.act[x].under
                                    /\ t.act[x].child = s.act[x].child
                                    /\ t.act[x].goal = s.act[x].goal
    PROVE  Reached(t, q) = Reached(s, q)
<1>1. \A x \in Reached(s, q) : Owned(t, x) = Owned(s, x)
  BY DEF Owned
<1>2. \A x \in Reach(Own(s), At(q)) : Own(t)[x] = Own(s)[x]
  BY <1>1, OwnFacts
<1>3. Reach(Own(t), At(q)) = Reach(Own(s), At(q))
  BY <1>2, OwnFacts, ReachOnSame
<1> QED BY <1>3, OwnFacts

Alike(r, q) == /\ r.state = q.state /\ r.parent = q.parent
               /\ r.under = q.under /\ r.child = q.child /\ r.goal = q.goal

\* A part of a forest that is as it was, but for the cover of its top.
LEMMA PartOfForest ==
    ASSUME NEW s \in Typed, NEW t \in Typed, NEW T, Forest(s, T),
           NEW U \in SUBSET T, Closed(Own(s), U),
           \A x \in U : /\ Alike(t.act[x], s.act[x])
                        /\ \/ t.act[x].over = Null
                           \/ t.act[x].over = s.act[x].over /\ s.act[x].over \in U \cup {Null}
    PROVE  Forest(t, U)
<1>0. U \in SUBSET Places /\ U \subseteq T
  BY DEF Forest
<1>1. \A x \in U : Owned(t, x) = Owned(s, x) /\ Own(t)[x] = Own(s)[x]
  <2>1. \A x \in U : Owned(t, x) = Owned(s, x)
    BY DEF Owned, Alike
  <2> QED BY <1>0, <2>1, OwnFacts
<1>2. Closed(Own(t), U)
  BY <1>1 DEF Closed
<1>3. \A x \in U : \A p \in {s.act[x].under, s.act[x].child, s.act[x].goal} : p # Null => p \in U
  BY <1>0, OwnFacts DEF Closed, Owned
<1>4. \A x \in U : t.act[x].state # "free"
  BY <1>0 DEF Forest, Alike
<1>5. \A x, y \in U : x # y => Owned(t, x) \cap Owned(t, y) = {}
  BY <1>0, <1>1 DEF Forest
<1>6. ASSUME NEW x \in U
      PROVE  LET r == t.act[x] IN
        /\ r.child # Null => r.child \notin {r.under, r.goal}
        /\ r.goal # Null => r.goal # r.under
        /\ r.child # Null => t.act[r.child].parent \in {x, Null}
        /\ r.under # Null => t.act[r.under].parent = r.parent
        /\ r.goal # Null => /\ Owned(t, r.goal) = {} /\ t.act[r.goal].parent = Null
                            /\ t.act[r.goal].over = Null
        /\ r.over # Null => r.over \in U /\ t.act[r.over].under = x
  <2> DEFINE r == s.act[x]
             q == t.act[x]
  <2>1. x \in T /\ Alike(q, r)
    BY <1>0
  <2>2. /\ r.child # Null => r.child \notin {r.under, r.goal}
        /\ r.goal # Null => r.goal # r.under
        /\ r.child # Null => s.act[r.child].parent \in {x, Null}
        /\ r.under # Null => s.act[r.under].parent = r.parent
        /\ r.goal # Null => /\ Owned(s, r.goal) = {} /\ s.act[r.goal].parent = Null
                            /\ s.act[r.goal].over = Null
        /\ r.over # Null => r.over \in T /\ s.act[r.over].under = x
    BY <2>1 DEF Forest
  <2>3. r.child # Null => t.act[r.child].parent = s.act[r.child].parent
    BY <1>3 DEF Alike
  <2>4. r.under # Null => t.act[r.under].parent = s.act[r.under].parent
    BY <1>3 DEF Alike
  <2>5. r.goal # Null => /\ Owned(t, r.goal) = {} /\ t.act[r.goal].parent = Null
                         /\ t.act[r.goal].over = Null
    <3>1. r.goal # Null => r.goal \in U
      BY <1>3
    <3> QED BY <1>1, <2>2, <3>1 DEF Alike
  <2>6. q.over # Null => q.over \in U /\ t.act[q.over].under = x
    BY <2>2 DEF Alike
  <2> QED BY <2>1, <2>2, <2>3, <2>4, <2>5, <2>6 DEF Alike
<1> QED BY <1>0, <1>2, <1>4, <1>5, <1>6 DEF Forest

Deletes(f) ==
    \A s \in Typed :
        /\ \A t \in DeleteBy(f, "stack", s, Null) : t = s
        /\ \A t \in DeleteBy(f, "action", s, Null) : t = s
        /\ \A a \in Places : StackDeletable(s, a) =>
              \A t \in DeleteBy(f, "stack", s, a) :
                  Gone(s, t, Reached(s, a), {s.act[a].parent}, {})
        /\ \A a \in Places : Deletable(s, a) =>
              \A t \in DeleteBy(f, "action", s, a) :
                  Gone(s, t, {a} \cup Below(s, a), Parents(s, a), {s.act[a].under})

\* A field of a memory, or of an action in it, is set.
LEMMA FlagsKept ==
    ASSUME NEW s \in Typed, NEW w \in BOOLEAN, NEW m \in BOOLEAN
    PROVE  LET t == [s EXCEPT !.wild = w, !.missed = m] IN
           /\ t \in Typed /\ t.act = s.act /\ t.top = s.top /\ t.dead = s.dead
           /\ t.quiet = s.quiet /\ t.wild = w /\ t.missed = m
BY DEF Typed, Memories

\* Only act is another one.
SetAct(s, act) == [s EXCEPT !.act = act]
LEMMA SetActKept ==
    ASSUME NEW s \in Typed, NEW act \in [Places -> Actions]
    PROVE  LET t == SetAct(s, act) IN
           /\ t \in Typed /\ t.act = act /\ t.top = s.top /\ t.dead = s.dead
           /\ t.quiet = s.quiet /\ t.wild = s.wild /\ t.missed = s.missed
BY DEF Typed, Memories, SetAct, Actions

LEMMA SetKept ==
    ASSUME NEW s \in Typed, NEW a \in Places, NEW r \in Actions
    PROVE  LET t == [s EXCEPT !.act[a] = r] IN
           /\ t \in Typed /\ t.act[a] = r /\ \A x \in Places : x # a => t.act[x] = s.act[x]
           /\ t.top = s.top /\ t.dead = s.dead
           /\ t.quiet = s.quiet /\ t.wild = s.wild /\ t.missed = s.missed
<1> DEFINE act == [s.act EXCEPT ![a] = r]
<1>1. act \in [Places -> Actions] /\ act[a] = r /\ \A x \in Places : x # a => act[x] = s.act[x]
  BY DEF Typed
<1>2. [s EXCEPT !.act[a] = r] = SetAct(s, act)
  BY DEF SetAct
<1> HIDE DEF act
<1> DEFINE u == SetAct(s, act)
<1>3. /\ u \in Typed /\ u.act = act /\ u.top = s.top /\ u.dead = s.dead
      /\ u.quiet = s.quiet /\ u.wild = s.wild /\ u.missed = s.missed
  BY <1>1, SetActKept
<1> HIDE DEF u
<1>4. [s EXCEPT !.act[a] = r] = u
  BY <1>2 DEF u
<1> QED BY <1>1, <1>3, <1>4

\* The fields of r but for one, or for some.
LEMMA FieldKept ==
    ASSUME NEW r \in Actions, NEW p \in Pointer
    PROVE  /\ LET q == [r EXCEPT !.child = p] IN
                /\ q \in Actions /\ q.child = p /\ q.over = r.over
                /\ q.state = r.state /\ q.suspended = r.suspended /\ q.under = r.under
                /\ q.parent = r.parent /\ q.want = r.want /\ q.goal = r.goal
                /\ q.priority = r.priority
           /\ LET q == [r EXCEPT !.over = p] IN
                /\ q \in Actions /\ q.over = p /\ q.child = r.child
                /\ q.state = r.state /\ q.suspended = r.suspended /\ q.under = r.under
                /\ q.parent = r.parent /\ q.want = r.want /\ q.goal = r.goal
                /\ q.priority = r.priority
<1>1. r \in Action
  BY DEF Actions
<1>2. [r EXCEPT !.child = p] \in Actions /\ [r EXCEPT !.over = p] \in Actions
  BY FieldsTyped
<1> QED BY <1>1, <1>2 DEF Action

LEMMA ChildSet ==
    ASSUME NEW s \in Typed, NEW a \in Places, NEW c \in Pointer
    PROVE  LET t == [s EXCEPT !.act[a].child = c] IN
           Gone(s, t, {}, {a}, {}) /\ t.act[a].child = c
<1>1. s.act[a] \in Actions
  BY RecordTyped
<1> DEFINE q == [s.act[a] EXCEPT !.child = c]
<1>2. /\ q \in Actions /\ q.child = c /\ q.over = s.act[a].over
      /\ q.state = s.act[a].state /\ q.suspended = s.act[a].suspended /\ q.under = s.act[a].under
      /\ q.parent = s.act[a].parent /\ q.want = s.act[a].want /\ q.goal = s.act[a].goal
      /\ q.priority = s.act[a].priority
  BY <1>1, FieldKept
<1>3. [s EXCEPT !.act[a].child = c] = [s EXCEPT !.act[a] = q]
  OBVIOUS
<1> HIDE DEF q
<1>4. LET t == [s EXCEPT !.act[a] = q] IN
           /\ t \in Typed /\ t.act[a] = q /\ \A x \in Places : x # a => t.act[x] = s.act[x]
           /\ t.top = s.top /\ t.dead = s.dead
           /\ t.quiet = s.quiet /\ t.wild = s.wild /\ t.missed = s.missed
  BY <1>2, SetKept
<1> DEFINE t == [s EXCEPT !.act[a] = q]
<1> HIDE DEF t
<1>5. Gone(s, t, {}, {a}, {}) /\ t.act[a].child = c
  BY <1>2, <1>4 DEF Gone, t
<1> QED BY <1>3, <1>5 DEF t

LEMMA OverSet ==
    ASSUME NEW s \in Typed, NEW b \in Places
    PROVE  LET t == [s EXCEPT !.act[b].over = Null] IN
           Gone(s, t, {}, {}, {b})
<1>1. s.act[b] \in Actions
  BY RecordTyped
<1> DEFINE q == [s.act[b] EXCEPT !.over = Null]
<1>0. Null \in Pointer
  BY PlacesFacts
<1>2. /\ q \in Actions /\ q.over = Null /\ q.child = s.act[b].child
      /\ q.state = s.act[b].state /\ q.suspended = s.act[b].suspended /\ q.under = s.act[b].under
      /\ q.parent = s.act[b].parent /\ q.want = s.act[b].want /\ q.goal = s.act[b].goal
      /\ q.priority = s.act[b].priority
  BY <1>0, <1>1, FieldKept
<1>3. [s EXCEPT !.act[b].over = Null] = [s EXCEPT !.act[b] = q]
  OBVIOUS
<1> HIDE DEF q
<1>4. LET t == [s EXCEPT !.act[b] = q] IN
           /\ t \in Typed /\ t.act[b] = q /\ \A x \in Places : x # b => t.act[x] = s.act[x]
           /\ t.top = s.top /\ t.dead = s.dead
           /\ t.quiet = s.quiet /\ t.wild = s.wild /\ t.missed = s.missed
  BY <1>2, SetKept
<1> DEFINE t == [s EXCEPT !.act[b] = q]
<1> HIDE DEF t
<1>5. Gone(s, t, {}, {}, {b})
  BY <1>2, <1>4 DEF Gone, t
<1> QED BY <1>3, <1>5 DEF t

LEMMA BlankSet ==
    ASSUME NEW s \in Typed, NEW a \in Places
    PROVE  LET t == [s EXCEPT !.act[a] = Blank("free")] IN
           Gone(s, t, {a}, {}, {})
<1> DEFINE q == Blank("free")
           t == [s EXCEPT !.act[a] = q]
<1>1. q \in Actions
  BY BlankTyped
<1>4. LET u == [s EXCEPT !.act[a] = q] IN
           /\ u \in Typed /\ u.act[a] = q /\ \A x \in Places : x # a => u.act[x] = s.act[x]
           /\ u.top = s.top /\ u.dead = s.dead
           /\ u.quiet = s.quiet /\ u.wild = s.wild /\ u.missed = s.missed
  BY <1>1, SetKept
<1> HIDE DEF t
<1>5. Gone(s, t, {a}, {}, {})
  BY <1>4 DEF Gone, t
<1> QED BY <1>5 DEF t

LEMMA SameRecord ==
    ASSUME NEW r \in Actions, NEW q \in Actions,
           r.state = q.state, r.suspended = q.suspended, r.under = q.under, r.over = q.over,
           r.parent = q.parent, r.child = q.child, r.want = q.want, r.goal = q.goal,
           r.priority = q.priority
    PROVE  r = q
BY DEF Actions, Action

LEMMA GoneTwice ==
    ASSUME NEW s \in Typed, NEW t, NEW u, NEW T \in SUBSET Places, NEW U \in SUBSET Places,
           NEW P, NEW B, NEW Q, NEW C, Gone(s, t, T, P, B), Gone(t, u, U, Q, C),
           Q \cap T = {}, C \cap T = {}
    PROVE  Gone(s, u, T \cup U, P \cup Q, B \cup C)
<1>1. ASSUME NEW x \in T, x \notin U PROVE u.act[x] = Blank("free")
  <2>1. t.act[x] = Blank("free") /\ u.act[x] \in Actions /\ t.act[x] \in Actions
    BY RecordTyped DEF Gone
  <2>2. x \in Places \ U /\ x \notin Q /\ x \notin C
    BY <1>1
  <2> QED BY <2>1, <2>2, SameRecord DEF Gone
<1>2. \A x \in T \cup U : u.act[x] = Blank("free")
  BY <1>1 DEF Gone
<1>3. ASSUME NEW x \in Places \ (T \cup U)
      PROVE
        /\ u.act[x].state = s.act[x].state /\ u.act[x].suspended = s.act[x].suspended
        /\ u.act[x].under = s.act[x].under /\ u.act[x].parent = s.act[x].parent
        /\ u.act[x].want = s.act[x].want /\ u.act[x].goal = s.act[x].goal
        /\ u.act[x].priority = s.act[x].priority
        /\ x \notin P \cup Q => u.act[x].child = s.act[x].child
        /\ u.act[x].over = IF x \in B \cup C THEN Null ELSE s.act[x].over
  BY DEF Gone
<1> QED BY <1>2, <1>3 DEF Gone

LEMMA GoneMore ==
    ASSUME NEW s, NEW t, NEW T, NEW P, NEW B, NEW Q, NEW C, Gone(s, t, T, P, B),
           P \cap Places \subseteq Q \cup T, B \cap Places \subseteq C \cup T, C \cap Places \subseteq B \cup T
    PROVE  Gone(s, t, T, Q, C)
BY DEF Gone

LEMMA GoneNot ==
    ASSUME NEW s \in Typed
    PROVE  Gone(s, s, {}, {}, {})
BY DEF Gone

\* Nothing that ~Action looks at is free.
LEMMA NotDangling ==
    ASSUME NEW s \in Typed, NEW a, Deletable(s, a)
    PROVE  ~ Dangling(s, a)
<1> DEFINE r == s.act[a]
<1>1. /\ a \in Places /\ r.state # "free" /\ r.over = Null
      /\ \A x \in Below(s, a) : s.act[x].state # "free"
      /\ r.parent # Null => s.act[r.parent].state # "free"
      /\ r.under # Null => s.act[r.under].state # "free"
  BY DEF Deletable, Removable, Forest, Outside
<1>2. /\ r.child # Null => r.child \in Below(s, a)
      /\ r.goal # Null => r.goal \in Below(s, a)
  BY <1>1, OwnFacts, PointersTyped DEF Below
<1> QED BY <1>1, <1>2 DEF Dangling, Pointers

\* It leaves its parent.
LEMMA LeaveGone ==
    ASSUME NEW s \in Typed, NEW a, Deletable(s, a)
    PROVE  LET t == Leave([s EXCEPT !.wild = @ \/ Dangling(s, a),
                                    !.missed = @ \/ s.act[a].state = "started"], a) IN
           Gone(s, t, {}, Parents(s, a), {})
<1> DEFINE u == [s EXCEPT !.wild = s.wild \/ Dangling(s, a),
                          !.missed = s.missed \/ s.act[a].state = "started"]
           p == s.act[a].parent
           m == s.missed \/ s.act[a].state = "started"
<1>0. m \in BOOLEAN /\ s.wild \in BOOLEAN /\ s.missed \in BOOLEAN
  BY DEF Typed, Memories
<1>1. u = [s EXCEPT !.wild = s.wild, !.missed = m]
  BY <1>0, NotDangling, Zenon
<1>2. /\ u \in Typed /\ u.act = s.act /\ u.top = s.top /\ u.dead = s.dead
      /\ u.quiet = s.quiet /\ u.wild = s.wild
  <2> HIDE DEF m
  <2> DEFINE v == [s EXCEPT !.wild = s.wild, !.missed = m]
  <2>1. /\ v \in Typed /\ v.act = s.act /\ v.top = s.top /\ v.dead = s.dead
        /\ v.quiet = s.quiet /\ v.wild = s.wild
    BY <1>0 DEF Typed, Memories
  <2>2. u = v
    BY <1>1
  <2> HIDE DEF u, v
  <2> QED BY <2>1, <2>2
<1> HIDE DEF u
<1>3. Gone(s, u, {}, {}, {})
  BY <1>2 DEF Gone
<1>4. Gone(s, Leave(u, a), {}, Parents(s, a), {})
  <2>1. CASE p # Null /\ s.act[p].child = a
    <3>1. p \in Places /\ s.act[a].under \in Pointer
      BY <2>1, PointersTyped, PlacesFacts DEF Deletable, Removable
    <3>2. Leave(u, a) = [u EXCEPT !.act[p].child = s.act[a].under]
      BY <1>2, <2>1 DEF Leave
    <3>3. Gone(u, Leave(u, a), {}, {p}, {})
      <4> DEFINE v == [u EXCEPT !.act[p].child = s.act[a].under]
      <4>1. Gone(u, v, {}, {p}, {})
        BY <1>2, <3>1, ChildSet
      <4> HIDE DEF v
      <4> QED BY <3>2, <4>1 DEF v
    <3>4. Gone(s, Leave(u, a), {} \cup {}, {} \cup {p}, {} \cup {})
      BY <1>3, <3>3, GoneTwice
    <3>5. Parents(s, a) = {p}
      BY <2>1 DEF Parents
    <3> QED BY <3>4, <3>5
  <2>2. CASE ~ (p # Null /\ s.act[p].child = a)
    <3>1. Leave(u, a) = u
      BY <1>2, <2>2 DEF Leave
    <3>2. Gone(s, u, {}, {} \cup Parents(s, a), {})
      BY <1>3, GoneMore
    <3> QED BY <3>1, <3>2
  <2> QED BY <2>1, <2>2
<1> QED BY <1>4 DEF u

LEMMA UncoverGone ==
    ASSUME NEW s \in Typed, NEW a \in Places
    PROVE  Gone(s, Uncover(s, a), {}, {}, {s.act[a].under})
<1>1. CASE s.act[a].under = Null
  <2>1. Uncover(s, a) = s /\ {s.act[a].under} \cap Places = {}
    BY <1>1, PlacesFacts DEF Uncover
  <2> QED BY <2>1, GoneNot, GoneMore
<1>2. CASE s.act[a].under # Null
  <2>1. s.act[a].under \in Places
    BY <1>2, PointersTyped, PlacesFacts
  <2> QED BY <1>2, <2>1, OverSet DEF Uncover
<1> QED BY <1>1, <1>2

\* A forest is what it was where nothing is gone.
LEMMA ForestKept ==
    ASSUME NEW s \in Typed, NEW t, NEW T, NEW U, NEW P, NEW B,
           Forest(s, T), Gone(s, t, U, P, B), T \cap U = {}, T \cap P = {}, T \cap B = {}
    PROVE  Forest(t, T)
<1>1. t \in Typed /\ T \in SUBSET Places /\ Closed(Own(s), T)
  BY DEF Gone, Forest
<1>2. \A x \in T : x \in Places /\ s.act[x].over \in Pointer
                   /\ (s.act[x].over # Null => s.act[x].over \in T)
  BY <1>1, PointersTyped DEF Forest
<1>3. \A x \in T : /\ Alike(t.act[x], s.act[x])
                   /\ t.act[x].over = s.act[x].over /\ s.act[x].over \in T \cup {Null}
  BY <1>1, <1>2 DEF Gone, Alike
<1> QED BY <1>1, <1>3, PartOfForest

\* The children can be deleted.
LEMMA ChildrenDeletable ==
    ASSUME NEW s \in Typed, NEW a, Removable(s, a), s.act[a].child # Null,
           NEW t, Gone(s, t, {}, {s.act[a].parent}, {})
    PROVE  LET c == s.act[a].child IN
           /\ c \in Places /\ t.act[a].child = c
           /\ StackDeletable(t, c) /\ Reached(t, c) = Reached(s, c)
           /\ t.act[c].parent \in {a, Null}
<1> DEFINE r == s.act[a]
           c == r.child
           g == r.goal
           T == Reached(s, c)
<1>0. /\ a \in Places /\ r.parent \in Pointer /\ c \in Places /\ g \in Pointer /\ c \in T
      /\ Own(s) \in Links /\ T \in SUBSET Places /\ Closed(Own(s), T)
      /\ T \subseteq Below(s, a) /\ a \notin T /\ t \in Typed
  BY PointersTyped, PlacesFacts, OwnFacts DEF Removable, Below, Gone
<1>1. r.parent \notin {a} \cup Below(s, a)
  BY PlacesFacts DEF Removable, Outside, Forest
<1>2. \A x \in Places : /\ t.act[x].under = s.act[x].under
                        /\ t.act[x].goal = s.act[x].goal
                        /\ t.act[x].parent = s.act[x].parent
                        /\ t.act[x].state = s.act[x].state /\ t.act[x].over = s.act[x].over
                        /\ x # r.parent => t.act[x].child = s.act[x].child
  BY DEF Gone
<1>3. t.act[a].child = c
  BY <1>0, <1>1, <1>2
<1>4. Reached(t, c) = T
  <2>1. c \in Pointer /\ T \subseteq Places /\ r.parent \notin T
    BY <1>0, <1>1, PlacesFacts
  <2>2. \A x \in Reached(s, c) : /\ t.act[x].under = s.act[x].under
                                 /\ t.act[x].child = s.act[x].child
                                 /\ t.act[x].goal = s.act[x].goal
    BY <1>2, <2>1
  <2> QED BY <1>0, <2>1, <2>2, ReachedOnSame
<1>5. \A x \in T : Owned(s, x) \cap {c, g} = {}
  BY <1>0 DEF Removable
<1>6. ASSUME NEW x \in T, s.act[x].over # Null PROVE s.act[x].over \in T
  <2> DEFINE y == s.act[x].over
  <2>1. x \in Below(s, a) /\ x \in Places
    BY <1>0
  <2>2. y \in Below(s, a) /\ s.act[y].under = x /\ Forest(s, Below(s, a))
    BY <1>6, <2>1 DEF Removable, Forest
  <2>3. x \in Owned(s, y) /\ y \in Places
    BY <2>1, <2>2, PlacesFacts DEF Owned, Forest
  <2>4. x \notin {c, g}
    BY <2>2, <2>3 DEF Removable
  <2>5. x \in Reach(Own(s), At(c)) /\ At(c) \in SUBSET Places /\ x \notin At(c)
    BY <1>0, <2>4, OwnFacts, PlacesFacts DEF At
  <2>6. PICK z \in Reach(Own(s), At(c)) : x \in Own(s)[z]
    BY <1>0, <2>5, ReachOwner
  <2>7. z \in T /\ x \in Owned(s, z) /\ z \in Below(s, a)
    BY <1>0, <2>6, OwnFacts, PlacesFacts
  <2>8. y = z
    BY <2>2, <2>3, <2>7 DEF Forest
  <2> QED BY <2>7, <2>8
<1>7. \A x \in T : s.act[x].over \in T \cup {Null}
  BY <1>6
<1>8. Forest(t, T)
  <2>1. \A x \in T : /\ Alike(t.act[x], s.act[x])
                     /\ t.act[x].over = s.act[x].over /\ s.act[x].over \in T \cup {Null}
    BY <1>0, <1>1, <1>2, <1>7 DEF Alike
  <2>2. T \in SUBSET Below(s, a) /\ Forest(s, Below(s, a))
    BY <1>0 DEF Removable
  <2> HIDE DEF T
  <2> QED BY <1>0, <2>1, <2>2, PartOfForest
<1>9. \A x \in T : c \notin Owned(t, x)
  BY <1>0, <1>1, <1>2, <1>5 DEF Owned
<1>10. s.act[c].parent \in {a, Null}
  BY <1>0, PlacesFacts DEF Removable
<1>11. Outside(t, T, t.act[c].parent)
  <2>1. t.act[c].parent \in {a, Null} /\ t.act[a].state # "free"
    BY <1>0, <1>2, <1>10 DEF Removable
  <2> QED BY <1>0, <2>1 DEF Outside
<1>12. StackDeletable(t, c)
  BY <1>0, <1>4, <1>8, <1>9, <1>11 DEF StackDeletable
<1> QED BY <1>0, <1>2, <1>3, <1>4, <1>10, <1>12

\* An action without children.
LEMMA LeafReached ==
    ASSUME NEW s \in Typed, NEW g \in Places, Owned(s, g) = {}
    PROVE  Reached(s, g) = {g} /\ Below(s, g) = {}
<1>1. s.act[g].child = Null /\ s.act[g].goal = Null
  BY DEF Owned
<1>2. Below(s, g) = {}
  BY <1>1, OwnFacts DEF Below
<1>3. Own(s) \in Links /\ Own(s)[g] = {} /\ At(g) = {g} /\ Reached(s, g) = Reach(Own(s), {g})
  BY OwnFacts, PlacesFacts DEF At
<1>4. Reached(s, g) = {g} \cup Reach(Own(s), {})
  BY <1>3, ReachFirst
<1>5. Reach(Own(s), {}) = {}
  BY <1>3, ReachNothing
<1> QED BY <1>2, <1>4, <1>5

LEMMA LeafDeletable ==
    ASSUME NEW s \in Typed, NEW g \in Places, Owned(s, g) = {},
           s.act[g].state # "free", s.act[g].parent = Null, s.act[g].over = Null
    PROVE  Deletable(s, g) /\ {g} \cup Below(s, g) = {g} /\ s.act[g].under = Null
<1>1. s.act[g].child = Null /\ s.act[g].goal = Null /\ s.act[g].under = Null
  BY DEF Owned
<1>2. Below(s, g) = {}
  BY LeafReached
<1>3. Forest(s, {})
  BY DEF Forest, Closed
<1> QED BY <1>1, <1>2, <1>3 DEF Deletable, Removable, Outside

\* What ~Action does, when what it calls does so.
LEMMA DeleteActionGone ==
    ASSUME NEW f, Deletes(f), NEW s \in Typed, NEW a, Deletable(s, a),
           NEW t \in DeleteAction(f, s, a)
    PROVE  Gone(s, t, {a} \cup Below(s, a), Parents(s, a), {s.act[a].under})
<1> DEFINE p == s.act[a].parent
           b == s.act[a].under
           c == s.act[a].child
           g == s.act[a].goal
           P == Parents(s, a)
           R == Reached(s, c)
           s1 == Leave([s EXCEPT !.wild = @ \/ Dangling(s, a),
                                 !.missed = @ \/ s.act[a].state = "started"], a)
<1>0. /\ a \in Places /\ p \in Pointer /\ b \in Pointer /\ c \in Pointer /\ g \in Pointer
      /\ R \in SUBSET Places /\ R \subseteq Below(s, a) /\ a \notin R /\ a # p /\ a # b
      /\ p \notin Below(s, a) /\ b \notin Below(s, a) /\ a \notin Below(s, a)
      /\ s.act[a].over = Null
  <2>1. a \in Places
    BY DEF Deletable, Removable
  <2>2. p \in Pointer /\ b \in Pointer /\ c \in Pointer /\ g \in Pointer
    BY <2>1, PointersTyped
  <2>3. R \in SUBSET Places /\ R \subseteq Below(s, a)
    BY <2>2, OwnFacts DEF Below
  <2>4. \A q \in {p, b} : q \notin {a} \cup Below(s, a)
    BY <2>1, PlacesFacts DEF Deletable, Removable, Outside, Forest
  <2> QED BY <2>1, <2>2, <2>3, <2>4 DEF Deletable, Removable
<1>1. Gone(s, s1, {}, P, {})
  BY LeaveGone
<1>13. P \subseteq {p} /\ Null \notin P
  BY DEF Parents
<1>14. Gone(s, s1, {}, {p}, {})
  BY <1>1, <1>13, GoneMore
<1>2. s1 \in Typed /\ s1.act[a].child = c
  BY <1>0, <1>14 DEF Gone
<1> HIDE DEF P
<1>3. PICK t1 \in DeleteBy(f, "stack", s1, s1.act[a].child) :
      \E t3 \in DeleteBy(f, "action", Uncover(t1, a), Uncover(t1, a).act[a].over) :
      \E t4 \in DeleteBy(f, "action", t3, t3.act[a].goal) :
         t = [t4 EXCEPT !.act[a] = Blank("free")]
  <2> HIDE DEF s1
  <2>1. LET S2 == {Uncover(u, a) : u \in DeleteBy(f, "stack", s1, s1.act[a].child)}
            S3 == UNION {DeleteBy(f, "action", u, u.act[a].over) : u \in S2}
            S4 == UNION {DeleteBy(f, "action", u, u.act[a].goal) : u \in S3}
        IN  t \in {[u EXCEPT !.act[a] = Blank("free")] : u \in S4}
    BY DEF DeleteAction, s1
  <2> QED BY <2>1
<1> HIDE DEF s1
<1> DEFINE t2 == Uncover(t1, a)
<1>4. Gone(s, t1, R, P \cup {a}, {})
  <2>1. CASE c = Null
    <3>1. t1 = s1 /\ R = {}
      BY <1>2, <1>3, <2>1, OwnFacts DEF Deletes
    <3> QED BY <1>1, <3>1, GoneMore
  <2>2. CASE c # Null
    <3>1. c \in Places /\ StackDeletable(s1, c) /\ Reached(s1, c) = R
          /\ s1.act[c].parent \in {a, Null}
      BY <1>14, <2>2, ChildrenDeletable DEF Deletable
    <3>2. Gone(s1, t1, R, {s1.act[c].parent}, {})
      BY <1>2, <1>3, <3>1 DEF Deletes
    <3>3. Gone(s, t1, {} \cup R, P \cup {s1.act[c].parent}, {} \cup {})
      BY <1>0, <1>1, <3>2, GoneTwice
    <3>4. (P \cup {s1.act[c].parent}) \cap Places \subseteq P \cup {a}
      BY <3>1, PlacesFacts
    <3> QED BY <3>3, <3>4, GoneMore
  <2> QED BY <2>1, <2>2
<1>5. t1 \in Typed /\ t1.act[a].under = b
  BY <1>0, <1>4 DEF Gone
<1>6. Gone(s, t2, R, P \cup {a}, {b})
  <2>1. Gone(t1, t2, {}, {}, {b})
    BY <1>0, <1>5, UncoverGone
  <2>2. Gone(s, t2, R \cup {}, (P \cup {a}) \cup {}, {} \cup {b})
    BY <1>0, <1>4, <2>1, GoneTwice
  <2> QED BY <2>2
<1> HIDE DEF t2
<1>7. t2 \in Typed /\ t2.act[a].over = Null /\ t2.act[a].goal = g
  BY <1>0, <1>6 DEF Gone
<1>8. PICK t4 \in DeleteBy(f, "action", t2, g) : t = [t4 EXCEPT !.act[a] = Blank("free")]
  <2>1. PICK t3 \in DeleteBy(f, "action", t2, Null) :
        \E t4 \in DeleteBy(f, "action", t3, t3.act[a].goal) :
           t = [t4 EXCEPT !.act[a] = Blank("free")]
    BY <1>3, <1>7 DEF t2
  <2>2. t3 = t2
    BY <1>7, <2>1 DEF Deletes
  <2> QED BY <1>7, <2>1, <2>2
<1>9. Gone(s, t4, Below(s, a), P \cup {a}, {b})
  <2>1. CASE g = Null
    <3>1. t4 = t2 /\ Below(s, a) = R
      BY <1>7, <1>8, <2>1, OwnFacts DEF Deletes, Below
    <3> QED BY <1>6, <3>1
  <2>2. CASE g # Null
    <3>1. g \in Places /\ Owned(s, g) = {} /\ s.act[g].parent = Null /\ s.act[g].over = Null
      BY <1>0, <2>2, PlacesFacts DEF Deletable, Removable
    <3>2. Reached(s, g) = {g} /\ Below(s, a) = R \cup {g}
      BY <3>1, LeafReached DEF Below
    <3>3. s.act[g].state # "free"
      BY <3>2 DEF Deletable, Removable, Forest
    <3>4. g \notin R
      <4>1. SUFFICES ASSUME g \in Reach(Own(s), At(c)) PROVE FALSE
        BY <1>0, OwnFacts
      <4>2. g \notin At(c)
        BY <1>0, PlacesFacts DEF At, Deletable, Removable
      <4>3. PICK x \in Reach(Own(s), At(c)) : g \in Own(s)[x]
        BY <1>0, <4>1, <4>2, OwnFacts, ReachOwner
      <4>4. x \in Below(s, a) /\ g \in Owned(s, x)
        BY <1>0, <4>3, OwnFacts
      <4> QED BY <4>4 DEF Deletable, Removable
    <3>5. g # p /\ g # a /\ g # b
      BY <1>0, <3>2
    <3>6. /\ Owned(t2, g) = {} /\ t2.act[g].state # "free"
          /\ t2.act[g].parent = Null /\ t2.act[g].over = Null
      <4>1. g \in Places \ R /\ g \notin P \cup {a} /\ g # b
        BY <1>13, <3>1, <3>4, <3>5
      <4> QED BY <1>6, <3>1, <3>3, <4>1 DEF Gone, Owned
    <3>7. Gone(t2, t4, {g}, {Null}, {Null})
      <4>1. Deletable(t2, g) /\ {g} \cup Below(t2, g) = {g} /\ t2.act[g].under = Null
        BY <1>7, <3>1, <3>6, LeafDeletable
      <4>2. Gone(t2, t4, {g} \cup Below(t2, g), Parents(t2, g), {t2.act[g].under})
        BY <1>7, <1>8, <3>1, <4>1 DEF Deletes
      <4>3. Parents(t2, g) = {}
        BY <3>6 DEF Parents
      <4>4. Gone(t2, t4, {g}, {}, {Null})
        BY <4>1, <4>2, <4>3
      <4> QED BY <4>4, GoneMore
    <3>8. Gone(s, t4, R \cup {g}, (P \cup {a}) \cup {Null}, {b} \cup {Null})
      BY <1>0, <1>6, <3>1, <3>7, GoneTwice, PlacesFacts
    <3> QED BY <3>2, <3>8, GoneMore, PlacesFacts
  <2> QED BY <2>1, <2>2
<1>10. t4 \in Typed /\ Below(s, a) \in SUBSET Places
  BY <1>9 DEF Gone, Deletable, Removable, Forest
<1>11. Gone(t4, t, {a}, {}, {})
  <2> DEFINE v == [t4 EXCEPT !.act[a] = Blank("free")]
  <2>1. Gone(t4, v, {a}, {}, {})
    BY <1>0, <1>10, BlankSet
  <2> HIDE DEF v
  <2> QED BY <1>8, <2>1 DEF v
<1>12. Gone(s, t, Below(s, a) \cup {a}, (P \cup {a}) \cup {}, {b} \cup {})
  BY <1>0, <1>9, <1>10, <1>11, GoneTwice
<1>15. Gone(s, t, {a} \cup Below(s, a), P, {b})
  BY <1>0, <1>12, GoneMore
<1> QED BY <1>15 DEF P

LEMMA StackFacts ==
    ASSUME NEW s \in Typed, NEW a, StackDeletable(s, a)
    PROVE  LET B == Reached(s, s.act[a].under) IN
           /\ Deletable(s, a)
           /\ \A x \in B : /\ s.act[x].over # Null /\ x # s.act[a].under => s.act[x].over \in B
                           /\ s.act[a].under \notin Owned(s, x)
<1> DEFINE b == s.act[a].under
           L == Below(s, a)
           B == Reached(s, b)
           T == Reached(s, a)
<1>0. /\ a \in Places /\ T \in SUBSET Places /\ Closed(Own(s), T) /\ a \in T
      /\ b \in Pointer /\ s.act[a].child \in Pointer /\ s.act[a].goal \in Pointer
      /\ s.act[a].over \in Pointer
      /\ B \in SUBSET Places /\ Closed(Own(s), B) /\ L \in SUBSET Places /\ Closed(Own(s), L)
  <2>1. a \in Places
    BY DEF StackDeletable
  <2>2. /\ b \in Pointer /\ s.act[a].child \in Pointer /\ s.act[a].goal \in Pointer
        /\ s.act[a].over \in Pointer
    BY <2>1, PointersTyped
  <2>3. /\ Closed(Own(s), Reached(s, s.act[a].child)) /\ Reached(s, s.act[a].child) \in SUBSET Places
        /\ Closed(Own(s), Reached(s, s.act[a].goal)) /\ Reached(s, s.act[a].goal) \in SUBSET Places
    BY <2>2, OwnFacts
  <2> QED BY <2>1, <2>2, <2>3, OwnFacts, PlacesFacts DEF Below, Closed
<1>1. T = {a} \cup L \cup B /\ a \notin L /\ a \notin B /\ L \cap B = {}
  BY <1>0, StackParts
<1>2. b # Null => b \in B
  BY <1>0, OwnFacts
<1>3. Forest(s, T) /\ Outside(s, T, s.act[a].parent) /\ \A x \in T : a \notin Owned(s, x)
  BY DEF StackDeletable
<1>4. \A x \in T : s.act[x].over # Null => /\ s.act[x].over \in T
                                          /\ x \in Owned(s, s.act[x].over)
                                          /\ s.act[s.act[x].over].under = x
  BY <1>0, <1>3, PlacesFacts DEF Forest, Owned
<1> HIDE DEF b, T, L, B
<1>5. ASSUME NEW x \in T, s.act[x].over # Null
      PROVE  /\ x \in L => s.act[x].over \in L
             /\ x \in B /\ x # b => s.act[x].over \in B
  <2> DEFINE y == s.act[x].over
  <2>1. y \in T /\ x \in Owned(s, y) /\ s.act[y].under = x
    BY <1>4, <1>5
  <2>2. y = a => x = b
    BY <2>1 DEF b
  <2>3. y \in L => x \in L
    BY <1>0, <2>1, OwnFacts DEF Closed
  <2>4. y \in B => x \in B
    BY <1>0, <2>1, OwnFacts DEF Closed
  <2>5. x # Null
    BY <1>0, <1>5, PlacesFacts
  <2> QED BY <1>1, <1>2, <2>1, <2>2, <2>3, <2>4, <2>5
<1>6. s.act[a].over = Null
  BY <1>0, <1>3, <1>4
<1>7. Forest(s, L)
  <2>1. L \in SUBSET T
    BY <1>1
  <2>2. \A x \in L : s.act[x].over \in L \cup {Null}
    BY <1>5, <2>1
  <2> QED BY <1>0, <1>3, <2>1, <2>2, PartOfForest DEF Alike
<1>8. \A x \in L : Owned(s, x) \cap {s.act[a].child, s.act[a].goal} = {}
  <2>1. \A x \in L : x \in T /\ x # a
    BY <1>1
  <2>2. \A x \in L : Owned(s, x) \cap Owned(s, a) = {} /\ Null \notin Owned(s, x)
    BY <1>0, <1>3, <2>1 DEF Forest, Owned
  <2> QED BY <2>2 DEF Owned
<1>9. s.act[a].child # Null => /\ s.act[a].child # s.act[a].goal
                              /\ s.act[s.act[a].child].parent \in {a, Null}
  BY <1>0, <1>3 DEF Forest
<1>10. s.act[a].goal # Null => LET g == s.act[a].goal IN
         Owned(s, g) = {} /\ s.act[g].parent = Null /\ s.act[g].over = Null
  BY <1>0, <1>3 DEF Forest
<1>11. Outside(s, {a} \cup L, s.act[a].parent)
  BY <1>1, <1>3 DEF Outside
<1>12. Outside(s, {a} \cup L, b)
  <2>1. b # Null => b \in T /\ b \in Places /\ s.act[b].state # "free"
    BY <1>0, <1>1, <1>2, <1>3 DEF Forest
  <2> QED BY <1>1, <1>2, <2>1 DEF Outside
<1>13. s.act[a].state # "free"
  BY <1>0, <1>3 DEF Forest
<1>14. Deletable(s, a)
  BY <1>0, <1>1, <1>6, <1>7, <1>8, <1>9, <1>10, <1>11, <1>12, <1>13 DEF Deletable, Removable, L, b
<1>15. \A x \in B : s.act[x].over # Null /\ x # b => s.act[x].over \in B
  BY <1>1, <1>5
<1>16. \A x \in B : b \notin Owned(s, x)
  <2>1. \A x \in B : x \in T /\ x # a
    BY <1>1
  <2>2. \A x \in B : Owned(s, x) \cap Owned(s, a) = {} /\ Null \notin Owned(s, x)
    BY <1>0, <1>3, <2>1 DEF Forest, Owned
  <2> QED BY <2>2 DEF Owned, b
<1> QED BY <1>14, <1>15, <1>16 DEF B, b

LEMMA DeleteStackGone ==
    ASSUME NEW f, Deletes(f), NEW s \in Typed, NEW a, StackDeletable(s, a),
           NEW t \in DeleteStack(f, s, a)
    PROVE  Gone(s, t, Reached(s, a), {s.act[a].parent}, {})
<1> DEFINE p == s.act[a].parent
           b == s.act[a].under
           L == Below(s, a)
           B == Reached(s, b)
           T == Reached(s, a)
<1>0. /\ a \in Places /\ b \in Pointer /\ p \in Pointer
      /\ B \in SUBSET Places /\ Closed(Own(s), B)
      /\ Forest(s, T) /\ Outside(s, T, p)
  BY PointersTyped, OwnFacts, PlacesFacts DEF StackDeletable
<1>1. T = {a} \cup L \cup B /\ a \notin L /\ a \notin B /\ L \cap B = {}
  BY <1>0, StackParts
<1>2. /\ Deletable(s, a)
      /\ \A x \in B : /\ s.act[x].over # Null /\ x # b => s.act[x].over \in B
                      /\ b \notin Owned(s, x)
  BY StackFacts
<1>3. PICK t1 \in DeleteBy(f, "action", s, a) : t \in DeleteBy(f, "stack", t1, b)
  BY DEF DeleteStack
<1>4. Gone(s, t1, {a} \cup L, {p}, {b})
  <2>1. Gone(s, t1, {a} \cup L, Parents(s, a), {b})
    BY <1>0, <1>2, <1>3 DEF Deletes
  <2>2. Parents(s, a) \subseteq {p}
    BY DEF Parents
  <2> QED BY <2>1, <2>2, GoneMore
<1>5. t1 \in Typed /\ p \notin B
  BY <1>0, <1>1, <1>4, PlacesFacts DEF Gone, Outside, Forest
<1>6. CASE b = Null
  <2>1. t = t1 /\ B = {}
    BY <1>3, <1>5, <1>6, OwnFacts DEF Deletes
  <2>2. {b} \cap Places = {}
    BY <1>6, PlacesFacts
  <2> QED BY <1>1, <1>4, <2>1, <2>2, GoneMore
<1>7. CASE b # Null
  <2>0. b \in Places /\ b \in B
    BY <1>0, <1>7, OwnFacts, PlacesFacts
  <2>1. \A x \in B : /\ x \in Places \ ({a} \cup L) /\ Alike(t1.act[x], s.act[x])
                     /\ t1.act[x].over = IF x = b THEN Null ELSE s.act[x].over
    BY <1>0, <1>1, <1>4, <1>5 DEF Gone, Alike
  <2>2. Reached(t1, b) = B
    BY <1>0, <1>5, <2>1, ReachedOnSame DEF Alike
  <2>3. Forest(t1, B)
    <3>1. \A x \in B : /\ Alike(t1.act[x], s.act[x])
                       /\ \/ t1.act[x].over = Null
                          \/ t1.act[x].over = s.act[x].over /\ s.act[x].over \in B \cup {Null}
      BY <1>2, <2>1
    <3>2. B \in SUBSET T
      BY <1>1
    <3> QED BY <1>0, <1>5, <3>1, <3>2, PartOfForest
  <2>4. \A x \in B : b \notin Owned(t1, x)
    BY <1>2, <2>1 DEF Owned, Alike
  <2>5. s.act[b].parent = p
    BY <1>0, <1>7, OwnFacts, PlacesFacts DEF Forest
  <2>6. t1.act[b].parent = p
    BY <2>0, <2>1, <2>5 DEF Alike
  <2>7. Outside(t1, B, p)
    BY <1>0, <1>1, <1>4 DEF Outside, Gone
  <2>8. StackDeletable(t1, b)
    BY <2>0, <2>2, <2>3, <2>4, <2>6, <2>7 DEF StackDeletable
  <2>9. Gone(t1, t, B, {p}, {})
    BY <1>3, <1>5, <2>0, <2>2, <2>6, <2>8 DEF Deletes
  <2>10. p \notin {a} \cup L
    BY <1>0, <1>1, PlacesFacts DEF Outside, Forest
  <2>11. {a} \cup L \in SUBSET Places
    BY <1>0, <1>1 DEF Forest
  <2> HIDE DEF L, B
  <2>12. Gone(s, t, ({a} \cup L) \cup B, {p} \cup {p}, {b} \cup {})
    BY <1>0, <1>4, <2>9, <2>10, <2>11, GoneTwice
  <2> QED BY <1>1, <2>0, <2>12, GoneMore
<1> QED BY <1>6, <1>7

LEMMA DeletionsDelete == \A n \in Nat : Deletes(Deletions[n])
<1> DEFINE S == {n \in Nat : Deletes(Deletions[n])}
<1>0. \A what \in {"action", "stack"}, s \in Typed, a \in Pointer :
         [what |-> what, s |-> s, a |-> a] \in Deletion
  BY DEF Deletion, Typed
<1>1. 0 \in S
  <2>1. \A d \in Deletion : Deletions[0][d] = {}
    BY DeletionsUnfold DEF NoDeletion
  <2>2. Deletes(Deletions[0])
    BY <1>0, <2>1, PlacesFacts DEF Deletes, DeleteBy
  <2> QED BY <2>2
<1>2. ASSUME NEW n \in Nat, n \in S PROVE n + 1 \in S
  <2> DEFINE f == Deletions[n]
             g == Deletions[n + 1]
  <2>1. Deletes(f)
    BY <1>2
  <2>2. g = DeletionStep(f)
    BY DeletionsUnfold
  <2> HIDE DEF f, g
  <2>3. \A s \in Typed :
          /\ DeleteBy(g, "stack", s, Null) = {s}
          /\ DeleteBy(g, "action", s, Null) = {s}
          /\ \A a \in Places : /\ DeleteBy(g, "stack", s, a) = DeleteStack(f, s, a)
                               /\ DeleteBy(g, "action", s, a) = DeleteAction(f, s, a)
    <3> SUFFICES ASSUME NEW s \in Typed
                 PROVE
                  /\ DeleteBy(g, "stack", s, Null) = {s}
                  /\ DeleteBy(g, "action", s, Null) = {s}
                  /\ \A a \in Places : /\ DeleteBy(g, "stack", s, a) = DeleteStack(f, s, a)
                                       /\ DeleteBy(g, "action", s, a) = DeleteAction(f, s, a)
      OBVIOUS
    <3>1. \A w \in {"action", "stack"} : DeleteBy(g, w, s, Null) = {s}
      BY <1>0, <2>2, PlacesFacts DEF DeleteBy, DeletionStep
    <3>2. ASSUME NEW a \in Places PROVE DeleteBy(g, "stack", s, a) = DeleteStack(f, s, a)
      BY <1>0, <2>2, PlacesFacts DEF DeleteBy, DeletionStep
    <3>3. ASSUME NEW a \in Places PROVE DeleteBy(g, "action", s, a) = DeleteAction(f, s, a)
      BY <1>0, <2>2, PlacesFacts DEF DeleteBy, DeletionStep
    <3> QED BY <3>1, <3>2, <3>3
  <2>4. Deletes(g)
    <3> SUFFICES ASSUME NEW s \in Typed
                 PROVE
          /\ \A t \in DeleteBy(g, "stack", s, Null) : t = s
          /\ \A t \in DeleteBy(g, "action", s, Null) : t = s
          /\ \A a \in Places : StackDeletable(s, a) =>
                \A t \in DeleteBy(g, "stack", s, a) :
                    Gone(s, t, Reached(s, a), {s.act[a].parent}, {})
          /\ \A a \in Places : Deletable(s, a) =>
                \A t \in DeleteBy(g, "action", s, a) :
                    Gone(s, t, {a} \cup Below(s, a), Parents(s, a), {s.act[a].under})
      BY DEF Deletes
    <3>1. \A w \in {"stack", "action"} : \A t \in DeleteBy(g, w, s, Null) : t = s
      BY <2>3
    <3>2. ASSUME NEW a \in Places, StackDeletable(s, a), NEW t \in DeleteBy(g, "stack", s, a)
          PROVE  Gone(s, t, Reached(s, a), {s.act[a].parent}, {})
      <4>1. t \in DeleteStack(f, s, a)
        BY <2>3, <3>2
      <4> QED BY <2>1, <3>2, <4>1, DeleteStackGone
    <3>3. ASSUME NEW a \in Places, Deletable(s, a), NEW t \in DeleteBy(g, "action", s, a)
          PROVE  Gone(s, t, {a} \cup Below(s, a), Parents(s, a), {s.act[a].under})
      <4>1. t \in DeleteAction(f, s, a)
        BY <2>3, <3>3
      <4> QED BY <2>1, <3>3, <4>1, DeleteActionGone
    <3> QED BY <3>1, <3>2, <3>3
  <2> QED BY <2>4 DEF g
<1>3. S \in SUBSET Nat
  OBVIOUS
<1> HIDE DEF S
<1>4. S = Nat
  BY <1>1, <1>2, <1>3, NatAll
<1> QED BY <1>4 DEF S

\* An action that has ended, that nothing covers and whose children and pending
\* result are its own: ~Action frees it and those, each once, and leaves all other
\* actions as they were, but for the pointers of its parent and of what it covered.
THEOREM DeletionFrees ==
    ASSUME NEW s \in Typed, NEW a \in Places, Deletable(s, a), NEW t \in Delete(s, a)
    PROVE  Gone(s, t, {a} \cup Below(s, a), Parents(s, a), {s.act[a].under})
<1>1. Deletes(Deletions[MaxCalls])
  BY DeletionsDelete, ActionsAssumption
<1> QED BY <1>1 DEF Deletes, Delete
-----------------------------------------------------------------------------
(* What the operators answer is typed.                                     *)

TypedDeletes(f) ==
    \A what \in {"action", "stack", "dead"}, s \in Typed, a \in Pointer :
        DeleteBy(f, what, s, a) \subseteq Typed

LEMMA NewTyped ==
    ASSUME NEW s \in Typed, Free(s) # {}
    PROVE  New(s) \in Typed /\ Fresh(s) \in Places
<1>1. Fresh(s) \in Places
  BY FreshFree
<1>2. [s EXCEPT !.act[Fresh(s)] = Blank("made")] \in Typed
  BY <1>1, BlankTyped, PutTyped
<1> QED BY <1>1, <1>2 DEF New

\* One field of an action in memory is set.
LEMMA FieldPutTyped ==
    ASSUME NEW s \in Typed, NEW a \in Places, NEW p \in Pointer
    PROVE  /\ [s EXCEPT !.act[a].under = p] \in Typed
           /\ [s EXCEPT !.act[a].over = p] \in Typed
           /\ [s EXCEPT !.act[a].parent = p] \in Typed
           /\ [s EXCEPT !.act[a].child = p] \in Typed
           /\ SetChild(s, a, p) \in Typed
           /\ \A b \in BOOLEAN : [s EXCEPT !.act[a].suspended = b] \in Typed
           /\ [s EXCEPT !.act[a].state = "started"] \in Typed
<1>1. s.act[a] \in Actions
  BY RecordTyped
<1>2. /\ [s EXCEPT !.act[a] = [s.act[a] EXCEPT !.under = p]] \in Typed
      /\ [s EXCEPT !.act[a] = [s.act[a] EXCEPT !.over = p]] \in Typed
      /\ [s EXCEPT !.act[a] = [s.act[a] EXCEPT !.parent = p]] \in Typed
      /\ [s EXCEPT !.act[a] = [s.act[a] EXCEPT !.child = p]] \in Typed
      /\ \A b \in BOOLEAN : [s EXCEPT !.act[a] = [s.act[a] EXCEPT !.suspended = b]] \in Typed
      /\ [s EXCEPT !.act[a] = [s.act[a] EXCEPT !.state = "started"]] \in Typed
  BY <1>1, FieldsTyped, FlagsTyped, PutTyped
<1> QED BY <1>2 DEF SetChild

LEMMA WishPutTyped ==
    ASSUME NEW s \in Typed, NEW a \in Places
    PROVE  /\ ClearEvent(s, a) \in Typed
           /\ \A q \in Answered, p \in Priorities \ {0} : q.type \in Changes =>
                 [s EXCEPT !.act[a].want = q.type, !.act[a].goal = q.goal,
                           !.act[a].priority = p] \in Typed
<1>1. s.act[a] \in Actions
  BY RecordTyped
<1>2. /\ [s EXCEPT !.act[a] = [s.act[a] EXCEPT !.want = "CONTINUE", !.goal = Null,
                                                 !.priority = 0]] \in Typed
      /\ \A q \in Answered, p \in Priorities \ {0} : q.type \in Changes =>
           [s EXCEPT !.act[a] = [s.act[a] EXCEPT !.want = q.type, !.goal = q.goal,
                                                 !.priority = p]] \in Typed
  BY <1>1, WishTyped, PutTyped
<1>3. ClearEvent(s, a) = [s EXCEPT !.act[a] = [s.act[a] EXCEPT !.want = "CONTINUE", !.goal = Null,
                                                 !.priority = 0]]
  BY DEF ClearEvent, Typed, Memories
<1>4. ASSUME NEW q \in Answered, NEW p \in Priorities \ {0}
      PROVE [s EXCEPT !.act[a].want = q.type, !.act[a].goal = q.goal,
                           !.act[a].priority = p]
            = [s EXCEPT !.act[a] = [s.act[a] EXCEPT !.want = q.type, !.goal = q.goal,
                                                 !.priority = p]]
  BY DEF Typed, Memories
<1>5. ASSUME NEW q \in Answered, NEW p \in Priorities \ {0}, q.type \in Changes
      PROVE  [s EXCEPT !.act[a].want = q.type, !.act[a].goal = q.goal,
                       !.act[a].priority = p] \in Typed
  BY <1>2, <1>4, <1>5
<1>6. ClearEvent(s, a) \in Typed
  BY <1>2, <1>3
<1> QED BY <1>5, <1>6

LEMMA UncoverLeaveTyped ==
    ASSUME NEW s \in Typed, NEW a \in Places
    PROVE  Uncover(s, a) \in Typed /\ Leave(s, a) \in Typed
<1>1. s.act[a].under \in Pointer /\ s.act[a].parent \in Pointer
  BY PointersTyped
<1>2. Uncover(s, a) \in Typed
  BY <1>1, PlacesFacts, FieldPutTyped DEF Uncover
<1>3. Leave(s, a) \in Typed
  BY <1>1, PlacesFacts, FieldPutTyped DEF Leave
<1> QED BY <1>2, <1>3

LEMMA DeleteActionTyped ==
    ASSUME NEW f, TypedDeletes(f), NEW s \in Typed, NEW a \in Places
    PROVE  DeleteAction(f, s, a) \subseteq Typed
<1> DEFINE s0 == [s EXCEPT !.wild = @ \/ Dangling(s, a),
                           !.missed = @ \/ s.act[a].state = "started"]
           s1 == Leave(s0, a)
           S2 == {Uncover(t, a) : t \in DeleteBy(f, "stack", s1, s1.act[a].child)}
           S3 == UNION {DeleteBy(f, "action", t, t.act[a].over) : t \in S2}
           S4 == UNION {DeleteBy(f, "action", t, t.act[a].goal) : t \in S3}
<1>1. s0 \in Typed
  BY DEF Typed, Memories, Dangling
<1> HIDE DEF s0
<1>2. s1 \in Typed
  BY <1>1, UncoverLeaveTyped
<1> HIDE DEF s1
<1>3. S2 \subseteq Typed
  BY <1>2, PointersTyped, UncoverLeaveTyped DEF TypedDeletes
<1> HIDE DEF S2
<1>4. S3 \subseteq Typed
  BY <1>3, PointersTyped DEF TypedDeletes
<1> HIDE DEF S3
<1>5. S4 \subseteq Typed
  BY <1>4, PointersTyped DEF TypedDeletes
<1> HIDE DEF S4
<1>6. {[t EXCEPT !.act[a] = Blank("free")] : t \in S4} \subseteq Typed
  BY <1>5, PutTyped, BlankTyped
<1> QED BY <1>6 DEF DeleteAction, S4, S3, S2, s1, s0

LEMMA DeleteStackTyped ==
    ASSUME NEW f, TypedDeletes(f), NEW s \in Typed, NEW a \in Places
    PROVE  DeleteStack(f, s, a) \subseteq Typed
<1>1. s.act[a].under \in Pointer /\ a \in Pointer
  BY PointersTyped, PlacesFacts
<1> QED BY <1>1 DEF DeleteStack, TypedDeletes

LEMMA PurgeDeadTyped ==
    ASSUME NEW f, TypedDeletes(f), NEW s \in Typed
    PROVE  PurgeDead(f, s) \subseteq Typed
<1>1. CASE s.dead = <<>>
  BY <1>1 DEF PurgeDead
<1>2. CASE s.dead # <<>>
  <2>1. s.dead \in Seq(Places)
    BY DEF Typed, Memories
  <2>2. Head(s.dead) \in Pointer /\ Tail(s.dead) \in Seq(Places)
    <3>1. \A q \in Seq(Places) : q # <<>> => Head(q) \in Places /\ Tail(q) \in Seq(Places)
      OBVIOUS
    <3> QED BY <1>2, <2>1, <3>1, PlacesFacts
  <2>3. DeleteBy(f, "action", s, Head(s.dead)) \subseteq Typed
    BY <2>2 DEF TypedDeletes
  <2>4. \A t \in Typed : [t EXCEPT !.dead = Tail(s.dead)] \in Typed
    BY <2>2 DEF Typed, Memories
  <2>5. \A t \in Typed : DeleteBy(f, "dead", [t EXCEPT !.dead = Tail(s.dead)], Null) \subseteq Typed
    BY <2>4, PlacesFacts DEF TypedDeletes
  <2> QED BY <1>2, <2>3, <2>5 DEF PurgeDead
<1> QED BY <1>1, <1>2

LEMMA DeletionsTyped == \A n \in Nat : TypedDeletes(Deletions[n])
<1> DEFINE S == {n \in Nat : TypedDeletes(Deletions[n])}
<1>0. \A what \in {"action", "stack", "dead"}, s \in Typed, a \in Pointer :
         [what |-> what, s |-> s, a |-> a] \in Deletion
  BY DEF Deletion, Typed
<1>1. 0 \in S
  BY <1>0, DeletionsUnfold DEF NoDeletion, TypedDeletes, DeleteBy
<1>2. ASSUME NEW n \in Nat, n \in S PROVE n + 1 \in S
  <2> DEFINE f == Deletions[n]
             g == Deletions[n + 1]
  <2>1. TypedDeletes(f)
    BY <1>2
  <2>2. g = DeletionStep(f)
    BY DeletionsUnfold
  <2> HIDE DEF f, g
  <2>3. ASSUME NEW s \in Typed, NEW a \in Pointer
        PROVE  /\ DeleteBy(g, "dead", s, a) \subseteq Typed
               /\ DeleteBy(g, "stack", s, a) \subseteq Typed
               /\ DeleteBy(g, "action", s, a) \subseteq Typed
    <3>1. DeleteBy(g, "dead", s, a) = PurgeDead(f, s)
      BY <1>0, <2>2 DEF DeleteBy, DeletionStep
    <3>2. DeleteBy(g, "stack", s, a) = IF a = Null THEN {s} ELSE DeleteStack(f, s, a)
      BY <1>0, <2>2 DEF DeleteBy, DeletionStep
    <3>3. DeleteBy(g, "action", s, a) = IF a = Null THEN {s} ELSE DeleteAction(f, s, a)
      BY <1>0, <2>2 DEF DeleteBy, DeletionStep
    <3>4. PurgeDead(f, s) \subseteq Typed
      BY <2>1, PurgeDeadTyped
    <3>5. a # Null => DeleteStack(f, s, a) \subseteq Typed /\ DeleteAction(f, s, a) \subseteq Typed
      BY <2>1, PlacesFacts, DeleteStackTyped, DeleteActionTyped
    <3> QED BY <3>1, <3>2, <3>3, <3>4, <3>5
  <2>4. TypedDeletes(g)
    BY <2>3 DEF TypedDeletes
  <2> QED BY <2>4 DEF g
<1>3. S \in SUBSET Nat
  OBVIOUS
<1> HIDE DEF S
<1>4. S = Nat
  BY <1>1, <1>2, <1>3, NatAll
<1> QED BY <1>4 DEF S

LEMMA DeleteTyped ==
    /\ \A s \in Typed, a \in Pointer : Delete(s, a) \subseteq Typed
    /\ \A s \in Typed : Purged(s) \subseteq Typed
<1>1. TypedDeletes(Deletions[MaxCalls])
  BY DeletionsTyped, ActionsAssumption
<1> QED BY <1>1, PlacesFacts DEF TypedDeletes, Delete, Purged

LEMMA ResultsAnswered ==
    /\ Continue \in Answered /\ Done \in Answered
    /\ \A p \in Places : /\ Result("CHANGE_TO", p) \in Answered
                         /\ Result("SUSPEND_FOR", p) \in Answered
BY PlacesFacts DEF Continue, Done, Result, Answered, Results, Changes

LEMMA StackTyped ==
    ASSUME NEW s, NEW a
    PROVE  Stack(s, a) \in SUBSET Places
BY DEF Stack, Reach

LEMMA StoreTyped ==
    ASSUME NEW s \in Typed, NEW a \in Places, NEW r \in Answered, r.type \in Changes,
           NEW p \in Priorities \ {0}
    PROVE  Store(s, a, r, p) \subseteq Typed
<1>1. s.act[a].goal \in Pointer /\ r.goal \in Pointer
  BY PointersTyped DEF Answered, Results
<1>2. Delete(s, s.act[a].goal) \subseteq Typed /\ Delete(s, r.goal) \subseteq Typed
  BY <1>1, DeleteTyped
<1>3. {[t EXCEPT !.act[a].want = r.type, !.act[a].goal = r.goal, !.act[a].priority = p] :
          t \in Delete(s, s.act[a].goal)} \subseteq Typed
  <2>1. ASSUME NEW t \in Delete(s, s.act[a].goal)
        PROVE  [t EXCEPT !.act[a].want = r.type, !.act[a].goal = r.goal,
                         !.act[a].priority = p] \in Typed
    BY <1>2, WishPutTyped
  <2> QED BY <2>1
<1> QED BY <1>2, <1>3 DEF Store

LEMMA HandledTyped ==
    ASSUME NEW s \in Typed
    PROVE  Handled(s) \subseteq Typed
<1>1. Responders(s) \in SUBSET Places
  BY StackTyped DEF Responders
<1>2. ASSUME NEW a \in Places, NEW p \in Priorities \ {0}
      PROVE  Store(s, a, Done, p) \subseteq Typed
  BY ResultsAnswered, StoreTyped DEF Done, Result, Changes
<1>3. ASSUME NEW a \in Places, NEW p \in Priorities \ {0}, Free(s) # {},
             NEW t \in {"CHANGE_TO", "SUSPEND_FOR"}
      PROVE  Store(New(s), a, Result(t, Fresh(s)), p) \subseteq Typed
  BY <1>3, NewTyped, ResultsAnswered, StoreTyped DEF Result, Changes
<1> QED BY <1>1, <1>2, <1>3 DEF Handled

LEMMA MayHandleTyped ==
    ASSUME NEW s \in Typed
    PROVE  MayHandle(s) \subseteq Typed
<1>1. \A t \in Typed : [t EXCEPT !.quiet = TRUE] \in Typed
  BY DEF Typed, Memories
<1> QED BY <1>1, HandledTyped DEF MayHandle

LEMMA AnswersTyped ==
    ASSUME NEW s \in Typed, NEW a \in Places, NEW types, NEW o \in Answers(s, a, types)
    PROVE  o.s \in Typed /\ o.r \in Answered
<1>1. PICK t \in MayHandle(s) :
        o \in {[s |-> t, r |-> Continue], [s |-> t, r |-> Done]} \cup
                  (IF Free(t) = {} THEN {}
                   ELSE {[s |-> New(t), r |-> Result("CHANGE_TO", Fresh(t))],
                         [s |-> ClearEvent(New(t), a), r |-> Result("SUSPEND_FOR", Fresh(t))]})
  BY DEF Answers
<1>2. t \in Typed
  BY <1>1, MayHandleTyped
<1>3. CASE o \in {[s |-> t, r |-> Continue], [s |-> t, r |-> Done]}
  BY <1>2, <1>3, ResultsAnswered
<1>4. CASE Free(t) # {} /\ o \in {[s |-> New(t), r |-> Result("CHANGE_TO", Fresh(t))],
                         [s |-> ClearEvent(New(t), a), r |-> Result("SUSPEND_FOR", Fresh(t))]}
  <2>1. New(t) \in Typed /\ Fresh(t) \in Places
    BY <1>2, <1>4, NewTyped
  <2>2. ClearEvent(New(t), a) \in Typed
    BY <2>1, WishPutTyped
  <2> QED BY <1>4, <2>1, <2>2, ResultsAnswered
<1> QED BY <1>1, <1>3, <1>4

LEMMA DestroyTyped ==
    ASSUME NEW s \in Typed, NEW a \in Places
    PROVE  Destroy(s, a) \in Typed
<1>1. s.dead \in Seq(Places)
  BY DEF Typed, Memories
<1>2. Append(s.dead, a) \in Seq(Places)
  BY <1>1
<1> QED BY <1>2 DEF Typed, Memories, Destroy

LEMMA LinkTyped ==
    ASSUME NEW s \in Typed, NEW a \in Places, NEW prior \in Pointer, NEW buried \in Pointer
    PROVE  Link(s, a, prior, buried) \in Typed
<1> DEFINE p == IF prior = Null THEN s.act[a].parent ELSE s.act[prior].parent
           s1 == [s EXCEPT !.act[a].state = "started", !.act[a].parent = p,
                        !.act[a].under = buried, !.act[a].over = Null,
                        !.act[a].child = Null]
           s2 == IF p = Null THEN s1 ELSE SetChild(s1, p, a)
<1>1. p \in Pointer
  BY PointersTyped, PlacesFacts
<1> HIDE DEF p
<1>2. s1 \in Typed
  <2> DEFINE u1 == [s EXCEPT !.act[a].state = "started"]
             u2 == [u1 EXCEPT !.act[a].parent = p]
             u3 == [u2 EXCEPT !.act[a].under = buried]
             u4 == [u3 EXCEPT !.act[a].over = Null]
             u5 == [u4 EXCEPT !.act[a].child = Null]
  <2>1. s1 = u5
    OBVIOUS
  <2>2. u1 \in Typed
    BY FieldPutTyped, PlacesFacts
  <2> HIDE DEF u1, s1
  <2>3. u2 \in Typed
    BY <1>1, <2>2, FieldPutTyped
  <2> HIDE DEF u2
  <2>4. u3 \in Typed
    BY <2>3, FieldPutTyped
  <2> HIDE DEF u3
  <2>5. u4 \in Typed
    BY <2>4, FieldPutTyped, PlacesFacts
  <2> HIDE DEF u4
  <2>6. u5 \in Typed
    BY <2>5, FieldPutTyped, PlacesFacts
  <2> QED BY <2>1, <2>6
<1> HIDE DEF s1
<1>3. s2 \in Typed
  BY <1>1, <1>2, PlacesFacts, FieldPutTyped
<1> HIDE DEF s2
<1>4. buried # Null => [s2 EXCEPT !.act[buried].over = a] \in Typed
  BY <1>3, PlacesFacts, FieldPutTyped
<1> QED BY <1>3, <1>4 DEF Link, s2, s1, p
-----------------------------------------------------------------------------
TypedOutcomes(O) == \A o \in O : o.s \in Typed /\ o.a \in Pointer /\ o.r \in Answered
TypedAnswers(O) == \A o \in O : o.s \in Typed /\ o.r \in Answered
TypedCalls(f) ==
    \A s \in Typed, a \in Pointer, r \in Answered :
        /\ TypedOutcomes(Apply(f, s, a, r)) /\ TypedOutcomes(OnSuspend(f, s, a))
        /\ TypedOutcomes(OnResume(f, s, a)) /\ TypedOutcomes(OnUpdate(f, s, a))

LEMMA OutcomeTyped ==
    ASSUME NEW s \in Typed, NEW a \in Pointer, NEW r \in Answered
    PROVE  TypedOutcomes({Outcome(s, a, r)})
BY DEF TypedOutcomes, Outcome

LEMMA StartChildTyped ==
    ASSUME NEW f, TypedCalls(f), NEW s \in Typed, NEW a \in Places
    PROVE  StartChild(f, s, a) \subseteq Typed
<1>1. CASE Free(s) # {}
  <2> DEFINE c == Fresh(s)
             u == [New(s) EXCEPT !.act[c].parent = a]
             t == SetChild(u, a, c)
  <2>1. c \in Places /\ New(s) \in Typed
    BY <1>1, NewTyped
  <2> HIDE DEF c
  <2>2. u \in Typed
    BY <2>1, PlacesFacts, FieldPutTyped
  <2> HIDE DEF u
  <2>3. t \in Typed
    BY <2>1, <2>2, PlacesFacts, FieldPutTyped
  <2> HIDE DEF t
  <2>4. Result("CHANGE_TO", c) \in Answered /\ c \in Pointer
    BY <2>1, ResultsAnswered, PlacesFacts
  <2>5. \A o \in Apply(f, t, c, Result("CHANGE_TO", c)) : o.s \in Typed /\ o.a \in Pointer
    BY <2>3, <2>4 DEF TypedCalls, TypedOutcomes
  <2>6. {SetChild(o.s, a, o.a) : o \in Apply(f, t, c, Result("CHANGE_TO", c))} \subseteq Typed
    <3>1. ASSUME NEW o \in Apply(f, t, c, Result("CHANGE_TO", c))
          PROVE  SetChild(o.s, a, o.a) \in Typed
      BY <2>5, FieldPutTyped
    <3> QED BY <3>1
  <2> QED BY <2>6 DEF StartChild, t, u, c
<1> QED BY <1>1 DEF StartChild

LEMMA OnStartTyped ==
    ASSUME NEW f, TypedCalls(f), NEW s \in Typed, NEW a \in Places,
           NEW prior \in Pointer, NEW buried \in Pointer
    PROVE  TypedAnswers(OnStart(f, s, a, prior, buried))
<1>1. StartChild(f, Link(s, a, prior, buried), a) \subseteq Typed
  BY LinkTyped, StartChildTyped
<1> QED BY <1>1, AnswersTyped DEF OnStart, TypedAnswers

LEMMA SetChildrenTyped ==
    ASSUME NEW O, TypedOutcomes(O), NEW a \in Places
    PROVE  {SetChild(o.s, a, o.a) : o \in O} \subseteq Typed
<1>1. ASSUME NEW o \in O PROVE SetChild(o.s, a, o.a) \in Typed
  BY FieldPutTyped DEF TypedOutcomes
<1> QED BY <1>1

\* The child is called, then what it answers is applied to it.
LEMMA AppliedTyped ==
    ASSUME NEW f, TypedCalls(f), NEW Q, TypedOutcomes(Q), NEW c \in Pointer, NEW a \in Places
    PROVE  UNION {{SetChild(o.s, a, o.a) : o \in Apply(f, q.s, c, q.r)} : q \in Q} \subseteq Typed
<1>1. ASSUME NEW q \in Q
      PROVE  {SetChild(o.s, a, o.a) : o \in Apply(f, q.s, c, q.r)} \subseteq Typed
  <2>1. TypedOutcomes(Apply(f, q.s, c, q.r))
    BY DEF TypedOutcomes, TypedCalls
  <2> QED BY <2>1, SetChildrenTyped
<1> QED BY <1>1

\* And then the action answers itself.
LEMMA AskedTyped ==
    ASSUME NEW I, I \subseteq Typed, NEW a \in Places, NEW types
    PROVE  TypedOutcomes(UNION {{Outcome(o.s, a, o.r) : o \in Answers(t, a, types)} : t \in I})
<1>1. ASSUME NEW t \in I, NEW o \in Answers(t, a, types)
      PROVE  TypedOutcomes({Outcome(o.s, a, o.r)})
  BY AnswersTyped, OutcomeTyped, PlacesFacts
<1> QED BY <1>1 DEF TypedOutcomes

LEMMA DoSuspendTyped ==
    ASSUME NEW f, TypedCalls(f), NEW s \in Typed, NEW a \in Places
    PROVE  TypedOutcomes(DoSuspend(f, s, a))
<1> DEFINE c == s.act[a].child
           inner == IF c = Null THEN {s} ELSE {SetChild(o.s, a, o.a) : o \in OnSuspend(f, s, c)}
           asked == UNION {Answers([t EXCEPT !.act[a].suspended = TRUE], a, {"CONTINUE", "DONE"}) :
                           t \in inner}
<1>1. c \in Pointer
  BY PointersTyped
<1> HIDE DEF c
<1>2. inner \subseteq Typed
  <2>1. TypedOutcomes(OnSuspend(f, s, c))
    BY <1>1, ResultsAnswered DEF TypedCalls
  <2> QED BY <2>1, SetChildrenTyped
<1> HIDE DEF inner
<1>3. \A t \in inner : [t EXCEPT !.act[a].suspended = TRUE] \in Typed
  BY <1>2, FieldPutTyped, PlacesFacts
<1>4. TypedAnswers(asked)
  <2>1. ASSUME NEW t \in inner,
               NEW o \in Answers([t EXCEPT !.act[a].suspended = TRUE], a, {"CONTINUE", "DONE"})
        PROVE  o.s \in Typed /\ o.r \in Answered
    BY <1>3, AnswersTyped
  <2> QED BY <2>1 DEF TypedAnswers
<1> HIDE DEF asked
<1>5. ASSUME NEW o \in asked
      PROVE  TypedOutcomes({IF o.r = Done
               THEN Outcome(Destroy(End(o.s, a), a), o.s.act[a].under, Continue)
               ELSE Outcome(o.s, a, Continue)})
  <2>1. o.s \in Typed
    BY <1>4 DEF TypedAnswers
  <2>2. Destroy(End(o.s, a), a) \in Typed /\ o.s.act[a].under \in Pointer /\ a \in Pointer
    BY <2>1, EndTyped, DestroyTyped, PointersTyped, PlacesFacts
  <2> QED BY <2>1, <2>2, OutcomeTyped, ResultsAnswered
<1>6. TypedOutcomes({IF o.r = Done THEN Outcome(Destroy(End(o.s, a), a), o.s.act[a].under, Continue)
                       ELSE Outcome(o.s, a, Continue) : o \in asked})
  BY <1>5 DEF TypedOutcomes
<1> QED BY <1>6 DEF DoSuspend, asked, inner, c

LEMMA DoResumeTyped ==
    ASSUME NEW f, TypedCalls(f), NEW s \in Typed, NEW a \in Places
    PROVE  TypedOutcomes(DoResume(f, s, a))
<1> DEFINE p == s.act[a].parent
           s0 == [s EXCEPT !.act[a].suspended = FALSE]
           s9 == [s0 EXCEPT !.act[a].over = Null]
           s1 == [s EXCEPT !.act[a].suspended = FALSE, !.act[a].over = Null]
           s2 == IF p = Null THEN s1 ELSE SetChild(s1, p, a)
           c == s2.act[a].child
           inner == IF c = Null THEN {s2}
                    ELSE UNION {{SetChild(o.s, a, o.a) : o \in Apply(f, q.s, c, q.r)} :
                                q \in OnResume(f, s2, c)}
           types == Changes \cup {"CONTINUE"}
<1>1. p \in Pointer /\ a \in Pointer
  BY PointersTyped, PlacesFacts
<1> HIDE DEF p
<1>2. s1 \in Typed
  <2>1. s1 = s9
    OBVIOUS
  <2>2. s0 \in Typed
    BY FieldPutTyped, PlacesFacts
  <2> HIDE DEF s0, s1
  <2>3. s9 \in Typed
    BY <2>2, FieldPutTyped, PlacesFacts
  <2> QED BY <2>1, <2>3
<1> HIDE DEF s1
<1>3. s2 \in Typed
  BY <1>1, <1>2, PlacesFacts, FieldPutTyped
<1> HIDE DEF s2
<1>4. c \in Pointer
  BY <1>3, PointersTyped
<1> HIDE DEF c
<1>5. TypedOutcomes(OnResume(f, s2, c))
  BY <1>3, <1>4, ResultsAnswered DEF TypedCalls
<1>6. inner \subseteq Typed
  BY <1>3, <1>4, <1>5, AppliedTyped
<1> HIDE DEF inner, types
<1>7. TypedOutcomes(UNION {{Outcome(o.s, a, o.r) : o \in Answers(t, a, types)} : t \in inner})
  BY <1>6, AskedTyped
<1>8. TypedOutcomes({Outcome(s, a, Continue)})
  BY <1>1, OutcomeTyped, ResultsAnswered
<1> QED BY <1>7, <1>8 DEF DoResume, inner, c, s2, s1, p, types

LEMMA DoUpdateTyped ==
    ASSUME NEW f, TypedCalls(f), NEW s \in Typed, NEW a \in Places
    PROVE  TypedOutcomes(DoUpdate(f, s, a))
<1> DEFINE c == s.act[a].child
           inner == IF c = Null THEN {s}
                    ELSE UNION {{SetChild(o.s, a, o.a) : o \in Apply(f, q.s, c, q.r)} :
                                q \in OnUpdate(f, s, c)}
           types == Changes \cup {"CONTINUE"}
<1>1. c \in Pointer /\ a \in Pointer
  BY PointersTyped, PlacesFacts
<1> HIDE DEF c
<1>2. TypedOutcomes(OnUpdate(f, s, c))
  BY <1>1, ResultsAnswered DEF TypedCalls
<1>3. inner \subseteq Typed
  BY <1>1, <1>2, AppliedTyped
<1> HIDE DEF inner, types
<1>4. TypedOutcomes(UNION {{Outcome(o.s, a, o.r) : o \in Answers(t, a, types)} : t \in inner})
  BY <1>3, AskedTyped
<1>5. TypedOutcomes({Outcome(s, a, Done)}) /\ TypedOutcomes({Outcome(s, a, Result("CHANGE_TO", a))})
  BY <1>1, OutcomeTyped, ResultsAnswered
<1>6. TypedOutcomes({Honour(s, a, b) : b \in Pending(s, a)})
  <2>1. ASSUME NEW b \in Pending(s, a)
        PROVE  TypedOutcomes({Honour(s, a, b)})
    <3>1. b \in Places
      BY StackTyped DEF Pending, Asking, Under
    <3>2. s.act[b] \in Actions
      BY <3>1, RecordTyped
    <3>3. Result(s.act[b].want, s.act[b].goal) \in Answered
      BY <3>2 DEF Actions, Action, Answered, Results, Result
    <3>4. ClearEvent(s, b) \in Typed
      BY <3>1, WishPutTyped
    <3> QED BY <1>1, <3>3, <3>4, OutcomeTyped DEF Honour
  <2> QED BY <2>1 DEF TypedOutcomes
<1> QED BY <1>4, <1>5, <1>6 DEF DoUpdate, inner, c, types

LEMMA ChangeToTyped ==
    ASSUME NEW f, TypedCalls(f), NEW s \in Typed, NEW a \in Places, NEW n \in Places
    PROVE  TypedOutcomes(ChangeTo(f, s, a, n))
<1>1. End(s, a) \in Typed /\ s.act[a].under \in Pointer /\ a \in Pointer /\ n \in Pointer
  BY EndTyped, PointersTyped, PlacesFacts
<1>2. TypedAnswers(OnStart(f, End(s, a), n, a, s.act[a].under))
  BY <1>1, OnStartTyped
<1>3. ASSUME NEW o \in OnStart(f, End(s, a), n, a, s.act[a].under)
      PROVE  TypedOutcomes(Apply(f, IF a # n THEN Destroy(o.s, a) ELSE o.s, n, o.r))
  <2>1. o.s \in Typed /\ o.r \in Answered
    BY <1>2 DEF TypedAnswers
  <2>2. Destroy(o.s, a) \in Typed
    BY <2>1, DestroyTyped
  <2> QED BY <1>1, <2>1, <2>2 DEF TypedCalls
<1> QED BY <1>3 DEF ChangeTo, TypedOutcomes

LEMMA SuspendForTyped ==
    ASSUME NEW f, TypedCalls(f), NEW s \in Typed, NEW a \in Places, NEW n \in Places
    PROVE  TypedOutcomes(SuspendFor(f, s, a, n))
<1>1. Topmost(s, a) \subseteq Pointer /\ n \in Pointer
  BY PlacesFacts DEF Topmost, Reach
<1>2. ASSUME NEW b \in Topmost(s, a), NEW o \in OnSuspend(f, s, b),
             NEW q \in OnStart(f, o.s, n, o.a, o.a)
      PROVE  TypedOutcomes(Apply(f, q.s, n, q.r))
  <2>1. TypedOutcomes(OnSuspend(f, s, b))
    BY <1>1, ResultsAnswered DEF TypedCalls
  <2>2. o.s \in Typed /\ o.a \in Pointer
    BY <2>1 DEF TypedOutcomes
  <2>3. TypedAnswers(OnStart(f, o.s, n, o.a, o.a))
    BY <2>2, OnStartTyped
  <2>4. q.s \in Typed /\ q.r \in Answered
    BY <2>3 DEF TypedAnswers
  <2> QED BY <1>1, <2>4 DEF TypedCalls
<1> QED BY <1>2 DEF SuspendFor, TypedOutcomes

LEMMA ResumeUnderTyped ==
    ASSUME NEW f, TypedCalls(f), NEW s \in Typed, NEW a \in Places
    PROVE  TypedOutcomes(ResumeUnder(f, s, a))
<1> DEFINE b == s.act[a].under
<1>1. b \in Pointer /\ End(s, a) \in Typed /\ Null \in Pointer
  BY PointersTyped, EndTyped, PlacesFacts
<1> HIDE DEF b
<1>2. TypedOutcomes({Outcome(Destroy(End(s, a), a), Null, Continue)})
  BY <1>1, DestroyTyped, OutcomeTyped, ResultsAnswered
<1>3. TypedOutcomes(OnResume(f, End(s, a), b))
  BY <1>1, ResultsAnswered DEF TypedCalls
<1>4. ASSUME NEW o \in OnResume(f, End(s, a), b)
      PROVE  TypedOutcomes(Apply(f, Destroy(o.s, a), b, o.r))
  <2>1. o.s \in Typed /\ o.r \in Answered
    BY <1>3 DEF TypedOutcomes
  <2>2. Destroy(o.s, a) \in Typed
    BY <2>1, DestroyTyped
  <2> QED BY <1>1, <2>1, <2>2 DEF TypedCalls
<1>5. TypedOutcomes(UNION {Apply(f, Destroy(o.s, a), b, o.r) : o \in OnResume(f, End(s, a), b)})
  BY <1>4 DEF TypedOutcomes
<1> QED BY <1>2, <1>5 DEF ResumeUnder, b

LEMMA DoApplyTyped ==
    ASSUME NEW f, TypedCalls(f), NEW s \in Typed, NEW a \in Places, NEW r \in Answered
    PROVE  TypedOutcomes(DoApply(f, s, a, r))
<1>1. r.type \in {"CHANGE_TO", "SUSPEND_FOR", "DONE", "CONTINUE"}
  BY DEF Answered, Results, Changes
<1>2. r.type \in {"CHANGE_TO", "SUSPEND_FOR"} => r.goal \in Places
  BY PlacesFacts DEF Answered, Results
<1>3. TypedOutcomes({Outcome(s, a, Continue)})
  BY OutcomeTyped, ResultsAnswered, PlacesFacts
<1> QED BY <1>1, <1>2, <1>3, ChangeToTyped, SuspendForTyped, ResumeUnderTyped DEF DoApply

LEMMA RunsTyped == \A n \in Nat : TypedCalls(Runs[n])
<1> DEFINE S == {n \in Nat : TypedCalls(Runs[n])}
<1>0. \A what \in {"apply", "suspend", "resume", "update"}, s \in Typed, a \in Pointer,
         r \in Answered : [what |-> what, s |-> s, a |-> a, r |-> r] \in Calls
  BY DEF Calls, Typed, Answered
<1>1. 0 \in S
  <2>1. \A c \in Calls : Runs[0][c] = {}
    BY RunsUnfold DEF NoCall
  <2> QED BY <1>0, <2>1, ResultsAnswered
          DEF TypedCalls, TypedOutcomes, Apply, OnSuspend, OnResume, OnUpdate
<1>2. ASSUME NEW n \in Nat, n \in S PROVE n + 1 \in S
  <2> DEFINE f == Runs[n]
             g == Runs[n + 1]
  <2>1. TypedCalls(f)
    BY <1>2
  <2>2. g = CallStep(f)
    BY RunsUnfold
  <2> HIDE DEF f, g
  <2>3. ASSUME NEW s \in Typed, NEW a \in Pointer, NEW r \in Answered
        PROVE  /\ TypedOutcomes(Apply(g, s, a, r)) /\ TypedOutcomes(OnSuspend(g, s, a))
               /\ TypedOutcomes(OnResume(g, s, a)) /\ TypedOutcomes(OnUpdate(g, s, a))
    <3>0. Continue \in Answered
      BY ResultsAnswered
    <3>1. Apply(g, s, a, r) = IF a = Null THEN {} ELSE DoApply(f, s, a, r)
      BY <1>0, <2>2 DEF Apply, CallStep, Call
    <3>2. OnSuspend(g, s, a) = IF a = Null THEN {} ELSE DoSuspend(f, s, a)
      BY <1>0, <2>2, <3>0 DEF OnSuspend, CallStep, Call
    <3>3. OnResume(g, s, a) = IF a = Null THEN {} ELSE DoResume(f, s, a)
      BY <1>0, <2>2, <3>0 DEF OnResume, CallStep, Call
    <3>4. OnUpdate(g, s, a) = IF a = Null THEN {} ELSE DoUpdate(f, s, a)
      BY <1>0, <2>2, <3>0 DEF OnUpdate, CallStep, Call
    <3>5. TypedOutcomes({})
      BY DEF TypedOutcomes
    <3>6. a # Null => /\ TypedOutcomes(DoApply(f, s, a, r)) /\ TypedOutcomes(DoSuspend(f, s, a))
                      /\ TypedOutcomes(DoResume(f, s, a)) /\ TypedOutcomes(DoUpdate(f, s, a))
      BY <2>1, PlacesFacts, DoApplyTyped, DoSuspendTyped, DoResumeTyped, DoUpdateTyped
    <3> QED BY <3>1, <3>2, <3>3, <3>4, <3>5, <3>6
  <2>4. TypedCalls(g)
    BY <2>3 DEF TypedCalls
  <2> QED BY <2>4 DEF g
<1>3. S \in SUBSET Nat
  OBVIOUS
<1> HIDE DEF S
<1>4. S = Nat
  BY <1>1, <1>2, <1>3, NatAll
<1> QED BY <1>4 DEF S
-----------------------------------------------------------------------------
(* The memory left behind, its actions numbered.                           *)

LEMMA PlacesFinite == IsFiniteSet(Places) /\ Cardinality(Places) = MaxActions
BY FS_Interval, ActionsAssumption DEF Places

\* The rank of an action.
LEMMA RanksFacts ==
    ASSUME NEW s \in Typed, NEW a \in Pointer
    PROVE  /\ IsFiniteSet(Ranks(s, a)) /\ Cardinality(Ranks(s, a)) <= MaxActions
           /\ \A q \in Ranks(s, a) : q = <<q[1], q[2]>> /\ q[1] \in Nat /\ q[2] \in Reached(s, a)
           /\ \A c \in Reached(s, a) : \E q \in Ranks(s, a) : q[2] = c
           /\ \A q, r \in Ranks(s, a) : q[2] = r[2] => q = r
<1> DEFINE reached == Reached(s, a)
           below == UNION {{<<b, c>> : c \in Reached(s, b)} : b \in reached}
           NoLater(b, c) ==
            \/ <<b, c>> \in below
            \/ \E d \in reached : LET r == s.act[d] IN
                 \/ <<r.goal, b>> \in below /\ (<<r.child, c>> \in below \/ <<r.under, c>> \in below)
                 \/ <<r.child, b>> \in below /\ <<r.under, c>> \in below
           Rank(c) == Cardinality({b \in reached : NoLater(b, c)})
           ranks == {<<Rank(c), c>> : c \in reached}
<1>1. reached \in SUBSET Places
  BY OwnFacts
<1>2. IsFiniteSet(reached) /\ Cardinality(reached) <= MaxActions
  BY <1>1, PlacesFinite, FS_Subset
<1> HIDE DEF reached
<1>3. \A c \in reached : Rank(c) \in Nat
  <2> HIDE DEF NoLater
  <2>1. \A c \in reached : IsFiniteSet({b \in reached : NoLater(b, c)})
    BY <1>2, FS_Subset
  <2> QED BY <2>1, FS_CardinalityType
<1>4. Ranks(s, a) = ranks
  BY DEF Ranks, reached
<1> HIDE DEF Rank
<1>5. IsFiniteSet(ranks) /\ Cardinality(ranks) <= Cardinality(reached)
  <2> DEFINE g == [c \in reached |-> <<Rank(c), c>>]
  <2>1. g \in Surjection(reached, ranks)
    BY DEF Surjection
  <2> QED BY <1>2, <2>1, FS_Surjection
<1>6. \A q \in ranks : \E c \in reached : q = <<Rank(c), c>>
  OBVIOUS
<1>7. \A q \in ranks : q = <<q[1], q[2]>> /\ q[1] \in Nat /\ q[2] \in reached
                       /\ q = <<Rank(q[2]), q[2]>>
  BY <1>3, <1>6
<1>8. ASSUME NEW c \in reached PROVE \E q \in ranks : q[2] = c
  <2>1. <<Rank(c), c>> \in ranks
    OBVIOUS
  <2> QED BY <2>1
<1>9. \A q, r \in ranks : q[2] = r[2] => q = r
  BY <1>7
<1>10. Cardinality(ranks) <= MaxActions
  BY <1>2, <1>5, FS_CardinalityType, ActionsAssumption
<1> HIDE DEF ranks
<1> QED BY <1>4, <1>5, <1>7, <1>8, <1>9, <1>10 DEF reached

Before(ranks, q) == {r \in ranks : r[1] < q[1] \/ (r[1] = q[1] /\ r[2] <= q[2])}

\* Every action that is reached has a number of its own.
LEMMA NumbersFacts ==
    ASSUME NEW s \in Typed, NEW a \in Pointer
    PROVE  LET numbers == Numbers(s, a) IN
           /\ \A q \in numbers : q = <<q[1], q[2]>> /\ q[1] \in Reached(s, a) /\ q[2] \in Places
           /\ \A c \in Reached(s, a) : \E i \in Places : <<c, i>> \in numbers
           /\ \A b, c, i : <<b, i>> \in numbers /\ <<c, i>> \in numbers => b = c
           /\ \A c, i, j : <<c, i>> \in numbers /\ <<c, j>> \in numbers => i = j
<1> DEFINE ranks == Ranks(s, a)
           N(q) == Cardinality(Before(ranks, q))
           numbers == {<<q[2], N(q)>> : q \in ranks}
<1>1. Numbers(s, a) = numbers
  BY DEF Numbers, Before
<1>2. /\ IsFiniteSet(ranks) /\ Cardinality(ranks) <= MaxActions
      /\ \A q \in ranks : q = <<q[1], q[2]>> /\ q[1] \in Nat /\ q[2] \in Reached(s, a)
      /\ \A c \in Reached(s, a) : \E q \in ranks : q[2] = c
      /\ \A q, r \in ranks : q[2] = r[2] => q = r
  BY RanksFacts
<1>3. Reached(s, a) \in SUBSET Places
  BY OwnFacts
<1> HIDE DEF ranks
<1>4. ASSUME NEW q \in ranks PROVE N(q) \in Places
  <2>1. Before(ranks, q) \in SUBSET ranks
    BY DEF Before
  <2>2. IsFiniteSet(Before(ranks, q)) /\ Cardinality(Before(ranks, q)) <= Cardinality(ranks)
    BY <1>2, <2>1, FS_Subset
  <2>3. q \in Before(ranks, q)
    BY <1>2, <1>3, PlacesFacts DEF Before
  <2>4. Cardinality(Before(ranks, q)) \in Nat /\ Cardinality(Before(ranks, q)) # 0
    BY <2>2, <2>3, FS_CardinalityType, FS_EmptySet
  <2>5. Cardinality(ranks) \in Nat
    BY <1>2, FS_CardinalityType
  <2> QED BY <1>2, <2>2, <2>4, <2>5, ActionsAssumption DEF Places
<1>5. ASSUME NEW q \in ranks, NEW r \in ranks, N(q) = N(r) PROVE q = r
  <2>1. q[1] \in Nat /\ r[1] \in Nat /\ q[2] \in Nat /\ r[2] \in Nat
    BY <1>2, <1>3, PlacesFacts
  <2>2. \A x \in ranks : x[1] \in Nat /\ x[2] \in Nat
    BY <1>2, <1>3, PlacesFacts
  <2>3. q \in Before(ranks, q) /\ r \in Before(ranks, r)
    BY <2>1 DEF Before
  <2>4. q \in Before(ranks, r) \/ r \in Before(ranks, q)
    BY <2>1 DEF Before
  <2>5. q \in Before(ranks, r) => Before(ranks, q) \subseteq Before(ranks, r)
    BY <2>1, <2>2 DEF Before
  <2>6. r \in Before(ranks, q) => Before(ranks, r) \subseteq Before(ranks, q)
    BY <2>1, <2>2 DEF Before
  <2>7. IsFiniteSet(Before(ranks, q)) /\ IsFiniteSet(Before(ranks, r))
    <3>1. Before(ranks, q) \in SUBSET ranks /\ Before(ranks, r) \in SUBSET ranks
      BY DEF Before
    <3> QED BY <1>2, <3>1, FS_Subset
  <2>8. \A S, T : IsFiniteSet(T) /\ S \subseteq T /\ Cardinality(S) = Cardinality(T) => S = T
    BY FS_Subset
  <2>9. Before(ranks, q) = Before(ranks, r)
    BY <1>5, <2>4, <2>5, <2>6, <2>7, <2>8
  <2>10. q \in Before(ranks, r) /\ r \in Before(ranks, q)
    BY <2>3, <2>9
  <2>11. q[1] = r[1] /\ q[2] = r[2]
    BY <2>1, <2>10 DEF Before
  <2> QED BY <1>2, <2>11
<1> HIDE DEF N
<1>6. \A x \in numbers : \E q \in ranks : x = <<q[2], N(q)>>
  OBVIOUS
<1>7. \A x \in numbers : x = <<x[1], x[2]>> /\ x[1] \in Reached(s, a) /\ x[2] \in Places
  BY <1>2, <1>4, <1>6
<1>8. ASSUME NEW c \in Reached(s, a) PROVE \E i \in Places : <<c, i>> \in numbers
  <2>1. PICK q \in ranks : q[2] = c
    BY <1>2
  <2>2. <<c, N(q)>> \in numbers
    BY <2>1
  <2> QED BY <1>4, <2>2
<1>9. ASSUME NEW b, NEW c, NEW i, <<b, i>> \in numbers, <<c, i>> \in numbers PROVE b = c
  <2>1. PICK q \in ranks : <<b, i>> = <<q[2], N(q)>>
    BY <1>9
  <2>2. PICK r \in ranks : <<c, i>> = <<r[2], N(r)>>
    BY <1>9
  <2>3. b = q[2] /\ c = r[2] /\ N(q) = N(r)
    BY <2>1, <2>2
  <2> QED BY <1>5, <2>3
<1>10. ASSUME NEW c, NEW i, NEW j, <<c, i>> \in numbers, <<c, j>> \in numbers PROVE i = j
  <2>1. PICK q \in ranks : <<c, i>> = <<q[2], N(q)>>
    BY <1>10
  <2>2. PICK r \in ranks : <<c, j>> = <<r[2], N(r)>>
    BY <1>10
  <2>3. i = N(q) /\ j = N(r) /\ q[2] = c /\ r[2] = c
    BY <2>1, <2>2
  <2> QED BY <1>2, <2>3
<1> HIDE DEF numbers
<1> QED BY <1>1, <1>7, <1>8, <1>9, <1>10

\* What the numbers make of a pointer.
LEMMA NumberFacts ==
    ASSUME NEW s \in Typed, NEW a \in Pointer
    PROVE  /\ \A p \in Pointer : Number(Numbers(s, a), p) \in Pointer
           /\ \A p \in Reached(s, a) : /\ Number(Numbers(s, a), p) \in Places
                                       /\ <<p, Number(Numbers(s, a), p)>> \in Numbers(s, a)
           /\ \A p \in Pointer \ Reached(s, a) : Number(Numbers(s, a), p) = Null
<1> DEFINE numbers == Numbers(s, a)
           of(p) == {i \in Places : <<p, i>> \in numbers}
<1>1. /\ \A q \in numbers : q = <<q[1], q[2]>> /\ q[1] \in Reached(s, a) /\ q[2] \in Places
      /\ \A c \in Reached(s, a) : \E i \in Places : <<c, i>> \in numbers
  BY NumbersFacts
<1> HIDE DEF numbers
<1>2. \A p : Number(numbers, p) = IF of(p) = {} THEN Null ELSE CHOOSE i \in of(p) : TRUE
  BY DEF Number
<1>3. \A p \in Reached(s, a) : of(p) # {}
  BY <1>1
<1>4. ASSUME NEW p \in Pointer \ Reached(s, a) PROVE of(p) = {}
  <2>1. ASSUME NEW i \in Places, <<p, i>> \in numbers PROVE FALSE
    <3>1. <<p, i>>[1] \in Reached(s, a)
      BY <1>1, <2>1
    <3> QED BY <3>1
  <2> QED BY <2>1
<1>5. \A p : of(p) # {} => (CHOOSE i \in of(p) : TRUE) \in of(p)
  OBVIOUS
<1>6. ASSUME NEW p \in Reached(s, a)
      PROVE  Number(numbers, p) \in Places /\ <<p, Number(numbers, p)>> \in numbers
  <2>1. Number(numbers, p) \in of(p)
    BY <1>2, <1>3, <1>5
  <2> QED BY <2>1
<1>7. \A p \in Pointer \ Reached(s, a) : Number(numbers, p) = Null
  BY <1>2, <1>4
<1>8. \A p \in Pointer : Number(numbers, p) \in Pointer
  BY <1>6, <1>7, PlacesFacts
<1> QED BY <1>6, <1>7, <1>8 DEF numbers

\* The action that goes to a place, its pointers numbered.
Renumbered(r, numbers) ==
    [r EXCEPT !.under = Number(numbers, @), !.over = Number(numbers, @),
              !.parent = Number(numbers, @), !.child = Number(numbers, @),
              !.goal = Number(numbers, @)]

LEMMA RenumberedFacts ==
    ASSUME NEW s \in Typed, NEW a \in Pointer, NEW b \in Reached(s, a)
    PROVE  LET n == Numbers(s, a)
               q == Renumbered(s.act[b], n) IN
           /\ q \in Actions
           /\ q.state = s.act[b].state /\ q.suspended = s.act[b].suspended
           /\ q.under = Number(n, s.act[b].under) /\ q.over = Number(n, s.act[b].over)
           /\ q.parent = Number(n, s.act[b].parent) /\ q.child = Number(n, s.act[b].child)
           /\ q.goal = Number(n, s.act[b].goal)
<1> DEFINE n == Numbers(s, a)
           r == s.act[b]
           q == Renumbered(r, n)
<1>1. b \in Places
  BY OwnFacts
<1>2. /\ r.under \in Pointer /\ r.over \in Pointer /\ r.parent \in Pointer
      /\ r.child \in Pointer /\ r.goal \in Pointer
  BY <1>1, PointersTyped
<1>3. /\ Number(n, r.under) \in Pointer /\ Number(n, r.over) \in Pointer
      /\ Number(n, r.parent) \in Pointer /\ Number(n, r.child) \in Pointer
      /\ Number(n, r.goal) \in Pointer
  BY <1>2, NumberFacts
<1>4. r.goal = Null <=> Number(n, r.goal) = Null
  <2>1. r.goal # Null => r.goal \in Reached(s, a)
    BY <1>1, OwnFacts DEF Closed, Owned
  <2>2. Null \notin Reached(s, a)
    BY OwnFacts, PlacesFacts
  <2>3. \A x \in Reached(s, a) : Number(n, x) # Null
    <3>1. \A x \in Reached(s, a) : Number(n, x) \in Places
      BY NumberFacts
    <3> QED BY <3>1, PlacesFacts
  <2>4. Number(n, Null) = Null
    BY <2>2, NumberFacts, PlacesFacts
  <2> HIDE DEF n
  <2> QED BY <2>1, <2>2, <2>3, <2>4
<1>5. r \in Actions
  BY <1>1, RecordTyped
<1> HIDE DEF n, r
<1>6. /\ q \in Action /\ q.want = r.want /\ q.priority = r.priority
      /\ q.state = r.state /\ q.suspended = r.suspended
      /\ q.under = Number(n, r.under) /\ q.over = Number(n, r.over)
      /\ q.parent = Number(n, r.parent) /\ q.child = Number(n, r.child)
      /\ q.goal = Number(n, r.goal)
  BY <1>3, <1>5 DEF Actions, Action, Renumbered
<1> HIDE DEF q
<1>7. q \in Actions
  BY <1>4, <1>5, <1>6 DEF Actions
<1> QED BY <1>6, <1>7 DEF q, n, r

LEMMA PackedFacts ==
    ASSUME NEW s \in Typed, NEW a \in Pointer
    PROVE  LET n == Numbers(s, a) IN
           /\ Packed(s, n) \in [Places -> Actions]
           /\ \A b \in Reached(s, a) : Packed(s, n)[Number(n, b)] = Renumbered(s.act[b], n)
           /\ \A i \in Places : \/ Packed(s, n)[i] = Blank("free")
                                \/ \E b \in Reached(s, a) : i = Number(n, b)
<1> DEFINE n == Numbers(s, a)
           of(i) == {b \in Places : <<b, i>> \in n}
           P == Packed(s, n)
<1>0. Reached(s, a) \in SUBSET Places
  BY OwnFacts
<1>1. /\ \A q \in n : q = <<q[1], q[2]>> /\ q[1] \in Reached(s, a) /\ q[2] \in Places
      /\ \A b, c, i : <<b, i>> \in n /\ <<c, i>> \in n => b = c
      /\ \A c, i, j : <<c, i>> \in n /\ <<c, j>> \in n => i = j
  BY NumbersFacts
<1>2. \A b \in Reached(s, a) : Renumbered(s.act[b], n) \in Actions
  BY RenumberedFacts
<1>3. \A b \in Reached(s, a) : Number(n, b) \in Places /\ <<b, Number(n, b)>> \in n
  BY NumberFacts
<1> HIDE DEF n
<1>4. \A i, b : <<b, i>> \in n => b \in Reached(s, a) /\ i \in Places
  <2>1. ASSUME NEW i, NEW b, <<b, i>> \in n PROVE b \in Reached(s, a) /\ i \in Places
    <3>1. <<b, i>>[1] \in Reached(s, a) /\ <<b, i>>[2] \in Places
      BY <1>1, <2>1
    <3> QED BY <3>1
  <2> QED BY <2>1
<1>5. P = [i \in Places |-> IF of(i) = {} THEN Blank("free")
                            ELSE Renumbered(s.act[CHOOSE b \in of(i) : TRUE], n)]
  BY DEF Packed, Renumbered
<1>6. \A i : of(i) # {} => (CHOOSE b \in of(i) : TRUE) \in of(i)
  OBVIOUS
<1>7. ASSUME NEW i \in Places, of(i) # {}
      PROVE  LET b == CHOOSE b \in of(i) : TRUE IN b \in Reached(s, a) /\ <<b, i>> \in n
  BY <1>4, <1>6, <1>7
<1> HIDE DEF P
<1>8. P \in [Places -> Actions]
  BY <1>2, <1>5, <1>7, BlankTyped
<1>9. ASSUME NEW b \in Reached(s, a) PROVE P[Number(n, b)] = Renumbered(s.act[b], n)
  <2> DEFINE i == Number(n, b)
  <2>1. i \in Places /\ <<b, i>> \in n /\ b \in of(i)
    BY <1>0, <1>3
  <2>2. (CHOOSE c \in of(i) : TRUE) = b
    BY <1>1, <1>6, <2>1
  <2> QED BY <1>5, <2>1, <2>2
<1>10. ASSUME NEW i \in Places, P[i] # Blank("free")
       PROVE  \E b \in Reached(s, a) : i = Number(n, b)
  <2>1. of(i) # {}
    BY <1>5, <1>10
  <2>2. PICK b \in Reached(s, a) : <<b, i>> \in n
    BY <1>7, <2>1
  <2> QED BY <1>1, <1>3, <2>2
<1> QED BY <1>8, <1>9, <1>10 DEF P, n
-----------------------------------------------------------------------------
\* Between updates.
LEMMA MemoryTyped ==
    ASSUME ActionTypeOK
    PROVE  Memory \in Typed /\ Memory.act = action /\ Memory.top = top
<1>1. \A a \in Places : action[a] \in Actions
  BY DEF ActionTypeOK, Actions
<1>2. action \in [Places -> Actions] /\ action \in [Places -> Action]
  BY <1>1 DEF ActionTypeOK
<1> QED BY <1>2 DEF Memory, Typed, Memories, ActionTypeOK

LEMMA LeftTyped ==
    ASSUME NEW s \in Typed, NEW a \in Pointer, Left(s, a), started' \in BOOLEAN
    PROVE  ActionTypeOK'
<1>1. action' \in [Places -> Actions]
  BY PackedFacts DEF Left
<1>2. top' \in Pointer
  BY NumberFacts DEF Left
<1>3. missed' \in BOOLEAN /\ wild' \in BOOLEAN
  BY DEF Left, Typed, Memories
<1> QED BY <1>1, <1>2, <1>3 DEF ActionTypeOK, Actions

LEMMA FirstActionTyped == FirstAction \in [Places -> Actions]
BY BlankTyped DEF FirstAction

\* ActionTypeOK: every variable holds a value of its type, and a pending result the
\* action it is about.
THEOREM ActionTypeCorrect == ActionSpec => []ActionTypeOK
<1>1. ActionInit => ActionTypeOK
  BY FirstActionTyped, PlacesFacts DEF ActionInit, ActionTypeOK, Actions, Pointer
<1>2. ActionTypeOK /\ [ActionNext]_actionVars => ActionTypeOK'
  <2> SUFFICES ASSUME ActionTypeOK, [ActionNext]_actionVars PROVE ActionTypeOK'
    OBVIOUS
  <2>1. Memory \in Typed /\ top \in Pointer /\ Continue \in Answered
    BY MemoryTyped, ResultsAnswered DEF ActionTypeOK
  <2>2. CASE Update
    <3>1. TypedCalls(Runs[MaxCalls])
      BY RunsTyped, ActionsAssumption
    <3>2. PICK q \in OnUpdate(Runs[MaxCalls], Memory, top) :
          \E o \in Apply(Runs[MaxCalls], q.s, top, q.r) : \E t \in Purged(o.s) : Left(t, o.a)
      BY <2>2 DEF Update
    <3>3. q.s \in Typed /\ q.r \in Answered
      BY <2>1, <3>1, <3>2 DEF TypedCalls, TypedOutcomes
    <3>4. PICK o \in Apply(Runs[MaxCalls], q.s, top, q.r) : \E t \in Purged(o.s) : Left(t, o.a)
      BY <3>2
    <3>5. o.s \in Typed /\ o.a \in Pointer
      BY <2>1, <3>1, <3>3, <3>4 DEF TypedCalls, TypedOutcomes
    <3>6. PICK t \in Purged(o.s) : Left(t, o.a)
      BY <3>4
    <3>7. t \in Typed
      BY <3>5, <3>6, DeleteTyped
    <3>8. started' \in BOOLEAN
      BY <2>2 DEF Update
    <3> QED BY <3>5, <3>6, <3>7, <3>8, LeftTyped
  <2>3. CASE BotEvent
    <3>1. PICK s \in Handled(Memory) : Left(s, top)
      BY <2>3 DEF BotEvent
    <3>2. s \in Typed /\ started' \in BOOLEAN
      BY <2>1, <2>3, <3>1, HandledTyped DEF BotEvent, ActionTypeOK
    <3> QED BY <2>1, <3>1, <3>2, LeftTyped
  <2>4. CASE Reset
    <3>1. action' \in [Places -> Actions] /\ top' \in Pointer
      BY <2>4, FirstActionTyped, PlacesFacts DEF Reset
    <3>2. started' \in BOOLEAN /\ missed' \in BOOLEAN /\ wild' \in BOOLEAN
      BY <2>4 DEF Reset, ActionTypeOK
    <3> QED BY <3>1, <3>2 DEF ActionTypeOK, Actions
  <2>5. CASE UNCHANGED actionVars
    BY <2>5 DEF actionVars, ActionTypeOK
  <2> QED BY <2>2, <2>3, <2>4, <2>5 DEF ActionNext
<1> QED BY <1>1, <1>2, PTL DEF ActionSpec
-----------------------------------------------------------------------------
(* A deletion only frees actions, and misses an OnEnd of none but those.   *)

Shrunk(s, t) ==
    /\ \A x \in Places : t.act[x].state \in {s.act[x].state, "free"}
    /\ t.missed => \/ s.missed
                   \/ \E x \in Places : s.act[x].state = "started" /\ t.act[x].state = "free"

Shrinks(f) ==
    \A what \in {"action", "stack", "dead"}, s \in Typed, a \in Pointer :
        \A t \in DeleteBy(f, what, s, a) : t \in Typed /\ Shrunk(s, t)

LEMMA ShrunkTwice ==
    ASSUME NEW s, NEW t, NEW u, Shrunk(s, t), Shrunk(t, u)
    PROVE  Shrunk(s, u)
BY DEF Shrunk

\* The states of the actions stay.
LEMMA StatesKept ==
    ASSUME NEW s \in Typed, NEW a \in Places
    PROVE  /\ \A p \in Pointer : LET t == [s EXCEPT !.act[a].child = p] IN
                t.missed = s.missed /\ \A x \in Places : t.act[x].state = s.act[x].state
           /\ \A p \in Pointer : LET t == [s EXCEPT !.act[a].over = p] IN
                t.missed = s.missed /\ \A x \in Places : t.act[x].state = s.act[x].state
BY DEF Typed, Memories, Actions, Action

LEMMA UncoverLeaveStates ==
    ASSUME NEW s \in Typed, NEW a \in Places
    PROVE  /\ LET t == Uncover(s, a) IN
                t.missed = s.missed /\ \A x \in Places : t.act[x].state = s.act[x].state
           /\ LET t == Leave(s, a) IN
                t.missed = s.missed /\ \A x \in Places : t.act[x].state = s.act[x].state
<1>1. s.act[a].under \in Pointer /\ s.act[a].parent \in Pointer /\ Null \in Pointer
  BY PointersTyped, PlacesFacts
<1>2. LET t == Uncover(s, a) IN
      t.missed = s.missed /\ \A x \in Places : t.act[x].state = s.act[x].state
  <2>1. CASE s.act[a].under = Null
    BY <2>1 DEF Uncover
  <2>2. CASE s.act[a].under # Null
    <3>1. s.act[a].under \in Places
      BY <1>1, <2>2, PlacesFacts
    <3> QED BY <1>1, <2>2, <3>1, StatesKept DEF Uncover
  <2> QED BY <2>1, <2>2
<1>3. LET t == Leave(s, a) IN
      t.missed = s.missed /\ \A x \in Places : t.act[x].state = s.act[x].state
  <2>1. CASE s.act[a].parent # Null /\ s.act[s.act[a].parent].child = a
    <3>1. s.act[a].parent \in Places
      BY <1>1, <2>1, PlacesFacts
    <3> QED BY <1>1, <2>1, <3>1, StatesKept DEF Leave
  <2>2. CASE ~ (s.act[a].parent # Null /\ s.act[s.act[a].parent].child = a)
    BY <2>2 DEF Leave
  <2> QED BY <2>1, <2>2
<1> QED BY <1>2, <1>3

LEMMA DeleteActionShrinks ==
    ASSUME NEW f, Shrinks(f), NEW s \in Typed, NEW a \in Places, NEW t \in DeleteAction(f, s, a)
    PROVE  Shrunk(s, t)
<1> DEFINE s0 == [s EXCEPT !.wild = @ \/ Dangling(s, a),
                           !.missed = @ \/ s.act[a].state = "started"]
           s1 == Leave(s0, a)
           S2 == {Uncover(u, a) : u \in DeleteBy(f, "stack", s1, s1.act[a].child)}
           S3 == UNION {DeleteBy(f, "action", u, u.act[a].over) : u \in S2}
           S4 == UNION {DeleteBy(f, "action", u, u.act[a].goal) : u \in S3}
<1>1. s0 \in Typed /\ s0.act = s.act /\ (s0.missed => s.missed \/ s.act[a].state = "started")
  BY DEF Typed, Memories, Dangling
<1> HIDE DEF s0
<1>2. /\ s1 \in Typed /\ \A x \in Places : s1.act[x].state = s.act[x].state
      /\ s1.missed => s.missed \/ s.act[a].state = "started"
  <2>1. s1 \in Typed
    BY <1>1, UncoverLeaveTyped
  <2>2. s1.missed = s0.missed /\ \A x \in Places : s1.act[x].state = s0.act[x].state
    BY <1>1, UncoverLeaveStates
  <2> QED BY <1>1, <2>1, <2>2
<1> HIDE DEF s1
<1>3. ASSUME NEW u \in S2 PROVE u \in Typed /\ Shrunk(s1, u)
  <2>1. PICK v \in DeleteBy(f, "stack", s1, s1.act[a].child) : u = Uncover(v, a)
    BY <1>3
  <2>2. v \in Typed /\ Shrunk(s1, v)
    BY <1>2, <2>1, PointersTyped DEF Shrinks
  <2>3. u \in Typed /\ u.missed = v.missed /\ \A x \in Places : u.act[x].state = v.act[x].state
    BY <2>1, <2>2, UncoverLeaveTyped, UncoverLeaveStates
  <2> QED BY <2>2, <2>3 DEF Shrunk
<1> HIDE DEF S2
<1>4. ASSUME NEW u \in S3 PROVE u \in Typed /\ Shrunk(s1, u)
  <2>1. PICK v \in S2 : u \in DeleteBy(f, "action", v, v.act[a].over)
    BY <1>4
  <2>2. v \in Typed /\ Shrunk(s1, v)
    BY <1>3, <2>1
  <2>3. u \in Typed /\ Shrunk(v, u)
    BY <2>1, <2>2, PointersTyped DEF Shrinks
  <2> QED BY <2>2, <2>3, ShrunkTwice
<1> HIDE DEF S3
<1>5. ASSUME NEW u \in S4 PROVE u \in Typed /\ Shrunk(s1, u)
  <2>1. PICK v \in S3 : u \in DeleteBy(f, "action", v, v.act[a].goal)
    BY <1>5
  <2>2. v \in Typed /\ Shrunk(s1, v)
    BY <1>4, <2>1
  <2>3. u \in Typed /\ Shrunk(v, u)
    BY <2>1, <2>2, PointersTyped DEF Shrinks
  <2> QED BY <2>2, <2>3, ShrunkTwice
<1> HIDE DEF S4
<1>6. PICK u \in S4 : t = [u EXCEPT !.act[a] = Blank("free")]
  <2>1. t \in {[u EXCEPT !.act[a] = Blank("free")] : u \in S4}
    BY DEF DeleteAction, S4, S3, S2, s1, s0
  <2> QED BY <2>1
<1>7. u \in Typed /\ Shrunk(s1, u)
  BY <1>5, <1>6
<1>8. /\ t.missed = u.missed /\ t.act[a].state = "free"
      /\ \A x \in Places : x # a => t.act[x].state = u.act[x].state
  <2>1. Blank("free").state = "free"
    BY DEF Blank
  <2> QED BY <1>6, <1>7, <2>1 DEF Typed, Memories
<1> QED BY <1>2, <1>7, <1>8 DEF Shrunk

LEMMA DeleteStackShrinks ==
    ASSUME NEW f, Shrinks(f), NEW s \in Typed, NEW a \in Places, NEW t \in DeleteStack(f, s, a)
    PROVE  Shrunk(s, t)
<1>1. PICK u \in DeleteBy(f, "action", s, a) : t \in DeleteBy(f, "stack", u, s.act[a].under)
  BY DEF DeleteStack
<1>2. u \in Typed /\ Shrunk(s, u)
  BY <1>1, PlacesFacts DEF Shrinks
<1>3. Shrunk(u, t)
  BY <1>1, <1>2, PointersTyped DEF Shrinks
<1> QED BY <1>2, <1>3, ShrunkTwice

LEMMA PurgeDeadShrinks ==
    ASSUME NEW f, Shrinks(f), NEW s \in Typed, NEW t \in PurgeDead(f, s)
    PROVE  Shrunk(s, t)
<1>1. CASE s.dead = <<>>
  BY <1>1 DEF PurgeDead, Shrunk
<1>2. CASE s.dead # <<>>
  <2>1. PICK u \in DeleteBy(f, "action", s, Head(s.dead)) :
           t \in DeleteBy(f, "dead", [u EXCEPT !.dead = Tail(s.dead)], Null)
    BY <1>2 DEF PurgeDead
  <2>2. s.dead \in Seq(Places)
    BY DEF Typed, Memories
  <2>3. \A q \in Seq(Places) : q # <<>> => Head(q) \in Places /\ Tail(q) \in Seq(Places)
    OBVIOUS
  <2>4. Head(s.dead) \in Pointer /\ Tail(s.dead) \in Seq(Places)
    BY <1>2, <2>2, <2>3, PlacesFacts
  <2>5. u \in Typed /\ Shrunk(s, u)
    BY <2>1, <2>4 DEF Shrinks
  <2> DEFINE v == [u EXCEPT !.dead = Tail(s.dead)]
  <2>6. v \in Typed /\ v.act = u.act /\ v.missed = u.missed
    BY <2>4, <2>5 DEF Typed, Memories
  <2> HIDE DEF v
  <2>7. Shrunk(v, t)
    BY <2>1, <2>6, PlacesFacts DEF Shrinks, v
  <2> QED BY <2>5, <2>6, <2>7, ShrunkTwice DEF Shrunk
<1> QED BY <1>1, <1>2

LEMMA DeletionsShrink == \A n \in Nat : Shrinks(Deletions[n])
<1> DEFINE S == {n \in Nat : Shrinks(Deletions[n])}
<1>0. \A what \in {"action", "stack", "dead"}, s \in Typed, a \in Pointer :
         [what |-> what, s |-> s, a |-> a] \in Deletion
  BY DEF Deletion, Typed
<1>1. 0 \in S
  BY <1>0, DeletionsUnfold DEF NoDeletion, Shrinks, DeleteBy
<1>2. ASSUME NEW n \in Nat, n \in S PROVE n + 1 \in S
  <2> DEFINE f == Deletions[n]
             g == Deletions[n + 1]
  <2>1. Shrinks(f)
    BY <1>2
  <2>2. g = DeletionStep(f) /\ TypedDeletes(g)
    BY DeletionsUnfold, DeletionsTyped
  <2> HIDE DEF f, g
  <2>3. ASSUME NEW s \in Typed, NEW a \in Pointer,
               NEW what \in {"action", "stack", "dead"}, NEW t \in DeleteBy(g, what, s, a)
        PROVE  Shrunk(s, t)
    <3>1. DeleteBy(g, "dead", s, a) = PurgeDead(f, s)
      BY <1>0, <2>2 DEF DeleteBy, DeletionStep
    <3>2. DeleteBy(g, "stack", s, a) = IF a = Null THEN {s} ELSE DeleteStack(f, s, a)
      BY <1>0, <2>2 DEF DeleteBy, DeletionStep
    <3>3. DeleteBy(g, "action", s, a) = IF a = Null THEN {s} ELSE DeleteAction(f, s, a)
      BY <1>0, <2>2 DEF DeleteBy, DeletionStep
    <3>4. Shrunk(s, s)
      BY DEF Shrunk
    <3>5. CASE what = "dead"
      BY <2>1, <2>3, <3>1, <3>5, PurgeDeadShrinks
    <3>6. CASE what = "stack"
      <4>1. CASE a = Null
        BY <2>3, <3>2, <3>4, <3>6, <4>1
      <4>2. CASE a # Null
        BY <2>1, <2>3, <3>2, <3>6, <4>2, PlacesFacts, DeleteStackShrinks
      <4> QED BY <4>1, <4>2
    <3>7. CASE what = "action"
      <4>1. CASE a = Null
        BY <2>3, <3>3, <3>4, <3>7, <4>1
      <4>2. CASE a # Null
        BY <2>1, <2>3, <3>3, <3>7, <4>2, PlacesFacts, DeleteActionShrinks
      <4> QED BY <4>1, <4>2
    <3> QED BY <3>5, <3>6, <3>7
  <2>4. Shrinks(g)
    BY <2>2, <2>3 DEF Shrinks, TypedDeletes
  <2> QED BY <2>4 DEF g
<1>3. S \in SUBSET Nat
  OBVIOUS
<1> HIDE DEF S
<1>4. S = Nat
  BY <1>1, <1>2, <1>3, NatAll
<1> QED BY <1>4 DEF S
-----------------------------------------------------------------------------
(* What holds of the memory in the middle of an update.  Actions that have *)
(* ended wait to be deleted, in the tree of the action that ended them; own *)
(* says which it is, Null for what has not ended.  The child pointers of   *)
(* the actions of calling, those whose calls are in progress, are stale,   *)
(* and what covers bare is about to be deleted or set.                     *)

Used(s, x) == s.act[x].state \in {"started", "ended"}
Live(s, x) == s.act[x].state = "started"
Root(s, own, x) == s.act[x].state = "ended" /\ own[x] = x

\* Pending results are actions that nothing else points to.
GoalsSound(s) ==
    /\ \A x \in Places : ~ Used(s, x) => s.act[x].goal = Null
    /\ \A x \in Places : s.act[x].state = "made" =>
          s.act[x].under = Null /\ s.act[x].over = Null /\ s.act[x].child = Null
    /\ \A x \in Places : s.act[x].goal # Null =>
          s.act[s.act[x].goal].state = "made" /\ s.act[s.act[x].goal].parent = Null
    /\ \A x, y \in Places : x # y /\ s.act[x].goal # Null => s.act[x].goal # s.act[y].goal

\* y is deleted before the tree of r.
Earlier(s, y, r) == \E i \in DOMAIN s.dead :
    s.dead[i] = y /\ \A j \in DOMAIN s.dead : s.dead[j] = r => i < j

ChildFits(s, own, x, c) == /\ Used(s, c) /\ own[c] = own[x] /\ ~ Root(s, own, c)
                           /\ s.act[c].parent \in {x, Null}
UnderFits(s, own, x, u) == /\ Used(s, u) /\ own[u] = own[x] /\ ~ Root(s, own, u)
                           /\ s.act[u].parent = s.act[x].parent /\ s.act[u].suspended
OverFits(s, own, x, y) == /\ Used(s, y) /\ s.act[y].under = x
                          /\ Root(s, own, y) => Earlier(s, y, own[x])

LinkSound(s, own, calling, bare, x) ==
    /\ own[x] = Null <=> Live(s, x)
    /\ x \notin calling /\ s.act[x].child # Null => ChildFits(s, own, x, s.act[x].child)
    /\ ~ Root(s, own, x) /\ s.act[x].under # Null => UnderFits(s, own, x, s.act[x].under)
    /\ x # bare /\ s.act[x].over # Null => OverFits(s, own, x, s.act[x].over)
LinksSound(s, own, calling, bare) ==
    \A x \in Places : Used(s, x) => LinkSound(s, own, calling, bare, x)

\* No action is a child or covered twice.
OnceSound(s, own, calling) == \A x, y \in Places : Used(s, x) /\ Used(s, y) =>
    /\ x # y /\ x \notin calling /\ y \notin calling /\ s.act[x].child # Null =>
          s.act[x].child # s.act[y].child
    /\ x # y /\ ~ Root(s, own, x) /\ ~ Root(s, own, y) /\ s.act[x].under # Null =>
          s.act[x].under # s.act[y].under
    /\ x \notin calling /\ ~ Root(s, own, y) /\ s.act[x].child # Null =>
          s.act[x].child # s.act[y].under

\* What a dead action was part of is not deleted before it.
AfterDead(s, own, i, q) == Used(s, q) /\ \A j \in DOMAIN s.dead : s.dead[j] = own[q] => i < j
DeadSound(s, own) == \A i \in DOMAIN s.dead :
    /\ Root(s, own, s.dead[i])
    /\ \A j \in DOMAIN s.dead : s.dead[j] = s.dead[i] => i = j
    /\ s.act[s.dead[i]].under # Null => AfterDead(s, own, i, s.act[s.dead[i]].under)
    /\ s.act[s.dead[i]].parent # Null => AfterDead(s, own, i, s.act[s.dead[i]].parent)

\* Only stale pointers lead to the actions of calling.
Away(s, calling) ==
    /\ calling \subseteq Places /\ \A x \in calling : Live(s, x)
    /\ \A x \in Places \ calling : Live(s, x) =>
          s.act[x].under \notin calling /\ s.act[x].child \notin calling

Sound(s, own, calling, bare) ==
    /\ s \in Typed /\ own \in [Places -> Pointer] /\ ~ s.missed /\ ~ s.wild
    /\ GoalsSound(s) /\ LinksSound(s, own, calling, bare)
    /\ OnceSound(s, own, calling) /\ DeadSound(s, own) /\ Away(s, calling)

\* a is on top of the stack of children of p, or of the bot.
OnTop(s, a, p, calling) ==
    /\ a \in Places \ calling /\ Live(s, a)
    /\ \A x \in Places : Live(s, x) => s.act[x].under # a
    /\ \A x \in Places \ calling : Live(s, x) => s.act[x].child # a
    /\ s.act[a].parent \in {p, Null} /\ p \in calling \cup {Null}

\* What a call leaves alone.
EndedKept(s, own, t, own2, x) == s.act[x].state = "ended" =>
    /\ t.act[x].state = "ended" /\ t.act[x].under = s.act[x].under
    /\ t.act[x].parent = s.act[x].parent /\ own2[x] = own[x]
Keeps(s, own, t, own2, calling) ==
    /\ \A x \in Places : EndedKept(s, own, t, own2, x)
    /\ \A i \in DOMAIN t.dead : s.act[t.dead[i]].state = "ended" =>
          \E j \in DOMAIN s.dead : s.dead[j] = t.dead[i]
    /\ \A x \in calling :
          /\ t.act[x].state = s.act[x].state /\ t.act[x].suspended = s.act[x].suspended
          /\ t.act[x].under = s.act[x].under /\ t.act[x].over = s.act[x].over
          /\ t.act[x].parent = s.act[x].parent
-----------------------------------------------------------------------------
LEMMA KeepsTwice ==
    ASSUME NEW s, NEW own, NEW t, NEW own2, NEW u, NEW own3, NEW calling, u \in Typed,
           Keeps(s, own, t, own2, calling), Keeps(t, own2, u, own3, calling)
    PROVE  Keeps(s, own, u, own3, calling)
<1>1. \A i \in DOMAIN u.dead : u.dead[i] \in Places
  BY DEF Typed, Memories
<1> QED BY <1>1 DEF Keeps, EndedKept

LEMMA KeepsFewer ==
    ASSUME NEW s, NEW own, NEW t, NEW own2, NEW calling, NEW few \in SUBSET calling,
           Keeps(s, own, t, own2, calling)
    PROVE  Keeps(s, own, t, own2, few)
BY DEF Keeps

\* A pointer that is not null leads to a place.
LEMMA PointingTyped ==
    ASSUME NEW s \in Typed, NEW x \in Places
    PROVE  /\ s.act[x].under # Null => s.act[x].under \in Places
           /\ s.act[x].over # Null => s.act[x].over \in Places
           /\ s.act[x].parent # Null => s.act[x].parent \in Places
           /\ s.act[x].child # Null => s.act[x].child \in Places
           /\ s.act[x].goal # Null => s.act[x].goal \in Places
BY PointersTyped, PlacesFacts

LEMMA DeadPlaces ==
    ASSUME NEW s \in Typed, NEW i \in DOMAIN s.dead
    PROVE  s.dead[i] \in Places
BY DEF Typed, Memories
-----------------------------------------------------------------------------
(* Pending results, actions not started, stale pointers may be others; an  *)
(* action may lose its cover, be suspended, and if it covers nothing stop  *)
(* to be.                                                                  *)

Alter(s, own, t, calling, x) ==
    /\ t.act[x].state = s.act[x].state /\ t.act[x].under = s.act[x].under
    /\ t.act[x].parent = s.act[x].parent
    /\ x \notin calling => t.act[x].child = s.act[x].child
    /\ t.act[x].over \in {s.act[x].over, Null}
    /\ \/ t.act[x].suspended = s.act[x].suspended \/ t.act[x].suspended
       \/ \A z \in Places : Used(s, z) /\ ~ Root(s, own, z) => s.act[z].under # x
Looser(s, own, t, calling) ==
    /\ t.dead = s.dead
    /\ \A x \in Places : Used(s, x) \/ Used(t, x) => Alter(s, own, t, calling, x)

LEMMA LooserFacts ==
    ASSUME NEW s, NEW t, NEW own, NEW calling, Looser(s, own, t, calling)
    PROVE  /\ \A x \in Places : /\ Used(s, x) <=> Used(t, x)
                                /\ Live(s, x) <=> Live(t, x)
                                /\ Root(s, own, x) <=> Root(t, own, x)
           /\ \A y, r : Earlier(s, y, r) <=> Earlier(t, y, r)
<1>1. \A x \in Places : (Used(s, x) \/ Used(t, x)) => t.act[x].state = s.act[x].state
  BY DEF Looser, Alter
<1> QED BY <1>1 DEF Used, Live, Root, Earlier, Looser

LEMMA LooserLinks ==
    ASSUME NEW s \in Typed, NEW t \in Typed, NEW own, NEW calling, NEW bare,
           Looser(s, own, t, calling), LinksSound(s, own, calling, bare)
    PROVE  LinksSound(t, own, calling, bare)
<1>1. /\ \A x \in Places : /\ Used(s, x) <=> Used(t, x)
                           /\ Live(s, x) <=> Live(t, x)
                           /\ Root(s, own, x) <=> Root(t, own, x)
      /\ \A y, r : Earlier(s, y, r) <=> Earlier(t, y, r)
  BY LooserFacts
<1> SUFFICES ASSUME NEW x \in Places, Used(t, x)
             PROVE  LinkSound(t, own, calling, bare, x)
  BY DEF LinksSound
<1>2. Used(s, x) /\ LinkSound(s, own, calling, bare, x)
  BY <1>1 DEF LinksSound
<1>3. \A z \in Places : Used(s, z) => Alter(s, own, t, calling, z)
  BY DEF Looser
<1>4. Alter(s, own, t, calling, x)
  BY <1>2, <1>3
<1>5. ASSUME x \notin calling, t.act[x].child # Null
      PROVE  ChildFits(t, own, x, t.act[x].child)
  <2> DEFINE c == s.act[x].child
  <2>1. t.act[x].child = c /\ c \in Places /\ ChildFits(s, own, x, c)
    BY <1>2, <1>4, <1>5, PointingTyped DEF LinkSound, Alter
  <2> HIDE DEF c
  <2>2. t.act[c].parent = s.act[c].parent
    BY <1>3, <2>1 DEF ChildFits, Alter
  <2>3. ChildFits(t, own, x, c)
    BY <1>1, <2>1, <2>2 DEF ChildFits
  <2> QED BY <2>1, <2>3
<1>6. ASSUME ~ Root(t, own, x), t.act[x].under # Null
      PROVE  UnderFits(t, own, x, t.act[x].under)
  <2> DEFINE u == s.act[x].under
  <2>1. t.act[x].under = u /\ u \in Places /\ UnderFits(s, own, x, u) /\ ~ Root(s, own, x)
    BY <1>1, <1>2, <1>4, <1>6, PointingTyped DEF LinkSound, Alter
  <2>2. t.act[x].parent = s.act[x].parent
    BY <1>4 DEF Alter
  <2>3. s.act[x].under = u
    OBVIOUS
  <2> HIDE DEF u
  <2>4. t.act[u].parent = s.act[u].parent /\ t.act[u].suspended
    BY <1>2, <1>3, <2>1, <2>3 DEF UnderFits, Alter
  <2>5. UnderFits(t, own, x, u)
    BY <1>1, <2>1, <2>2, <2>4 DEF UnderFits
  <2> QED BY <2>1, <2>5
<1>7. ASSUME x # bare, t.act[x].over # Null
      PROVE  OverFits(t, own, x, t.act[x].over)
  <2> DEFINE y == s.act[x].over
  <2>1. t.act[x].over = y /\ y \in Places /\ OverFits(s, own, x, y)
    BY <1>2, <1>4, <1>7, PointingTyped DEF LinkSound, Alter
  <2> HIDE DEF y
  <2>2. t.act[y].under = s.act[y].under
    BY <1>3, <2>1 DEF OverFits, Alter
  <2>3. OverFits(t, own, x, y)
    BY <1>1, <2>1, <2>2 DEF OverFits
  <2> QED BY <2>1, <2>3
<1>8. own[x] = Null <=> Live(t, x)
  BY <1>1, <1>2 DEF LinkSound
<1> QED BY <1>5, <1>6, <1>7, <1>8 DEF LinkSound

LEMMA LooserSound ==
    ASSUME NEW s, NEW t \in Typed, NEW own, NEW calling, NEW bare,
           Sound(s, own, calling, bare), Looser(s, own, t, calling), GoalsSound(t),
           ~ t.missed, ~ t.wild
    PROVE  /\ Sound(t, own, calling, bare)
           /\ \A a, p : OnTop(s, a, p, calling) => OnTop(t, a, p, calling)
<1>0. s \in Typed
  BY DEF Sound
<1>1. \A x \in Places : /\ Used(s, x) <=> Used(t, x)
                        /\ Live(s, x) <=> Live(t, x)
                        /\ Root(s, own, x) <=> Root(t, own, x)
                        /\ Live(s, x) => Used(s, x)
                        /\ Root(s, own, x) => Used(s, x)
  BY LooserFacts DEF Live, Used, Root
<1>2. \A x \in Places : Used(s, x) => /\ t.act[x].under = s.act[x].under
                                      /\ t.act[x].parent = s.act[x].parent
                                      /\ x \notin calling => t.act[x].child = s.act[x].child
  BY DEF Looser, Alter
<1>3. LinksSound(t, own, calling, bare)
  BY <1>0, LooserLinks DEF Sound
<1>4. OnceSound(t, own, calling)
  <2>1. OnceSound(s, own, calling)
    BY DEF Sound
  <2> QED BY <1>1, <1>2, <2>1 DEF OnceSound
<1>5. DeadSound(t, own)
  <2>1. t.dead = s.dead
    BY DEF Looser
  <2>2. SUFFICES ASSUME NEW i \in DOMAIN s.dead
        PROVE /\ Root(t, own, s.dead[i])
              /\ \A j \in DOMAIN s.dead : s.dead[j] = s.dead[i] => i = j
              /\ t.act[s.dead[i]].under # Null => AfterDead(t, own, i, t.act[s.dead[i]].under)
              /\ t.act[s.dead[i]].parent # Null => AfterDead(t, own, i, t.act[s.dead[i]].parent)
    BY <2>1 DEF DeadSound
  <2> DEFINE r == s.dead[i]
  <2>3. /\ r \in Places /\ Root(s, own, r)
        /\ \A j \in DOMAIN s.dead : s.dead[j] = s.dead[i] => i = j
        /\ s.act[r].under # Null => AfterDead(s, own, i, s.act[r].under)
        /\ s.act[r].parent # Null => AfterDead(s, own, i, s.act[r].parent)
    BY <1>0, DeadPlaces DEF Sound, DeadSound
  <2> HIDE DEF r
  <2>4. Root(t, own, r) /\ t.act[r].under = s.act[r].under /\ t.act[r].parent = s.act[r].parent
    BY <1>1, <1>2, <2>3
  <2>5. \A q \in Places : AfterDead(s, own, i, q) => AfterDead(t, own, i, q)
    BY <1>1, <2>1 DEF AfterDead
  <2>6. /\ s.act[r].under # Null => AfterDead(t, own, i, s.act[r].under)
        /\ s.act[r].parent # Null => AfterDead(t, own, i, s.act[r].parent)
    BY <1>0, <2>3, <2>5, PointingTyped
  <2> QED BY <2>3, <2>4, <2>6 DEF r
<1>6. Away(t, calling)
  <2>1. Away(s, calling)
    BY DEF Sound
  <2> QED BY <1>1, <1>2, <2>1 DEF Away
<1>7. ASSUME NEW a, NEW p, OnTop(s, a, p, calling) PROVE OnTop(t, a, p, calling)
  BY <1>1, <1>2, <1>7 DEF OnTop
<1> QED BY <1>3, <1>4, <1>5, <1>6, <1>7 DEF Sound
-----------------------------------------------------------------------------
(* Steps that change a field of one action.                                *)

Frame(s, t) == /\ t \in Typed /\ t.dead = s.dead /\ t.top = s.top /\ t.quiet = s.quiet
               /\ t.missed = s.missed /\ t.wild = s.wild
FieldsBut(r, q, F) ==
    /\ "state" \notin F => q.state = r.state
    /\ "suspended" \notin F => q.suspended = r.suspended
    /\ "under" \notin F => q.under = r.under
    /\ "over" \notin F => q.over = r.over
    /\ "parent" \notin F => q.parent = r.parent
    /\ "child" \notin F => q.child = r.child
    /\ q.want = r.want /\ q.goal = r.goal /\ q.priority = r.priority
Put(s, t, a, F) == /\ Frame(s, t) /\ \A x \in Places : x # a => t.act[x] = s.act[x]
                   /\ FieldsBut(s.act[a], t.act[a], F)

LEMMA PutPut ==
    ASSUME NEW s \in Typed, NEW a \in Places, NEW q \in Actions, NEW F, FieldsBut(s.act[a], q, F)
    PROVE  LET t == [s EXCEPT !.act[a] = q] IN Put(s, t, a, F) /\ t.act[a] = q
<1> DEFINE t == [s EXCEPT !.act[a] = q]
<1>1. /\ t \in Typed /\ t.act[a] = q /\ \A x \in Places : x # a => t.act[x] = s.act[x]
      /\ t.top = s.top /\ t.dead = s.dead
      /\ t.quiet = s.quiet /\ t.wild = s.wild /\ t.missed = s.missed
  BY SetKept
<1> HIDE DEF t
<1>2. Put(s, t, a, F) /\ t.act[a] = q
  BY <1>1 DEF Put, Frame
<1> QED BY <1>2 DEF t

LEMMA ChildPut ==
    ASSUME NEW s \in Typed, NEW a \in Places, NEW v \in Pointer
    PROVE  LET t == SetChild(s, a, v) IN Put(s, t, a, {"child"}) /\ t.act[a].child = v
<1> DEFINE r == s.act[a]
           q == [r EXCEPT !.child = v]
           t == SetChild(s, a, v)
<1>1. r \in Actions /\ q \in Actions
  BY RecordTyped, FieldsTyped, FlagsTyped
<1>2. FieldsBut(r, q, {"child"}) /\ q.child = v
  <2>1. r \in Action
    BY <1>1 DEF Actions
  <2> HIDE DEF r
  <2> QED BY <2>1 DEF Action, FieldsBut
<1>3. t = [s EXCEPT !.act[a] = q]
  BY DEF SetChild
<1> HIDE DEF q
<1>4. LET u == [s EXCEPT !.act[a] = q] IN Put(s, u, a, {"child"}) /\ u.act[a] = q
  BY <1>1, <1>2, PutPut
<1> HIDE DEF t
<1>5. Put(s, t, a, {"child"}) /\ t.act[a].child = v
  BY <1>2, <1>3, <1>4
<1> QED BY <1>5 DEF t

LEMMA OverPut ==
    ASSUME NEW s \in Typed, NEW a \in Places, NEW v \in Pointer
    PROVE  LET t == [s EXCEPT !.act[a].over = v] IN Put(s, t, a, {"over"}) /\ t.act[a].over = v
<1> DEFINE r == s.act[a]
           q == [r EXCEPT !.over = v]
           t == [s EXCEPT !.act[a].over = v]
<1>1. r \in Actions /\ q \in Actions
  BY RecordTyped, FieldsTyped, FlagsTyped
<1>2. FieldsBut(r, q, {"over"}) /\ q.over = v
  <2>1. r \in Action
    BY <1>1 DEF Actions
  <2> HIDE DEF r
  <2> QED BY <2>1 DEF Action, FieldsBut
<1>3. t = [s EXCEPT !.act[a] = q]
  OBVIOUS
<1> HIDE DEF q
<1>4. LET u == [s EXCEPT !.act[a] = q] IN Put(s, u, a, {"over"}) /\ u.act[a] = q
  BY <1>1, <1>2, PutPut
<1> HIDE DEF t
<1>5. Put(s, t, a, {"over"}) /\ t.act[a].over = v
  BY <1>2, <1>3, <1>4
<1> QED BY <1>5 DEF t

LEMMA SuspendedPut ==
    ASSUME NEW s \in Typed, NEW a \in Places, NEW v \in BOOLEAN
    PROVE  LET t == [s EXCEPT !.act[a].suspended = v] IN Put(s, t, a, {"suspended"}) /\ t.act[a].suspended = v
<1> DEFINE r == s.act[a]
           q == [r EXCEPT !.suspended = v]
           t == [s EXCEPT !.act[a].suspended = v]
<1>1. r \in Actions /\ q \in Actions
  BY RecordTyped, FieldsTyped, FlagsTyped
<1>2. FieldsBut(r, q, {"suspended"}) /\ q.suspended = v
  <2>1. r \in Action
    BY <1>1 DEF Actions
  <2> HIDE DEF r
  <2> QED BY <2>1 DEF Action, FieldsBut
<1>3. t = [s EXCEPT !.act[a] = q]
  OBVIOUS
<1> HIDE DEF q
<1>4. LET u == [s EXCEPT !.act[a] = q] IN Put(s, u, a, {"suspended"}) /\ u.act[a] = q
  BY <1>1, <1>2, PutPut
<1> HIDE DEF t
<1>5. Put(s, t, a, {"suspended"}) /\ t.act[a].suspended = v
  BY <1>2, <1>3, <1>4
<1> QED BY <1>5 DEF t

\* Where one field of a started action changes, pending results are as they were.
LEMMA PutGoals ==
    ASSUME NEW s \in Typed, NEW t, NEW a \in Places, NEW F, Put(s, t, a, F), "state" \notin F,
           Used(s, a), GoalsSound(s)
    PROVE  GoalsSound(t)
<1>1. \A x \in Places : t.act[x].state = s.act[x].state /\ t.act[x].goal = s.act[x].goal
  BY DEF Put, FieldsBut
<1>2. \A x \in Places : s.act[x].state = "made" => t.act[x] = s.act[x]
  BY DEF Put, Used
<1>3. \A x \in Places : s.act[x].goal # Null => s.act[x].goal \in Places
  BY PointingTyped
<1>4. \A x \in Places : (s.act[x].state = "made" /\ s.act[x].parent = Null)
                        => (t.act[x].state = "made" /\ t.act[x].parent = Null)
  BY <1>2
<1>5. \A x \in Places : Used(t, x) <=> Used(s, x)
  BY <1>1 DEF Used
<1>6. \A x \in Places : t.act[x].goal # Null =>
          t.act[t.act[x].goal].state = "made" /\ t.act[t.act[x].goal].parent = Null
  BY <1>1, <1>3, <1>4 DEF GoalsSound
<1> QED BY <1>1, <1>2, <1>5, <1>6 DEF GoalsSound

\* A stale pointer is set: to the new child of an action whose call is in progress.
LEMMA StaleChild ==
    ASSUME NEW s, NEW own, NEW calling, NEW bare, Sound(s, own, calling, bare),
           NEW p \in calling, NEW c \in Pointer
    PROVE  LET t == SetChild(s, p, c) IN
           /\ Sound(t, own, calling, bare) /\ Put(s, t, p, {"child"}) /\ t.act[p].child = c
           /\ \A a, q : OnTop(s, a, q, calling) => OnTop(t, a, q, calling)
           /\ Keeps(s, own, t, own, calling)
<1> DEFINE t == SetChild(s, p, c)
<1>1. s \in Typed /\ p \in Places /\ Live(s, p) /\ calling \subseteq Places
  BY DEF Sound, Away
<1>2. Put(s, t, p, {"child"}) /\ t.act[p].child = c
  BY <1>1, ChildPut
<1> HIDE DEF t
<1>3. Looser(s, own, t, calling)
  <2>1. \A x \in Places : FieldsBut(s.act[x], t.act[x], {"child"}) /\ (x # p => t.act[x] = s.act[x])
    BY <1>2 DEF Put, FieldsBut
  <2>2. \A x \in Places : Alter(s, own, t, calling, x)
    BY <2>1 DEF Alter, FieldsBut
  <2> QED BY <1>2, <2>2 DEF Looser, Put, Frame
<1>4. GoalsSound(t)
  BY <1>1, <1>2, PutGoals DEF Sound, Live, Used
<1>5. t \in Typed /\ t.missed = s.missed /\ t.wild = s.wild
  BY <1>2 DEF Put, Frame
<1>6. /\ Sound(t, own, calling, bare)
      /\ \A a, q : OnTop(s, a, q, calling) => OnTop(t, a, q, calling)
  BY <1>3, <1>4, <1>5, LooserSound DEF Sound
<1>7. Keeps(s, own, t, own, calling)
  <2>1. \A x \in Places : FieldsBut(s.act[x], t.act[x], {"child"})
    BY <1>2 DEF Put, FieldsBut
  <2> QED BY <1>1, <1>2, <2>1 DEF Keeps, EndedKept, Put, Frame, FieldsBut
<1> QED BY <1>2, <1>6, <1>7 DEF t

\* An action is suspended.
LEMMA SuspendedSound ==
    ASSUME NEW s, NEW own, NEW calling, NEW bare, Sound(s, own, calling, bare),
           NEW a \in Places \ calling, Live(s, a)
    PROVE  LET t == [s EXCEPT !.act[a].suspended = TRUE] IN
           /\ Sound(t, own, calling, bare) /\ Put(s, t, a, {"suspended"}) /\ t.act[a].suspended
           /\ \A b, q : OnTop(s, b, q, calling) => OnTop(t, b, q, calling)
           /\ Keeps(s, own, t, own, calling)
<1> DEFINE t == [s EXCEPT !.act[a].suspended = TRUE]
<1>1. s \in Typed /\ a \in Places /\ calling \subseteq Places
  BY DEF Sound, Away
<1>2. Put(s, t, a, {"suspended"}) /\ t.act[a].suspended = TRUE
  BY <1>1, SuspendedPut
<1> HIDE DEF t
<1>3. Looser(s, own, t, calling)
  <2>1. \A x \in Places : FieldsBut(s.act[x], t.act[x], {"suspended"}) /\ (x # a => t.act[x] = s.act[x])
    BY <1>2 DEF Put, FieldsBut
  <2>2. \A x \in Places : Alter(s, own, t, calling, x)
    BY <1>2, <2>1 DEF Alter, FieldsBut
  <2> QED BY <1>2, <2>2 DEF Looser, Put, Frame
<1>4. GoalsSound(t)
  BY <1>1, <1>2, PutGoals DEF Sound, Live, Used
<1>5. t \in Typed /\ t.missed = s.missed /\ t.wild = s.wild
  BY <1>2 DEF Put, Frame
<1>6. /\ Sound(t, own, calling, bare)
      /\ \A b, q : OnTop(s, b, q, calling) => OnTop(t, b, q, calling)
  BY <1>3, <1>4, <1>5, LooserSound DEF Sound
<1>7. Keeps(s, own, t, own, calling)
  <2>1. \A x \in Places : FieldsBut(s.act[x], t.act[x], {"suspended"}) /\ (x # a => t.act[x] = s.act[x])
    BY <1>2 DEF Put, FieldsBut
  <2> QED BY <1>1, <1>2, <2>1 DEF Keeps, EndedKept, Put, Frame, FieldsBut
<1> QED BY <1>2, <1>6, <1>7 DEF t

\* An action on top, of which only its cover was not sound, is resumed.
LEMMA ResumedSound ==
    ASSUME NEW s, NEW own, NEW calling, NEW b, Sound(s, own, calling, b),
           NEW p, OnTop(s, b, p, calling)
    PROVE  LET t == [s EXCEPT !.act[b].suspended = FALSE, !.act[b].over = Null] IN
           /\ Sound(t, own, calling, Null) /\ Put(s, t, b, {"suspended", "over"})
           /\ t.act[b].over = Null /\ OnTop(t, b, p, calling) /\ Keeps(s, own, t, own, calling)
<1> DEFINE u == [s EXCEPT !.act[b].suspended = FALSE]
           t == [u EXCEPT !.act[b].over = Null]
<1>0. [s EXCEPT !.act[b].suspended = FALSE, !.act[b].over = Null] = t
  OBVIOUS
<1>1. s \in Typed /\ b \in Places \ calling /\ calling \subseteq Places /\ Live(s, b)
  BY DEF Sound, Away, OnTop
<1>2. Put(s, u, b, {"suspended"})
  BY <1>1, SuspendedPut
<1> HIDE DEF u
<1>3. Put(u, t, b, {"over"}) /\ t.act[b].over = Null
  <2>1. u \in Typed
    BY <1>2 DEF Put, Frame
  <2> QED BY <1>1, <2>1, OverPut, PlacesFacts
<1> HIDE DEF t
<1>4. Put(s, t, b, {"suspended", "over"})
  BY <1>2, <1>3 DEF Put, Frame, FieldsBut
<1>5. \A z \in Places : Used(s, z) /\ ~ Root(s, own, z) => s.act[z].under # b
  <2> SUFFICES ASSUME NEW z \in Places, Used(s, z), ~ Root(s, own, z), s.act[z].under = b
               PROVE  FALSE
    OBVIOUS
  <2>1. UnderFits(s, own, z, b) /\ (own[z] = Null <=> Live(s, z)) /\ (own[b] = Null <=> Live(s, b))
    BY <1>1, PlacesFacts DEF Sound, LinksSound, LinkSound, Live, Used
  <2>2. Live(s, z)
    BY <1>1, <2>1 DEF UnderFits
  <2> QED BY <2>2 DEF OnTop
<1>6. \A x \in Places : FieldsBut(s.act[x], t.act[x], {"suspended", "over"})
                        /\ (x # b => t.act[x] = s.act[x])
  BY <1>4 DEF Put, FieldsBut
<1>7. Looser(s, own, t, calling)
  <2>1. \A x \in Places : Alter(s, own, t, calling, x)
    BY <1>3, <1>5, <1>6 DEF Alter, FieldsBut
  <2> QED BY <1>4, <2>1 DEF Looser, Put, Frame
<1>8. GoalsSound(t)
  BY <1>1, <1>4, PutGoals DEF Sound, Live, Used
<1>9. t \in Typed /\ t.missed = s.missed /\ t.wild = s.wild
  BY <1>4 DEF Put, Frame
<1>10. Sound(t, own, calling, b) /\ OnTop(t, b, p, calling)
  BY <1>7, <1>8, <1>9, LooserSound DEF Sound
<1>11. LinksSound(t, own, calling, Null)
  BY <1>3, <1>10 DEF Sound, LinksSound, LinkSound
<1>12. Sound(t, own, calling, Null)
  BY <1>10, <1>11 DEF Sound
<1>13. Keeps(s, own, t, own, calling)
  BY <1>1, <1>4, <1>6 DEF Keeps, EndedKept, Put, Frame, FieldsBut
<1> QED BY <1>0, <1>3, <1>4, <1>10, <1>12, <1>13
-----------------------------------------------------------------------------
(* A call of an action calls its child, and returns.                       *)

LEMMA CallingSound ==
    ASSUME NEW s, NEW own, NEW calling, NEW bare, Sound(s, own, calling, bare),
           NEW a, NEW p, OnTop(s, a, p, calling)
    PROVE  Sound(s, own, calling \cup {a}, bare)
<1> DEFINE more == calling \cup {a}
<1>1. a \in Places /\ Live(s, a) /\ Away(s, calling)
  BY DEF Sound, OnTop
<1>2. LinksSound(s, own, more, bare)
  BY DEF Sound, LinksSound, LinkSound
<1>3. OnceSound(s, own, more)
  <2>1. OnceSound(s, own, calling)
    BY DEF Sound
  <2> QED BY <2>1 DEF OnceSound
<1>4. Away(s, more)
  <2>1. more \subseteq Places /\ \A x \in more : Live(s, x)
    BY <1>1 DEF Away
  <2>2. ASSUME NEW x \in Places \ more, Live(s, x)
        PROVE  s.act[x].under \notin more /\ s.act[x].child \notin more
    BY <1>1, <2>2 DEF Away, OnTop
  <2> QED BY <2>1, <2>2 DEF Away
<1> QED BY <1>2, <1>3, <1>4 DEF Sound

\* The child is on top of what it calls, unless it is stale.
LEMMA ChildOnTop ==
    ASSUME NEW s, NEW own, NEW calling, NEW bare, Sound(s, own, calling, bare),
           NEW a, NEW p, OnTop(s, a, p, calling), s.act[a].child # Null
    PROVE  OnTop(s, s.act[a].child, a, calling \cup {a})
<1> DEFINE c == s.act[a].child
           more == calling \cup {a}
<1>1. a \in Places /\ a \notin calling /\ Live(s, a) /\ Used(s, a) /\ s \in Typed
  BY DEF Sound, OnTop, Live, Used
<1>2. LinkSound(s, own, calling, bare, a)
  BY <1>1 DEF Sound, LinksSound
<1>3. c \in Places /\ ChildFits(s, own, a, c) /\ own[a] = Null
  BY <1>1, <1>2, PointingTyped DEF LinkSound
<1>4. c \in Places /\ s.act[a].child = c /\ c # Null
  BY <1>3
<1> HIDE DEF c
<1>5. Used(s, c) /\ Live(s, c) /\ s.act[c].parent \in {a, Null}
  <2>1. own[c] = Null => Live(s, c)
    BY <1>3 DEF Sound, LinksSound, LinkSound, ChildFits
  <2> QED BY <1>3, <2>1 DEF ChildFits
<1>6. c \notin more
  BY <1>1, <1>4 DEF Sound, Away, OnTop
<1>7. \A x \in Places : Live(s, x) => Used(s, x) /\ ~ Root(s, own, x)
  BY DEF Live, Used, Root
<1>8. \A x, y \in Places : (Used(s, x) /\ Used(s, y)) =>
        /\ x # y /\ x \notin calling /\ y \notin calling /\ s.act[x].child # Null =>
              s.act[x].child # s.act[y].child
        /\ x \notin calling /\ ~ Root(s, own, y) /\ s.act[x].child # Null =>
              s.act[x].child # s.act[y].under
  BY DEF Sound, OnceSound
<1>9. \A x \in Places : Live(s, x) => s.act[x].under # c
  BY <1>1, <1>4, <1>7, <1>8
<1>10. \A x \in Places \ more : Live(s, x) => s.act[x].child # c
  BY <1>1, <1>4, <1>7, <1>8
<1> QED BY <1>4, <1>5, <1>6, <1>9, <1>10 DEF OnTop, c

\* After the call the child pointer is set to what is on top of the children then.
LEMMA ReturnSound ==
    ASSUME NEW s, NEW own, NEW calling, Sound(s, own, calling, Null),
           NEW a, NEW p, OnTop(s, a, p, calling),
           NEW t, NEW own2, Sound(t, own2, calling \cup {a}, Null),
           Keeps(s, own, t, own2, calling \cup {a}),
           NEW c \in Pointer, c # Null => OnTop(t, c, a, calling \cup {a})
    PROVE  LET u == SetChild(t, a, c) IN
           /\ Sound(u, own2, calling, Null) /\ OnTop(u, a, p, calling)
           /\ Keeps(s, own, u, own2, calling) /\ u.act[a].over = s.act[a].over
           /\ Put(t, u, a, {"child"})
<1> DEFINE u == SetChild(t, a, c)
           more == calling \cup {a}
<1>0. a \in more /\ a \in Places /\ a \notin calling /\ Live(s, a) /\ s \in Typed
  BY DEF OnTop, Sound
<1>1. /\ Sound(u, own2, more, Null) /\ Put(t, u, a, {"child"}) /\ u.act[a].child = c
      /\ \A b, q : OnTop(t, b, q, more) => OnTop(u, b, q, more)
      /\ Keeps(t, own2, u, own2, more)
  BY <1>0, StaleChild
<1> HIDE DEF u
<1>2. c # Null => OnTop(u, c, a, more)
  BY <1>1 DEF Sound
<1>3. Keeps(s, own, u, own2, more)
  BY <1>1, KeepsTwice DEF Sound
<1>4. Keeps(s, own, u, own2, calling)
  BY <1>3, KeepsFewer
<1>5. /\ Live(u, a) /\ Used(u, a) /\ u.act[a].under = s.act[a].under
      /\ u.act[a].parent = s.act[a].parent /\ u.act[a].over = s.act[a].over
  BY <1>0, <1>3 DEF Keeps, Live, Used
<1>6. s.act[a].under \notin calling /\ s.act[a].under # a
  BY <1>0 DEF Sound, Away, OnTop
<1>7. Away(u, more) /\ calling \subseteq Places /\ own2[a] = Null
  BY <1>0, <1>1, <1>5 DEF Sound, Away, LinksSound, LinkSound
<1>8. c # Null => c \notin more
  BY <1>2 DEF OnTop
<1>9. Null \notin Places
  BY PlacesFacts
<1>10. Away(u, calling)
  BY <1>0, <1>1, <1>5, <1>6, <1>7, <1>8, <1>9 DEF Away
<1>11. OnTop(u, a, p, calling)
  <2>1. ASSUME NEW x \in Places, Live(u, x) PROVE u.act[x].under # a
    <3>1. CASE x \in more
      BY <1>0, <1>3, <2>1, <3>1 DEF Keeps, OnTop, Live
    <3>2. CASE x \notin more
      BY <1>0, <1>7, <2>1, <3>2 DEF Away
    <3> QED BY <3>1, <3>2
  <2>2. ASSUME NEW x \in Places \ calling, Live(u, x) PROVE u.act[x].child # a
    BY <1>0, <1>1, <1>7, <1>8, <1>9, <2>2 DEF Away
  <2> QED BY <1>0, <1>5, <2>1, <2>2 DEF OnTop
<1>12. ASSUME c # Null
       PROVE  /\ c \in Places /\ ChildFits(u, own2, a, c)
              /\ \A x \in Places : (Used(u, x) /\ x \notin more) => u.act[x].child # c
              /\ \A x \in Places : (Used(u, x) /\ ~ Root(u, own2, x)) => u.act[x].under # c
  <2>1. c \in Places /\ Live(u, c) /\ Used(u, c) /\ own2[c] = Null
    BY <1>1, <1>2, <1>12 DEF OnTop, Sound, LinksSound, LinkSound, Live, Used
  <2>2. ChildFits(u, own2, a, c)
    BY <1>2, <1>7, <1>12, <2>1 DEF ChildFits, OnTop, Root, Live
  <2>3. ASSUME NEW x \in Places, Used(u, x), x \notin more, u.act[x].child = c PROVE FALSE
    <3>1. LinkSound(u, own2, more, Null, x)
      BY <1>1, <2>3 DEF Sound, LinksSound
    <3>2. Live(u, x)
      BY <1>12, <2>1, <2>3, <3>1 DEF LinkSound, ChildFits
    <3> QED BY <1>2, <1>12, <2>3, <3>2 DEF OnTop
  <2>4. ASSUME NEW x \in Places, Used(u, x), ~ Root(u, own2, x), u.act[x].under = c PROVE FALSE
    <3>1. LinkSound(u, own2, more, Null, x)
      BY <1>1, <2>4 DEF Sound, LinksSound
    <3>2. Live(u, x)
      BY <1>12, <2>1, <2>4, <3>1 DEF LinkSound, UnderFits
    <3> QED BY <1>2, <1>12, <2>4, <3>2 DEF OnTop
  <2> QED BY <2>1, <2>2, <2>3, <2>4
<1>13. LinksSound(u, own2, calling, Null)
  <2>1. SUFFICES ASSUME NEW x \in Places, Used(u, x) PROVE LinkSound(u, own2, calling, Null, x)
    BY DEF LinksSound
  <2>2. LinkSound(u, own2, more, Null, x)
    BY <1>1, <2>1 DEF Sound, LinksSound
  <2>3. CASE x # a
    BY <2>2, <2>3 DEF LinkSound
  <2>4. CASE x = a
    BY <1>1, <1>12, <2>2, <2>4 DEF LinkSound
  <2> QED BY <2>3, <2>4
<1>14. OnceSound(u, own2, calling)
  <2>1. OnceSound(u, own2, more)
    BY <1>1 DEF Sound
  <2>2. SUFFICES ASSUME NEW x \in Places, NEW y \in Places, Used(u, x), Used(u, y)
        PROVE  /\ x # y /\ x \notin calling /\ y \notin calling /\ u.act[x].child # Null =>
                     u.act[x].child # u.act[y].child
               /\ x # y /\ ~ Root(u, own2, x) /\ ~ Root(u, own2, y) /\ u.act[x].under # Null =>
                     u.act[x].under # u.act[y].under
               /\ x \notin calling /\ ~ Root(u, own2, y) /\ u.act[x].child # Null =>
                     u.act[x].child # u.act[y].under
    BY DEF OnceSound
  <2>3. x # y /\ ~ Root(u, own2, x) /\ ~ Root(u, own2, y) /\ u.act[x].under # Null =>
                     u.act[x].under # u.act[y].under
    BY <2>1, <2>2 DEF OnceSound
  <2>4. ASSUME x # y, x \notin calling, y \notin calling, u.act[x].child # Null
        PROVE  u.act[x].child # u.act[y].child
    <3>1. CASE x = a
      BY <1>1, <1>12, <2>2, <2>4, <3>1
    <3>2. CASE y = a
      BY <1>1, <1>12, <2>2, <2>4, <3>2
    <3>3. CASE x # a /\ y # a
      BY <2>1, <2>2, <2>4, <3>3 DEF OnceSound
    <3> QED BY <3>1, <3>2, <3>3
  <2>5. ASSUME x \notin calling, ~ Root(u, own2, y), u.act[x].child # Null
        PROVE  u.act[x].child # u.act[y].under
    <3>1. CASE x = a
      BY <1>1, <1>12, <2>2, <2>5, <3>1
    <3>2. CASE x # a
      BY <2>1, <2>2, <2>5, <3>2 DEF OnceSound
    <3> QED BY <3>1, <3>2
  <2> QED BY <2>3, <2>4, <2>5
<1>15. Sound(u, own2, calling, Null)
  BY <1>1, <1>10, <1>13, <1>14 DEF Sound
<1> QED BY <1>1, <1>4, <1>5, <1>11, <1>15 DEF u
-----------------------------------------------------------------------------
(* The pointers of actions that have not ended.                            *)

LEMMA LiveLinks ==
    ASSUME NEW s, NEW own, NEW calling, NEW bare, Sound(s, own, calling, bare)
    PROVE  /\ \A x \in Places : Live(s, x) =>
                /\ own[x] = Null /\ Used(s, x) /\ ~ Root(s, own, x)
                /\ s.act[x].under # Null => LET u == s.act[x].under IN
                     /\ u \in Places /\ Live(s, u) /\ s.act[u].suspended
                     /\ s.act[u].parent = s.act[x].parent
                /\ x \notin calling /\ s.act[x].child # Null => LET c == s.act[x].child IN
                     c \in Places /\ Live(s, c) /\ s.act[c].parent \in {x, Null}
           /\ \A x, y \in Places : Live(s, x) /\ Live(s, y) =>
                /\ x # y /\ s.act[x].under # Null => s.act[x].under # s.act[y].under
                /\ x # y /\ x \notin calling /\ y \notin calling /\ s.act[x].child # Null =>
                     s.act[x].child # s.act[y].child
                /\ x \notin calling /\ s.act[x].child # Null => s.act[x].child # s.act[y].under
<1>1. \A x \in Places : Used(s, x) => LinkSound(s, own, calling, bare, x)
  BY DEF Sound, LinksSound
<1>2. \A x \in Places : Live(s, x) => own[x] = Null /\ Used(s, x) /\ ~ Root(s, own, x)
  BY <1>1 DEF LinkSound, Live, Used, Root
<1>3. \A x \in Places : Used(s, x) /\ own[x] = Null => Live(s, x)
  BY <1>1 DEF LinkSound
<1>4. s \in Typed
  BY DEF Sound
<1>5. ASSUME NEW x \in Places, Live(s, x), s.act[x].under # Null
      PROVE  LET u == s.act[x].under IN
                     /\ u \in Places /\ Live(s, u) /\ s.act[u].suspended
                     /\ s.act[u].parent = s.act[x].parent
  <2>1. s.act[x].under \in Places /\ UnderFits(s, own, x, s.act[x].under)
    BY <1>1, <1>2, <1>4, <1>5, PointingTyped DEF LinkSound
  <2> QED BY <1>2, <1>3, <1>5, <2>1 DEF UnderFits
<1>6. ASSUME NEW x \in Places, Live(s, x), x \notin calling, s.act[x].child # Null
      PROVE  LET c == s.act[x].child IN
                     c \in Places /\ Live(s, c) /\ s.act[c].parent \in {x, Null}
  <2>1. s.act[x].child \in Places /\ ChildFits(s, own, x, s.act[x].child)
    BY <1>1, <1>2, <1>4, <1>6, PointingTyped DEF LinkSound
  <2> QED BY <1>2, <1>3, <1>6, <2>1 DEF ChildFits
<1>7. OnceSound(s, own, calling)
  BY DEF Sound
<1>8. \A x, y \in Places : Live(s, x) /\ Live(s, y) =>
                /\ x # y /\ s.act[x].under # Null => s.act[x].under # s.act[y].under
                /\ x # y /\ x \notin calling /\ y \notin calling /\ s.act[x].child # Null =>
                     s.act[x].child # s.act[y].child
                /\ x \notin calling /\ s.act[x].child # Null => s.act[x].child # s.act[y].under
  BY <1>2, <1>7 DEF OnceSound
<1> QED BY <1>2, <1>5, <1>6, <1>8

\* A stack of such actions.
LEMMA StackFrom ==
    ASSUME NEW s \in Typed, NEW c \in Pointer
    PROVE  /\ Stack(s, c) \in SUBSET Places
           /\ c # Null => c \in Stack(s, c)
           /\ \A x \in Stack(s, c) : s.act[x].under # Null => s.act[x].under \in Stack(s, c)
           /\ \A x \in Stack(s, c) : x = c \/ \E y \in Stack(s, c) : x = s.act[y].under
           /\ \A S \in SUBSET Places :
                (c # Null => c \in S) /\ (\A x \in S : s.act[x].under # Null => s.act[x].under \in S)
                => Stack(s, c) \subseteq S
<1> DEFINE link == [b \in Places |-> At(s.act[b].under)]
<1>1. link \in Links /\ \A b \in Places : link[b] = At(s.act[b].under)
  BY PointingTyped DEF Links, At
<1>2. At(c) \in SUBSET Places
  BY PlacesFacts DEF At
<1>3. Stack(s, c) = Reach(link, At(c))
  BY DEF Stack
<1> HIDE DEF link
<1>4. /\ Reach(link, At(c)) \in SUBSET Places /\ At(c) \subseteq Reach(link, At(c))
      /\ Closed(link, Reach(link, At(c)))
  BY <1>1, <1>2, ReachCloses
<1>5. \A x \in Reach(link, At(c)) : x \in At(c) \/ \E y \in Reach(link, At(c)) : x \in link[y]
  BY <1>1, <1>2, ReachOwner
<1>6. ASSUME NEW S \in SUBSET Places, c # Null => c \in S,
             \A x \in S : s.act[x].under # Null => s.act[x].under \in S
      PROVE  Stack(s, c) \subseteq S
  <2>1. At(c) \subseteq S /\ Closed(link, S)
    BY <1>1, <1>6 DEF At, Closed
  <2> QED BY <1>3, <2>1, ReachMinimal
<1>7. ASSUME NEW x \in Stack(s, c), s.act[x].under # Null
      PROVE  s.act[x].under \in Stack(s, c)
  <2>1. x \in Places /\ link[x] \subseteq Stack(s, c)
    BY <1>3, <1>4 DEF Closed
  <2>2. s.act[x].under \in link[x]
    BY <1>1, <1>7, <2>1 DEF At
  <2> QED BY <2>1, <2>2
<1>8. ASSUME NEW x \in Stack(s, c) PROVE x = c \/ \E y \in Stack(s, c) : x = s.act[y].under
  <2>1. CASE x \in At(c)
    BY <2>1 DEF At
  <2>2. CASE x \notin At(c)
    <3>1. PICK y \in Stack(s, c) : x \in link[y]
      BY <1>3, <1>5, <2>2
    <3>2. x \in At(s.act[y].under)
      BY <1>1, <1>3, <1>4, <3>1
    <3> QED BY <3>2 DEF At
  <2> QED BY <2>1, <2>2
<1>9. Stack(s, c) \in SUBSET Places /\ (c # Null => c \in Stack(s, c))
  BY <1>3, <1>4 DEF At
<1> QED BY <1>6, <1>7, <1>8, <1>9

\* What ends with a: what is below it, as far as it has not ended.
EndsWith(s, calling, a, E) ==
    /\ a \in E /\ E \cap calling = {} /\ \A x \in E : Live(s, x)
    /\ \A x \in E : s.act[x].child # Null => Stack(s, s.act[x].child) \subseteq E
    /\ \A x \in E : s.act[x].over # Null /\ Live(s, s.act[x].over) => s.act[x].over \in E
    /\ \A S \in SUBSET Places :
          a \in S /\ (\A x \in S : Live(s, x) => Stack(s, s.act[x].child) \subseteq S) =>
             E \subseteq S
    /\ \A x \in E \ {a} : s.act[x].under # Null => s.act[x].under \in E
    /\ \A x \in E \ {a}, z \in Places : Live(s, z) /\ s.act[z].under = x => z \in E \ {a}
    /\ \A x \in E \ {a}, z \in Places \ calling : Live(s, z) /\ s.act[z].child = x => z \in E
    /\ s.act[a].under \notin E

LEMMA EndingParts ==
    ASSUME NEW s, NEW own, NEW calling, Sound(s, own, calling, Null),
           NEW a, NEW p, OnTop(s, a, p, calling)
    PROVE  \E E \in SUBSET Places : EndsWith(s, calling, a, E)
<1> DEFINE link == [b \in Places |-> IF Live(s, b) THEN Stack(s, s.act[b].child) ELSE {}]
           E == Reach(link, {a})
           W == {x \in Places : Live(s, x) /\ x \notin calling}
<1>0. s \in Typed /\ Null \notin Places
  BY PlacesFacts DEF Sound
<1>1. \A b \in Places : s.act[b].child \in Pointer /\ s.act[b].under \in Pointer
  BY <1>0, PointersTyped
<1>2. link \in Links /\ \A b \in Places : link[b] = IF Live(s, b) THEN Stack(s, s.act[b].child) ELSE {}
  BY <1>0, <1>1, StackFrom DEF Links
<1>3. a \in Places /\ {a} \in SUBSET Places /\ a \in W
  BY DEF OnTop
<1>4. \A x \in W : /\ s.act[x].under # Null => s.act[x].under \in W
                   /\ s.act[x].child # Null => s.act[x].child \in W
  BY LiveLinks DEF Sound, Away
<1>5. W \in SUBSET Places
  OBVIOUS
<1>6. ASSUME NEW x \in W PROVE Stack(s, s.act[x].child) \subseteq W
  <2>1. s.act[x].child \in Pointer /\ (s.act[x].child # Null => s.act[x].child \in W)
    BY <1>1, <1>4
  <2> HIDE DEF W
  <2> QED BY <1>0, <1>4, <1>5, <2>1, StackFrom
<1>7. Closed(link, W)
  BY <1>2, <1>6 DEF Closed
<1> HIDE DEF link
<1>8. /\ E \in SUBSET Places /\ a \in E /\ Closed(link, E) /\ E \subseteq W
  BY <1>2, <1>3, <1>5, <1>7, ReachCloses, ReachMinimal
<1>9. \A x \in E : x = a \/ \E y \in E : x \in link[y]
  BY <1>2, <1>3, ReachOwner
<1>10. ASSUME NEW S \in SUBSET Places, a \in S,
              \A x \in S : Live(s, x) => Stack(s, s.act[x].child) \subseteq S
       PROVE  E \subseteq S
  <2>1. Closed(link, S)
    BY <1>2, <1>10 DEF Closed
  <2> QED BY <1>10, <2>1, ReachMinimal
<1> HIDE DEF E
<1>11. \A x \in E : Live(s, x) /\ x \notin calling /\ x \in Places
  BY <1>8
<1>12. \A x \in E : Stack(s, s.act[x].child) \subseteq E
  BY <1>2, <1>8, <1>11 DEF Closed
<1>13. \A x \in E : x = a \/ \E y \in E : x \in Stack(s, s.act[y].child)
  BY <1>2, <1>9, <1>11
<1>14. \A y \in E : \A x \in Stack(s, s.act[y].child) :
          /\ x = s.act[y].child \/ \E w \in Stack(s, s.act[y].child) : x = s.act[w].under
          /\ s.act[x].under # Null => s.act[x].under \in Stack(s, s.act[y].child)
  BY <1>0, <1>1, <1>11, StackFrom
<1>15. \A y \in E : a \notin Stack(s, s.act[y].child)
  <2> SUFFICES ASSUME NEW y \in E, a \in Stack(s, s.act[y].child) PROVE FALSE
    OBVIOUS
  <2>1. CASE a = s.act[y].child
    BY <1>11, <2>1 DEF OnTop
  <2>2. CASE a # s.act[y].child
    <3>1. PICK w \in Stack(s, s.act[y].child) : a = s.act[w].under
      BY <1>14, <2>2
    <3>2. Live(s, w) /\ w \in Places
      BY <1>11, <1>12
    <3> QED BY <3>1, <3>2 DEF OnTop
  <2> QED BY <2>1, <2>2
<1>16. \A x \in E \ {a} : s.act[x].under # Null => s.act[x].under \in E
  BY <1>12, <1>13, <1>14
<1>17. ASSUME NEW x \in E \ {a}, NEW z \in Places, Live(s, z), s.act[z].under = x
       PROVE  z \in E \ {a}
  <2>1. PICK y \in E : x \in Stack(s, s.act[y].child)
    BY <1>13
  <2>2. x # s.act[y].child
    <3>1. x # Null /\ Live(s, y) /\ y \in Places \ calling
      BY <1>0, <1>11
    <3> QED BY <1>17, <3>1, LiveLinks
  <2>3. PICK w \in Stack(s, s.act[y].child) : x = s.act[w].under
    BY <1>14, <2>1, <2>2
  <2>4. w \in E /\ w # a /\ Live(s, w) /\ w \in Places /\ x # Null
    BY <1>0, <1>11, <1>12, <1>15
  <2>5. w = z
    BY <1>17, <2>3, <2>4, LiveLinks
  <2> QED BY <2>4, <2>5
<1>18. ASSUME NEW x \in E \ {a}, NEW z \in Places \ calling, Live(s, z), s.act[z].child = x
       PROVE  z \in E
  <2>1. PICK y \in E : x \in Stack(s, s.act[y].child)
    BY <1>13
  <2>2. x # Null /\ Live(s, y) /\ y \in Places \ calling
    BY <1>0, <1>11
  <2>3. CASE x = s.act[y].child
    <3>1. y = z
      BY <1>18, <2>2, <2>3, LiveLinks
    <3> QED BY <3>1
  <2>4. CASE x # s.act[y].child
    <3>1. PICK w \in Stack(s, s.act[y].child) : x = s.act[w].under
      BY <1>14, <2>1, <2>4
    <3>2. w \in Places /\ Live(s, w)
      BY <1>11, <1>12
    <3> QED BY <1>18, <2>2, <3>1, <3>2, LiveLinks
  <2> QED BY <2>3, <2>4
<1>19. s.act[a].under \notin E
  <2> SUFFICES ASSUME s.act[a].under \in E PROVE FALSE
    OBVIOUS
  <2>1. s.act[a].under # a
    BY <1>3 DEF OnTop
  <2>2. a \in E \ {a}
    BY <1>3, <1>17, <2>1
  <2> QED BY <2>2
<1>20. ASSUME NEW x \in E, s.act[x].over # Null, Live(s, s.act[x].over)
       PROVE  s.act[x].over \in E
  <2>1. s.act[x].over \in Places /\ s.act[s.act[x].over].under = x
    <3>1. Used(s, x) /\ LinkSound(s, own, calling, Null, x) /\ x # Null
      BY <1>0, <1>11 DEF Sound, LinksSound, Live, Used
    <3> QED BY <1>0, <1>11, <1>20, <3>1, PointingTyped DEF LinkSound, OverFits
  <2>2. x # a
    BY <1>20, <2>1 DEF OnTop
  <2> QED BY <1>17, <1>20, <2>1, <2>2
<1>21. EndsWith(s, calling, a, E)
  BY <1>8, <1>10, <1>11, <1>12, <1>16, <1>17, <1>18, <1>19, <1>20 DEF EndsWith
<1> QED BY <1>8, <1>21
-----------------------------------------------------------------------------
(* InvokeOnEnd: an action ends, with its children.                         *)

EndingLinks(s) == [b \in Places |-> IF s.act[b].state = "started"
                                    THEN Stack(s, s.act[b].child) \cup At(s.act[b].over) ELSE {}]

LEMMA EndingLinksFacts ==
    ASSUME NEW s \in Typed
    PROVE  /\ EndingLinks(s) \in Links
           /\ \A a : Ending(s, a) = {b \in Reach(EndingLinks(s), {a}) : Live(s, b)}
           /\ \A b \in Places : EndingLinks(s)[b] =
                IF Live(s, b) THEN Stack(s, s.act[b].child) \cup At(s.act[b].over) ELSE {}
<1>1. \A b \in Places : Stack(s, s.act[b].child) \in SUBSET Places /\ At(s.act[b].over) \in SUBSET Places
  BY StackTyped, PointingTyped DEF At
<1>2. EndingLinks(s) \in Links
  BY <1>1 DEF EndingLinks, Links
<1> QED BY <1>2 DEF EndingLinks, Ending, Live

LEMMA EndFields ==
    ASSUME NEW s \in Typed, NEW a \in Places, NEW E, Ending(s, a) = E, \A x \in E : Live(s, x)
    PROVE  LET t == End(s, a) IN
           /\ Frame(s, t) /\ \A x \in Places \ E : t.act[x] = s.act[x]
           /\ \A x \in E \cap Places : /\ FieldsBut(s.act[x], t.act[x], {"state"})
                                       /\ t.act[x].state = "ended"
<1> DEFINE act == [b \in Places |-> IF b \in E THEN [s.act[b] EXCEPT !.state = "ended"]
                                    ELSE s.act[b]]
           t == End(s, a)
<1>1. act \in [Places -> Actions]
  BY RecordTyped, FlagsTyped
<1>2. /\ \A x \in Places \ E : act[x] = s.act[x]
      /\ \A x \in E \cap Places : FieldsBut(s.act[x], act[x], {"state"}) /\ act[x].state = "ended"
  <2>1. \A x \in Places : s.act[x] \in Action
    BY RecordTyped DEF Actions
  <2>2. ASSUME NEW x \in E \cap Places
        PROVE  FieldsBut(s.act[x], act[x], {"state"}) /\ act[x].state = "ended"
    <3>1. act[x] = [s.act[x] EXCEPT !.state = "ended"] /\ s.act[x] \in Action
      BY <2>1
    <3> HIDE DEF act
    <3> QED BY <3>1 DEF FieldsBut, Action
  <2> QED BY <2>2
<1>3. t = IF act = s.act THEN s ELSE [s EXCEPT !.act = act]
  BY DEF End
<1> HIDE DEF act
<1>4. Frame(s, t) /\ t.act = act
  <2>1. CASE act = s.act
    BY <1>3, <2>1 DEF Frame
  <2>2. CASE act # s.act
    <3>1. t = SetAct(s, act)
      BY <1>3, <2>2 DEF SetAct
    <3> HIDE DEF t
    <3> DEFINE u == SetAct(s, act)
    <3>2. /\ u \in Typed /\ u.act = act /\ u.top = s.top /\ u.dead = s.dead
          /\ u.quiet = s.quiet /\ u.wild = s.wild /\ u.missed = s.missed
      BY <1>1, SetActKept
    <3> HIDE DEF u
    <3>3. t = u
      BY <3>1 DEF u
    <3> QED BY <3>2, <3>3 DEF Frame
  <2> QED BY <2>1, <2>2
<1> HIDE DEF t
<1>5. /\ Frame(s, t) /\ \A x \in Places \ E : t.act[x] = s.act[x]
      /\ \A x \in E \cap Places : /\ FieldsBut(s.act[x], t.act[x], {"state"})
                                  /\ t.act[x].state = "ended"
  BY <1>2, <1>4
<1> QED BY <1>5 DEF t

\* An action that was not started does not end.
LEMMA EndNot ==
    ASSUME NEW s \in Typed, NEW a \in Places, ~ Live(s, a)
    PROVE  End(s, a) = s
<1> DEFINE link == EndingLinks(s)
<1>1. link \in Links /\ {a} \in SUBSET Places /\ link[a] = {}
  BY EndingLinksFacts
<1> HIDE DEF link
<1>2. Closed(link, {a})
  BY <1>1 DEF Closed
<1>3. Reach(link, {a}) \subseteq {a}
  BY <1>1, <1>2, ReachMinimal
<1>4. Ending(s, a) = {}
  BY <1>3, EndingLinksFacts DEF link
<1>5. s.act = [b \in Places |-> s.act[b]]
  BY DEF Typed
<1>6. s.act = [b \in Places |-> IF b \in Ending(s, a) THEN [s.act[b] EXCEPT !.state = "ended"]
                                ELSE s.act[b]]
  BY <1>4, <1>5
<1> QED BY <1>6 DEF End

LEMMA EndingIs ==
    ASSUME NEW s \in Typed, NEW a \in Places, NEW calling, NEW E \in SUBSET Places,
           EndsWith(s, calling, a, E)
    PROVE  Ending(s, a) = E
<1> DEFINE link == EndingLinks(s)
           R == Reach(link, {a})
           C == E \cup {x \in Places : ~ Live(s, x)}
<1>1. link \in Links /\ {a} \in SUBSET Places
      /\ \A b \in Places : link[b] =
                IF Live(s, b) THEN Stack(s, s.act[b].child) \cup At(s.act[b].over) ELSE {}
  BY EndingLinksFacts
<1>2. \A b \in Places : (s.act[b].over # Null => s.act[b].over \in Places)
                        /\ Stack(s, Null) = {}
  <2>1. Stack(s, Null) \subseteq {}
    <3>1. {} \in SUBSET Places /\ Null \in Pointer
      BY PlacesFacts
    <3>2. \A S \in SUBSET Places : (\A x \in S : s.act[x].under # Null => s.act[x].under \in S)
                                  => Stack(s, Null) \subseteq S
      BY <3>1, StackFrom
    <3> QED BY <3>1, <3>2
  <2> QED BY <2>1, PointingTyped
<1> HIDE DEF link
<1>0. /\ a \in E /\ \A x \in E : Live(s, x)
      /\ \A x \in E : s.act[x].child # Null => Stack(s, s.act[x].child) \subseteq E
      /\ \A x \in E : s.act[x].over # Null /\ Live(s, s.act[x].over) => s.act[x].over \in E
      /\ \A S \in SUBSET Places :
          a \in S /\ (\A x \in S : Live(s, x) => Stack(s, s.act[x].child) \subseteq S) =>
             E \subseteq S
  BY DEF EndsWith
<1>3. Closed(link, C)
  <2>1. ASSUME NEW b \in C, Live(s, b) PROVE link[b] \subseteq C
    <3>1. b \in E /\ b \in Places
      BY <2>1
    <3>2. Stack(s, s.act[b].child) \subseteq E
      BY <1>0, <1>2, <3>1
    <3>3. At(s.act[b].over) \subseteq C
      BY <1>0, <1>2, <3>1 DEF At
    <3> QED BY <1>1, <2>1, <3>1, <3>2, <3>3
  <2> QED BY <1>1, <2>1 DEF Closed
<1>4. R \subseteq C
  BY <1>0, <1>1, <1>3, ReachMinimal
<1>5. R \in SUBSET Places /\ a \in R /\ Closed(link, R)
  BY <1>1, ReachCloses
<1> HIDE DEF R
<1>6. \A x \in R : Live(s, x) => Stack(s, s.act[x].child) \subseteq R
  BY <1>1, <1>5 DEF Closed
<1>7. E \subseteq R
  BY <1>0, <1>5, <1>6
<1>8. Ending(s, a) = {b \in R : Live(s, b)}
  BY EndingLinksFacts DEF R, link
<1> QED BY <1>0, <1>4, <1>7, <1>8
-----------------------------------------------------------------------------
\* What a and what it contains have become.
EndedBy(own, E, a) == [x \in Places |-> IF x \in E THEN a ELSE own[x]]

LEMMA EndSound ==
    ASSUME NEW s, NEW own, NEW calling, Sound(s, own, calling, Null),
           NEW a, NEW p, OnTop(s, a, p, calling)
    PROVE  LET t == End(s, a)
               u == s.act[a].under
           IN  \E own2 :
               /\ Sound(t, own2, calling, u) /\ Frame(s, t) /\ Keeps(s, own, t, own2, calling)
               /\ Root(t, own2, a) /\ \A i \in DOMAIN t.dead : t.dead[i] # a
               /\ t.act[a].under = u /\ t.act[a].parent = s.act[a].parent
               /\ u # Null => /\ OnTop(t, u, p, calling) /\ t.act[u].suspended
                              /\ t.act[u].parent = t.act[a].parent
               /\ u # Null /\ t.act[u].over # Null /\ t.act[u].over # a =>
                     OverFits(t, own2, u, t.act[u].over)
               /\ \A x \in Places : ~ Live(s, x) => t.act[x] = s.act[x]
               /\ \A x \in Places : t.act[x].goal = s.act[x].goal
<1> DEFINE t == End(s, a)
           u == s.act[a].under
<1>0. s \in Typed /\ a \in Places /\ Live(s, a) /\ Null \notin Places /\ a \notin calling
  BY PlacesFacts DEF Sound, OnTop
<1>a. PICK E \in SUBSET Places : EndsWith(s, calling, a, E)
  BY EndingParts
<1>1. /\ a \in E /\ E \cap calling = {} /\ \A x \in E : Live(s, x)
      /\ \A x \in E : s.act[x].child # Null => Stack(s, s.act[x].child) \subseteq E
      /\ \A x \in E \ {a} : s.act[x].under # Null => s.act[x].under \in E
      /\ \A x \in E \ {a}, z \in Places : Live(s, z) /\ s.act[z].under = x => z \in E \ {a}
      /\ \A x \in E \ {a}, z \in Places \ calling : Live(s, z) /\ s.act[z].child = x => z \in E
      /\ s.act[a].under \notin E
  BY <1>a DEF EndsWith
<1>2. Ending(s, a) = E
  BY <1>0, <1>a, EndingIs
<1>3. /\ Frame(s, t) /\ \A x \in Places \ E : t.act[x] = s.act[x]
      /\ \A x \in E : FieldsBut(s.act[x], t.act[x], {"state"}) /\ t.act[x].state = "ended"
  BY <1>0, <1>1, <1>2, EndFields
<1> HIDE DEF t
<1> DEFINE own2 == EndedBy(own, E, a)
<1>4. /\ own2 \in [Places -> Pointer]
      /\ \A x \in Places : own2[x] = IF x \in E THEN a ELSE own[x]
  BY <1>0, PlacesFacts DEF Sound, EndedBy
<1> HIDE DEF own2
<1>5. /\ t \in Typed /\ t.dead = s.dead
      /\ \A x \in Places : FieldsBut(s.act[x], t.act[x], {"state"})
      /\ \A x \in Places : t.act[x].state = IF x \in E THEN "ended" ELSE s.act[x].state
  <2>1. \A x \in Places : FieldsBut(s.act[x], t.act[x], {"state"})
    BY <1>3 DEF FieldsBut
  <2> QED BY <1>3, <2>1 DEF Frame
<1>6. \A x \in Places : /\ Used(t, x) <=> Used(s, x)
                        /\ Live(t, x) <=> Live(s, x) /\ x \notin E
                        /\ Root(t, own2, x) <=> Root(s, own, x) \/ x = a
                        /\ x \in E => Used(s, x) /\ ~ Root(s, own, x)
  <2>1. \A x \in E : Used(s, x) /\ ~ Root(s, own, x) /\ Used(t, x) /\ x \in Places
    BY <1>1, <1>5 DEF Live, Used, Root
  <2> QED BY <1>1, <1>4, <1>5, <2>1 DEF Live, Used, Root
<1>7. \A x \in Places : /\ t.act[x].under = s.act[x].under /\ t.act[x].over = s.act[x].over
                        /\ t.act[x].parent = s.act[x].parent /\ t.act[x].child = s.act[x].child
                        /\ t.act[x].suspended = s.act[x].suspended /\ t.act[x].goal = s.act[x].goal
  BY <1>5 DEF FieldsBut
<1>8. \A x \in Places : Used(s, x) => LinkSound(s, own, calling, Null, x)
  BY DEF Sound, LinksSound
<1>9. \A x \in Places : ~ Live(s, x) /\ Used(s, x) => own[x] # Null /\ x \notin E
  BY <1>1, <1>8 DEF LinkSound
<1>10. \A i \in DOMAIN s.dead : s.dead[i] \in Places /\ s.dead[i] \notin E /\ s.dead[i] # a
  <2>1. \A i \in DOMAIN s.dead : s.dead[i] \in Places /\ Root(s, own, s.dead[i])
    BY <1>0, DeadPlaces DEF Sound, DeadSound
  <2> QED BY <1>1, <2>1 DEF Root, Live
<1>11. GoalsSound(t)
  <2>1. GoalsSound(s)
    BY DEF Sound
  <2>2. \A x \in Places : t.act[x].state = "made" <=> s.act[x].state = "made"
    BY <1>1, <1>5 DEF Live
  <2>3. \A x \in Places : s.act[x].goal # Null => s.act[x].goal \in Places
    BY <1>0, PointingTyped
  <2>4. \A x \in Places : t.act[x].goal # Null =>
          t.act[t.act[x].goal].state = "made" /\ t.act[t.act[x].goal].parent = Null
    BY <1>7, <2>1, <2>2, <2>3 DEF GoalsSound
  <2> QED BY <1>6, <1>7, <2>1, <2>2, <2>4 DEF GoalsSound
<1>12. ASSUME NEW x \in Places, Used(t, x), x \notin calling, t.act[x].child # Null
       PROVE  ChildFits(t, own2, x, t.act[x].child)
  <2> DEFINE c == s.act[x].child
  <2>1. /\ t.act[x].child = c /\ c # Null /\ c \in Places /\ ChildFits(s, own, x, c)
        /\ (x \in E => c \in E) /\ s.act[x].child = c
    <3>1. c \in Pointer /\ c # Null
      BY <1>0, <1>7, <1>12, PointersTyped
    <3>2. c \in Stack(s, c)
      BY <1>0, <3>1, StackFrom
    <3> QED BY <1>0, <1>1, <1>6, <1>7, <1>8, <1>12, <3>1, <3>2, PlacesFacts DEF LinkSound
  <2> HIDE DEF c
  <2>2. t.act[c].parent = s.act[c].parent /\ Used(t, c)
    BY <1>6, <1>7, <2>1 DEF ChildFits
  <2>3. CASE x \in E
    <3>1. Live(s, x)
      BY <1>1, <2>3
    <3>2. c # a
      BY <2>1, <1>12, <3>1 DEF OnTop
    <3> QED BY <1>4, <1>6, <2>1, <2>2, <2>3, <3>2 DEF ChildFits
  <2>4. CASE x \notin E
    <3>1. c \notin E
      <4>1. CASE Live(s, x)
        BY <1>1, <1>12, <2>1, <2>4, <4>1 DEF OnTop
      <4>2. CASE ~ Live(s, x)
        <5>1. own[c] # Null
          BY <1>6, <1>9, <1>12, <2>1, <4>2 DEF ChildFits
        <5> QED BY <1>6, <1>1, <1>8, <2>1, <5>1 DEF LinkSound, Live, Used
      <4> QED BY <4>1, <4>2
    <3>2. c # a
      BY <1>1, <3>1
    <3> QED BY <1>4, <1>6, <2>1, <2>2, <2>4, <3>1, <3>2 DEF ChildFits
  <2> QED BY <2>3, <2>4
<1>13. ASSUME NEW x \in Places, Used(t, x), ~ Root(t, own2, x), t.act[x].under # Null
       PROVE  UnderFits(t, own2, x, t.act[x].under)
  <2> DEFINE v == s.act[x].under
  <2>1. /\ t.act[x].under = v /\ v # Null /\ v \in Places /\ UnderFits(s, own, x, v)
        /\ s.act[x].under = v /\ x # a
    BY <1>0, <1>6, <1>7, <1>8, <1>13, PointingTyped DEF LinkSound
  <2> HIDE DEF v
  <2>2. /\ t.act[v].parent = s.act[v].parent /\ Used(t, v) /\ t.act[v].suspended
        /\ t.act[x].parent = s.act[x].parent
    BY <1>6, <1>7, <2>1 DEF UnderFits
  <2>3. CASE x \in E
    <3>1. v \in E /\ v # a
      BY <1>1, <2>1, <2>3 DEF OnTop
    <3> QED BY <1>4, <1>6, <2>1, <2>2, <2>3, <3>1 DEF UnderFits
  <2>4. CASE x \notin E
    <3>1. v \notin E
      <4>1. CASE Live(s, x)
        BY <1>1, <2>1, <2>4, <4>1 DEF OnTop
      <4>2. CASE ~ Live(s, x)
        <5>1. own[v] # Null
          BY <1>6, <1>9, <1>13, <2>1, <4>2 DEF UnderFits
        <5> QED BY <1>6, <1>1, <1>8, <2>1, <5>1 DEF LinkSound, Live, Used
      <4> QED BY <4>1, <4>2
    <3>2. v # a
      BY <1>1, <3>1
    <3> QED BY <1>4, <1>6, <2>1, <2>2, <2>4, <3>1, <3>2 DEF UnderFits
  <2> QED BY <2>3, <2>4
<1>14. ASSUME NEW x \in Places, Used(t, x), t.act[x].over # Null, t.act[x].over # a
       PROVE  OverFits(t, own2, x, t.act[x].over)
  <2> DEFINE y == s.act[x].over
  <2>1. /\ t.act[x].over = y /\ y # Null /\ y \in Places /\ OverFits(s, own, x, y) /\ y # a
    BY <1>0, <1>6, <1>7, <1>8, <1>14, PointingTyped DEF LinkSound
  <2> HIDE DEF y
  <2>2. t.act[y].under = s.act[y].under /\ Used(t, y)
    BY <1>6, <1>7, <2>1 DEF OverFits
  <2>3. ASSUME Root(t, own2, y) PROVE Earlier(t, y, own2[x])
    <3>1. Earlier(s, y, own[x])
      BY <1>6, <2>1, <2>3 DEF OverFits
    <3>2. CASE x \in E
      BY <1>4, <1>5, <1>10, <3>1, <3>2 DEF Earlier
    <3>3. CASE x \notin E
      BY <1>4, <1>5, <3>1, <3>3 DEF Earlier
    <3> QED BY <3>2, <3>3
  <2>4. OverFits(t, own2, x, y)
    BY <2>1, <2>2, <2>3 DEF OverFits
  <2> QED BY <2>1, <2>4
<1>15. LinksSound(t, own2, calling, u)
  <2> SUFFICES ASSUME NEW x \in Places, Used(t, x) PROVE LinkSound(t, own2, calling, u, x)
    BY DEF LinksSound
  <2>1. own2[x] = Null <=> Live(t, x)
    BY <1>0, <1>1, <1>4, <1>6, <1>8 DEF LinkSound
  <2>2. x # u /\ t.act[x].over # Null => t.act[x].over # a
    BY <1>0, <1>6, <1>7, <1>8 DEF LinkSound, OverFits
  <2> QED BY <1>12, <1>13, <1>14, <2>1, <2>2 DEF LinkSound
<1>16. OnceSound(t, own2, calling)
  <2>1. OnceSound(s, own, calling)
    BY DEF Sound
  <2> QED BY <1>6, <1>7, <2>1 DEF OnceSound
<1>17. DeadSound(t, own2)
  <2>1. SUFFICES ASSUME NEW i \in DOMAIN s.dead
        PROVE /\ Root(t, own2, s.dead[i])
              /\ \A j \in DOMAIN s.dead : s.dead[j] = s.dead[i] => i = j
              /\ t.act[s.dead[i]].under # Null => AfterDead(t, own2, i, t.act[s.dead[i]].under)
              /\ t.act[s.dead[i]].parent # Null => AfterDead(t, own2, i, t.act[s.dead[i]].parent)
    BY <1>5 DEF DeadSound
  <2> DEFINE r == s.dead[i]
  <2>2. /\ r \in Places /\ Root(s, own, r)
        /\ \A j \in DOMAIN s.dead : s.dead[j] = s.dead[i] => i = j
        /\ s.act[r].under # Null => AfterDead(s, own, i, s.act[r].under)
        /\ s.act[r].parent # Null => AfterDead(s, own, i, s.act[r].parent)
    BY <1>10 DEF Sound, DeadSound
  <2> HIDE DEF r
  <2>3. Root(t, own2, r) /\ t.act[r].under = s.act[r].under /\ t.act[r].parent = s.act[r].parent
    BY <1>6, <1>7, <2>2
  <2>4. \A q \in Places : AfterDead(s, own, i, q) => AfterDead(t, own2, i, q)
    BY <1>4, <1>5, <1>6, <1>10 DEF AfterDead
  <2>5. /\ s.act[r].under # Null => AfterDead(t, own2, i, s.act[r].under)
        /\ s.act[r].parent # Null => AfterDead(t, own2, i, s.act[r].parent)
    BY <1>0, <2>2, <2>4, PointingTyped
  <2> QED BY <2>2, <2>3, <2>5 DEF r
<1>18. Away(t, calling)
  <2>1. Away(s, calling)
    BY DEF Sound
  <2> QED BY <1>1, <1>6, <1>7, <2>1 DEF Away
<1>19. Sound(t, own2, calling, u)
  BY <1>3, <1>4, <1>11, <1>15, <1>16, <1>17, <1>18 DEF Sound, Frame
<1>20. Keeps(s, own, t, own2, calling)
  <2>1. \A x \in Places : EndedKept(s, own, t, own2, x)
    BY <1>1, <1>4, <1>5, <1>7 DEF EndedKept, Live
  <2>2. \A x \in calling : x \in Places /\ t.act[x].state = s.act[x].state
    BY <1>1, <1>5 DEF Sound, Away
  <2> QED BY <1>5, <1>7, <2>1, <2>2 DEF Keeps
<1>21. Root(t, own2, a) /\ \A i \in DOMAIN t.dead : t.dead[i] # a
  BY <1>0, <1>5, <1>6, <1>10
<1>22. ASSUME u # Null
       PROVE  /\ OnTop(t, u, p, calling) /\ t.act[u].suspended /\ t.act[u].parent = t.act[a].parent
  <2>1. /\ u \in Places /\ Live(s, u) /\ s.act[u].suspended /\ s.act[u].parent = s.act[a].parent
    BY <1>0, <1>22, LiveLinks
  <2>2. u \notin calling /\ u \notin E
    BY <1>0, <1>1 DEF Sound, Away
  <2>3. \A x \in Places : Live(t, x) => s.act[x].under # u
    BY <1>0, <1>1, <1>6, <1>22, LiveLinks
  <2>4. \A x \in Places \ calling : Live(t, x) => s.act[x].child # u
    BY <1>0, <1>6, <1>22, LiveLinks
  <2> HIDE DEF u
  <2> QED BY <1>0, <1>6, <1>7, <2>1, <2>2, <2>3, <2>4 DEF OnTop
<1>23. ASSUME u # Null, t.act[u].over # Null, t.act[u].over # a
       PROVE  OverFits(t, own2, u, t.act[u].over)
  <2>1. u \in Places /\ Used(t, u)
    <3>1. OnTop(t, u, p, calling)
      BY <1>22, <1>23
    <3> QED BY <3>1 DEF OnTop, Live, Used
  <2> HIDE DEF u
  <2> QED BY <1>14, <1>23, <2>1
<1>24. \A x \in Places : ~ Live(s, x) => t.act[x] = s.act[x]
  BY <1>1, <1>3
<1>25. \E o : /\ Sound(t, o, calling, u) /\ Frame(s, t) /\ Keeps(s, own, t, o, calling)
              /\ Root(t, o, a) /\ \A i \in DOMAIN t.dead : t.dead[i] # a
              /\ t.act[a].under = u /\ t.act[a].parent = s.act[a].parent
              /\ u # Null => /\ OnTop(t, u, p, calling) /\ t.act[u].suspended
                             /\ t.act[u].parent = t.act[a].parent
              /\ u # Null /\ t.act[u].over # Null /\ t.act[u].over # a =>
                     OverFits(t, o, u, t.act[u].over)
              /\ \A x \in Places : ~ Live(s, x) => t.act[x] = s.act[x]
              /\ \A x \in Places : t.act[x].goal = s.act[x].goal
  <2>1. t.act[a].under = u /\ t.act[a].parent = s.act[a].parent
    BY <1>0, <1>7
  <2> HIDE DEF u
  <2> QED BY <1>3, <1>7, <1>19, <1>20, <1>21, <1>22, <1>23, <1>24, <2>1
<1> QED BY <1>25 DEF t
-----------------------------------------------------------------------------
(* DestroyAction, and the links of an action that starts.                  *)

LEMMA DestroyFields ==
    ASSUME NEW s \in Typed, NEW a \in Places
    PROVE  LET t == Destroy(s, a) IN
           /\ t \in Typed /\ t.act = s.act /\ t.top = s.top /\ t.quiet = s.quiet
           /\ t.missed = s.missed /\ t.wild = s.wild
           /\ \E n \in Nat : /\ DOMAIN s.dead = 1..n /\ DOMAIN t.dead = 1..(n + 1)
                             /\ t.dead[n + 1] = a /\ \A i \in 1..n : t.dead[i] = s.dead[i]
<1>1. s.dead \in Seq(Places)
  BY DEF Typed, Memories
<1>2. Destroy(s, a) \in Typed
  BY DestroyTyped
<1>3. LET t == Destroy(s, a) IN
      /\ t.act = s.act /\ t.top = s.top /\ t.quiet = s.quiet
      /\ t.missed = s.missed /\ t.wild = s.wild /\ t.dead = Append(s.dead, a)
  BY DEF Destroy, Typed, Memories
<1>4. \A q \in Seq(Places) : \E n \in Nat :
         /\ DOMAIN q = 1..n /\ DOMAIN Append(q, a) = 1..(n + 1)
         /\ Append(q, a)[n + 1] = a /\ \A i \in 1..n : Append(q, a)[i] = q[i]
  <2> SUFFICES ASSUME NEW q \in Seq(Places)
               PROVE  LET n == Len(q) IN
                      /\ n \in Nat /\ DOMAIN q = 1..n /\ DOMAIN Append(q, a) = 1..(n + 1)
                      /\ Append(q, a)[n + 1] = a /\ \A i \in 1..n : Append(q, a)[i] = q[i]
    OBVIOUS
  <2> QED OBVIOUS
<1> QED BY <1>1, <1>2, <1>3, <1>4

\* An action that has ended is to be deleted, after all that is to be already.
LEMMA DestroySound ==
    ASSUME NEW s, NEW own, NEW calling, NEW bare, Sound(s, own, calling, bare),
           NEW a \in Places, Root(s, own, a), \A i \in DOMAIN s.dead : s.dead[i] # a,
           s.act[a].under # Null => Live(s, s.act[a].under),
           s.act[a].parent # Null => Live(s, s.act[a].parent),
           bare # Null => /\ s.act[a].under = bare
                          /\ s.act[bare].over # Null /\ s.act[bare].over # a =>
                                OverFits(s, own, bare, s.act[bare].over)
    PROVE  LET t == Destroy(s, a) IN
           /\ Sound(t, own, calling, Null) /\ t.act = s.act
           /\ \A b, p : OnTop(s, b, p, calling) => OnTop(t, b, p, calling)
           /\ \A i \in DOMAIN t.dead : t.dead[i] = a \/ \E j \in DOMAIN s.dead : s.dead[j] = t.dead[i]
<1> DEFINE t == Destroy(s, a)
<1>0. s \in Typed
  BY DEF Sound
<1>1. /\ t \in Typed /\ t.act = s.act /\ t.missed = s.missed /\ t.wild = s.wild
      /\ \E n \in Nat : /\ DOMAIN s.dead = 1..n /\ DOMAIN t.dead = 1..(n + 1)
                        /\ t.dead[n + 1] = a /\ \A i \in 1..n : t.dead[i] = s.dead[i]
  BY <1>0, DestroyFields
<1> HIDE DEF t
<1>2. PICK n \in Nat : /\ DOMAIN s.dead = 1..n /\ DOMAIN t.dead = 1..(n + 1)
                       /\ t.dead[n + 1] = a /\ \A i \in 1..n : t.dead[i] = s.dead[i]
  BY <1>1
<1>3. \A x \in Places : /\ Used(t, x) <=> Used(s, x)
                        /\ Live(t, x) <=> Live(s, x)
                        /\ Root(t, own, x) <=> Root(s, own, x)
  BY <1>1 DEF Used, Live, Root
<1>4. \A i \in 1..(n + 1) : i = n + 1 \/ i \in 1..n
  OBVIOUS
<1>5. \A i \in 1..n : i \in 1..(n + 1) /\ i < n + 1 /\ i # n + 1
  OBVIOUS
<1>6. \A y, r : Earlier(s, y, r) => Earlier(t, y, r)
  BY <1>2, <1>4, <1>5 DEF Earlier
<1>7. \A x \in Places : Live(s, x) => own[x] = Null /\ Used(s, x)
  BY DEF Sound, LinksSound, LinkSound, Live, Used
<1>8. Earlier(t, a, Null)
  <2>1. \A j \in DOMAIN t.dead : t.dead[j] # Null
    BY <1>1, DeadPlaces, PlacesFacts
  <2>2. n + 1 \in DOMAIN t.dead
    BY <1>2
  <2> QED BY <1>2, <2>1, <2>2 DEF Earlier
<1>9. \A x, y \in Places : OverFits(s, own, x, y) => OverFits(t, own, x, y)
  BY <1>1, <1>3, <1>6 DEF OverFits
<1>10. LinksSound(t, own, calling, Null)
  <2> SUFFICES ASSUME NEW x \in Places, Used(t, x) PROVE LinkSound(t, own, calling, Null, x)
    BY DEF LinksSound
  <2>1. Used(s, x) /\ LinkSound(s, own, calling, bare, x)
    BY <1>3 DEF Sound, LinksSound
  <2>2. x \notin calling /\ t.act[x].child # Null => ChildFits(t, own, x, t.act[x].child)
    <3>1. \A c \in Places : ChildFits(s, own, x, c) => ChildFits(t, own, x, c)
      BY <1>1, <1>3 DEF ChildFits
    <3> QED BY <1>0, <1>1, <2>1, <3>1, PointingTyped DEF LinkSound
  <2>3. ~ Root(t, own, x) /\ t.act[x].under # Null => UnderFits(t, own, x, t.act[x].under)
    <3>1. \A u \in Places : UnderFits(s, own, x, u) => UnderFits(t, own, x, u)
      BY <1>1, <1>3 DEF UnderFits
    <3> QED BY <1>0, <1>1, <1>3, <2>1, <3>1, PointingTyped DEF LinkSound
  <2>4. ASSUME x # Null, t.act[x].over # Null PROVE OverFits(t, own, x, t.act[x].over)
    <3>1. t.act[x].over = s.act[x].over /\ s.act[x].over \in Places
      BY <1>0, <1>1, <2>4, PointingTyped
    <3>2. CASE x # bare \/ s.act[x].over # a
      BY <1>9, <2>1, <2>4, <3>1, <3>2 DEF LinkSound
    <3>3. CASE x = bare /\ s.act[x].over = a
      <4>1. own[x] = Null /\ s.act[a].under = x
        BY <1>7, <2>4, <3>3
      <4>2. Used(t, a) /\ t.act[a].under = x
        BY <1>1, <4>1 DEF Root, Used
      <4> QED BY <1>8, <3>1, <3>3, <4>1, <4>2 DEF OverFits
    <3> QED BY <3>2, <3>3
  <2> QED BY <1>3, <2>1, <2>2, <2>3, <2>4 DEF LinkSound
<1>11. OnceSound(t, own, calling)
  <2>1. OnceSound(s, own, calling)
    BY DEF Sound
  <2> QED BY <1>1, <1>3, <2>1 DEF OnceSound
<1>12. DeadSound(t, own)
  <2>1. \A i \in DOMAIN s.dead : s.dead[i] \in Places
    BY <1>0, DeadPlaces
  <2>2. \A q \in Places : Live(s, q) => \A i : AfterDead(t, own, i, q)
    <3>1. \A j \in DOMAIN t.dead : t.dead[j] # Null
      BY <1>1, DeadPlaces, PlacesFacts
    <3> QED BY <1>3, <1>7, <3>1 DEF AfterDead
  <2>3. ASSUME NEW i \in 1..n, NEW q \in Places, AfterDead(s, own, i, q)
        PROVE  AfterDead(t, own, i, q)
    BY <1>2, <1>3, <1>4, <1>5, <2>3 DEF AfterDead
  <2>4. ASSUME NEW i \in 1..(n + 1)
        PROVE /\ Root(t, own, t.dead[i])
              /\ \A j \in 1..(n + 1) : t.dead[j] = t.dead[i] => i = j
              /\ t.act[t.dead[i]].under # Null => AfterDead(t, own, i, t.act[t.dead[i]].under)
              /\ t.act[t.dead[i]].parent # Null => AfterDead(t, own, i, t.act[t.dead[i]].parent)
    <3>1. CASE i = n + 1
      <4>1. Root(t, own, t.dead[i]) /\ t.dead[i] = a
        BY <1>2, <1>3, <3>1
      <4>2. \A j \in 1..(n + 1) : t.dead[j] = t.dead[i] => i = j
        BY <1>2, <1>4, <3>1
      <4>3. /\ t.act[a].under # Null => AfterDead(t, own, i, t.act[a].under)
            /\ t.act[a].parent # Null => AfterDead(t, own, i, t.act[a].parent)
        BY <1>0, <1>1, <2>2, PointingTyped
      <4> QED BY <4>1, <4>2, <4>3
    <3>2. CASE i \in 1..n
      <4> DEFINE r == s.dead[i]
      <4>1. /\ r \in Places /\ Root(s, own, r) /\ r # a /\ t.dead[i] = r
            /\ \A j \in DOMAIN s.dead : s.dead[j] = r => i = j
            /\ s.act[r].under # Null => AfterDead(s, own, i, s.act[r].under)
            /\ s.act[r].parent # Null => AfterDead(s, own, i, s.act[r].parent)
        BY <1>2, <2>1, <3>2 DEF Sound, DeadSound
      <4> HIDE DEF r
      <4>2. \A j \in 1..(n + 1) : t.dead[j] = r => i = j
        BY <1>2, <1>4, <4>1
      <4>3. /\ t.act[r].under # Null => AfterDead(t, own, i, t.act[r].under)
            /\ t.act[r].parent # Null => AfterDead(t, own, i, t.act[r].parent)
        BY <1>0, <1>1, <2>3, <3>2, <4>1, PointingTyped
      <4> QED BY <1>3, <4>1, <4>2, <4>3
    <3> QED BY <1>4, <3>1, <3>2
  <2> QED BY <1>2, <2>4 DEF DeadSound
<1>13. Away(t, calling)
  BY <1>1, <1>3 DEF Sound, Away
<1>14. GoalsSound(t)
  BY <1>1 DEF Sound, GoalsSound, Used
<1>15. Sound(t, own, calling, Null)
  BY <1>1, <1>10, <1>11, <1>12, <1>13, <1>14 DEF Sound
<1>16. \A b, p : OnTop(s, b, p, calling) => OnTop(t, b, p, calling)
  BY <1>1, <1>3 DEF OnTop
<1>17. \A i \in DOMAIN t.dead : t.dead[i] = a \/ \E j \in DOMAIN s.dead : s.dead[j] = t.dead[i]
  BY <1>2, <1>4
<1> QED BY <1>1, <1>15, <1>16, <1>17 DEF t
-----------------------------------------------------------------------------
\* An action that was made, and that no pending result is about.
Spare(s, g) == /\ g \in Places /\ s.act[g].state = "made"
               /\ \A x \in Places : s.act[x].goal # g

LEMMA StatePut ==
    ASSUME NEW s \in Typed, NEW a \in Places
    PROVE  LET t == [s EXCEPT !.act[a].state = "started"] IN
           Put(s, t, a, {"state"}) /\ t.act[a].state = "started"
<1> DEFINE r == s.act[a]
           q == [r EXCEPT !.state = "started"]
           t == [s EXCEPT !.act[a].state = "started"]
<1>1. r \in Actions /\ q \in Actions
  BY RecordTyped, FieldsTyped, FlagsTyped
<1>2. FieldsBut(r, q, {"state"}) /\ q.state = "started"
  <2>1. r \in Action
    BY <1>1 DEF Actions
  <2> HIDE DEF r
  <2> QED BY <2>1 DEF Action, FieldsBut
<1>3. t = [s EXCEPT !.act[a] = q]
  OBVIOUS
<1> HIDE DEF q
<1>4. LET u == [s EXCEPT !.act[a] = q] IN Put(s, u, a, {"state"}) /\ u.act[a] = q
  BY <1>1, <1>2, PutPut
<1> HIDE DEF t
<1>5. Put(s, t, a, {"state"}) /\ t.act[a].state = "started"
  BY <1>2, <1>3, <1>4
<1> QED BY <1>5 DEF t

LEMMA ParentPut ==
    ASSUME NEW s \in Typed, NEW a \in Places, NEW v \in Pointer
    PROVE  LET t == [s EXCEPT !.act[a].parent = v] IN
           Put(s, t, a, {"parent"}) /\ t.act[a].parent = v
<1> DEFINE r == s.act[a]
           q == [r EXCEPT !.parent = v]
           t == [s EXCEPT !.act[a].parent = v]
<1>1. r \in Actions /\ q \in Actions
  BY RecordTyped, FieldsTyped, FlagsTyped
<1>2. FieldsBut(r, q, {"parent"}) /\ q.parent = v
  <2>1. r \in Action
    BY <1>1 DEF Actions
  <2> HIDE DEF r
  <2> QED BY <2>1 DEF Action, FieldsBut
<1>3. t = [s EXCEPT !.act[a] = q]
  OBVIOUS
<1> HIDE DEF q
<1>4. LET u == [s EXCEPT !.act[a] = q] IN Put(s, u, a, {"parent"}) /\ u.act[a] = q
  BY <1>1, <1>2, PutPut
<1> HIDE DEF t
<1>5. Put(s, t, a, {"parent"}) /\ t.act[a].parent = v
  BY <1>2, <1>3, <1>4
<1> QED BY <1>5 DEF t

LEMMA UnderPut ==
    ASSUME NEW s \in Typed, NEW a \in Places, NEW v \in Pointer
    PROVE  LET t == [s EXCEPT !.act[a].under = v] IN
           Put(s, t, a, {"under"}) /\ t.act[a].under = v
<1> DEFINE r == s.act[a]
           q == [r EXCEPT !.under = v]
           t == [s EXCEPT !.act[a].under = v]
<1>1. r \in Actions /\ q \in Actions
  BY RecordTyped, FieldsTyped, FlagsTyped
<1>2. FieldsBut(r, q, {"under"}) /\ q.under = v
  <2>1. r \in Action
    BY <1>1 DEF Actions
  <2> HIDE DEF r
  <2> QED BY <2>1 DEF Action, FieldsBut
<1>3. t = [s EXCEPT !.act[a] = q]
  OBVIOUS
<1> HIDE DEF q
<1>4. LET u == [s EXCEPT !.act[a] = q] IN Put(s, u, a, {"under"}) /\ u.act[a] = q
  BY <1>1, <1>2, PutPut
<1> HIDE DEF t
<1>5. Put(s, t, a, {"under"}) /\ t.act[a].under = v
  BY <1>2, <1>3, <1>4
<1> QED BY <1>5 DEF t

Begun(s, a, p, buried) ==
    [s EXCEPT !.act[a].state = "started", !.act[a].parent = p, !.act[a].under = buried,
              !.act[a].over = Null, !.act[a].child = Null]
LinkTo(s, a, p, buried) ==
    LET s1 == Begun(s, a, p, buried)
        s2 == IF p = Null THEN s1 ELSE SetChild(s1, p, a)
    IN  IF buried = Null THEN s2 ELSE [s2 EXCEPT !.act[buried].over = a]

LEMMA LinkFields ==
    ASSUME NEW s \in Typed, NEW n \in Places, NEW prior \in Pointer, NEW u \in Pointer, u # n,
           NEW p, p = IF prior = Null THEN s.act[n].parent ELSE s.act[prior].parent, p # n
    PROVE  LET t == Link(s, n, prior, u) IN
           /\ Frame(s, t)
           /\ FieldsBut(s.act[n], t.act[n], {"state", "parent", "under", "over", "child"})
           /\ t.act[n].state = "started" /\ t.act[n].parent = p /\ t.act[n].under = u
           /\ t.act[n].over = Null /\ t.act[n].child = Null
           /\ \A x \in Places \ {n} :
                /\ FieldsBut(s.act[x], t.act[x], {"over", "child"})
                /\ x # p => t.act[x].child = s.act[x].child
                /\ t.act[x].over = IF x = u THEN n ELSE s.act[x].over
<1> DEFINE F == {"state", "parent", "under", "over", "child"}
           u1 == [s EXCEPT !.act[n].state = "started"]
           u2 == [u1 EXCEPT !.act[n].parent = p]
           u3 == [u2 EXCEPT !.act[n].under = u]
           u4 == [u3 EXCEPT !.act[n].over = Null]
           s1 == SetChild(u4, n, Null)
           s2 == IF p = Null THEN s1 ELSE SetChild(s1, p, n)
           t == IF u = Null THEN s2 ELSE [s2 EXCEPT !.act[u].over = n]
<1>0. /\ p \in Pointer /\ (p # Null => p \in Places) /\ (u # Null => u \in Places)
      /\ Null \in Pointer /\ n \in Pointer /\ Null \notin Places
  BY PointersTyped, PlacesFacts
<1>2. Begun(s, n, p, u) = s1
  BY DEF SetChild, Begun
<1> HIDE DEF s1
<1>3. Link(s, n, prior, u) = t
  <2>1. LinkTo(s, n, p, u) = t
    BY <1>2 DEF LinkTo
  <2>2. Link(s, n, prior, u) = LinkTo(s, n, IF prior = Null THEN s.act[n].parent ELSE s.act[prior].parent, u)
    BY DEF Link, LinkTo, Begun
  <2> HIDE DEF t
  <2> QED BY <2>1, <2>2
<1>4. Put(s, u1, n, {"state"}) /\ u1.act[n].state = "started"
  BY StatePut
<1> HIDE DEF u1
<1>5. Put(u1, u2, n, {"parent"}) /\ u2.act[n].parent = p
  <2>1. u1 \in Typed
    BY <1>4 DEF Put, Frame
  <2> QED BY <1>0, <2>1, ParentPut
<1> HIDE DEF u2
<1>6. Put(u2, u3, n, {"under"}) /\ u3.act[n].under = u
  <2>1. u2 \in Typed
    BY <1>5 DEF Put, Frame
  <2> QED BY <1>0, <2>1, UnderPut
<1> HIDE DEF u3
<1>7. Put(u3, u4, n, {"over"}) /\ u4.act[n].over = Null
  <2>1. u3 \in Typed
    BY <1>6 DEF Put, Frame
  <2> QED BY <1>0, <2>1, OverPut
<1> HIDE DEF u4
<1>8. Put(u4, s1, n, {"child"}) /\ s1.act[n].child = Null
  <2>1. u4 \in Typed
    BY <1>7 DEF Put, Frame
  <2> QED BY <1>0, <2>1, ChildPut DEF s1
<1>9. /\ Frame(s, s1) /\ \A x \in Places \ {n} : s1.act[x] = s.act[x]
      /\ FieldsBut(s.act[n], s1.act[n], F)
      /\ s1.act[n].state = "started" /\ s1.act[n].parent = p /\ s1.act[n].under = u
      /\ s1.act[n].over = Null /\ s1.act[n].child = Null
  <2>1. Frame(s, s1) /\ \A x \in Places \ {n} : s1.act[x] = s.act[x]
    BY <1>4, <1>5, <1>6, <1>7, <1>8 DEF Put, Frame
  <2>2. /\ FieldsBut(s.act[n], u1.act[n], {"state"}) /\ FieldsBut(u1.act[n], u2.act[n], {"parent"})
        /\ FieldsBut(u2.act[n], u3.act[n], {"under"}) /\ FieldsBut(u3.act[n], u4.act[n], {"over"})
        /\ FieldsBut(u4.act[n], s1.act[n], {"child"})
    BY <1>4, <1>5, <1>6, <1>7, <1>8 DEF Put
  <2>3. /\ s1.act[n].state = "started" /\ s1.act[n].parent = p /\ s1.act[n].under = u
        /\ s1.act[n].over = Null /\ s1.act[n].child = Null
    BY <1>4, <1>5, <1>6, <1>7, <1>8, <2>2 DEF FieldsBut
  <2>4. FieldsBut(s.act[n], s1.act[n], F)
    BY <2>2 DEF FieldsBut
  <2> QED BY <2>1, <2>3, <2>4
<1>10. /\ Frame(s, s2) /\ s2.act[n] = s1.act[n]
       /\ \A x \in Places \ {n} : /\ FieldsBut(s.act[x], s2.act[x], {"child"})
                                  /\ x # p => s2.act[x] = s.act[x]
  <2>1. CASE p = Null
    BY <1>0, <1>9, <2>1 DEF FieldsBut
  <2>2. CASE p # Null
    <3>1. s1 \in Typed
      BY <1>9 DEF Frame
    <3>2. Put(s1, s2, p, {"child"})
      BY <1>0, <2>2, <3>1, ChildPut
    <3> HIDE DEF s2
    <3>3. Frame(s, s2) /\ s2.act[n] = s1.act[n]
      BY <1>9, <3>2 DEF Put, Frame
    <3>4. ASSUME NEW x \in Places \ {n}
          PROVE  FieldsBut(s.act[x], s2.act[x], {"child"}) /\ (x # p => s2.act[x] = s.act[x])
      BY <1>9, <3>2 DEF Put, FieldsBut
    <3> QED BY <3>3, <3>4
  <2> QED BY <2>1, <2>2
<1> HIDE DEF s2
<1>11. /\ Frame(s, t) /\ t.act[n] = s1.act[n]
       /\ \A x \in Places \ {n} :
                /\ FieldsBut(s.act[x], t.act[x], {"over", "child"})
                /\ x # p => t.act[x].child = s.act[x].child
                /\ t.act[x].over = IF x = u THEN n ELSE s.act[x].over
  <2>1. CASE u = Null
    BY <1>0, <1>10, <2>1 DEF FieldsBut
  <2>2. CASE u # Null
    <3>0. s2 \in Typed
      BY <1>10 DEF Frame
    <3>1. Put(s2, t, u, {"over"}) /\ t.act[u].over = n
      BY <1>0, <2>2, <3>0, OverPut
    <3> HIDE DEF t
    <3>2. Frame(s, t) /\ t.act[n] = s1.act[n]
      BY <1>10, <3>1 DEF Put, Frame
    <3>3. ASSUME NEW x \in Places \ {n}
          PROVE  /\ FieldsBut(s.act[x], t.act[x], {"over", "child"})
                 /\ x # p => t.act[x].child = s.act[x].child
                 /\ t.act[x].over = IF x = u THEN n ELSE s.act[x].over
      BY <1>10, <3>1 DEF Put, FieldsBut
    <3> QED BY <3>2, <3>3
  <2> QED BY <2>1, <2>2
<1> HIDE DEF t
<1> QED BY <1>3, <1>9, <1>11
-----------------------------------------------------------------------------
\* An action starts: alone, or on top of one that was on top and is suspended.
LEMMA LinkSoundly ==
    ASSUME NEW s, NEW own, NEW calling, NEW u \in Pointer, Sound(s, own, calling, u),
           NEW n, Spare(s, n), NEW prior \in Pointer, NEW q \in calling \cup {Null},
           NEW p \in {q, Null},
           p = IF prior = Null THEN s.act[n].parent ELSE s.act[prior].parent,
           u # Null => OnTop(s, u, q, calling) /\ s.act[u].suspended /\ s.act[u].parent = p
    PROVE  LET t == Link(s, n, prior, u) IN
           \E own2 : /\ Sound(t, own2, calling, Null) /\ OnTop(t, n, q, calling)
                     /\ Keeps(s, own, t, own2, calling) /\ t.act[n].over = Null
                     /\ t.act[n].under = u
<1> DEFINE t == Link(s, n, prior, u)
           own2 == [own EXCEPT ![n] = Null]
<1>0. /\ s \in Typed /\ n \in Places /\ s.act[n].state = "made" /\ Null \notin Places
      /\ \A x \in Places : s.act[x].goal # n
      /\ own \in [Places -> Pointer] /\ Null \in Pointer
  BY PlacesFacts DEF Sound, Spare
<1>1. /\ ~ Live(s, n) /\ ~ Used(s, n) /\ n \notin calling /\ calling \subseteq Places
      /\ n # Null /\ u # n /\ p # n /\ u \notin calling
  BY <1>0 DEF Sound, Away, Live, Used, OnTop
<1>2. /\ Frame(s, t)
      /\ FieldsBut(s.act[n], t.act[n], {"state", "parent", "under", "over", "child"})
      /\ t.act[n].state = "started" /\ t.act[n].parent = p /\ t.act[n].under = u
      /\ t.act[n].over = Null /\ t.act[n].child = Null
      /\ \A x \in Places \ {n} :
           /\ FieldsBut(s.act[x], t.act[x], {"over", "child"})
           /\ x # p => t.act[x].child = s.act[x].child
           /\ t.act[x].over = IF x = u THEN n ELSE s.act[x].over
  BY <1>0, <1>1, LinkFields
<1> HIDE DEF t
<1>3. \A x \in Places \ {n} :
         /\ t.act[x].state = s.act[x].state /\ t.act[x].suspended = s.act[x].suspended
         /\ t.act[x].under = s.act[x].under /\ t.act[x].parent = s.act[x].parent
         /\ t.act[x].goal = s.act[x].goal
         /\ x \notin calling => t.act[x].child = s.act[x].child
         /\ t.act[x].over = IF x = u THEN n ELSE s.act[x].over
  BY <1>0, <1>2 DEF FieldsBut
<1>4. /\ own2 \in [Places -> Pointer] /\ own2[n] = Null
      /\ \A x \in Places \ {n} : own2[x] = own[x]
  BY <1>0
<1> HIDE DEF own2
<1>5. \A x \in Places : Used(s, x) => x # n
  BY <1>1
<1>6. /\ \A x \in Places \ {n} : /\ Used(t, x) <=> Used(s, x)
                                 /\ Live(t, x) <=> Live(s, x)
                                 /\ Root(t, own2, x) <=> Root(s, own, x)
      /\ Live(t, n) /\ Used(t, n) /\ ~ Root(t, own2, n)
  BY <1>2, <1>3, <1>4 DEF Used, Live, Root
<1>7. \A x \in Places : Used(s, x) => LinkSound(s, own, calling, u, x)
  BY DEF Sound, LinksSound
<1>8. t \in Typed /\ t.dead = s.dead /\ ~ t.missed /\ ~ t.wild
  BY <1>2 DEF Frame, Sound
<1>9. u # Null => /\ u \in Places /\ Live(s, u) /\ Used(s, u) /\ own[u] = Null
                  /\ s.act[u].suspended /\ s.act[u].parent = p /\ u # n
                  /\ \A x \in Places : Live(s, x) => s.act[x].under # u
                  /\ \A x \in Places \ calling : Live(s, x) => s.act[x].child # u
  <2>1. u # Null => u \in Places /\ Live(s, u) /\ Used(s, u)
    BY DEF OnTop, Live, Used
  <2> QED BY <1>1, <1>7, <2>1 DEF OnTop, LinkSound
<1>10. GoalsSound(t)
  <2>1. GoalsSound(s)
    BY DEF Sound
  <2>2. s.act[n].goal = Null /\ t.act[n].goal = Null
    BY <1>0, <1>1, <1>2, <2>1 DEF GoalsSound, FieldsBut
  <2>3. \A x \in Places : t.act[x].goal = s.act[x].goal
    BY <1>3, <2>2
  <2>4. \A x \in Places : s.act[x].state = "made" /\ x # n =>
           /\ s.act[x].under = Null /\ s.act[x].over = Null /\ s.act[x].child = Null
           /\ x # u /\ x \notin calling
    BY <1>0, <1>9, <2>1 DEF GoalsSound, Sound, Away, Live
  <2>5. \A x \in Places : t.act[x].state = "made" =>
           t.act[x].under = Null /\ t.act[x].over = Null /\ t.act[x].child = Null
    BY <1>2, <1>3, <2>4
  <2>6. \A x \in Places : s.act[x].goal # Null => s.act[x].goal \in Places \ {n}
    BY <1>0, PointingTyped
  <2>7. \A x \in Places : t.act[x].goal # Null =>
           t.act[t.act[x].goal].state = "made" /\ t.act[t.act[x].goal].parent = Null
    BY <1>3, <2>1, <2>3, <2>6 DEF GoalsSound
  <2>8. \A x \in Places : ~ Used(t, x) => t.act[x].goal = Null
    BY <1>6, <2>1, <2>3 DEF GoalsSound
  <2> QED BY <2>1, <2>3, <2>5, <2>7, <2>8 DEF GoalsSound
<1>11. LinksSound(t, own2, calling, Null)
  <2> SUFFICES ASSUME NEW x \in Places, Used(t, x) PROVE LinkSound(t, own2, calling, Null, x)
    BY DEF LinksSound
  <2>1. CASE x = n
    <3>1. u # Null => UnderFits(t, own2, n, u)
      BY <1>2, <1>3, <1>4, <1>6, <1>9 DEF UnderFits, Root, Live
    <3> QED BY <1>2, <1>4, <1>6, <2>1, <3>1 DEF LinkSound
  <2>2. CASE x # n
    <3>0. Used(s, x) /\ LinkSound(s, own, calling, u, x) /\ own2[x] = own[x]
      BY <1>4, <1>6, <1>7, <2>2
    <3>1. ASSUME x \notin calling, t.act[x].child # Null
          PROVE  ChildFits(t, own2, x, t.act[x].child)
      <4> DEFINE c == s.act[x].child
      <4>1. t.act[x].child = c /\ c \in Places \ {n} /\ ChildFits(s, own, x, c)
        BY <1>0, <1>3, <1>5, <2>2, <3>0, <3>1, PointingTyped DEF LinkSound, ChildFits
      <4> HIDE DEF c
      <4> QED BY <1>3, <1>4, <1>6, <3>0, <4>1 DEF ChildFits
    <3>2. ASSUME ~ Root(t, own2, x), t.act[x].under # Null
          PROVE  UnderFits(t, own2, x, t.act[x].under)
      <4> DEFINE v == s.act[x].under
      <4>1. t.act[x].under = v /\ v \in Places \ {n} /\ UnderFits(s, own, x, v)
        BY <1>0, <1>3, <1>5, <1>6, <2>2, <3>0, <3>2, PointingTyped DEF LinkSound, UnderFits
      <4>2. t.act[x].parent = s.act[x].parent
        BY <1>3, <2>2
      <4> HIDE DEF v
      <4> QED BY <1>3, <1>4, <1>6, <3>0, <4>1, <4>2 DEF UnderFits
    <3>3. ASSUME t.act[x].over # Null
          PROVE  OverFits(t, own2, x, t.act[x].over)
      <4>1. CASE x = u
        <5>1. t.act[x].over = n
          BY <1>3, <2>2, <4>1
        <5>2. OverFits(t, own2, x, n)
          BY <1>2, <1>6, <4>1 DEF OverFits
        <5> QED BY <5>1, <5>2
      <4>2. CASE x # u
        <5> DEFINE y == s.act[x].over
        <5>1. t.act[x].over = y /\ y \in Places \ {n} /\ OverFits(s, own, x, y)
          BY <1>0, <1>3, <1>5, <2>2, <3>0, <3>3, <4>2, PointingTyped DEF LinkSound, OverFits
        <5> HIDE DEF y
        <5>2. OverFits(t, own2, x, y)
          BY <1>3, <1>4, <1>6, <1>8, <3>0, <5>1 DEF OverFits, Earlier
        <5> QED BY <5>1, <5>2
      <4> QED BY <4>1, <4>2
    <3> QED BY <1>6, <2>2, <3>0, <3>1, <3>2, <3>3 DEF LinkSound
  <2> QED BY <2>1, <2>2
<1>12. /\ \A x \in Places : Used(s, x) /\ x \notin calling => s.act[x].child # n
       /\ \A x \in Places : Used(s, x) /\ ~ Root(s, own, x) => s.act[x].under # n
       /\ u # Null => /\ \A x \in Places : Used(s, x) /\ x \notin calling => s.act[x].child # u
                      /\ \A x \in Places : Used(s, x) /\ ~ Root(s, own, x) => s.act[x].under # u
  <2>1. ASSUME NEW x \in Places, Used(s, x), x \notin calling
        PROVE  s.act[x].child # n /\ (u # Null => s.act[x].child # u)
    BY <1>0, <1>1, <1>7, <1>9, <2>1 DEF LinkSound, ChildFits
  <2>2. ASSUME NEW x \in Places, Used(s, x), ~ Root(s, own, x)
        PROVE  s.act[x].under # n /\ (u # Null => s.act[x].under # u)
    BY <1>0, <1>1, <1>7, <1>9, <2>2 DEF LinkSound, UnderFits
  <2> QED BY <2>1, <2>2
<1>13. OnceSound(t, own2, calling)
  <2>1. OnceSound(s, own, calling)
    BY DEF Sound
  <2>2. SUFFICES ASSUME NEW x \in Places, NEW y \in Places, Used(t, x), Used(t, y)
        PROVE  /\ x # y /\ x \notin calling /\ y \notin calling /\ t.act[x].child # Null =>
                     t.act[x].child # t.act[y].child
               /\ x # y /\ ~ Root(t, own2, x) /\ ~ Root(t, own2, y) /\ t.act[x].under # Null =>
                     t.act[x].under # t.act[y].under
               /\ x \notin calling /\ ~ Root(t, own2, y) /\ t.act[x].child # Null =>
                     t.act[x].child # t.act[y].under
    BY DEF OnceSound
  <2>3. CASE x = n /\ y = n
    BY <1>2, <2>3
  <2>4. CASE x = n /\ y # n
    BY <1>1, <1>2, <1>3, <1>6, <1>12, <2>2, <2>4
  <2>5. CASE x # n /\ y = n
    BY <1>1, <1>2, <1>3, <1>6, <1>12, <2>2, <2>5
  <2>6. CASE x # n /\ y # n
    BY <1>3, <1>6, <2>1, <2>2, <2>6 DEF OnceSound
  <2> QED BY <2>3, <2>4, <2>5, <2>6
<1>14. DeadSound(t, own2)
  <2>1. SUFFICES ASSUME NEW i \in DOMAIN s.dead
        PROVE /\ Root(t, own2, s.dead[i])
              /\ \A j \in DOMAIN s.dead : s.dead[j] = s.dead[i] => i = j
              /\ t.act[s.dead[i]].under # Null => AfterDead(t, own2, i, t.act[s.dead[i]].under)
              /\ t.act[s.dead[i]].parent # Null => AfterDead(t, own2, i, t.act[s.dead[i]].parent)
    BY <1>8 DEF DeadSound
  <2> DEFINE r == s.dead[i]
  <2>2. /\ r \in Places /\ Root(s, own, r)
        /\ \A j \in DOMAIN s.dead : s.dead[j] = s.dead[i] => i = j
        /\ s.act[r].under # Null => AfterDead(s, own, i, s.act[r].under)
        /\ s.act[r].parent # Null => AfterDead(s, own, i, s.act[r].parent)
    BY <1>0, DeadPlaces DEF Sound, DeadSound
  <2> HIDE DEF r
  <2>3. /\ r # n /\ Root(t, own2, r) /\ t.act[r].under = s.act[r].under
        /\ t.act[r].parent = s.act[r].parent
    BY <1>0, <1>3, <1>6, <2>2 DEF Root
  <2>4. \A z \in Places : AfterDead(s, own, i, z) => AfterDead(t, own2, i, z)
    BY <1>4, <1>5, <1>6, <1>8 DEF AfterDead
  <2>5. /\ t.act[r].under # Null => AfterDead(t, own2, i, t.act[r].under)
        /\ t.act[r].parent # Null => AfterDead(t, own2, i, t.act[r].parent)
    BY <1>0, <2>2, <2>3, <2>4, PointingTyped
  <2> QED BY <2>2, <2>3, <2>5 DEF r
<1>15. Away(t, calling)
  <2>1. Away(s, calling)
    BY DEF Sound
  <2>2. Null \notin calling
    BY <1>0, <1>1
  <2> QED BY <1>1, <1>2, <1>3, <1>6, <2>1, <2>2 DEF Away
<1>16. Sound(t, own2, calling, Null)
  BY <1>4, <1>8, <1>10, <1>11, <1>13, <1>14, <1>15 DEF Sound
<1>17. OnTop(t, n, q, calling)
  <2>1. ASSUME NEW x \in Places, Live(t, x) PROVE t.act[x].under # n
    <3>1. CASE x = n
      BY <1>1, <1>2, <3>1
    <3>2. CASE x # n
      BY <1>3, <1>6, <1>12, <2>1, <3>2 DEF Live, Used, Root
    <3> QED BY <3>1, <3>2
  <2>2. ASSUME NEW x \in Places \ calling, Live(t, x) PROVE t.act[x].child # n
    <3>1. CASE x = n
      BY <1>1, <1>2, <3>1
    <3>2. CASE x # n
      BY <1>3, <1>6, <1>12, <2>2, <3>2 DEF Live, Used
    <3> QED BY <3>1, <3>2
  <2> QED BY <1>0, <1>1, <1>2, <1>6, <2>1, <2>2 DEF OnTop
<1>18. Keeps(s, own, t, own2, calling)
  <2>1. \A x \in Places : s.act[x].state = "ended" => x # n
    BY <1>0
  <2>2. \A x \in Places : EndedKept(s, own, t, own2, x)
    BY <1>3, <1>4, <2>1 DEF EndedKept
  <2>3. \A x \in calling : x \in Places \ {n} /\ x # u
    BY <1>1
  <2> QED BY <1>3, <1>8, <2>2, <2>3 DEF Keeps
<1>21. \E own3 : /\ Sound(t, own3, calling, Null) /\ OnTop(t, n, q, calling)
                     /\ Keeps(s, own, t, own3, calling) /\ t.act[n].over = Null
                     /\ t.act[n].under = u
  BY <1>2, <1>16, <1>17, <1>18
<1> QED BY <1>21 DEF t
-----------------------------------------------------------------------------
(* What events and answers change: pending results, and the actions they   *)
(* are about.                                                              *)

SameLinks(r, q) == /\ q.state = r.state /\ q.suspended = r.suspended /\ q.under = r.under
                   /\ q.over = r.over /\ q.parent = r.parent /\ q.child = r.child
SpareKept(s, t) == \A g : Spare(s, g) => Spare(t, g) /\ t.act[g].parent = s.act[g].parent
Stirred(s, t) ==
    /\ t \in Typed /\ t.dead = s.dead /\ t.top = s.top /\ t.wild = s.wild
    /\ ~ s.missed => ~ t.missed
    /\ \A x \in Places : Used(s, x) \/ Used(t, x) => SameLinks(s.act[x], t.act[x])
    /\ GoalsSound(t) /\ SpareKept(s, t)
Proper(s, r) ==
    /\ r \in Answered
    /\ r.goal # Null => Spare(s, r.goal) /\ s.act[r.goal].parent = Null

LEMMA StirredNot ==
    ASSUME NEW s \in Typed, GoalsSound(s)
    PROVE  Stirred(s, s)
BY DEF Stirred, SpareKept, SameLinks

LEMMA StirredTwice ==
    ASSUME NEW s, NEW t, NEW u, Stirred(s, t), Stirred(t, u)
    PROVE  Stirred(s, u)
<1>1. \A x \in Places : Used(s, x) \/ Used(u, x) => SameLinks(s.act[x], u.act[x])
  BY DEF Stirred, SameLinks, Used
<1>2. SpareKept(s, u)
  BY DEF Stirred, SpareKept
<1> QED BY <1>1, <1>2 DEF Stirred

LEMMA StirredSound ==
    ASSUME NEW s, NEW own, NEW calling, NEW bare, Sound(s, own, calling, bare),
           NEW t, Stirred(s, t)
    PROVE  /\ Sound(t, own, calling, bare) /\ Keeps(s, own, t, own, calling)
           /\ \A a, p : OnTop(s, a, p, calling) => OnTop(t, a, p, calling)
           /\ \A x \in Places : Used(s, x) => SameLinks(s.act[x], t.act[x])
<1>1. \A x \in Places : Used(s, x) \/ Used(t, x) => SameLinks(s.act[x], t.act[x])
  BY DEF Stirred
<1>2. Looser(s, own, t, calling)
  <2>1. \A x \in Places : Used(s, x) \/ Used(t, x) => Alter(s, own, t, calling, x)
    BY <1>1 DEF Alter, SameLinks
  <2> QED BY <2>1 DEF Looser, Stirred
<1>3. Sound(t, own, calling, bare) /\ \A a, p : OnTop(s, a, p, calling) => OnTop(t, a, p, calling)
  BY <1>2, LooserSound DEF Stirred, Sound
<1>4. Keeps(s, own, t, own, calling)
  <2>1. \A x \in Places : EndedKept(s, own, t, own, x)
    BY <1>1 DEF EndedKept, SameLinks, Used
  <2>2. \A x \in calling : x \in Places /\ Used(s, x)
    BY DEF Sound, Away, Live, Used
  <2> QED BY <1>1, <2>1, <2>2 DEF Keeps, Stirred, SameLinks
<1> QED BY <1>1, <1>3, <1>4
-----------------------------------------------------------------------------
LEMMA NewStirs ==
    ASSUME NEW s \in Typed, GoalsSound(s), Free(s) # {}
    PROVE  LET g == Fresh(s) IN
           /\ Stirred(s, New(s)) /\ Spare(New(s), g) /\ New(s).act[g].parent = Null
<1> DEFINE g == Fresh(s)
           t == New(s)
<1>1. g \in Places /\ s.act[g].state = "free"
  BY FreshFree
<1>2. t = [s EXCEPT !.act[g] = Blank("made")]
  BY DEF New
<1> HIDE DEF g, t
<1>3. /\ t \in Typed /\ t.act[g] = Blank("made") /\ \A x \in Places : x # g => t.act[x] = s.act[x]
      /\ t.top = s.top /\ t.dead = s.dead /\ t.wild = s.wild /\ t.missed = s.missed
  BY <1>1, <1>2, BlankTyped, SetKept
<1>4. /\ t.act[g].state = "made" /\ t.act[g].under = Null /\ t.act[g].over = Null
      /\ t.act[g].child = Null /\ t.act[g].goal = Null /\ t.act[g].parent = Null
  BY <1>3 DEF Blank
<1>5. \A x \in Places : s.act[x].goal # g
  BY <1>1, PlacesFacts DEF GoalsSound
<1>6. s.act[g].goal = Null
  BY <1>1 DEF GoalsSound, Used
<1>7. \A x \in Places : t.act[x].goal = s.act[x].goal
  BY <1>3, <1>4, <1>6
<1>8. \A x \in Places : s.act[x].goal # Null => s.act[x].goal \in Places /\ s.act[x].goal # g
  BY <1>5, PointingTyped
<1>9. GoalsSound(t)
  <2>1. \A x \in Places : ~ Used(t, x) => t.act[x].goal = Null
    BY <1>3, <1>4 DEF GoalsSound, Used
  <2>2. \A x \in Places : t.act[x].state = "made" =>
          t.act[x].under = Null /\ t.act[x].over = Null /\ t.act[x].child = Null
    BY <1>3, <1>4 DEF GoalsSound
  <2>3. \A x \in Places : t.act[x].goal # Null =>
          t.act[t.act[x].goal].state = "made" /\ t.act[t.act[x].goal].parent = Null
    BY <1>3, <1>7, <1>8 DEF GoalsSound
  <2>4. \A x, y \in Places : x # y /\ t.act[x].goal # Null => t.act[x].goal # t.act[y].goal
    BY <1>7 DEF GoalsSound
  <2> QED BY <2>1, <2>2, <2>3, <2>4 DEF GoalsSound
<1>10. SpareKept(s, t)
  BY <1>1, <1>3, <1>7 DEF SpareKept, Spare
<1>11. Spare(t, g)
  BY <1>1, <1>4, <1>5, <1>7 DEF Spare
<1>12. \A x \in Places : Used(s, x) \/ Used(t, x) => SameLinks(s.act[x], t.act[x])
  BY <1>1, <1>3, <1>4 DEF Used, SameLinks
<1>13. Stirred(s, t)
  BY <1>3, <1>9, <1>10, <1>12 DEF Stirred
<1> QED BY <1>4, <1>11, <1>13 DEF g, t

\* Deleting an action not started.
LEMMA GoalDeleted ==
    ASSUME NEW s \in Typed, GoalsSound(s), NEW g \in Places, s.act[g].state = "made",
           s.act[g].parent = Null, NEW t \in Delete(s, g)
    PROVE  /\ t \in Typed /\ t.dead = s.dead /\ t.top = s.top /\ t.wild = s.wild
           /\ ~ s.missed => ~ t.missed
           /\ t.act[g] = Blank("free")
           /\ \A x \in Places \ {g} :
                /\ SameLinks(s.act[x], t.act[x])
                /\ t.act[x].want = s.act[x].want /\ t.act[x].goal = s.act[x].goal
                /\ t.act[x].priority = s.act[x].priority
<1>1. /\ s.act[g].under = Null /\ s.act[g].over = Null /\ s.act[g].child = Null
      /\ s.act[g].goal = Null
  BY DEF GoalsSound, Used
<1>2. Owned(s, g) = {}
  BY <1>1 DEF Owned
<1>3. Deletable(s, g) /\ {g} \cup Below(s, g) = {g}
  BY <1>1, <1>2, LeafDeletable
<1>4. Gone(s, t, {g}, Parents(s, g), {s.act[g].under})
  BY <1>3, DeletionFrees
<1>5. Parents(s, g) = {}
  BY DEF Parents
<1>6. Gone(s, t, {g}, {}, {Null})
  BY <1>1, <1>4, <1>5
<1>7. Null \notin Places
  BY PlacesFacts
<1>8. Shrunk(s, t)
  <2>1. Shrinks(Deletions[MaxCalls])
    BY DeletionsShrink, ActionsAssumption
  <2> QED BY <2>1, PlacesFacts DEF Shrinks, Delete
<1>9. \A x \in Places \ {g} : t.act[x].state = s.act[x].state
  BY <1>6 DEF Gone
<1>10. ~ s.missed => ~ t.missed
  BY <1>8, <1>9 DEF Shrunk
<1> QED BY <1>6, <1>7, <1>10 DEF Gone, SameLinks

LEMMA NullDeleted ==
    ASSUME NEW s \in Typed, NEW t \in Delete(s, Null)
    PROVE  t = s
BY DeletionsDelete, ActionsAssumption DEF Deletes, Delete

Wish(s, a, r, p) ==
    [s EXCEPT !.act[a].want = r.type, !.act[a].goal = r.goal, !.act[a].priority = p]

LEMMA WishSet ==
    ASSUME NEW s \in Typed, NEW a \in Places, NEW r \in Answered, r.type \in Changes,
           NEW p \in Priorities \ {0}
    PROVE  LET t == Wish(s, a, r, p) IN
           /\ t \in Typed /\ t.dead = s.dead /\ t.top = s.top /\ t.wild = s.wild
           /\ t.missed = s.missed /\ t.quiet = s.quiet
           /\ \A x \in Places : x # a => t.act[x] = s.act[x]
           /\ SameLinks(s.act[a], t.act[a]) /\ t.act[a].goal = r.goal
<1> DEFINE q == [s.act[a] EXCEPT !.want = r.type, !.goal = r.goal, !.priority = p]
           t == Wish(s, a, r, p)
<1>1. s.act[a] \in Actions
  BY RecordTyped
<1>2. q \in Actions
  BY <1>1, WishTyped
<1>3. t = [s EXCEPT !.act[a] = q]
  BY DEF Typed, Memories, Wish
<1>4. SameLinks(s.act[a], q) /\ q.goal = r.goal
  BY <1>1 DEF SameLinks, Actions, Action
<1> HIDE DEF q, t
<1>5. /\ t \in Typed /\ t.dead = s.dead /\ t.top = s.top /\ t.wild = s.wild
      /\ t.missed = s.missed /\ t.quiet = s.quiet
      /\ \A x \in Places : x # a => t.act[x] = s.act[x]
      /\ SameLinks(s.act[a], t.act[a]) /\ t.act[a].goal = r.goal
  BY <1>2, <1>3, <1>4, SetKept
<1> QED BY <1>5 DEF t

LEMMA ClearSet ==
    ASSUME NEW s \in Typed, NEW a \in Places
    PROVE  LET t == ClearEvent(s, a) IN
           /\ t \in Typed /\ t.dead = s.dead /\ t.top = s.top /\ t.wild = s.wild
           /\ t.missed = s.missed /\ t.quiet = s.quiet
           /\ \A x \in Places : x # a => t.act[x] = s.act[x]
           /\ SameLinks(s.act[a], t.act[a]) /\ t.act[a].goal = Null
<1> DEFINE q == [s.act[a] EXCEPT !.want = "CONTINUE", !.goal = Null, !.priority = 0]
           t == ClearEvent(s, a)
<1>1. s.act[a] \in Actions
  BY RecordTyped
<1>2. q \in Actions
  BY <1>1, WishTyped
<1>3. t = [s EXCEPT !.act[a] = q]
  BY DEF Typed, Memories, ClearEvent
<1>4. SameLinks(s.act[a], q) /\ q.goal = Null
  BY <1>1 DEF SameLinks, Actions, Action
<1> HIDE DEF q, t
<1>5. /\ t \in Typed /\ t.dead = s.dead /\ t.top = s.top /\ t.wild = s.wild
      /\ t.missed = s.missed /\ t.quiet = s.quiet
      /\ \A x \in Places : x # a => t.act[x] = s.act[x]
      /\ SameLinks(s.act[a], t.act[a]) /\ t.act[a].goal = Null
  BY <1>2, <1>3, <1>4, SetKept
<1> QED BY <1>5 DEF t

\* Forgetting a pending result.
LEMMA ClearStirs ==
    ASSUME NEW s \in Typed, GoalsSound(s), NEW a \in Places
    PROVE  Stirred(s, ClearEvent(s, a))
<1> DEFINE t == ClearEvent(s, a)
<1>1. /\ t \in Typed /\ t.dead = s.dead /\ t.top = s.top /\ t.wild = s.wild
      /\ t.missed = s.missed
      /\ \A x \in Places : x # a => t.act[x] = s.act[x]
      /\ SameLinks(s.act[a], t.act[a]) /\ t.act[a].goal = Null
  BY ClearSet
<1> HIDE DEF t
<1>2. \A x \in Places : SameLinks(s.act[x], t.act[x]) /\ t.act[x].goal \in {s.act[x].goal, Null}
  BY <1>1 DEF SameLinks
<1>3. \A x \in Places : s.act[x].goal # Null => s.act[x].goal \in Places
  BY PointingTyped
<1>4. GoalsSound(t)
  <2>1. \A x \in Places : t.act[x].goal # Null => t.act[x].goal = s.act[x].goal
    BY <1>2
  <2>2. \A x \in Places : t.act[x].goal # Null =>
          t.act[t.act[x].goal].state = "made" /\ t.act[t.act[x].goal].parent = Null
    BY <1>2, <1>3, <2>1 DEF GoalsSound, SameLinks
  <2> QED BY <1>2, <2>1, <2>2 DEF GoalsSound, SameLinks, Used
<1>5. Null \notin Places
  BY PlacesFacts
<1>6. SpareKept(s, t)
  BY <1>2, <1>5 DEF SpareKept, Spare, SameLinks
<1>7. Stirred(s, t)
  BY <1>1, <1>2, <1>4, <1>6 DEF Stirred
<1> QED BY <1>7 DEF t

\* A result is stored, or its action deleted.
LEMMA StoreStirs ==
    ASSUME NEW s0, NEW s, Stirred(s0, s), NEW a \in Places, Used(s, a),
           NEW r, Proper(s, r), r.type \in Changes, ~ Spare(s0, r.goal),
           NEW p \in Priorities \ {0}, NEW u \in Store(s, a, r, p)
    PROVE  Stirred(s0, u)
<1>0. s \in Typed /\ GoalsSound(s) /\ r \in Answered /\ Null \notin Places
  BY PlacesFacts DEF Stirred, Proper
<1>1. CASE p >= s.act[a].priority
  <2> DEFINE g == s.act[a].goal
  <2>1. PICK t \in Delete(s, g) :
          u = [t EXCEPT !.act[a].want = r.type, !.act[a].goal = r.goal, !.act[a].priority = p]
    BY <1>1 DEF Store
  <2>2. g # Null => /\ g \in Places /\ s.act[g].state = "made" /\ s.act[g].parent = Null
                    /\ g # a /\ g # r.goal /\ \A x \in Places : x # a => s.act[x].goal # g
    BY <1>0, PointingTyped DEF GoalsSound, Used, Proper, Spare
  <2>0. g = s.act[a].goal
    OBVIOUS
  <2> HIDE DEF g
  <2>3. /\ t \in Typed /\ t.dead = s.dead /\ t.top = s.top /\ t.wild = s.wild
        /\ ~ s.missed => ~ t.missed
        /\ g # Null => t.act[g] = Blank("free")
        /\ \A x \in Places \ {g} : SameLinks(s.act[x], t.act[x]) /\ t.act[x].goal = s.act[x].goal
    <3>1. CASE g = Null
      <4>1. t = s
        BY <1>0, <2>1, <3>1, NullDeleted
      <4> QED BY <1>0, <3>1, <4>1 DEF SameLinks
    <3>2. CASE g # Null
      BY <1>0, <2>1, <2>2, <3>2, GoalDeleted
    <3> QED BY <3>1, <3>2
  <2>4. /\ u \in Typed /\ u.dead = t.dead /\ u.top = t.top /\ u.wild = t.wild
        /\ u.missed = t.missed
        /\ \A x \in Places : x # a => u.act[x] = t.act[x]
        /\ SameLinks(t.act[a], u.act[a]) /\ u.act[a].goal = r.goal
    <3> DEFINE w == Wish(t, a, r, p)
    <3>1. /\ w \in Typed /\ w.dead = t.dead /\ w.top = t.top /\ w.wild = t.wild
          /\ w.missed = t.missed
          /\ \A x \in Places : x # a => w.act[x] = t.act[x]
          /\ SameLinks(t.act[a], w.act[a]) /\ w.act[a].goal = r.goal
      BY <1>0, <2>3, WishSet
    <3>2. u = w
      BY <2>1 DEF Wish
    <3> HIDE DEF w
    <3> QED BY <3>1, <3>2
  <2>5. /\ \A x \in Places \ {g} : SameLinks(s.act[x], u.act[x])
        /\ \A x \in Places \ {g, a} : u.act[x].goal = s.act[x].goal
        /\ g # Null => u.act[g].state = "free" /\ u.act[g].goal = Null
    BY <2>2, <2>3, <2>4 DEF SameLinks, Blank
  <2>6. \A x \in Places : \/ x = a /\ u.act[x].goal = r.goal
                          \/ x # a /\ u.act[x].goal = s.act[x].goal /\ x # g
                          \/ x # a /\ u.act[x].goal = Null /\ x = g
    BY <1>0, <2>4, <2>5
  <2>7. \A h \in Places : (s.act[h].state = "made" /\ s.act[h].parent = Null /\ h # g)
                          => (u.act[h].state = "made" /\ u.act[h].parent = Null)
    BY <2>5 DEF SameLinks
  <2>8. r.goal # Null => /\ r.goal \in Places /\ s.act[r.goal].state = "made"
                         /\ s.act[r.goal].parent = Null /\ r.goal # g
                         /\ \A x \in Places : s.act[x].goal # r.goal
    BY <2>0 DEF Proper, Spare
  <2>9. \A x \in Places : x # a /\ s.act[x].goal # Null => s.act[x].goal \in Places /\ s.act[x].goal # g
    BY <1>0, <2>2, PointingTyped
  <2>10. GoalsSound(u)
    <3>1. \A x \in Places : ~ Used(u, x) => u.act[x].goal = Null
      <4>1. u.act[a].state = s.act[a].state
        BY <2>2, <2>5, <1>0 DEF SameLinks
      <4>2. \A x \in Places \ {a, g} : u.act[x].state = s.act[x].state
        BY <2>5 DEF SameLinks
      <4> QED BY <1>0, <2>6, <4>1, <4>2 DEF GoalsSound, Used
    <3>2. \A x \in Places : u.act[x].state = "made" =>
            u.act[x].under = Null /\ u.act[x].over = Null /\ u.act[x].child = Null
      BY <1>0, <2>5 DEF GoalsSound, SameLinks
    <3>3. \A x \in Places : u.act[x].goal # Null =>
            u.act[u.act[x].goal].state = "made" /\ u.act[u.act[x].goal].parent = Null
      BY <1>0, <2>6, <2>7, <2>8, <2>9 DEF GoalsSound
    <3>4. \A x, y \in Places : x # y /\ u.act[x].goal # Null => u.act[x].goal # u.act[y].goal
      BY <1>0, <2>6, <2>8 DEF GoalsSound
    <3> QED BY <3>1, <3>2, <3>3, <3>4 DEF GoalsSound
  <2>11. SpareKept(s0, u)
    <3> SUFFICES ASSUME NEW h, Spare(s0, h)
                 PROVE  Spare(u, h) /\ u.act[h].parent = s0.act[h].parent
      BY DEF SpareKept
    <3>1. Spare(s, h) /\ s.act[h].parent = s0.act[h].parent /\ h # r.goal /\ h # g /\ h \in Places
      BY <2>0 DEF Stirred, SpareKept, Spare
    <3>2. \A x \in Places : u.act[x].goal # h
      BY <1>0, <2>6, <3>1 DEF Spare
    <3> QED BY <2>5, <3>1, <3>2 DEF Spare, SameLinks
  <2>12. \A x \in Places : Used(s0, x) \/ Used(u, x) => SameLinks(s0.act[x], u.act[x])
    <3>1. \A x \in Places : Used(s, x) \/ Used(u, x) => SameLinks(s.act[x], u.act[x]) /\ Used(s, x)
      BY <1>0, <2>2, <2>5 DEF SameLinks, Used
    <3> QED BY <3>1 DEF Stirred, SameLinks, Used
  <2> QED BY <2>3, <2>4, <2>10, <2>11, <2>12 DEF Stirred
<1>2. CASE ~ (p >= s.act[a].priority)
  <2>1. u \in Delete(s, r.goal)
    BY <1>2 DEF Store
  <2>2. CASE r.goal = Null
    <3>1. u = s
      BY <1>0, <2>1, <2>2, NullDeleted
    <3> QED BY <3>1
  <2>3. CASE r.goal # Null
    <3> DEFINE g == r.goal
    <3>1. /\ g \in Places /\ s.act[g].state = "made" /\ s.act[g].parent = Null
          /\ \A x \in Places : s.act[x].goal # g
      BY <2>3 DEF Proper, Spare
    <3>0. ~ Spare(s0, g)
      OBVIOUS
    <3>2. /\ u \in Typed /\ u.dead = s.dead /\ u.top = s.top /\ u.wild = s.wild
          /\ ~ s.missed => ~ u.missed
          /\ u.act[g] = Blank("free")
          /\ \A x \in Places \ {g} : SameLinks(s.act[x], u.act[x]) /\ u.act[x].goal = s.act[x].goal
      BY <1>0, <2>1, <3>1, GoalDeleted
    <3> HIDE DEF g
    <3>3. u.act[g].state = "free" /\ u.act[g].goal = Null
      BY <3>2 DEF Blank
    <3>4. s.act[g].goal = Null
      BY <1>0, <3>1 DEF GoalsSound, Used
    <3>5. \A x \in Places : u.act[x].goal = s.act[x].goal
      BY <3>2, <3>3, <3>4
    <3>6. \A x \in Places : s.act[x].goal # Null => s.act[x].goal \in Places \ {g}
      BY <1>0, <3>1, PointingTyped
    <3>7. GoalsSound(u)
      <4>1. \A x \in Places : ~ Used(u, x) => u.act[x].goal = Null
        BY <1>0, <3>2, <3>3 DEF GoalsSound, Used, SameLinks
      <4>2. \A x \in Places : u.act[x].state = "made" =>
            u.act[x].under = Null /\ u.act[x].over = Null /\ u.act[x].child = Null
        BY <1>0, <3>2, <3>3 DEF GoalsSound, SameLinks
      <4>3. \A x \in Places : u.act[x].goal # Null =>
            u.act[u.act[x].goal].state = "made" /\ u.act[u.act[x].goal].parent = Null
        BY <1>0, <3>2, <3>5, <3>6 DEF GoalsSound, SameLinks
      <4>4. \A x, y \in Places : x # y /\ u.act[x].goal # Null => u.act[x].goal # u.act[y].goal
        BY <1>0, <3>5 DEF GoalsSound
      <4> QED BY <4>1, <4>2, <4>3, <4>4 DEF GoalsSound
    <3>8. SpareKept(s0, u)
      <4> SUFFICES ASSUME NEW h, Spare(s0, h)
                   PROVE  Spare(u, h) /\ u.act[h].parent = s0.act[h].parent
        BY DEF SpareKept
      <4>1. Spare(s, h) /\ s.act[h].parent = s0.act[h].parent /\ h # g /\ h \in Places
        BY <3>0 DEF Stirred, SpareKept, Spare
      <4> QED BY <3>2, <3>5, <4>1 DEF Spare, SameLinks
    <3>9. \A x \in Places : Used(s0, x) \/ Used(u, x) => SameLinks(s0.act[x], u.act[x])
      <4>1. \A x \in Places : Used(s, x) \/ Used(u, x) => SameLinks(s.act[x], u.act[x]) /\ Used(s, x)
        BY <3>1, <3>2, <3>3 DEF SameLinks, Used
      <4> QED BY <4>1 DEF Stirred, SameLinks, Used
    <3> QED BY <3>2, <3>7, <3>8, <3>9 DEF Stirred
  <2> QED BY <2>2, <2>3
<1> QED BY <1>1, <1>2

\* Only actions that have been started, and have not ended, are asked.
LEMMA RespondersLive ==
    ASSUME NEW s, NEW own, NEW calling, NEW bare, Sound(s, own, calling, bare),
           NEW a \in Responders(s)
    PROVE  a \in Places /\ Live(s, a)
<1> DEFINE W == {x \in Places : Live(s, x)}
<1>1. s \in Typed /\ W \in SUBSET Places
  BY DEF Sound
<1>2. PICK b \in Levels(s) : a \in Stack(s, b)
  BY DEF Responders
<1>3. b \in W /\ b \in Pointer
  BY <1>2, PlacesFacts DEF Levels, Reach, Live
<1>4. \A x \in W : s.act[x].under # Null => s.act[x].under \in W
  BY LiveLinks
<1> HIDE DEF W
<1>5. Stack(s, b) \subseteq W
  BY <1>1, <1>3, <1>4, StackFrom
<1> QED BY <1>2, <1>5 DEF W

LEMMA HandledStirs ==
    ASSUME NEW s, NEW own, NEW calling, NEW bare, Sound(s, own, calling, bare),
           NEW u \in Handled(s)
    PROVE  Stirred(s, u)
<1>0. s \in Typed /\ GoalsSound(s)
  BY DEF Sound
<1>1. PICK a \in Responders(s), p \in Priorities \ {0} :
         \/ u \in Store(s, a, Done, p)
         \/ /\ Free(s) # {}
            /\ \E t \in {"CHANGE_TO", "SUSPEND_FOR"} : u \in Store(New(s), a, Result(t, Fresh(s)), p)
  BY DEF Handled
<1>2. a \in Places /\ Used(s, a)
  BY RespondersLive DEF Live, Used
<1>3. CASE u \in Store(s, a, Done, p)
  <2>1. Done \in Answered /\ Done.goal = Null /\ Done.type \in Changes
    BY ResultsAnswered DEF Done, Result, Changes
  <2>2. Proper(s, Done) /\ ~ Spare(s, Done.goal)
    BY <2>1, PlacesFacts DEF Proper, Spare
  <2>3. Stirred(s, s)
    BY <1>0, StirredNot
  <2> HIDE DEF Done
  <2> QED BY <1>2, <1>3, <2>1, <2>2, <2>3, StoreStirs
<1>4. ASSUME Free(s) # {}, NEW t \in {"CHANGE_TO", "SUSPEND_FOR"},
             u \in Store(New(s), a, Result(t, Fresh(s)), p)
      PROVE  Stirred(s, u)
  <2> DEFINE g == Fresh(s)
             r == Result(t, g)
  <2>1. g \in Places /\ s.act[g].state = "free"
    BY <1>4, FreshFree
  <2>2. Stirred(s, New(s)) /\ Spare(New(s), g) /\ New(s).act[g].parent = Null
    BY <1>0, <1>4, NewStirs
  <2>3. r \in Answered /\ r.goal = g /\ r.type \in Changes
    BY <2>1, ResultsAnswered DEF Result, Changes
  <2>4. u \in Store(New(s), a, r, p)
    BY <1>4
  <2> HIDE DEF g, r
  <2>5. Proper(New(s), r) /\ ~ Spare(s, r.goal)
    BY <2>1, <2>2, <2>3 DEF Proper, Spare
  <2>6. Used(New(s), a)
    <3>1. a # g
      BY <1>2, <2>1 DEF Used
    <3> QED BY <1>2, <2>2 DEF Stirred, SameLinks, Used
  <2> QED BY <1>2, <2>2, <2>3, <2>4, <2>5, <2>6, StoreStirs
<1> QED BY <1>1, <1>3, <1>4

LEMMA MayHandleStirs ==
    ASSUME NEW s, NEW own, NEW calling, NEW bare, Sound(s, own, calling, bare),
           NEW u \in MayHandle(s)
    PROVE  Stirred(s, u)
<1>0. s \in Typed /\ GoalsSound(s)
  BY DEF Sound
<1>1. CASE u = s
  BY <1>0, <1>1, StirredNot
<1>2. CASE u # s
  <2>1. PICK t \in Handled(s) : u = [t EXCEPT !.quiet = TRUE]
    BY <1>2 DEF MayHandle
  <2>2. Stirred(s, t)
    BY HandledStirs
  <2>3. t \in Typed
    BY <2>2 DEF Stirred
  <2>4. /\ u \in Typed /\ u.act = t.act /\ u.dead = t.dead /\ u.top = t.top
        /\ u.wild = t.wild /\ u.missed = t.missed
    BY <2>1, <2>3 DEF Typed, Memories
  <2>5. Stirred(t, u)
    BY <2>2, <2>4 DEF Stirred, GoalsSound, SpareKept, Spare, SameLinks, Used
  <2> QED BY <2>2, <2>5, StirredTwice
<1> QED BY <1>1, <1>2

\* What the answer of an action is about is new.
LEMMA AnswersStir ==
    ASSUME NEW s, NEW own, NEW calling, NEW bare, Sound(s, own, calling, bare),
           NEW a \in Places, NEW types, NEW o \in Answers(s, a, types)
    PROVE  Stirred(s, o.s) /\ Proper(o.s, o.r) /\ o.r.type \in types
<1>0. PICK t \in MayHandle(s) :
        /\ o.r.type \in types
        /\ o \in {[s |-> t, r |-> Continue], [s |-> t, r |-> Done]} \cup
                  (IF Free(t) = {} THEN {}
                   ELSE {[s |-> New(t), r |-> Result("CHANGE_TO", Fresh(t))],
                         [s |-> ClearEvent(New(t), a), r |-> Result("SUSPEND_FOR", Fresh(t))]})
  BY DEF Answers
<1>1. Stirred(s, t) /\ t \in Typed /\ GoalsSound(t)
  BY MayHandleStirs DEF Stirred
<1>2. CASE o \in {[s |-> t, r |-> Continue], [s |-> t, r |-> Done]}
  <2>1. o.s = t /\ o.r \in {Continue, Done}
    BY <1>2
  <2>2. o.r \in Answered /\ o.r.goal = Null
    BY <2>1, ResultsAnswered DEF Continue, Done, Result
  <2> QED BY <1>0, <1>1, <2>1, <2>2 DEF Proper
<1>3. CASE Free(t) # {} /\ o \in {[s |-> New(t), r |-> Result("CHANGE_TO", Fresh(t))],
                         [s |-> ClearEvent(New(t), a), r |-> Result("SUSPEND_FOR", Fresh(t))]}
  <2> DEFINE g == Fresh(t)
             v == New(t)
             w == ClearEvent(v, a)
  <2>1. Stirred(t, v) /\ Spare(v, g) /\ v.act[g].parent = Null
    BY <1>1, <1>3, NewStirs
  <2>2. v \in Typed /\ GoalsSound(v)
    BY <2>1 DEF Stirred
  <2>3. g \in Places
    BY <2>1 DEF Spare
  <2>4. o.s \in {v, w} /\ o.r \in {Result("CHANGE_TO", g), Result("SUSPEND_FOR", g)}
    BY <1>3
  <2> HIDE DEF g, v
  <2>5. Stirred(v, w)
    BY <2>2, ClearStirs
  <2>6. Spare(w, g) /\ w.act[g].parent = Null /\ Stirred(t, w)
    BY <2>1, <2>5, StirredTwice DEF Stirred, SpareKept
  <2> HIDE DEF w
  <2>7. Stirred(s, o.s)
    BY <1>1, <2>1, <2>4, <2>6, StirredTwice
  <2>8. o.r \in Answered /\ o.r.goal = g
    <3>1. \A c : Result(c, g).goal = g
      BY DEF Result
    <3>2. Result("CHANGE_TO", g) \in Answered /\ Result("SUSPEND_FOR", g) \in Answered
      BY <2>3, ResultsAnswered
    <3> QED BY <2>4, <3>1, <3>2
  <2> QED BY <1>0, <2>1, <2>4, <2>6, <2>7, <2>8 DEF Proper
<1> QED BY <1>0, <1>2, <1>3
-----------------------------------------------------------------------------
(* What the calls of an update promise.  q is the action whose call is in  *)
(* progress, whose children are called, or Null for the bot.               *)

Kept(s, own, calling, q, a, t) ==
    \E own2 : /\ Sound(t, own2, calling, Null) /\ Keeps(s, own, t, own2, calling)
              /\ a # Null => OnTop(t, a, q, calling)

Suspends(f) == \A s, own, calling, a, q :
    Sound(s, own, calling, Null) /\ OnTop(s, a, q, calling) =>
        \A o \in OnSuspend(f, s, a) :
            /\ Kept(s, own, calling, q, o.a, o.s) /\ SpareKept(s, o.s)
            /\ o.a # Null => o.s.act[o.a].suspended
Resumes(f) == \A s, own, calling, a, q :
    Sound(s, own, calling, a) /\ OnTop(s, a, q, calling) =>
        \A o \in OnResume(f, s, a) :
            /\ o.a = a
            /\ \/ o.s = s /\ o.r = Continue
               \/ /\ Kept(s, own, calling, q, a, o.s) /\ Proper(o.s, o.r)
                  /\ o.s.act[a].over = Null
Updates(f) == \A s, own, calling, a, q :
    Sound(s, own, calling, Null) /\ OnTop(s, a, q, calling) /\ s.dead = <<>> =>
        \A o \in OnUpdate(f, s, a) :
            /\ o.a = a /\ Kept(s, own, calling, q, a, o.s) /\ Proper(o.s, o.r)
            /\ o.s.act[a].over = Null
Applies(f) == \A s, own, calling, a, q, r :
    /\ Sound(s, own, calling, Null) /\ OnTop(s, a, q, calling) /\ Proper(s, r)
    /\ r.type # "CONTINUE" => s.act[a].over = Null
    => \A o \in Apply(f, s, a, r) : Kept(s, own, calling, q, o.a, o.s)
Starts(f) == \A s, own, calling, a, q :
    /\ Sound(s, own, calling, Null) /\ Spare(s, a) /\ q \in calling \cup {Null}
    /\ s.act[a].parent \in {q, Null}
    => \A o \in Apply(f, s, a, Result("CHANGE_TO", a)) : Kept(s, own, calling, q, o.a, o.s)
Promises(f) == /\ TypedCalls(f) /\ Suspends(f) /\ Resumes(f) /\ Updates(f)
               /\ Applies(f) /\ Starts(f)
-----------------------------------------------------------------------------
\* The new child of an action whose call is in progress.
LEMMA NewChildSound ==
    ASSUME NEW s, NEW own, NEW calling, Sound(s, own, calling, Null), NEW a \in calling,
           Free(s) # {}
    PROVE  LET c == Fresh(s)
               t == SetChild([New(s) EXCEPT !.act[c].parent = a], a, c) IN
           /\ Sound(t, own, calling, Null) /\ Keeps(s, own, t, own, calling)
           /\ Spare(t, c) /\ t.act[c].parent = a
<1> DEFINE c == Fresh(s)
           u == New(s)
           v == [u EXCEPT !.act[c].parent = a]
           t == SetChild(v, a, c)
<1>0. s \in Typed /\ GoalsSound(s) /\ a \in Places /\ Live(s, a) /\ a \in Pointer
  BY PlacesFacts DEF Sound, Away
<1>1. Stirred(s, u) /\ Spare(u, c) /\ u.act[c].parent = Null
  BY <1>0, NewStirs
<1> HIDE DEF c, u
<1>2. /\ Sound(u, own, calling, Null) /\ Keeps(s, own, u, own, calling)
      /\ c \in Places /\ u.act[c].state = "made" /\ u \in Typed /\ GoalsSound(u)
      /\ \A x \in Places : u.act[x].goal # c
  BY <1>1, StirredSound DEF Sound, Spare
<1>3. Put(u, v, c, {"parent"}) /\ v.act[c].parent = a
  BY <1>0, <1>2, ParentPut
<1> HIDE DEF v
<1>4. \A x \in Places : /\ FieldsBut(u.act[x], v.act[x], {"parent"})
                        /\ x # c => v.act[x] = u.act[x]
  BY <1>3 DEF Put, FieldsBut
<1>5. GoalsSound(v)
  <2>1. \A x \in Places : u.act[x].goal # Null => u.act[x].goal \in Places \ {c}
    BY <1>2, PointingTyped
  <2>2. \A x \in Places : v.act[x].goal # Null =>
          v.act[v.act[x].goal].state = "made" /\ v.act[v.act[x].goal].parent = Null
    BY <1>2, <1>4, <2>1 DEF GoalsSound, FieldsBut
  <2> QED BY <1>2, <1>4, <2>2 DEF GoalsSound, FieldsBut, Used
<1>6. Looser(u, own, v, calling)
  <2>1. \A x \in Places : Used(u, x) \/ Used(v, x) => x # c
    BY <1>2, <1>4 DEF Used, FieldsBut
  <2>2. \A x \in Places : Used(u, x) \/ Used(v, x) => Alter(u, own, v, calling, x)
    BY <1>4, <2>1 DEF Alter
  <2> QED BY <1>3, <2>2 DEF Looser, Put, Frame
<1>7. Sound(v, own, calling, Null)
  BY <1>2, <1>3, <1>5, <1>6, LooserSound DEF Sound, Put, Frame
<1>8. Keeps(u, own, v, own, calling)
  <2>1. \A x \in Places : u.act[x].state = "ended" \/ x \in calling => x # c
    BY <1>2 DEF Sound, Away, Live
  <2>2. \A x \in calling : x \in Places
    BY <1>2 DEF Sound, Away
  <2> QED BY <1>3, <1>4, <2>1, <2>2 DEF Keeps, EndedKept, Put, Frame
<1>9. Spare(v, c)
  BY <1>2, <1>4 DEF Spare, FieldsBut
<1>10. c \in Pointer
  BY <1>2, PlacesFacts
<1>11. /\ Sound(t, own, calling, Null) /\ Put(v, t, a, {"child"})
       /\ Keeps(v, own, t, own, calling)
  BY <1>7, <1>10, StaleChild
<1> HIDE DEF t
<1>12. \A x \in Places : FieldsBut(v.act[x], t.act[x], {"child"})
  BY <1>11 DEF Put, FieldsBut
<1>13. Spare(t, c) /\ t.act[c].parent = a
  BY <1>2, <1>3, <1>9, <1>12 DEF Spare, FieldsBut
<1>14. Keeps(s, own, t, own, calling)
  <2>1. v \in Typed /\ t \in Typed
    BY <1>7, <1>11 DEF Sound
  <2>2. Keeps(s, own, v, own, calling)
    BY <1>2, <1>8, <2>1, KeepsTwice
  <2> QED BY <1>11, <2>1, <2>2, KeepsTwice
<1> QED BY <1>11, <1>13, <1>14 DEF t, v, u, c

LEMMA KeptFirst ==
    ASSUME NEW s, NEW own, NEW calling, NEW q, NEW a, Sound(s, own, calling, Null),
           a # Null => OnTop(s, a, q, calling)
    PROVE  Kept(s, own, calling, q, a, s)
<1>1. Keeps(s, own, s, own, calling)
  BY DEF Keeps, EndedKept
<1> QED BY <1>1 DEF Kept

LEMMA KeptThen ==
    ASSUME NEW s, NEW own, NEW calling, NEW q, NEW t, NEW own2, NEW u, NEW a,
           Keeps(s, own, t, own2, calling), Kept(t, own2, calling, q, a, u)
    PROVE  Kept(s, own, calling, q, a, u)
<1>1. PICK own3 : /\ Sound(u, own3, calling, Null) /\ Keeps(t, own2, u, own3, calling)
                  /\ a # Null => OnTop(u, a, q, calling)
  BY DEF Kept
<1>2. u \in Typed
  BY <1>1 DEF Sound
<1>3. Keeps(s, own, u, own3, calling)
  BY <1>1, <1>2, KeepsTwice
<1> QED BY <1>1, <1>3 DEF Kept

\* The action on top answers.
LEMMA AskedSound ==
    ASSUME NEW s, NEW own, NEW calling, NEW q, NEW a \in Places, NEW t,
           Kept(s, own, calling, q, a, t), NEW types, NEW o \in Answers(t, a, types)
    PROVE  /\ Kept(s, own, calling, q, a, o.s) /\ Proper(o.s, o.r) /\ o.r.type \in types
           /\ SameLinks(t.act[a], o.s.act[a]) /\ SpareKept(t, o.s)
<1>1. PICK own2 : /\ Sound(t, own2, calling, Null) /\ Keeps(s, own, t, own2, calling)
                  /\ OnTop(t, a, q, calling)
  BY PlacesFacts DEF Kept
<1>2. Stirred(t, o.s) /\ Proper(o.s, o.r) /\ o.r.type \in types
  BY <1>1, AnswersStir
<1>3. /\ Sound(o.s, own2, calling, Null) /\ Keeps(t, own2, o.s, own2, calling)
      /\ OnTop(o.s, a, q, calling) /\ SameLinks(t.act[a], o.s.act[a])
  <2>1. Used(t, a)
    BY <1>1 DEF OnTop, Live, Used
  <2> QED BY <1>1, <1>2, <2>1, StirredSound
<1>4. Kept(t, own2, calling, q, a, o.s)
  BY <1>3 DEF Kept
<1>5. Kept(s, own, calling, q, a, o.s)
  BY <1>1, <1>4, KeptThen
<1> QED BY <1>2, <1>3, <1>5 DEF Stirred

\* The outcome of a call to what is on top of the children of a.
LEMMA BackSound ==
    ASSUME NEW s, NEW own, NEW calling, Sound(s, own, calling, Null),
           NEW a, NEW q, OnTop(s, a, q, calling), NEW t, NEW c \in Pointer,
           Kept(s, own, calling \cup {a}, a, c, t)
    PROVE  LET u == SetChild(t, a, c) IN
           /\ Kept(s, own, calling, q, a, u) /\ u.act[a].over = s.act[a].over
           /\ u.act[a].under = s.act[a].under /\ Put(t, u, a, {"child"})
<1> DEFINE u == SetChild(t, a, c)
<1>1. PICK own2 : /\ Sound(t, own2, calling \cup {a}, Null)
                  /\ Keeps(s, own, t, own2, calling \cup {a})
                  /\ c # Null => OnTop(t, c, a, calling \cup {a})
  BY DEF Kept
<1>2. /\ Sound(u, own2, calling, Null) /\ OnTop(u, a, q, calling)
      /\ Keeps(s, own, u, own2, calling) /\ u.act[a].over = s.act[a].over
      /\ Put(t, u, a, {"child"})
  BY <1>1, ReturnSound
<1> HIDE DEF u
<1>3. Kept(s, own, calling, q, a, u)
  BY <1>2 DEF Kept
<1>4. u.act[a].under = s.act[a].under
  <2>1. u.act[a].under = t.act[a].under
    BY <1>2 DEF Put, FieldsBut
  <2>2. t.act[a].under = s.act[a].under
    BY <1>1 DEF Keeps
  <2> QED BY <2>1, <2>2
<1> QED BY <1>2, <1>3, <1>4 DEF u

LEMMA StartChildSound ==
    ASSUME NEW f, Promises(f), NEW s, NEW own, NEW calling, Sound(s, own, calling, Null),
           NEW a, NEW q, OnTop(s, a, q, calling), NEW t \in StartChild(f, s, a)
    PROVE  /\ Kept(s, own, calling, q, a, t)
           /\ t.act[a].over = s.act[a].over /\ t.act[a].under = s.act[a].under
<1>1. CASE t = s
  BY <1>1, KeptFirst
<1>2. CASE t # s
  <2> DEFINE c == Fresh(s)
             w == SetChild([New(s) EXCEPT !.act[c].parent = a], a, c)
             more == calling \cup {a}
  <2>1. Free(s) # {}
    BY <1>2 DEF StartChild
  <2>2. PICK o \in Apply(f, w, c, Result("CHANGE_TO", c)) : t = SetChild(o.s, a, o.a)
    BY <1>2 DEF StartChild
  <2>3. Sound(s, own, more, Null) /\ a \in more
    BY CallingSound
  <2>4. /\ Sound(w, own, more, Null) /\ Keeps(s, own, w, own, more)
        /\ Spare(w, c) /\ w.act[c].parent = a
    BY <2>1, <2>3, NewChildSound
  <2> HIDE DEF w, c
  <2>5. w \in Typed /\ c \in Pointer /\ Result("CHANGE_TO", c) \in Answered
    BY <2>4, ResultsAnswered, PlacesFacts DEF Sound, Spare
  <2>6. o.a \in Pointer
    BY <2>5 DEF Promises, TypedCalls, TypedOutcomes
  <2>7. Kept(w, own, more, a, o.a, o.s)
    BY <2>3, <2>4 DEF Promises, Starts
  <2>8. Kept(s, own, more, a, o.a, o.s)
    BY <2>4, <2>7, KeptThen
  <2> QED BY <2>2, <2>6, <2>8, BackSound
<1> QED BY <1>1, <1>2

\* InvokeOnStart
LEMMA OnStartSound ==
    ASSUME NEW f, Promises(f), NEW s, NEW own, NEW calling, NEW u \in Pointer,
           Sound(s, own, calling, u), NEW n, Spare(s, n), NEW prior \in Pointer,
           NEW q \in calling \cup {Null}, NEW p \in {q, Null},
           p = IF prior = Null THEN s.act[n].parent ELSE s.act[prior].parent,
           u # Null => OnTop(s, u, q, calling) /\ s.act[u].suspended /\ s.act[u].parent = p,
           NEW o \in OnStart(f, s, n, prior, u)
    PROVE  /\ Kept(s, own, calling, q, n, o.s) /\ Proper(o.s, o.r)
           /\ o.s.act[n].over = Null /\ o.s.act[n].under = u
<1> DEFINE t == Link(s, n, prior, u)
<1>1. PICK own2 : /\ Sound(t, own2, calling, Null) /\ OnTop(t, n, q, calling)
                  /\ Keeps(s, own, t, own2, calling) /\ t.act[n].over = Null
                  /\ t.act[n].under = u
  BY LinkSoundly
<1>2. PICK v \in StartChild(f, t, n) : o \in Answers(v, n, Changes \cup {"CONTINUE"})
  BY DEF OnStart
<1> HIDE DEF t
<1>3. Kept(t, own2, calling, q, n, v) /\ v.act[n].over = Null /\ v.act[n].under = u
  BY <1>1, StartChildSound
<1>4. Kept(s, own, calling, q, n, v)
  BY <1>1, <1>3, KeptThen
<1>5. n \in Places
  BY DEF Spare
<1> QED BY <1>2, <1>3, <1>4, <1>5, AskedSound DEF SameLinks

\* An action that ended is to be deleted, after what was called since then.
LEMMA DestroyedSound ==
    ASSUME NEW s, NEW own, NEW calling, NEW q \in calling \cup {Null}, NEW a \in Places, Live(s, a),
           NEW e, NEW own2, Keeps(s, own, e, own2, calling), Root(e, own2, a),
           \A i \in DOMAIN e.dead : e.dead[i] # a, e.act[a].parent \in {q, Null},
           NEW t, NEW own3, NEW bare, Sound(t, own3, calling, bare), Keeps(e, own2, t, own3, calling),
           e.act[a].under # Null => Live(t, e.act[a].under),
           bare # Null => /\ e.act[a].under = bare
                          /\ t.act[bare].over # Null /\ t.act[bare].over # a =>
                                OverFits(t, own3, bare, t.act[bare].over),
           NEW b, b # Null => OnTop(t, b, q, calling)
    PROVE  Kept(s, own, calling, q, b, Destroy(t, a))
<1> DEFINE u == Destroy(t, a)
<1>1. /\ t \in Typed /\ calling \subseteq Places /\ \A x \in calling : Live(t, x)
      /\ Keeps(s, own, t, own3, calling)
  BY KeepsTwice DEF Sound, Away
<1>2. /\ t.act[a].under = e.act[a].under /\ t.act[a].parent = e.act[a].parent
      /\ Root(t, own3, a)
  BY DEF Keeps, EndedKept, Root
<1>3. \A i \in DOMAIN t.dead : t.dead[i] # a
  BY DEF Keeps, Root
<1>4. t.act[a].parent # Null => Live(t, t.act[a].parent)
  BY <1>1, <1>2
<1>5. /\ Sound(u, own3, calling, Null) /\ u.act = t.act
      /\ \A x, p : OnTop(t, x, p, calling) => OnTop(u, x, p, calling)
      /\ \A i \in DOMAIN u.dead : u.dead[i] = a \/ \E j \in DOMAIN t.dead : t.dead[j] = u.dead[i]
  BY <1>2, <1>3, <1>4, DestroySound
<1> HIDE DEF u
<1>6. Keeps(s, own, u, own3, calling)
  BY <1>1, <1>5 DEF Keeps, EndedKept, Live
<1>7. Kept(s, own, calling, q, b, u)
  BY <1>5, <1>6 DEF Kept
<1> QED BY <1>7 DEF u

\* An action ends and is to be deleted: what it buried is on top.
LEMMA DroppedSound ==
    ASSUME NEW s, NEW own, NEW calling, Sound(s, own, calling, Null),
           NEW a, NEW q, OnTop(s, a, q, calling)
    PROVE  LET t == Destroy(End(s, a), a)
               u == s.act[a].under IN
           /\ Kept(s, own, calling, q, u, t) /\ SpareKept(s, t)
           /\ u # Null => t.act[u].suspended
<1> DEFINE e == End(s, a)
           t == Destroy(e, a)
           u == s.act[a].under
<1>1. PICK own2 :
               /\ Sound(e, own2, calling, u) /\ Frame(s, e) /\ Keeps(s, own, e, own2, calling)
               /\ Root(e, own2, a) /\ \A i \in DOMAIN e.dead : e.dead[i] # a
               /\ e.act[a].under = u /\ e.act[a].parent = s.act[a].parent
               /\ u # Null => /\ OnTop(e, u, q, calling) /\ e.act[u].suspended
                              /\ e.act[u].parent = e.act[a].parent
               /\ u # Null /\ e.act[u].over # Null /\ e.act[u].over # a =>
                     OverFits(e, own2, u, e.act[u].over)
               /\ \A x \in Places : ~ Live(s, x) => e.act[x] = s.act[x]
               /\ \A x \in Places : e.act[x].goal = s.act[x].goal
  BY EndSound
<1> HIDE DEF e
<1>2. a \in Places /\ Live(s, a) /\ e \in Typed
  BY <1>1 DEF OnTop, Frame
<1>3. t.act = e.act
  BY <1>2, DestroyFields
<1>4. q \in calling \cup {Null} /\ e.act[a].parent \in {q, Null}
  BY <1>1 DEF OnTop
<1>5. Keeps(e, own2, e, own2, calling)
  BY DEF Keeps, EndedKept
<1>6. u # Null => Live(e, u)
  BY <1>1 DEF OnTop
<1>7. SpareKept(s, t)
  BY <1>1, <1>3 DEF SpareKept, Spare, Live
<1>8. Kept(s, own, calling, q, u, t)
  <2> HIDE DEF u
  <2> QED BY <1>1, <1>2, <1>4, <1>5, <1>6, DestroyedSound
<1>9. u # Null => t.act[u].suspended
  BY <1>1, <1>3
<1> QED BY <1>7, <1>8, <1>9 DEF t, e

LEMMA BareSound ==
    ASSUME NEW s, NEW own, NEW calling, NEW b, Sound(s, own, calling, Null)
    PROVE  Sound(s, own, calling, b)
BY PlacesFacts DEF Sound, LinksSound, LinkSound

\* Nothing covers an action on top but what is about to be deleted.
LEMMA TopBare ==
    ASSUME NEW s, NEW own, NEW calling, Sound(s, own, calling, Null),
           NEW a, NEW q, OnTop(s, a, q, calling), s.dead = <<>>
    PROVE  s.act[a].over = Null
<1> SUFFICES ASSUME s.act[a].over # Null PROVE FALSE
  OBVIOUS
<1> DEFINE y == s.act[a].over
<1>1. a \in Places /\ Live(s, a) /\ Used(s, a) /\ a # Null /\ s \in Typed /\ own[a] = Null
  BY PlacesFacts, LiveLinks DEF OnTop, Live, Used, Sound
<1>2. y \in Places /\ OverFits(s, own, a, y)
  BY <1>1, PointingTyped DEF Sound, LinksSound, LinkSound
<1> HIDE DEF y
<1>3. ~ Live(s, y) /\ Used(s, y) /\ s.act[y].under = a
  BY <1>2 DEF OverFits, OnTop
<1>4. LinkSound(s, own, calling, Null, y)
  BY <1>2, <1>3 DEF Sound, LinksSound
<1>5. Root(s, own, y)
  BY <1>1, <1>3, <1>4 DEF LinkSound, UnderFits
<1>6. Earlier(s, y, Null)
  BY <1>1, <1>2, <1>5 DEF OverFits
<1> QED BY <1>6 DEF Earlier

\* What the child answered is applied to it.
LEMMA AppliedBack ==
    ASSUME NEW f, Promises(f), NEW s, NEW own, NEW calling, Sound(s, own, calling, Null),
           NEW a, NEW q, OnTop(s, a, q, calling), NEW c, c # Null,
           NEW v, Kept(s, own, calling \cup {a}, a, c, v), NEW r, Proper(v, r),
           r.type # "CONTINUE" => v.act[c].over = Null, NEW o \in Apply(f, v, c, r)
    PROVE  LET t == SetChild(o.s, a, o.a) IN
           Kept(s, own, calling, q, a, t) /\ t.act[a].over = s.act[a].over
<1> DEFINE more == calling \cup {a}
<1>1. PICK own2 : /\ Sound(v, own2, more, Null) /\ Keeps(s, own, v, own2, more)
                  /\ OnTop(v, c, a, more)
  BY DEF Kept
<1>2. Kept(v, own2, more, a, o.a, o.s)
  BY <1>1 DEF Promises, Applies
<1>3. Kept(s, own, more, a, o.a, o.s)
  BY <1>1, <1>2, KeptThen
<1>4. v \in Typed /\ c \in Pointer /\ r \in Answered
  BY <1>1, PlacesFacts DEF Sound, OnTop, Proper
<1>5. o.a \in Pointer
  BY <1>4 DEF Promises, TypedCalls, TypedOutcomes
<1> QED BY <1>3, <1>5, BackSound

LEMMA DoSuspendSound ==
    ASSUME NEW f, Promises(f), NEW s, NEW own, NEW calling, Sound(s, own, calling, Null),
           NEW a, NEW q, OnTop(s, a, q, calling), NEW o \in DoSuspend(f, s, a)
    PROVE  /\ Kept(s, own, calling, q, o.a, o.s) /\ SpareKept(s, o.s)
           /\ o.a # Null => o.s.act[o.a].suspended
<1> DEFINE c == s.act[a].child
           inner == IF c = Null THEN {s} ELSE {SetChild(w.s, a, w.a) : w \in OnSuspend(f, s, c)}
           more == calling \cup {a}
<1>0. a \in Places /\ a \notin calling /\ s \in Typed
  BY DEF Sound, OnTop
<1>1. PICK t \in inner :
        \E w \in Answers([t EXCEPT !.act[a].suspended = TRUE], a, {"CONTINUE", "DONE"}) :
           o = IF w.r = Done THEN Outcome(Destroy(End(w.s, a), a), w.s.act[a].under, Continue)
                       ELSE Outcome(w.s, a, Continue)
  BY DEF DoSuspend
<1>2. Kept(s, own, calling, q, a, t) /\ SpareKept(s, t)
  <2>1. CASE c = Null
    <3>1. t = s
      BY <2>1
    <3> QED BY <3>1, KeptFirst DEF SpareKept
  <2>2. CASE c # Null
    <3>1. PICK w \in OnSuspend(f, s, c) : t = SetChild(w.s, a, w.a)
      BY <2>2
    <3>2. Sound(s, own, more, Null) /\ OnTop(s, c, a, more)
      BY <2>2, CallingSound, ChildOnTop
    <3>3. c \in Pointer
      BY <1>0, PointersTyped
    <3>4. Kept(s, own, more, a, w.a, w.s) /\ SpareKept(s, w.s)
      BY <3>2 DEF Promises, Suspends
    <3>5. w.a \in Pointer
      BY <1>0, <3>3, ResultsAnswered DEF Promises, TypedCalls, TypedOutcomes
    <3>6. Kept(s, own, calling, q, a, t) /\ Put(w.s, t, a, {"child"})
      BY <3>1, <3>4, <3>5, BackSound
    <3>7. SpareKept(w.s, t)
      <4>1. \A x \in Places : FieldsBut(w.s.act[x], t.act[x], {"child"})
        BY <3>6 DEF Put, FieldsBut
      <4> QED BY <4>1 DEF SpareKept, Spare, FieldsBut
    <3> QED BY <3>4, <3>6, <3>7 DEF SpareKept
  <2> QED BY <2>1, <2>2
<1> HIDE DEF inner, c
<1> DEFINE v == [t EXCEPT !.act[a].suspended = TRUE]
<1>3. PICK w \in Answers(v, a, {"CONTINUE", "DONE"}) :
           o = IF w.r = Done THEN Outcome(Destroy(End(w.s, a), a), w.s.act[a].under, Continue)
                       ELSE Outcome(w.s, a, Continue)
  BY <1>1
<1>4. PICK own2 : /\ Sound(t, own2, calling, Null) /\ Keeps(s, own, t, own2, calling)
                  /\ OnTop(t, a, q, calling)
  BY <1>0, <1>2, PlacesFacts DEF Kept
<1>5. /\ Sound(v, own2, calling, Null) /\ Put(t, v, a, {"suspended"}) /\ v.act[a].suspended
      /\ OnTop(v, a, q, calling) /\ Keeps(t, own2, v, own2, calling)
  <2>1. a \in Places \ calling /\ Live(t, a)
    BY <1>4 DEF OnTop
  <2>2. /\ Sound(v, own2, calling, Null) /\ Put(t, v, a, {"suspended"}) /\ v.act[a].suspended
        /\ Keeps(t, own2, v, own2, calling)
        /\ \A b, p : OnTop(t, b, p, calling) => OnTop(v, b, p, calling)
    BY <1>4, <2>1, SuspendedSound
  <2> HIDE DEF v
  <2> QED BY <1>4, <2>2
<1> HIDE DEF v
<1>6. Kept(t, own2, calling, q, a, v)
  BY <1>5 DEF Kept
<1>7. Kept(s, own, calling, q, a, v)
  BY <1>4, <1>6, KeptThen
<1>8. SpareKept(s, v)
  <2>1. \A x \in Places : FieldsBut(t.act[x], v.act[x], {"suspended"})
    BY <1>5 DEF Put, FieldsBut
  <2> QED BY <1>2, <2>1 DEF SpareKept, Spare, FieldsBut
<1>9. /\ Kept(s, own, calling, q, a, w.s) /\ SpareKept(v, w.s) /\ w.s.act[a].suspended
  BY <1>0, <1>3, <1>5, <1>7, AskedSound DEF SameLinks
<1>10. SpareKept(s, w.s)
  BY <1>8, <1>9 DEF SpareKept
<1>11. CASE w.r # Done
  <2>1. o.s = w.s /\ o.a = a
    BY <1>3, <1>11 DEF Outcome
  <2> QED BY <1>9, <1>10, <2>1
<1>12. CASE w.r = Done
  <2> DEFINE u == w.s.act[a].under
  <2>1. o.s = Destroy(End(w.s, a), a) /\ o.a = u
    BY <1>3, <1>12 DEF Outcome
  <2>2. PICK own3 : /\ Sound(w.s, own3, calling, Null) /\ Keeps(s, own, w.s, own3, calling)
                    /\ OnTop(w.s, a, q, calling)
    BY <1>0, <1>9, PlacesFacts DEF Kept
  <2>3. /\ Kept(w.s, own3, calling, q, o.a, o.s) /\ SpareKept(w.s, o.s)
        /\ o.a # Null => o.s.act[o.a].suspended
    BY <2>1, <2>2, DroppedSound
  <2>4. Kept(s, own, calling, q, o.a, o.s)
    BY <2>2, <2>3, KeptThen
  <2> QED BY <1>10, <2>3, <2>4 DEF SpareKept
<1> QED BY <1>11, <1>12

LEMMA ContinueProper ==
    ASSUME NEW s
    PROVE  Proper(s, Continue) /\ Continue.type = "CONTINUE"
BY ResultsAnswered DEF Proper, Continue, Result

LEMMA DoResumeSound ==
    ASSUME NEW f, Promises(f), NEW s, NEW own, NEW calling, NEW a, NEW q,
           Sound(s, own, calling, a), OnTop(s, a, q, calling), NEW o \in DoResume(f, s, a)
    PROVE  /\ o.a = a
           /\ \/ o.s = s /\ o.r = Continue
              \/ /\ Kept(s, own, calling, q, a, o.s) /\ Proper(o.s, o.r)
                 /\ o.s.act[a].over = Null
<1> DEFINE p == s.act[a].parent
           s1 == [s EXCEPT !.act[a].suspended = FALSE, !.act[a].over = Null]
           s2 == IF p = Null THEN s1 ELSE SetChild(s1, p, a)
           c == s2.act[a].child
           inner == IF c = Null THEN {s2}
                    ELSE UNION {{SetChild(w.s, a, w.a) : w \in Apply(f, v.s, c, v.r)} :
                                v \in OnResume(f, s2, c)}
           types == Changes \cup {"CONTINUE"}
           more == calling \cup {a}
<1>0. /\ a \in Places /\ a \notin calling /\ a # Null /\ a \in Pointer
      /\ p \in {q, Null} /\ q \in calling \cup {Null}
  BY PlacesFacts DEF OnTop
<1>1. CASE o = Outcome(s, a, Continue)
  BY <1>1 DEF Outcome
<1>2. CASE o # Outcome(s, a, Continue)
  <2>9. DoResume(f, s, a) =
          IF ~ s.act[a].suspended \/ Requests(s, a) THEN {Outcome(s, a, Continue)}
          ELSE UNION {{Outcome(w.s, a, w.r) : w \in Answers(t, a, types)} : t \in inner}
    BY DEF DoResume
  <2> HIDE DEF inner, types
  <2>0. PICK t \in inner : \E w \in Answers(t, a, types) : o = Outcome(w.s, a, w.r)
    BY <1>2, <2>9
  <2>1. PICK w \in Answers(t, a, types) : o = Outcome(w.s, a, w.r)
    BY <2>0
  <2>2. /\ Sound(s1, own, calling, Null) /\ s1.act[a].over = Null
        /\ OnTop(s1, a, q, calling) /\ Keeps(s, own, s1, own, calling)
    BY ResumedSound
  <2> HIDE DEF s1
  <2>3. /\ Sound(s2, own, calling, Null) /\ s2.act[a].over = Null
        /\ OnTop(s2, a, q, calling) /\ Keeps(s1, own, s2, own, calling)
    <3>1. CASE p = Null
      <4>1. s2 = s1
        BY <3>1
      <4> QED BY <2>2, <4>1 DEF Keeps, EndedKept
    <3>2. CASE p # Null
      <4>1. p \in calling
        BY <1>0, <3>2
      <4> HIDE DEF p
      <4>2. /\ Sound(s2, own, calling, Null) /\ Put(s1, s2, p, {"child"})
            /\ OnTop(s2, a, q, calling) /\ Keeps(s1, own, s2, own, calling)
        BY <1>0, <2>2, <3>2, <4>1, StaleChild
      <4>3. s2.act[a].over = Null
        BY <1>0, <2>2, <4>1, <4>2 DEF Put
      <4> QED BY <4>2, <4>3
    <3> QED BY <3>1, <3>2
  <2> HIDE DEF s2, p
  <2>4. Kept(s2, own, calling, q, a, t) /\ t.act[a].over = Null
    <3>1. CASE c = Null
      <4>1. t = s2
        BY <2>0, <3>1 DEF inner
      <4> QED BY <2>3, <4>1, KeptFirst
    <3>2. CASE c # Null
      <4>0. PICK v \in OnResume(f, s2, c) : \E x \in Apply(f, v.s, c, v.r) : t = SetChild(x.s, a, x.a)
        BY <2>0, <3>2 DEF inner
      <4>1. PICK x \in Apply(f, v.s, c, v.r) : t = SetChild(x.s, a, x.a)
        BY <4>0
      <4>2. Sound(s2, own, more, Null) /\ OnTop(s2, c, a, more)
        BY <2>3, <3>2, CallingSound, ChildOnTop
      <4> HIDE DEF c
      <4>3. Sound(s2, own, more, c)
        BY <4>2, BareSound
      <4>4. \/ v.s = s2 /\ v.r = Continue
            \/ /\ Kept(s2, own, more, a, c, v.s) /\ Proper(v.s, v.r)
               /\ v.s.act[c].over = Null
        BY <4>2, <4>3 DEF Promises, Resumes
      <4>5. /\ Kept(s2, own, more, a, c, v.s) /\ Proper(v.s, v.r)
            /\ v.r.type # "CONTINUE" => v.s.act[c].over = Null
        BY <4>2, <4>4, KeptFirst, ContinueProper
      <4> QED BY <2>3, <3>2, <4>1, <4>5, AppliedBack
    <3> QED BY <3>1, <3>2
  <2>5. Kept(s, own, calling, q, a, t)
    <3>1. Keeps(s, own, s2, own, calling)
      BY <2>2, <2>3, KeepsTwice DEF Sound
    <3> QED BY <2>4, <3>1, KeptThen
  <2>6. o.a = a /\ o.s = w.s /\ o.r = w.r
    BY <2>1 DEF Outcome
  <2> HIDE DEF types
  <2>7. /\ Kept(s, own, calling, q, a, w.s) /\ Proper(w.s, w.r)
        /\ w.s.act[a].over = Null
    BY <1>0, <2>1, <2>4, <2>5, AskedSound DEF SameLinks
  <2> QED BY <2>6, <2>7
<1> QED BY <1>1, <1>2

\* A pending result is honoured.
LEMMA HonourSound ==
    ASSUME NEW s, NEW own, NEW calling, Sound(s, own, calling, Null),
           NEW a, NEW q, OnTop(s, a, q, calling), s.act[a].over = Null, NEW b \in Places
    PROVE  LET o == Honour(s, a, b) IN
           /\ o.a = a /\ Kept(s, own, calling, q, a, o.s) /\ Proper(o.s, o.r)
           /\ o.s.act[a].over = Null
<1> DEFINE t == ClearEvent(s, b)
           r == Result(s.act[b].want, s.act[b].goal)
           g == s.act[b].goal
<1>0. s \in Typed /\ GoalsSound(s) /\ a \in Places /\ Used(s, a) /\ g \in Pointer
  BY PointersTyped DEF Sound, OnTop, Live, Used
<1>1. /\ \A x \in Places : x # b => t.act[x] = s.act[x]
      /\ SameLinks(s.act[b], t.act[b]) /\ t.act[b].goal = Null
  BY <1>0, ClearSet
<1>2. Stirred(s, t)
  BY <1>0, ClearStirs
<1> HIDE DEF t
<1>3. r \in Answered /\ r.goal = g
  <2>1. s.act[b] \in Actions
    BY <1>0, RecordTyped
  <2> QED BY <2>1 DEF Actions, Action, Answered, Results, Result
<1>4. Proper(t, r)
  <2>1. ASSUME g # Null PROVE Spare(t, g) /\ t.act[g].parent = Null
    <3>1. g \in Places /\ s.act[g].state = "made" /\ s.act[g].parent = Null
      BY <1>0, <2>1, PlacesFacts DEF GoalsSound
    <3>2. t.act[g].state = "made" /\ t.act[g].parent = Null
      BY <1>1, <3>1 DEF SameLinks
    <3>3. \A x \in Places : x # b => t.act[x].goal # g
      BY <1>0, <1>1, <2>1 DEF GoalsSound
    <3> QED BY <1>1, <2>1, <3>1, <3>2, <3>3 DEF Spare
  <2> QED BY <1>3, <2>1 DEF Proper
<1>5. /\ Sound(t, own, calling, Null) /\ Keeps(s, own, t, own, calling)
      /\ OnTop(t, a, q, calling) /\ SameLinks(s.act[a], t.act[a])
  BY <1>0, <1>2, StirredSound
<1>6. Kept(s, own, calling, q, a, t) /\ t.act[a].over = Null
  BY <1>5 DEF Kept, SameLinks
<1>7. Honour(s, a, b) = [s |-> t, a |-> a, r |-> r]
  BY DEF Honour, Outcome, t
<1> HIDE DEF r, g
<1> QED BY <1>4, <1>6, <1>7

LEMMA DoUpdateSound ==
    ASSUME NEW f, Promises(f), NEW s, NEW own, NEW calling, Sound(s, own, calling, Null),
           NEW a, NEW q, OnTop(s, a, q, calling), s.dead = <<>>, NEW o \in DoUpdate(f, s, a)
    PROVE  /\ o.a = a /\ Kept(s, own, calling, q, a, o.s) /\ Proper(o.s, o.r)
           /\ o.s.act[a].over = Null
<1> DEFINE c == s.act[a].child
           inner == IF c = Null THEN {s}
                    ELSE UNION {{SetChild(w.s, a, w.a) : w \in Apply(f, v.s, c, v.r)} :
                                v \in OnUpdate(f, s, c)}
           types == Changes \cup {"CONTINUE"}
           more == calling \cup {a}
<1>0. a \in Places /\ a # Null /\ s.act[a].state = "started"
  BY PlacesFacts DEF OnTop, Live
<1>1. s.act[a].over = Null /\ Kept(s, own, calling, q, a, s)
  BY TopBare, KeptFirst
<1>2. CASE o = Outcome(s, a, Done)
  <2>1. o.a = a /\ o.s = s /\ o.r = Done
    BY <1>2 DEF Outcome
  <2>2. Proper(s, Done)
    BY ResultsAnswered DEF Proper, Done, Result
  <2> QED BY <1>1, <2>1, <2>2
<1>3. CASE \E b \in Pending(s, a) : o = Honour(s, a, b)
  <2>1. PICK b \in Pending(s, a) : o = Honour(s, a, b)
    BY <1>3
  <2>2. b \in Places
    BY <1>0, StackTyped DEF Pending, Asking, Under
  <2> QED BY <1>1, <2>1, <2>2, HonourSound
<1>4. CASE \E t \in inner : \E w \in Answers(t, a, types) : o = Outcome(w.s, a, w.r)
  <2>0. PICK t \in inner : \E w \in Answers(t, a, types) : o = Outcome(w.s, a, w.r)
    BY <1>4
  <2>1. PICK w \in Answers(t, a, types) : o = Outcome(w.s, a, w.r)
    BY <2>0
  <2> HIDE DEF inner
  <2>2. Kept(s, own, calling, q, a, t) /\ t.act[a].over = Null
    <3>1. CASE c = Null
      <4>1. t = s
        BY <2>0, <3>1 DEF inner
      <4> QED BY <1>1, <4>1
    <3>2. CASE c # Null
      <4>0. PICK v \in OnUpdate(f, s, c) : \E x \in Apply(f, v.s, c, v.r) : t = SetChild(x.s, a, x.a)
        BY <2>0, <3>2 DEF inner
      <4>1. PICK x \in Apply(f, v.s, c, v.r) : t = SetChild(x.s, a, x.a)
        BY <4>0
      <4>2. Sound(s, own, more, Null) /\ OnTop(s, c, a, more)
        BY <3>2, CallingSound, ChildOnTop
      <4> HIDE DEF c
      <4>3. /\ Kept(s, own, more, a, c, v.s) /\ Proper(v.s, v.r)
            /\ v.s.act[c].over = Null
        BY <4>2 DEF Promises, Updates
      <4> QED BY <1>1, <3>2, <4>1, <4>3, AppliedBack
    <3> QED BY <3>1, <3>2
  <2>6. o.a = a /\ o.s = w.s /\ o.r = w.r
    BY <2>1 DEF Outcome
  <2> HIDE DEF types
  <2>7. /\ Kept(s, own, calling, q, a, w.s) /\ Proper(w.s, w.r)
        /\ w.s.act[a].over = Null
    BY <1>0, <2>1, <2>2, AskedSound DEF SameLinks
  <2> QED BY <2>6, <2>7
<1>5. \/ o = Outcome(s, a, Done)
      \/ \E b \in Pending(s, a) : o = Honour(s, a, b)
      \/ \E t \in inner : \E w \in Answers(t, a, types) : o = Outcome(w.s, a, w.r)
  BY <1>0 DEF DoUpdate
<1> QED BY <1>2, <1>3, <1>4, <1>5

\* The answer of what is on top then is applied to it.
LEMMA AppliedThen ==
    ASSUME NEW f, Promises(f), NEW s, NEW own, NEW calling, NEW q, NEW b, b # Null,
           NEW t, Kept(s, own, calling, q, b, t), NEW r, Proper(t, r),
           r.type # "CONTINUE" => t.act[b].over = Null, NEW o \in Apply(f, t, b, r)
    PROVE  Kept(s, own, calling, q, o.a, o.s)
<1>1. PICK own2 : /\ Sound(t, own2, calling, Null) /\ Keeps(s, own, t, own2, calling)
                  /\ OnTop(t, b, q, calling)
  BY DEF Kept
<1>2. Kept(t, own2, calling, q, o.a, o.s)
  BY <1>1 DEF Promises, Applies
<1> QED BY <1>1, <1>2, KeptThen

LEMMA ChangeToSound ==
    ASSUME NEW f, Promises(f), NEW s, NEW own, NEW calling, Sound(s, own, calling, Null),
           NEW a, NEW q, OnTop(s, a, q, calling), NEW n, Spare(s, n), s.act[n].parent = Null,
           NEW x \in ChangeTo(f, s, a, n)
    PROVE  Kept(s, own, calling, q, x.a, x.s)
<1> DEFINE e == End(s, a)
           u == s.act[a].under
<1>0. /\ a \in Places /\ Live(s, a) /\ a # n /\ n \in Places /\ n # Null /\ a # Null
      /\ a \in Pointer /\ q \in calling \cup {Null} /\ s.act[a].parent \in {q, Null}
      /\ s \in Typed /\ u \in Pointer
  BY PlacesFacts, PointersTyped DEF OnTop, Spare, Live, Sound
<1>1. PICK o \in OnStart(f, e, n, a, u) : x \in Apply(f, Destroy(o.s, a), n, o.r)
  BY <1>0 DEF ChangeTo
<1>2. PICK own2 :
               /\ Sound(e, own2, calling, u) /\ Frame(s, e) /\ Keeps(s, own, e, own2, calling)
               /\ Root(e, own2, a) /\ \A i \in DOMAIN e.dead : e.dead[i] # a
               /\ e.act[a].under = u /\ e.act[a].parent = s.act[a].parent
               /\ u # Null => /\ OnTop(e, u, q, calling) /\ e.act[u].suspended
                              /\ e.act[u].parent = e.act[a].parent
               /\ u # Null /\ e.act[u].over # Null /\ e.act[u].over # a =>
                     OverFits(e, own2, u, e.act[u].over)
               /\ \A y \in Places : ~ Live(s, y) => e.act[y] = s.act[y]
               /\ \A y \in Places : e.act[y].goal = s.act[y].goal
  BY EndSound
<1> HIDE DEF e, u
<1>3. Spare(e, n)
  BY <1>0, <1>2 DEF Spare, Live
<1>4. /\ Kept(e, own2, calling, q, n, o.s) /\ Proper(o.s, o.r)
      /\ o.s.act[n].over = Null /\ o.s.act[n].under = u
  <2> DEFINE p == e.act[a].parent
  <2>1. p \in {q, Null} /\ p = IF a = Null THEN e.act[n].parent ELSE e.act[a].parent
    BY <1>0, <1>2
  <2>2. u # Null => OnTop(e, u, q, calling) /\ e.act[u].suspended /\ e.act[u].parent = p
    BY <1>2
  <2> HIDE DEF p
  <2> QED BY <1>0, <1>1, <1>2, <1>3, <2>1, <2>2, OnStartSound
<1>5. PICK own3 : /\ Sound(o.s, own3, calling, Null) /\ Keeps(e, own2, o.s, own3, calling)
                  /\ OnTop(o.s, n, q, calling)
  BY <1>0, <1>4 DEF Kept
<1>6. u # Null => Live(o.s, u)
  BY <1>0, <1>4, <1>5, LiveLinks DEF OnTop
<1> DEFINE d == Destroy(o.s, a)
<1>7. Kept(s, own, calling, q, n, d)
  BY <1>0, <1>2, <1>5, <1>6, DestroyedSound
<1>8. d.act = o.s.act
  BY <1>0, <1>5, DestroyFields DEF Sound
<1> HIDE DEF d
<1>9. Proper(d, o.r) /\ d.act[n].over = Null
  BY <1>4, <1>8 DEF Proper, Spare
<1> QED BY <1>0, <1>1, <1>7, <1>9, AppliedThen DEF d

\* An action that was only made is changed to itself.
LEMMA StartsSound ==
    ASSUME NEW f, Promises(f), NEW s, NEW own, NEW calling, Sound(s, own, calling, Null),
           NEW a, NEW q \in calling \cup {Null}, Spare(s, a), s.act[a].parent \in {q, Null},
           NEW x \in ChangeTo(f, s, a, a)
    PROVE  Kept(s, own, calling, q, x.a, x.s)
<1>0. /\ a \in Places /\ ~ Live(s, a) /\ s \in Typed /\ a # Null /\ a \in Pointer
      /\ s.act[a].under = Null /\ Null \in Pointer
  BY PlacesFacts DEF Spare, Live, Sound, GoalsSound
<1>1. End(s, a) = s
  BY <1>0, EndNot
<1>2. PICK o \in OnStart(f, s, a, a, Null) : x \in Apply(f, o.s, a, o.r)
  BY <1>0, <1>1 DEF ChangeTo
<1>3. /\ Kept(s, own, calling, q, a, o.s) /\ Proper(o.s, o.r) /\ o.s.act[a].over = Null
  <2> DEFINE p == s.act[a].parent
  <2>1. p \in {q, Null} /\ p = IF a = Null THEN s.act[a].parent ELSE s.act[a].parent
    OBVIOUS
  <2> HIDE DEF p
  <2> QED BY <1>0, <1>2, <2>1, OnStartSound
<1> QED BY <1>0, <1>2, <1>3, AppliedThen

LEMMA SuspendForSound ==
    ASSUME NEW f, Promises(f), NEW s, NEW own, NEW calling, Sound(s, own, calling, Null),
           NEW a, NEW q, OnTop(s, a, q, calling), s.act[a].over = Null,
           NEW n, Spare(s, n), s.act[n].parent = Null, NEW x \in SuspendFor(f, s, a, n)
    PROVE  Kept(s, own, calling, q, x.a, x.s)
<1>0. /\ a \in Places /\ n \in Places /\ n # Null /\ s \in Typed /\ q \in calling \cup {Null}
      /\ a \in Pointer
  BY PlacesFacts DEF OnTop, Spare, Sound
<1>1. Topmost(s, a) \subseteq {a}
  <2> DEFINE link == [b \in Places |-> At(s.act[b].over)]
  <2>1. {a} \in SUBSET Places /\ {a} \subseteq {a} /\ Closed(link, {a})
    BY <1>0 DEF Closed, At
  <2>2. Reach(link, {a}) \subseteq {a}
    BY <2>1, ReachMinimal
  <2> QED BY <2>2 DEF Topmost
<1>2. PICK o \in OnSuspend(f, s, a) : \E w \in OnStart(f, o.s, n, o.a, o.a) : x \in Apply(f, w.s, n, w.r)
  BY <1>1 DEF SuspendFor
<1>3. PICK w \in OnStart(f, o.s, n, o.a, o.a) : x \in Apply(f, w.s, n, w.r)
  BY <1>2
<1>4. /\ Kept(s, own, calling, q, o.a, o.s) /\ SpareKept(s, o.s)
      /\ o.a # Null => o.s.act[o.a].suspended
  BY DEF Promises, Suspends
<1>5. o.a \in Pointer
  BY <1>0, ResultsAnswered DEF Promises, TypedCalls, TypedOutcomes
<1>6. PICK own2 : /\ Sound(o.s, own2, calling, Null) /\ Keeps(s, own, o.s, own2, calling)
                  /\ o.a # Null => OnTop(o.s, o.a, q, calling)
  BY <1>4 DEF Kept
<1>7. Sound(o.s, own2, calling, o.a)
  BY <1>6, BareSound
<1>8. Spare(o.s, n) /\ o.s.act[n].parent = Null
  BY <1>4 DEF SpareKept
<1>9. Kept(o.s, own2, calling, q, n, w.s) /\ Proper(w.s, w.r) /\ w.s.act[n].over = Null
  <2> DEFINE p == IF o.a = Null THEN o.s.act[n].parent ELSE o.s.act[o.a].parent
  <2>1. p \in {q, Null} /\ (o.a # Null => o.s.act[o.a].parent = p)
    BY <1>6, <1>8 DEF OnTop
  <2>2. p = IF o.a = Null THEN o.s.act[n].parent ELSE o.s.act[o.a].parent
    OBVIOUS
  <2>3. o.a # Null => /\ OnTop(o.s, o.a, q, calling) /\ o.s.act[o.a].suspended
                      /\ o.s.act[o.a].parent = p
    BY <1>4, <1>6, <2>1
  <2> HIDE DEF p
  <2> QED BY <1>0, <1>3, <1>5, <1>7, <1>8, <2>1, <2>2, <2>3, OnStartSound
<1>10. Kept(s, own, calling, q, n, w.s)
  BY <1>6, <1>9, KeptThen
<1> QED BY <1>0, <1>3, <1>9, <1>10, AppliedThen

LEMMA ResumeUnderSound ==
    ASSUME NEW f, Promises(f), NEW s, NEW own, NEW calling, Sound(s, own, calling, Null),
           NEW a, NEW q, OnTop(s, a, q, calling), NEW x \in ResumeUnder(f, s, a)
    PROVE  Kept(s, own, calling, q, x.a, x.s)
<1> DEFINE e == End(s, a)
           b == s.act[a].under
<1>0. /\ a \in Places /\ Live(s, a) /\ q \in calling \cup {Null}
      /\ s.act[a].parent \in {q, Null} /\ s \in Typed /\ b \in Pointer
  BY PlacesFacts, PointersTyped DEF OnTop, Spare, Live, Sound
<1>1. CASE b = Null
  <2>1. x = Outcome(Destroy(e, a), Null, Continue)
    BY <1>1 DEF ResumeUnder
  <2>2. x.a = b /\ x.s = Destroy(e, a)
    BY <1>1, <2>1 DEF Outcome
  <2>3. Kept(s, own, calling, q, b, Destroy(e, a))
    BY DroppedSound
  <2> QED BY <2>2, <2>3
<1>2. CASE b # Null
  <2>1. PICK o \in OnResume(f, e, b) : x \in Apply(f, Destroy(o.s, a), b, o.r)
    BY <1>2 DEF ResumeUnder
  <2>2. PICK own2 :
               /\ Sound(e, own2, calling, b) /\ Frame(s, e) /\ Keeps(s, own, e, own2, calling)
               /\ Root(e, own2, a) /\ \A i \in DOMAIN e.dead : e.dead[i] # a
               /\ e.act[a].under = b /\ e.act[a].parent = s.act[a].parent
               /\ b # Null => /\ OnTop(e, b, q, calling) /\ e.act[b].suspended
                              /\ e.act[b].parent = e.act[a].parent
               /\ b # Null /\ e.act[b].over # Null /\ e.act[b].over # a =>
                     OverFits(e, own2, b, e.act[b].over)
    BY EndSound
  <2> HIDE DEF e, b
  <2> DEFINE d == Destroy(o.s, a)
  <2>3. \/ o.s = e /\ o.r = Continue
        \/ /\ Kept(e, own2, calling, q, b, o.s) /\ Proper(o.s, o.r)
           /\ o.s.act[b].over = Null
    BY <1>2, <2>1, <2>2 DEF Promises, Resumes
  <2>4. CASE o.s = e /\ o.r = Continue
    <3>1. Keeps(e, own2, e, own2, calling)
      BY DEF Keeps, EndedKept
    <3>2. Live(e, b) /\ e.act[a].parent \in {q, Null}
      BY <1>0, <1>2, <2>2 DEF OnTop
    <3>3. Kept(s, own, calling, q, b, Destroy(e, a))
      BY <1>0, <1>2, <2>2, <3>1, <3>2, DestroyedSound
    <3> QED BY <1>2, <2>1, <2>4, <3>3, ContinueProper, AppliedThen
  <2>5. CASE /\ Kept(e, own2, calling, q, b, o.s) /\ Proper(o.s, o.r)
             /\ o.s.act[b].over = Null
    <3>1. PICK own3 : /\ Sound(o.s, own3, calling, Null) /\ Keeps(e, own2, o.s, own3, calling)
                      /\ OnTop(o.s, b, q, calling)
      BY <1>2, <2>5 DEF Kept
    <3>2. Live(o.s, b) /\ e.act[a].parent \in {q, Null}
      BY <1>0, <2>2, <3>1 DEF OnTop
    <3>3. Kept(s, own, calling, q, b, d)
      BY <1>0, <2>2, <3>1, <3>2, DestroyedSound
    <3>4. d.act = o.s.act
      BY <1>0, <3>1, DestroyFields DEF Sound
    <3> HIDE DEF d
    <3>5. Proper(d, o.r) /\ d.act[b].over = Null
      BY <2>5, <3>4 DEF Proper, Spare
    <3> QED BY <1>2, <2>1, <3>3, <3>5, AppliedThen DEF d
  <2> QED BY <2>3, <2>4, <2>5
<1> QED BY <1>1, <1>2

LEMMA DoApplySound ==
    ASSUME NEW f, Promises(f), NEW s, NEW own, NEW calling, Sound(s, own, calling, Null),
           NEW a, NEW q, OnTop(s, a, q, calling), NEW r, Proper(s, r),
           r.type # "CONTINUE" => s.act[a].over = Null, NEW o \in DoApply(f, s, a, r)
    PROVE  Kept(s, own, calling, q, o.a, o.s)
<1>1. r.type \in {"CHANGE_TO", "SUSPEND_FOR", "DONE", "CONTINUE"}
  BY DEF Proper, Answered, Results, Changes
<1>2. r.type \in {"CHANGE_TO", "SUSPEND_FOR"} => Spare(s, r.goal) /\ s.act[r.goal].parent = Null
  BY DEF Proper, Answered
<1>3. CASE r.type = "CHANGE_TO"
  BY <1>2, <1>3, ChangeToSound DEF DoApply
<1>4. CASE r.type = "SUSPEND_FOR"
  BY <1>2, <1>4, SuspendForSound DEF DoApply
<1>5. CASE r.type = "DONE"
  BY <1>5, ResumeUnderSound DEF DoApply
<1>6. CASE r.type = "CONTINUE"
  <2>1. o = Outcome(s, a, Continue)
    BY <1>6 DEF DoApply
  <2>2. o.a = a /\ o.s = s
    BY <2>1 DEF Outcome
  <2> QED BY <2>2, KeptFirst
<1> QED BY <1>1, <1>3, <1>4, <1>5, <1>6

LEMMA RunsPromise == \A n \in Nat : Promises(Runs[n])
<1> DEFINE S == {n \in Nat : Promises(Runs[n])}
<1>0. \A what \in {"apply", "suspend", "resume", "update"}, s \in Typed, a \in Pointer,
         r \in Answered : [what |-> what, s |-> s, a |-> a, r |-> r] \in Calls
  BY DEF Calls, Typed, Answered
<1>a. Continue \in Answered /\ \A p \in Places : Result("CHANGE_TO", p) \in Answered
  BY ResultsAnswered
<1>b. ASSUME NEW s, NEW own, NEW calling, NEW bare, NEW a, NEW q,
             Sound(s, own, calling, bare), OnTop(s, a, q, calling)
      PROVE  s \in Typed /\ a \in Places /\ a \in Pointer /\ a # Null
  <2>1. s \in Typed
    BY <1>b DEF Sound
  <2>2. a \in Places
    BY <1>b DEF OnTop
  <2> QED BY <2>1, <2>2, PlacesFacts
<1>c. ASSUME NEW s, NEW own, NEW calling, NEW bare, NEW a,
             Sound(s, own, calling, bare), Spare(s, a)
      PROVE  s \in Typed /\ a \in Places /\ a \in Pointer /\ a # Null
  <2>1. s \in Typed
    BY <1>c DEF Sound
  <2>2. a \in Places
    BY <1>c DEF Spare
  <2> QED BY <2>1, <2>2, PlacesFacts
<1>d. \A s, r : Proper(s, r) => r \in Answered
  BY DEF Proper
<1>1. 0 \in S
  <2>1. \A c \in Calls : Runs[0][c] = {}
    BY RunsUnfold DEF NoCall
  <2>2. TypedCalls(Runs[0])
    BY RunsTyped
  <2>3. \A s \in Typed, a \in Pointer, r \in Answered :
           /\ Apply(Runs[0], s, a, r) = {} /\ OnSuspend(Runs[0], s, a) = {}
           /\ OnResume(Runs[0], s, a) = {} /\ OnUpdate(Runs[0], s, a) = {}
    BY <1>0, <1>a, <2>1 DEF Apply, OnSuspend, OnResume, OnUpdate
  <2> DEFINE f == Runs[0]
  <2> HIDE DEF f
  <2>4. Suspends(f) /\ Resumes(f) /\ Updates(f)
    BY <1>a, <1>b, <2>3 DEF Suspends, Resumes, Updates, f
  <2>5. Applies(f)
    BY <1>b, <1>d, <2>3 DEF Applies, f
  <2>6. Starts(f)
    BY <1>a, <1>c, <2>3 DEF Starts, f
  <2> QED BY <2>2, <2>4, <2>5, <2>6 DEF Promises, f
<1>2. ASSUME NEW n \in Nat, n \in S PROVE n + 1 \in S
  <2> DEFINE f == Runs[n]
             g == Runs[n + 1]
  <2>1. Promises(f)
    BY <1>2
  <2>2. g = CallStep(f) /\ TypedCalls(g)
    BY RunsUnfold, RunsTyped
  <2> HIDE DEF f, g
  <2>3. ASSUME NEW s \in Typed, NEW a \in Pointer, NEW r \in Answered, a # Null
        PROVE  /\ Apply(g, s, a, r) = DoApply(f, s, a, r)
               /\ OnSuspend(g, s, a) = DoSuspend(f, s, a)
               /\ OnResume(g, s, a) = DoResume(f, s, a)
               /\ OnUpdate(g, s, a) = DoUpdate(f, s, a)
    <3>1. Apply(g, s, a, r) = DoApply(f, s, a, r)
      BY <1>0, <2>2, <2>3 DEF Apply, CallStep, Call
    <3>2. OnSuspend(g, s, a) = DoSuspend(f, s, a)
      BY <1>0, <1>a, <2>2, <2>3 DEF OnSuspend, CallStep, Call
    <3>3. OnResume(g, s, a) = DoResume(f, s, a)
      BY <1>0, <1>a, <2>2, <2>3 DEF OnResume, CallStep, Call
    <3>4. OnUpdate(g, s, a) = DoUpdate(f, s, a)
      BY <1>0, <1>a, <2>2, <2>3 DEF OnUpdate, CallStep, Call
    <3> QED BY <3>1, <3>2, <3>3, <3>4
  <2>4. Suspends(g)
    <3> SUFFICES ASSUME NEW s, NEW own, NEW calling, NEW a, NEW q,
                        Sound(s, own, calling, Null), OnTop(s, a, q, calling),
                        NEW o \in OnSuspend(g, s, a)
                 PROVE  /\ Kept(s, own, calling, q, o.a, o.s) /\ SpareKept(s, o.s)
                        /\ o.a # Null => o.s.act[o.a].suspended
      BY DEF Suspends
    <3>1. o \in DoSuspend(f, s, a)
      BY <1>a, <1>b, <2>3
    <3> QED BY <2>1, <3>1, DoSuspendSound
  <2>5. Resumes(g)
    <3> SUFFICES ASSUME NEW s, NEW own, NEW calling, NEW a, NEW q,
                        Sound(s, own, calling, a), OnTop(s, a, q, calling),
                        NEW o \in OnResume(g, s, a)
                 PROVE  /\ o.a = a
                        /\ \/ o.s = s /\ o.r = Continue
                           \/ /\ Kept(s, own, calling, q, a, o.s) /\ Proper(o.s, o.r)
                              /\ o.s.act[a].over = Null
      BY DEF Resumes
    <3>1. o \in DoResume(f, s, a)
      BY <1>a, <1>b, <2>3
    <3> QED BY <2>1, <3>1, DoResumeSound
  <2>6. Updates(g)
    <3> SUFFICES ASSUME NEW s, NEW own, NEW calling, NEW a, NEW q, s.dead = <<>>,
                        Sound(s, own, calling, Null), OnTop(s, a, q, calling),
                        NEW o \in OnUpdate(g, s, a)
                 PROVE  /\ o.a = a /\ Kept(s, own, calling, q, a, o.s) /\ Proper(o.s, o.r)
                        /\ o.s.act[a].over = Null
      BY DEF Updates
    <3>1. o \in DoUpdate(f, s, a)
      BY <1>a, <1>b, <2>3
    <3> QED BY <2>1, <3>1, DoUpdateSound
  <2>7. Applies(g)
    <3> SUFFICES ASSUME NEW s, NEW own, NEW calling, NEW a, NEW q, NEW r,
                        Sound(s, own, calling, Null), OnTop(s, a, q, calling), Proper(s, r),
                        r.type # "CONTINUE" => s.act[a].over = Null,
                        NEW o \in Apply(g, s, a, r)
                 PROVE  Kept(s, own, calling, q, o.a, o.s)
      BY DEF Applies
    <3>1. o \in DoApply(f, s, a, r)
      BY <1>b, <1>d, <2>3
    <3> QED BY <2>1, <3>1, DoApplySound
  <2>8. Starts(g)
    <3> SUFFICES ASSUME NEW s, NEW own, NEW calling, NEW a, NEW q \in calling \cup {Null},
                        Sound(s, own, calling, Null), Spare(s, a), s.act[a].parent \in {q, Null},
                        NEW o \in Apply(g, s, a, Result("CHANGE_TO", a))
                 PROVE  Kept(s, own, calling, q, o.a, o.s)
      BY DEF Starts
    <3> DEFINE r == Result("CHANGE_TO", a)
    <3>1. r \in Answered /\ r.type = "CHANGE_TO" /\ r.goal = a
      BY <1>a, <1>c DEF Result
    <3> HIDE DEF r
    <3>2. o \in DoApply(f, s, a, r)
      BY <1>c, <2>3, <3>1 DEF r
    <3>3. o \in ChangeTo(f, s, a, a)
      BY <3>1, <3>2 DEF DoApply
    <3> QED BY <2>1, <3>3, StartsSound
  <2> QED BY <2>2, <2>4, <2>5, <2>6, <2>7, <2>8 DEF Promises, g
<1>3. S \in SUBSET Nat
  OBVIOUS
<1> HIDE DEF S
<1>4. S = Nat
  BY <1>1, <1>2, <1>3, NatAll
<1> QED BY <1>4 DEF S
-----------------------------------------------------------------------------
(* The actions to be deleted are deleted one after another.                *)

\* The first of them, its children, and what they were to change to.
Tree(s, r) == {r} \cup Below(s, r)

LEMMA DeadFacts ==
    ASSUME NEW d \in Seq(Places), d # <<>>
    PROVE  /\ Head(d) \in Places /\ Tail(d) \in Seq(Places) /\ Head(d) = d[1]
           /\ \E n \in Nat : /\ DOMAIN d = 1..(n + 1) /\ DOMAIN Tail(d) = 1..n
                             /\ \A i \in 1..n : Tail(d)[i] = d[i + 1]
<1>1. Len(d) \in Nat /\ Len(d) # 0 /\ DOMAIN d = 1..Len(d)
  OBVIOUS
<1> DEFINE n == Len(d) - 1
<1>2. n \in Nat /\ Len(d) = n + 1
  BY <1>1
<1>3. Head(d) \in Places /\ Tail(d) \in Seq(Places) /\ Head(d) = d[1]
  OBVIOUS
<1>4. DOMAIN Tail(d) = 1..n /\ \A i \in 1..n : Tail(d)[i] = d[i + 1]
  OBVIOUS
<1> QED BY <1>1, <1>2, <1>3, <1>4

\* What such a tree is made of.
InTreeOf(s, own, r, x) == \/ s.act[x].state = "ended" /\ own[x] = r /\ ~ Root(s, own, x)
                          \/ s.act[x].state = "made"

LEMMA TreeFacts ==
    ASSUME NEW s, NEW own, Sound(s, own, {}, Null), NEW r \in Places, Root(s, own, r)
    PROVE  LET B == Below(s, r) IN
           /\ B \in SUBSET Places /\ Closed(Own(s), B) /\ r \notin B
           /\ \A x \in B : InTreeOf(s, own, r, x)
           /\ \A x \in B : \/ x = s.act[r].child \/ x = s.act[r].goal
                           \/ \E y \in B : x \in Owned(s, y)
<1> DEFINE c == s.act[r].child
           g == s.act[r].goal
           B == Below(s, r)
           C == {x \in Places : InTreeOf(s, own, r, x)}
<1>0. s \in Typed /\ Used(s, r) /\ own[r] = r /\ r # Null
  BY PlacesFacts DEF Sound, Root, Used
<1>1. /\ c \in Pointer /\ g \in Pointer /\ Own(s) \in Links
      /\ At(c) \in SUBSET Places /\ At(g) \in SUBSET Places
      /\ \A a \in Places : Own(s)[a] = Owned(s, a)
  BY <1>0, PointersTyped, OwnFacts
<1>2. B = Reach(Own(s), At(c)) \cup Reach(Own(s), At(g))
  BY <1>0, <1>1, OwnFacts DEF Below
<1>3. B \in SUBSET Places /\ Closed(Own(s), B)
  <2>1. /\ Closed(Own(s), Reach(Own(s), At(c))) /\ Reach(Own(s), At(c)) \in SUBSET Places
        /\ Closed(Own(s), Reach(Own(s), At(g))) /\ Reach(Own(s), At(g)) \in SUBSET Places
    BY <1>1, ReachCloses
  <2> HIDE DEF c, g
  <2> QED BY <1>2, <2>1 DEF Closed
<1>4. \A x \in Places : Used(s, x) => LinkSound(s, own, {}, Null, x)
  BY DEF Sound, LinksSound
<1>5. c # Null => c \in C
  <2>1. ASSUME c # Null PROVE c \in Places /\ ChildFits(s, own, r, c)
    BY <1>0, <1>4, <2>1, PointingTyped DEF LinkSound
  <2> HIDE DEF c
  <2>2. ASSUME c # Null PROVE c \in Places /\ Used(s, c) /\ own[c] = r /\ ~ Root(s, own, c)
    BY <1>0, <2>1, <2>2 DEF ChildFits
  <2>3. ASSUME c # Null PROVE s.act[c].state = "ended"
    BY <1>0, <1>4, <2>2, <2>3 DEF LinkSound, Live, Used
  <2> QED BY <2>2, <2>3 DEF InTreeOf
<1>6. \A x \in Places : s.act[x].goal # Null =>
          s.act[x].goal \in Places /\ s.act[s.act[x].goal].state = "made"
  BY <1>0, PointingTyped DEF Sound, GoalsSound
<1>7. g # Null => g \in C
  BY <1>0, <1>6 DEF InTreeOf
<1>8. Closed(Own(s), C)
  <2> SUFFICES ASSUME NEW x \in C, NEW y \in Owned(s, x) PROVE y \in C
    BY <1>1 DEF Closed
  <2>1. x \in Places /\ InTreeOf(s, own, r, x) /\ y \in Places
    BY <1>1, OwnFacts, <1>0
  <2>2. CASE s.act[x].state = "made"
    <3>1. /\ s.act[x].under = Null /\ s.act[x].child = Null /\ s.act[x].goal = Null
      BY <2>1, <2>2 DEF Sound, GoalsSound, Used
    <3> QED BY <3>1 DEF Owned
  <2>3. CASE s.act[x].state = "ended" /\ own[x] = r /\ ~ Root(s, own, x)
    <3>1. LinkSound(s, own, {}, Null, x) /\ y # Null
      BY <1>4, <2>1, <2>3, PlacesFacts DEF Used
    <3>2. y \in {s.act[x].under, s.act[x].child, s.act[x].goal}
      BY DEF Owned
    <3>3. CASE y = s.act[x].goal
      BY <1>6, <2>1, <3>1, <3>3 DEF InTreeOf
    <3>4. CASE y = s.act[x].under \/ y = s.act[x].child
      <4>1. Used(s, y) /\ own[y] = r /\ ~ Root(s, own, y)
        BY <2>3, <3>1, <3>4 DEF LinkSound, UnderFits, ChildFits
      <4>2. s.act[y].state = "ended"
        BY <1>0, <1>4, <2>1, <4>1 DEF LinkSound, Live, Used
      <4> QED BY <2>1, <4>1, <4>2 DEF InTreeOf
    <3> QED BY <3>2, <3>3, <3>4
  <2> QED BY <2>1, <2>2, <2>3 DEF InTreeOf
<1>9. B \subseteq C
  <2>1. C \in SUBSET Places /\ At(c) \subseteq C /\ At(g) \subseteq C
    BY <1>5, <1>7 DEF At
  <2> HIDE DEF C
  <2>2. Reach(Own(s), At(c)) \subseteq C /\ Reach(Own(s), At(g)) \subseteq C
    BY <1>8, <2>1, ReachMinimal
  <2> QED BY <1>2, <2>2
<1>10. r \notin B
  <2>1. ~ InTreeOf(s, own, r, r)
    BY DEF InTreeOf, Root
  <2> QED BY <1>9, <2>1
<1>11. ASSUME NEW x \in B PROVE x = c \/ x = g \/ \E y \in B : x \in Owned(s, y)
  <2> HIDE DEF B
  <2>1. ASSUME NEW p, At(p) \in SUBSET Places, x \in Reach(Own(s), At(p))
        PROVE  x = p \/ \E y \in Reach(Own(s), At(p)) : x \in Owned(s, y)
    <3>1. x \in At(p) \/ \E y \in Reach(Own(s), At(p)) : x \in Own(s)[y]
      BY <1>1, <2>1, ReachOwner
    <3>2. Reach(Own(s), At(p)) \in SUBSET Places
      BY <1>1, <2>1, ReachCloses
    <3> QED BY <1>1, <3>1, <3>2 DEF At
  <2>2. CASE x \in Reach(Own(s), At(c))
    BY <1>1, <1>2, <2>1, <2>2
  <2>3. CASE x \in Reach(Own(s), At(g))
    BY <1>1, <1>2, <2>1, <2>3
  <2> QED BY <1>2, <2>2, <2>3
<1> HIDE DEF B
<1>12. \A x \in B : InTreeOf(s, own, r, x)
  BY <1>9
<1> QED BY <1>3, <1>10, <1>11, <1>12 DEF B

\* Who points to an action of the tree is in it.
LEMMA TreeOwners ==
    ASSUME NEW s, NEW own, Sound(s, own, {}, Null), NEW r \in Places, Root(s, own, r),
           NEW x \in Places, NEW y \in Tree(s, r),
           \/ s.act[x].goal = y
           \/ Used(s, x) /\ s.act[x].child = y
           \/ Used(s, x) /\ ~ Root(s, own, x) /\ s.act[x].under = y
    PROVE  x \in Tree(s, r) /\ y # r
<1> DEFINE B == Below(s, r)
<1>1. /\ B \in SUBSET Places /\ r \notin B
      /\ \A z \in B : InTreeOf(s, own, r, z)
      /\ \A z \in B : \/ z = s.act[r].child \/ z = s.act[r].goal
                      \/ \E w \in B : z \in Owned(s, w)
  BY TreeFacts
<1> HIDE DEF B
<1>2. y \in Places /\ y # Null /\ y \in {r} \cup B
  BY <1>1, PlacesFacts DEF Tree, B
<1>3. Used(s, r) /\ GoalsSound(s) /\ OnceSound(s, own, {}) /\ LinksSound(s, own, {}, Null)
  BY DEF Sound, Root, Used
<1>4. s.act[x].goal = y => s.act[y].state = "made"
  BY <1>2, <1>3 DEF GoalsSound
<1>5. Used(s, x) /\ s.act[x].child = y => Used(s, y) /\ ~ Root(s, own, y)
  BY <1>2, <1>3 DEF LinksSound, LinkSound, ChildFits
<1>6. Used(s, x) /\ ~ Root(s, own, x) /\ s.act[x].under = y => Used(s, y) /\ ~ Root(s, own, y)
  BY <1>2, <1>3 DEF LinksSound, LinkSound, UnderFits
<1>7. y # r
  BY <1>4, <1>5, <1>6 DEF Root
<1>8. ASSUME NEW w \in {r} \cup B, s.act[w].goal = y PROVE x \in {r} \cup B
  <2>1. w \in Places /\ s.act[y].state = "made"
    BY <1>1, <1>2, <1>3, <1>8 DEF GoalsSound
  <2>2. s.act[x].goal = y
    BY <1>5, <1>6, <2>1 DEF Used
  <2>3. x = w
    BY <1>2, <1>3, <1>8, <2>1, <2>2 DEF GoalsSound
  <2> QED BY <1>8, <2>3
<1>9. ASSUME NEW w \in {r} \cup B, Used(s, w), s.act[w].child = y PROVE x \in {r} \cup B
  <2>1. w \in Places /\ Used(s, y)
    BY <1>1, <1>2, <1>3, <1>9 DEF LinksSound, LinkSound, ChildFits
  <2>2. s.act[x].goal # y
    BY <1>4, <2>1 DEF Used
  <2>3. ~ (Used(s, x) /\ ~ Root(s, own, x) /\ s.act[x].under = y)
    BY <1>2, <1>3, <1>9, <2>1 DEF OnceSound
  <2>4. x = w
    BY <1>2, <1>3, <1>9, <2>1, <2>2, <2>3 DEF OnceSound
  <2> QED BY <1>9, <2>4
<1>10. ASSUME NEW w \in B, Used(s, w), s.act[w].under = y PROVE x \in {r} \cup B
  <2>1. w \in Places /\ ~ Root(s, own, w)
    BY <1>1, <1>10 DEF InTreeOf, Used, Root
  <2>2. Used(s, y)
    BY <1>2, <1>3, <1>10, <2>1 DEF LinksSound, LinkSound, UnderFits
  <2>3. s.act[x].goal # y
    BY <1>4, <2>2 DEF Used
  <2>4. ~ (Used(s, x) /\ s.act[x].child = y)
    BY <1>2, <1>3, <1>10, <2>1 DEF OnceSound
  <2>5. x = w
    BY <1>2, <1>3, <1>10, <2>1, <2>3, <2>4 DEF OnceSound
  <2> QED BY <1>10, <2>5
<1>11. y \in B
  BY <1>2, <1>7
<1>12. ASSUME y = s.act[r].child PROVE x \in {r} \cup B
  BY <1>3, <1>9, <1>12
<1>13. ASSUME y = s.act[r].goal PROVE x \in {r} \cup B
  BY <1>8, <1>13
<1>14. ASSUME \E w \in B : y \in Owned(s, w) PROVE x \in {r} \cup B
  <2>1. PICK w \in B : y \in Owned(s, w)
    BY <1>14
  <2>2. y = s.act[w].goal \/ y = s.act[w].child \/ y = s.act[w].under
    BY <2>1 DEF Owned
  <2>3. w \in Places /\ ~ Used(s, w) => s.act[w].state = "made"
    BY <1>1 DEF InTreeOf, Used
  <2>4. ~ Used(s, w) => s.act[w].under = Null /\ s.act[w].child = Null
    BY <1>1, <1>3, <2>1, <2>3 DEF GoalsSound
  <2> QED BY <1>2, <1>8, <1>9, <1>10, <2>2, <2>4
<1>15. x \in {r} \cup B
  BY <1>1, <1>11, <1>12, <1>13, <1>14
<1> QED BY <1>7, <1>15 DEF Tree, B

\* The first of the dead is covered by nothing, and was part of nothing in its tree.
LEMMA FirstDead ==
    ASSUME NEW s, NEW own, Sound(s, own, {}, Null), 1 \in DOMAIN s.dead, NEW r, r = s.dead[1]
    PROVE  /\ r \in Places /\ Root(s, own, r) /\ s.act[r].over = Null
           /\ \A q \in {s.act[r].under, s.act[r].parent} : q # Null =>
                 q \in Places /\ Used(s, q) /\ own[q] # r /\ q \notin Tree(s, r)
           /\ \A x \in Places : Used(s, x) => s.act[x].child # r
           /\ \A x \in Places : Used(s, x) /\ ~ Root(s, own, x) => s.act[x].under # r
           /\ \A y \in Places : Root(s, own, y) => ~ Earlier(s, y, r)
<1>1. r \in Places /\ Root(s, own, r)
  BY DeadPlaces DEF Sound, DeadSound
<1>2. \A y \in Places : ~ Earlier(s, y, r)
  <2>1. s.dead \in Seq(Places)
    BY DEF Sound, Typed, Memories
  <2>2. DOMAIN s.dead \subseteq Nat /\ \A i \in DOMAIN s.dead : 1 <= i
    BY <2>1
  <2> QED BY <2>2 DEF Earlier
<1>3. r \in Tree(s, r)
  BY DEF Tree
<1>4. /\ \A x \in Places : Used(s, x) => s.act[x].child # r
      /\ \A x \in Places : Used(s, x) /\ ~ Root(s, own, x) => s.act[x].under # r
  BY <1>1, <1>3, TreeOwners
<1>5. s.act[r].over = Null
  <2> SUFFICES ASSUME s.act[r].over # Null PROVE FALSE
    OBVIOUS
  <2> DEFINE y == s.act[r].over
  <2>1. y \in Places /\ OverFits(s, own, r, y)
    BY <1>1, PointingTyped, PlacesFacts DEF Sound, LinksSound, LinkSound, Root, Used
  <2>2. own[r] = r
    BY <1>1 DEF Root
  <2> HIDE DEF y
  <2> QED BY <1>2, <1>4, <2>1, <2>2 DEF OverFits
<1>6. ASSUME NEW q \in {s.act[r].under, s.act[r].parent}, q # Null
      PROVE  q \in Places /\ Used(s, q) /\ own[q] # r /\ q \notin Tree(s, r)
  <2>1. q \in Places /\ AfterDead(s, own, 1, q)
    BY <1>1, <1>6, PointingTyped DEF Sound, DeadSound
  <2>2. Used(s, q) /\ own[q] # r
    BY <2>1 DEF AfterDead
  <2>3. q # r
    BY <1>1, <2>2 DEF Root
  <2>4. q \notin Below(s, r)
    BY <1>1, <2>2, TreeFacts DEF InTreeOf, Used
  <2> QED BY <2>1, <2>2, <2>3, <2>4 DEF Tree
<1> QED BY <1>1, <1>2, <1>4, <1>5, <1>6

LEMMA FirstDeletable ==
    ASSUME NEW s, NEW own, Sound(s, own, {}, Null), 1 \in DOMAIN s.dead, NEW r, r = s.dead[1]
    PROVE  Deletable(s, r)
<1> DEFINE B == Below(s, r)
<1>0. /\ s \in Typed /\ GoalsSound(s) /\ OnceSound(s, own, {}) /\ LinksSound(s, own, {}, Null)
  BY DEF Sound
<1>1. /\ r \in Places /\ Root(s, own, r) /\ s.act[r].over = Null
      /\ \A q \in {s.act[r].under, s.act[r].parent} : q # Null =>
                 q \in Places /\ Used(s, q) /\ q \notin Tree(s, r)
      /\ \A y \in Places : Root(s, own, y) => ~ Earlier(s, y, r)
  BY FirstDead
<1>2. /\ B \in SUBSET Places /\ Closed(Own(s), B) /\ r \notin B
      /\ \A z \in B : InTreeOf(s, own, r, z)
      /\ \A z \in B : \/ z = s.act[r].child \/ z = s.act[r].goal
                      \/ \E w \in B : z \in Owned(s, w)
  BY <1>1, TreeFacts
<1>3. Tree(s, r) = {r} \cup B
  BY DEF Tree
<1>4. Used(s, r) /\ own[r] = r
  BY <1>1 DEF Root, Used
<1> HIDE DEF B
<1>5. ASSUME NEW x \in {r} \cup B, s.act[x].goal # Null
      PROVE  LET g == s.act[x].goal IN
             /\ Owned(s, g) = {} /\ s.act[g].parent = Null /\ s.act[g].over = Null
             /\ s.act[g].state = "made" /\ g \in Places
  <2> DEFINE g == s.act[x].goal
  <2>1. x \in Places
    BY <1>1, <1>2
  <2>2. g \in Places /\ s.act[g].state = "made" /\ s.act[g].parent = Null
    BY <1>0, <1>5, <2>1, PointingTyped DEF GoalsSound
  <2> HIDE DEF g
  <2>3. /\ s.act[g].under = Null /\ s.act[g].child = Null /\ s.act[g].over = Null
        /\ s.act[g].goal = Null
    BY <1>0, <2>2 DEF GoalsSound, Used
  <2>4. Owned(s, g) = {}
    BY <2>3 DEF Owned
  <2> QED BY <2>2, <2>3, <2>4 DEF g
<1>6. ASSUME NEW x \in {r} \cup B, s.act[x].child # Null
      PROVE  LET c == s.act[x].child IN
             Used(s, x) /\ Used(s, c) /\ c \in Places /\ s.act[c].parent \in {x, Null}
  <2>1. x \in Places /\ (x = r \/ InTreeOf(s, own, r, x))
    BY <1>1, <1>2
  <2>2. Used(s, x)
    BY <1>0, <1>4, <1>6, <2>1 DEF InTreeOf, Used, GoalsSound
  <2> QED BY <1>0, <1>6, <2>1, <2>2, PointingTyped DEF LinksSound, LinkSound, ChildFits
<1>7. ASSUME NEW x \in B, s.act[x].under # Null
      PROVE  LET u == s.act[x].under IN
             /\ Used(s, x) /\ Used(s, u) /\ u \in Places /\ s.act[u].parent = s.act[x].parent
             /\ ~ Root(s, own, x)
  <2>1. x \in Places /\ InTreeOf(s, own, r, x)
    BY <1>2
  <2>2. Used(s, x) /\ ~ Root(s, own, x)
    BY <1>0, <1>7, <2>1 DEF InTreeOf, Used, GoalsSound
  <2> QED BY <1>0, <1>7, <2>1, <2>2, PointingTyped DEF LinksSound, LinkSound, UnderFits
<1>8. \A x, y \in Places : x # y /\ s.act[x].goal # Null => s.act[x].goal # s.act[y].goal
  BY <1>0 DEF GoalsSound
<1>9. \A x \in Places : s.act[x].state = "made" => ~ Used(s, x)
  BY DEF Used
<1>10. ASSUME NEW x \in B, NEW y \in {r} \cup B, x # y, NEW z \in Owned(s, x),
              y = r => z \in {s.act[r].child, s.act[r].goal}, z \in Owned(s, y)
       PROVE  FALSE
  <2>0. x \in Places /\ y \in Places /\ z # Null
    BY <1>1, <1>2 DEF Owned
  <2>1. z \in {s.act[x].under, s.act[x].child, s.act[x].goal}
    BY DEF Owned
  <2>2. z \in {s.act[y].under, s.act[y].child, s.act[y].goal} /\
        (y = r => z \in {s.act[y].child, s.act[y].goal})
    BY <1>10 DEF Owned
  <2>3. y = r \/ y \in B
    OBVIOUS
  <2>4. CASE z = s.act[x].goal
    <3>1. ~ Used(s, z)
      BY <1>5, <1>9, <2>0, <2>4
    <3>2. z # s.act[y].child
      BY <1>6, <2>0, <3>1
    <3>3. y \in B => z # s.act[y].under
      BY <1>7, <2>0, <3>1
    <3>4. z # s.act[y].goal
      BY <1>8, <1>10, <2>0, <2>4
    <3> QED BY <2>2, <2>3, <3>2, <3>3, <3>4
  <2>5. CASE z = s.act[x].child
    <3>1. Used(s, z) /\ Used(s, x)
      BY <1>6, <2>0, <2>5
    <3>2. z # s.act[y].goal
      BY <1>5, <1>9, <2>0, <3>1
    <3>3. z # s.act[y].child
      BY <1>0, <1>6, <1>10, <2>0, <2>5, <3>1 DEF OnceSound
    <3>4. y \in B => z # s.act[y].under
      BY <1>0, <1>7, <2>0, <2>5, <3>1 DEF OnceSound
    <3> QED BY <2>2, <2>3, <3>2, <3>3, <3>4
  <2>6. CASE z = s.act[x].under
    <3>1. Used(s, z) /\ Used(s, x) /\ ~ Root(s, own, x)
      BY <1>7, <2>0, <2>6
    <3>2. z # s.act[y].goal
      BY <1>5, <1>9, <2>0, <3>1
    <3>3. z # s.act[y].child
      BY <1>0, <1>6, <2>0, <2>6, <3>1 DEF OnceSound
    <3>4. y \in B => z # s.act[y].under
      BY <1>0, <1>7, <1>10, <2>0, <2>6, <3>1 DEF OnceSound
    <3> QED BY <2>2, <2>3, <3>2, <3>3, <3>4
  <2> QED BY <2>1, <2>4, <2>5, <2>6
<1>11. ASSUME NEW x \in {r} \cup B
       PROVE  /\ s.act[x].child # Null => s.act[x].child # s.act[x].goal
              /\ x # r => /\ s.act[x].child # Null => s.act[x].child # s.act[x].under
                          /\ s.act[x].goal # Null => s.act[x].goal # s.act[x].under
  <2>0. x \in Places
    BY <1>1, <1>2
  <2>1. s.act[x].child # Null => s.act[x].child # s.act[x].goal
    BY <1>5, <1>6, <1>9
  <2>2. x # r /\ s.act[x].child # Null => s.act[x].child # s.act[x].under
    BY <1>0, <1>6, <1>7, <2>0 DEF OnceSound
  <2>3. x # r /\ s.act[x].goal # Null => s.act[x].goal # s.act[x].under
    BY <1>5, <1>7, <1>9
  <2> QED BY <2>1, <2>2, <2>3
<1>12. ASSUME NEW x \in B, s.act[x].over # Null
       PROVE  s.act[x].over \in B /\ s.act[s.act[x].over].under = x
  <2> DEFINE y == s.act[x].over
  <2>1. x \in Places /\ InTreeOf(s, own, r, x) /\ y \in Places
    BY <1>0, <1>2, <1>12, PointingTyped
  <2>2. Used(s, x) /\ own[x] = r
    BY <1>0, <1>12, <2>1 DEF InTreeOf, Used, GoalsSound
  <2>3. OverFits(s, own, x, y)
    BY <1>0, <1>12, <2>1, <2>2, PlacesFacts DEF LinksSound, LinkSound
  <2> HIDE DEF y
  <2>4. Used(s, y) /\ s.act[y].under = x /\ ~ Root(s, own, y)
    BY <1>1, <2>1, <2>2, <2>3 DEF OverFits
  <2>5. y \in Tree(s, r)
    BY <1>1, <1>3, <2>1, <2>4, TreeOwners
  <2>6. y # r
    BY <1>1, <2>4
  <2>7. y \in B /\ s.act[y].under = x
    BY <1>3, <2>4, <2>5, <2>6
  <2> QED BY <2>7 DEF y
<1>13. Forest(s, B)
  <2>1. \A x \in B : s.act[x].state # "free"
    BY <1>2 DEF InTreeOf
  <2>2. \A x, y \in B : x # y => Owned(s, x) \cap Owned(s, y) = {}
    BY <1>2, <1>10
  <2>3. ASSUME NEW x \in B
        PROVE  LET q == s.act[x] IN
        /\ q.child # Null => q.child \notin {q.under, q.goal}
        /\ q.goal # Null => q.goal # q.under
        /\ q.child # Null => s.act[q.child].parent \in {x, Null}
        /\ q.under # Null => s.act[q.under].parent = q.parent
        /\ q.goal # Null => /\ Owned(s, q.goal) = {} /\ s.act[q.goal].parent = Null
                            /\ s.act[q.goal].over = Null
        /\ q.over # Null => q.over \in B /\ s.act[q.over].under = x
    BY <1>2, <1>5, <1>6, <1>7, <1>11, <1>12
  <2> QED BY <1>2, <2>1, <2>2, <2>3 DEF Forest
<1>14. \A x \in B : Owned(s, x) \cap {s.act[r].child, s.act[r].goal} = {}
  <2> SUFFICES ASSUME NEW x \in B, NEW z \in Owned(s, x), z \in {s.act[r].child, s.act[r].goal}
               PROVE  FALSE
    OBVIOUS
  <2>1. z # Null /\ z \in Owned(s, r)
    BY DEF Owned
  <2> QED BY <1>2, <1>10, <2>1
<1>15. /\ s.act[r].child # Null => /\ s.act[r].child # s.act[r].goal
                                   /\ s.act[s.act[r].child].parent \in {r, Null}
       /\ s.act[r].goal # Null => LET g == s.act[r].goal IN
            Owned(s, g) = {} /\ s.act[g].parent = Null /\ s.act[g].over = Null
  BY <1>5, <1>6, <1>11
<1>16. /\ Outside(s, {r} \cup B, s.act[r].parent) /\ Outside(s, {r} \cup B, s.act[r].under)
  BY <1>1, <1>3 DEF Outside, Used
<1>17. s.act[r].state # "free"
  BY <1>4 DEF Used
<1> QED BY <1>1, <1>2, <1>13, <1>14, <1>15, <1>16, <1>17 DEF Deletable, Removable, B

\* The tree of r is free; all else is as it was, but that nothing covers b.
Cut(s, v, T, b) ==
    /\ v \in Typed /\ v.wild = s.wild
    /\ \A x \in T : v.act[x] = Blank("free")
    /\ \A x \in Places \ T :
        /\ v.act[x].state = s.act[x].state /\ v.act[x].suspended = s.act[x].suspended
        /\ v.act[x].under = s.act[x].under /\ v.act[x].parent = s.act[x].parent
        /\ v.act[x].child = s.act[x].child /\ v.act[x].goal = s.act[x].goal
        /\ v.act[x].over = IF x = b THEN Null ELSE s.act[x].over

LEMMA CutLinks ==
    ASSUME NEW s, NEW own, Sound(s, own, {}, Null), s.dead # <<>>, NEW r, r = s.dead[1],
           NEW v, Cut(s, v, Tree(s, r), s.act[r].under), v.dead = Tail(s.dead),
           1 \in DOMAIN s.dead
    PROVE  LinksSound(v, own, {}, Null)
<1> DEFINE T == Tree(s, r)
<1>0. s \in Typed /\ v \in Typed /\ LinksSound(s, own, {}, Null) /\ s.dead \in Seq(Places)
  BY DEF Sound, Cut, Typed, Memories
<1>1. r \in Places /\ Root(s, own, r)
  BY FirstDead
<1>2. \A x \in T : ~ Used(v, x)
  BY DEF Cut, Blank, Used
<1>3. ASSUME NEW x \in Places, Used(v, x)
      PROVE  /\ x \notin T /\ Used(s, x)
             /\ Live(v, x) <=> Live(s, x)
             /\ Root(v, own, x) <=> Root(s, own, x)
             /\ v.act[x].under = s.act[x].under /\ v.act[x].parent = s.act[x].parent
             /\ v.act[x].child = s.act[x].child /\ v.act[x].suspended = s.act[x].suspended
             /\ v.act[x].over = IF x = s.act[r].under THEN Null ELSE s.act[x].over
  BY <1>2, <1>3 DEF Cut, Used, Live, Root
<1>4. ASSUME NEW x \in Places \ T, Used(s, x) PROVE Used(v, x)
  BY <1>4 DEF Cut, Used
<1>5. \A x \in Places, y \in T :
        \/ Used(s, x) /\ s.act[x].child = y
        \/ Used(s, x) /\ ~ Root(s, own, x) /\ s.act[x].under = y
        => x \in T
  BY <1>1, TreeOwners
<1>7. ASSUME NEW y \in Places, y # r, NEW q, Earlier(s, y, q) PROVE Earlier(v, y, q)
  <2>1. PICK i \in DOMAIN s.dead : s.dead[i] = y /\ \A j \in DOMAIN s.dead : s.dead[j] = q => i < j
    BY <1>7 DEF Earlier
  <2>2. PICK n \in Nat : /\ DOMAIN s.dead = 1..(n + 1) /\ DOMAIN v.dead = 1..n
                         /\ \A k \in 1..n : v.dead[k] = s.dead[k + 1]
    BY <1>0, DeadFacts
  <2>3. i # 1 /\ i \in 1..(n + 1)
    BY <1>7, <2>1, <2>2
  <2>4. i - 1 \in 1..n /\ (i - 1) + 1 = i
    BY <2>2, <2>3
  <2>5. v.dead[i - 1] = y
    BY <2>1, <2>2, <2>4
  <2>6. ASSUME NEW j \in 1..n, v.dead[j] = q PROVE i - 1 < j
    <3>1. j + 1 \in DOMAIN s.dead /\ s.dead[j + 1] = q
      BY <2>2, <2>6
    <3>2. i < j + 1
      BY <2>1, <3>1
    <3> QED BY <2>2, <2>3, <3>2
  <2> QED BY <2>2, <2>4, <2>5, <2>6 DEF Earlier
<1> HIDE DEF T
<1> SUFFICES ASSUME NEW x \in Places, Used(v, x)
             PROVE  LinkSound(v, own, {}, Null, x)
  BY DEF LinksSound
<1>8. /\ x \notin T /\ Used(s, x) /\ LinkSound(s, own, {}, Null, x)
      /\ Live(v, x) <=> Live(s, x)
      /\ Root(v, own, x) <=> Root(s, own, x)
      /\ v.act[x].under = s.act[x].under /\ v.act[x].parent = s.act[x].parent
      /\ v.act[x].child = s.act[x].child
      /\ v.act[x].over = IF x = s.act[r].under THEN Null ELSE s.act[x].over
  BY <1>0, <1>3 DEF LinksSound
<1>9. ASSUME v.act[x].child # Null PROVE ChildFits(v, own, x, v.act[x].child)
  <2> DEFINE c == s.act[x].child
  <2>1. v.act[x].child = c /\ c \in Places /\ ChildFits(s, own, x, c) /\ c \notin T
    BY <1>0, <1>5, <1>8, <1>9, PointingTyped DEF LinkSound
  <2> HIDE DEF c
  <2>2. Used(v, c)
    BY <1>4, <2>1 DEF ChildFits
  <2>3. ChildFits(v, own, x, c)
    BY <1>3, <2>1, <2>2 DEF ChildFits
  <2> QED BY <2>1, <2>3
<1>10. ASSUME ~ Root(v, own, x), v.act[x].under # Null
       PROVE  UnderFits(v, own, x, v.act[x].under)
  <2> DEFINE c == s.act[x].under
  <2>1. v.act[x].under = c /\ c \in Places /\ UnderFits(s, own, x, c) /\ c \notin T
    BY <1>0, <1>5, <1>8, <1>10, PointingTyped DEF LinkSound
  <2> HIDE DEF c
  <2>2. Used(v, c)
    BY <1>4, <2>1 DEF UnderFits
  <2>3. UnderFits(v, own, x, c)
    BY <1>3, <1>8, <2>1, <2>2 DEF UnderFits
  <2> QED BY <2>1, <2>3
<1>11. ASSUME v.act[x].over # Null PROVE OverFits(v, own, x, v.act[x].over)
  <2> DEFINE y == s.act[x].over
  <2>1. v.act[x].over = y /\ y \in Places /\ OverFits(s, own, x, y) /\ x # s.act[r].under
    BY <1>0, <1>8, <1>11, PointingTyped, PlacesFacts DEF LinkSound
  <2> HIDE DEF y
  <2>2. Used(s, y) /\ s.act[y].under = x /\ y # r
    BY <2>1 DEF OverFits
  <2>3. y \notin Below(s, r)
    <3>1. ASSUME y \in Below(s, r) PROVE FALSE
      <4>1. x # Null /\ x \in Owned(s, y)
        BY <2>2, PlacesFacts DEF Owned
      <4>2. Below(s, r) \in SUBSET Places /\ Closed(Own(s), Below(s, r))
        BY <1>1, TreeFacts
      <4>3. Own(s)[y] = Owned(s, y)
        BY <1>0, <2>1, OwnFacts
      <4>4. x \in Below(s, r)
        BY <3>1, <4>1, <4>2, <4>3 DEF Closed
      <4> QED BY <1>8, <4>4 DEF T, Tree
    <3> QED BY <3>1
  <2>4. y \notin T
    BY <2>2, <2>3 DEF T, Tree
  <2>5. Used(v, y)
    BY <1>4, <2>1, <2>2, <2>4
  <2>6. OverFits(v, own, x, y)
    BY <1>3, <1>7, <2>1, <2>2, <2>5 DEF OverFits
  <2> QED BY <2>1, <2>6
<1> QED BY <1>8, <1>9, <1>10, <1>11 DEF LinkSound

LEMMA CutSound ==
    ASSUME NEW s, NEW own, Sound(s, own, {}, Null), s.dead # <<>>, NEW r, r = s.dead[1],
           NEW v, Cut(s, v, Tree(s, r), s.act[r].under), v.dead = Tail(s.dead), Shrunk(s, v)
    PROVE  /\ Sound(v, own, {}, Null)
           /\ \A a : OnTop(s, a, Null, {}) => OnTop(v, a, Null, {})
           /\ \A x \in Places : Live(v, x) <=> Live(s, x)
<1> DEFINE T == Tree(s, r)
<1>0. /\ s \in Typed /\ v \in Typed /\ LinksSound(s, own, {}, Null) /\ s.dead \in Seq(Places)
      /\ GoalsSound(s) /\ OnceSound(s, own, {}) /\ DeadSound(s, own)
  BY DEF Sound, Cut, Typed, Memories
<1>a. 1 \in DOMAIN s.dead
  BY <1>0
<1>1. r \in Places /\ Root(s, own, r)
  BY <1>a, FirstDead
<1>b. T \in SUBSET Places /\ \A x \in T : x = r \/ InTreeOf(s, own, r, x)
  BY <1>1, TreeFacts DEF Tree
<1>2. \A x \in T : v.act[x].state = "free" /\ v.act[x].goal = Null
  BY DEF Cut, Blank
<1>3. ASSUME NEW x \in Places, v.act[x].state # "free"
      PROVE  /\ x \notin T /\ v.act[x].state = s.act[x].state
             /\ v.act[x].under = s.act[x].under /\ v.act[x].parent = s.act[x].parent
             /\ v.act[x].child = s.act[x].child /\ v.act[x].goal = s.act[x].goal
             /\ v.act[x].over \in {Null, s.act[x].over}
  BY <1>2, <1>3 DEF Cut
<1>4. \A x \in Places, y \in T : s.act[x].goal = y => x \in T
  BY <1>1, TreeOwners
<1>5. GoalsSound(v)
  <2>1. \A x \in Places : v.act[x].goal # Null => x \notin T /\ v.act[x].goal = s.act[x].goal
    BY <1>2 DEF Cut
  <2>2. \A x \in Places : ~ Used(v, x) => v.act[x].goal = Null
    <3>1. ASSUME NEW x \in Places, ~ Used(v, x), v.act[x].goal # Null PROVE FALSE
      <4>1. x \notin T /\ v.act[x].goal = s.act[x].goal
        BY <2>1, <3>1
      <4>2. ~ Used(s, x)
        BY <3>1, <4>1 DEF Cut, Used
      <4> QED BY <1>0, <3>1, <4>1, <4>2 DEF GoalsSound
    <3> QED BY <3>1
  <2>3. \A x \in Places : v.act[x].state = "made" =>
          v.act[x].under = Null /\ v.act[x].over = Null /\ v.act[x].child = Null
    BY <1>0, <1>3 DEF GoalsSound
  <2>4. ASSUME NEW x \in Places, v.act[x].goal # Null
        PROVE  v.act[v.act[x].goal].state = "made" /\ v.act[v.act[x].goal].parent = Null
    <3> DEFINE g == s.act[x].goal
    <3>1. v.act[x].goal = g /\ x \notin T
      BY <2>1, <2>4
    <3>2. g \in Places /\ s.act[g].state = "made" /\ s.act[g].parent = Null /\ g \notin T
      BY <1>0, <1>4, <2>4, <3>1, PointingTyped DEF GoalsSound
    <3> HIDE DEF g
    <3> QED BY <3>1, <3>2 DEF Cut
  <2>5. \A x, y \in Places : x # y /\ v.act[x].goal # Null => v.act[x].goal # v.act[y].goal
    BY <1>0, <2>1 DEF GoalsSound
  <2> QED BY <2>2, <2>3, <2>4, <2>5 DEF GoalsSound
<1>6. LinksSound(v, own, {}, Null)
  BY <1>a, CutLinks
<1>7. \A x \in Places : Used(v, x) =>
         /\ Used(s, x) /\ (Root(v, own, x) <=> Root(s, own, x))
         /\ v.act[x].under = s.act[x].under /\ v.act[x].child = s.act[x].child
  BY <1>3 DEF Used, Root
<1>8. OnceSound(v, own, {})
  BY <1>0, <1>7 DEF OnceSound
<1>9. ASSUME NEW x \in Places, Used(s, x), x \notin T
      PROVE  /\ Used(v, x) /\ v.act[x].state = s.act[x].state
             /\ v.act[x].under = s.act[x].under /\ v.act[x].parent = s.act[x].parent
  BY <1>9 DEF Cut, Used
<1>10. DeadSound(v, own)
  <2>1. PICK n \in Nat : /\ DOMAIN s.dead = 1..(n + 1) /\ DOMAIN v.dead = 1..n
                         /\ \A k \in 1..n : v.dead[k] = s.dead[k + 1]
    BY <1>0, DeadFacts
  <2> SUFFICES ASSUME NEW i \in 1..n
      PROVE /\ Root(v, own, v.dead[i])
            /\ \A j \in DOMAIN v.dead : v.dead[j] = v.dead[i] => i = j
            /\ v.act[v.dead[i]].under # Null => AfterDead(v, own, i, v.act[v.dead[i]].under)
            /\ v.act[v.dead[i]].parent # Null => AfterDead(v, own, i, v.act[v.dead[i]].parent)
    BY <2>1 DEF DeadSound
  <2> DEFINE y == s.dead[i + 1]
  <2>2. i + 1 \in DOMAIN s.dead /\ v.dead[i] = y /\ i + 1 # 1 /\ 1 \in DOMAIN s.dead
    BY <2>1
  <2>3. /\ y \in Places /\ Root(s, own, y) /\ y # r
        /\ \A j \in DOMAIN s.dead : s.dead[j] = y => i + 1 = j
        /\ s.act[y].under # Null => AfterDead(s, own, i + 1, s.act[y].under)
        /\ s.act[y].parent # Null => AfterDead(s, own, i + 1, s.act[y].parent)
    BY <1>0, <2>2, DeadPlaces DEF DeadSound
  <2> HIDE DEF y
  <2>4. y \notin T
    BY <1>b, <2>3 DEF InTreeOf, Root
  <2>5. Used(s, y)
    BY <2>3 DEF Root, Used
  <2>6. Root(v, own, y) /\ v.act[y].under = s.act[y].under /\ v.act[y].parent = s.act[y].parent
    BY <1>9, <2>3, <2>4, <2>5 DEF Root
  <2>7. \A j \in 1..n : v.dead[j] = y => i = j
    BY <2>1, <2>3
  <2>8. ASSUME NEW q \in Places, AfterDead(s, own, i + 1, q) PROVE AfterDead(v, own, i, q)
    <3>1. Used(s, q) /\ \A j \in DOMAIN s.dead : s.dead[j] = own[q] => i + 1 < j
      BY <2>8 DEF AfterDead
    <3>2. own[q] # r
      BY <2>2, <3>1
    <3>3. q \notin T
      BY <1>1, <1>b, <3>1, <3>2 DEF InTreeOf, Root, Used
    <3>4. \A j \in 1..n : v.dead[j] = own[q] => i < j
      BY <2>1, <3>1
    <3> QED BY <1>9, <2>1, <3>1, <3>3, <3>4 DEF AfterDead
  <2>9. /\ s.act[y].under # Null => AfterDead(v, own, i, s.act[y].under)
        /\ s.act[y].parent # Null => AfterDead(v, own, i, s.act[y].parent)
    BY <1>0, <2>3, <2>8, PointingTyped
  <2> QED BY <2>1, <2>2, <2>6, <2>7, <2>9
<1>11. Away(v, {})
  BY DEF Away
<1>12. \A x \in Places : Live(s, x) => x \notin T
  <2>1. own[r] = r /\ r # Null /\ s.act[r].state = "ended"
    BY <1>1, PlacesFacts DEF Root
  <2> QED BY <1>b, <2>1 DEF InTreeOf, Live
<1>13. \A x \in Places : Live(v, x) <=> Live(s, x)
  BY <1>3, <1>9, <1>12 DEF Live, Used
<1>14. ~ v.missed /\ ~ v.wild
  BY <1>13 DEF Sound, Shrunk, Cut, Live
<1>15. ASSUME NEW a, OnTop(s, a, Null, {}) PROVE OnTop(v, a, Null, {})
  <2>1. a \in Places /\ Live(v, a)
    BY <1>13, <1>15 DEF OnTop
  <2>2. \A x \in Places : Live(v, x) => /\ v.act[x].under = s.act[x].under
                                        /\ v.act[x].child = s.act[x].child
                                        /\ v.act[x].parent = s.act[x].parent
    BY <1>3 DEF Live
  <2> QED BY <1>13, <1>15, <2>1, <2>2 DEF OnTop
<1> QED BY <1>0, <1>5, <1>6, <1>8, <1>10, <1>11, <1>13, <1>14, <1>15 DEF Sound

Purges(f) == \A s, own : Sound(s, own, {}, Null) =>
    \A t \in DeleteBy(f, "dead", s, Null) :
        /\ Sound(t, own, {}, Null) /\ t.dead = <<>>
        /\ \A a : OnTop(s, a, Null, {}) => OnTop(t, a, Null, {})
        /\ \A x \in Places : Live(t, x) <=> Live(s, x)

LEMMA FirstPurged ==
    ASSUME NEW f, Deletes(f), Shrinks(f), NEW s, NEW own, Sound(s, own, {}, Null),
           s.dead # <<>>, NEW t \in DeleteBy(f, "action", s, Head(s.dead))
    PROVE  LET v == [t EXCEPT !.dead = Tail(s.dead)] IN
           /\ Sound(v, own, {}, Null)
           /\ \A a : OnTop(s, a, Null, {}) => OnTop(v, a, Null, {})
           /\ \A x \in Places : Live(v, x) <=> Live(s, x)
<1> DEFINE r == s.dead[1]
           v == [t EXCEPT !.dead = Tail(s.dead)]
<1>1. /\ s \in Typed /\ s.dead \in Seq(Places)
  BY DEF Sound, Typed, Memories
<1>2. Head(s.dead) = r /\ Tail(s.dead) \in Seq(Places) /\ 1 \in DOMAIN s.dead
  BY <1>1
<1> HIDE DEF r
<1>3. r \in Places /\ Root(s, own, r) /\ Deletable(s, r) /\ r \in Pointer
  BY <1>2, FirstDead, FirstDeletable, PlacesFacts DEF r
<1>4. Gone(s, t, Tree(s, r), Parents(s, r), {s.act[r].under})
  BY <1>1, <1>2, <1>3 DEF Deletes, Tree
<1>5. t \in Typed /\ Shrunk(s, t)
  BY <1>1, <1>2, <1>3 DEF Shrinks
<1>6. /\ v \in Typed /\ v.act = t.act /\ v.wild = t.wild /\ v.missed = t.missed
      /\ v.dead = Tail(s.dead)
  BY <1>2, <1>5 DEF Typed, Memories
<1> HIDE DEF v
<1>7. Parents(s, r) = {}
  <2> SUFFICES ASSUME s.act[r].parent # Null, s.act[s.act[r].parent].child = r PROVE FALSE
    BY DEF Parents
  <2> DEFINE q == s.act[r].parent
  <2>1. q \in Places /\ Used(s, q) /\ s.act[q].child # r
    BY <1>2, FirstDead DEF r
  <2> QED BY <2>1
<1>8. Cut(s, v, Tree(s, r), s.act[r].under)
  BY <1>4, <1>6, <1>7 DEF Cut, Gone
<1>9. Shrunk(s, v)
  BY <1>5, <1>6 DEF Shrunk
<1>10. /\ Sound(v, own, {}, Null)
       /\ \A a : OnTop(s, a, Null, {}) => OnTop(v, a, Null, {})
       /\ \A x \in Places : Live(v, x) <=> Live(s, x)
  <2>1. r = s.dead[1]
    BY DEF r
  <2> QED BY <1>6, <1>8, <1>9, <2>1, CutSound
<1> QED BY <1>10 DEF v

LEMMA DeletionsPurge == \A n \in Nat : Purges(Deletions[n])
<1> DEFINE S == {n \in Nat : Purges(Deletions[n])}
<1>0. \A s \in Typed : [what |-> "dead", s |-> s, a |-> Null] \in Deletion
  BY PlacesFacts DEF Deletion, Typed
<1>1. 0 \in S
  <2>1. \A s \in Typed : DeleteBy(Deletions[0], "dead", s, Null) = {}
    BY <1>0, DeletionsUnfold DEF NoDeletion, DeleteBy
  <2> DEFINE f == Deletions[0]
  <2> HIDE DEF f
  <2>2. Purges(f)
    BY <2>1 DEF Purges, Sound, f
  <2> QED BY <2>2 DEF f
<1>2. ASSUME NEW n \in Nat, n \in S PROVE n + 1 \in S
  <2> DEFINE f == Deletions[n]
             g == Deletions[n + 1]
  <2>1. Purges(f) /\ Deletes(f) /\ Shrinks(f)
    BY <1>2, DeletionsDelete, DeletionsShrink
  <2>2. g = DeletionStep(f)
    BY DeletionsUnfold
  <2> HIDE DEF f, g
  <2>3. \A s \in Typed : DeleteBy(g, "dead", s, Null) = PurgeDead(f, s)
    BY <1>0, <2>2 DEF DeleteBy, DeletionStep
  <2>4. Purges(g)
    <3> SUFFICES ASSUME NEW s, NEW own, Sound(s, own, {}, Null), NEW t \in PurgeDead(f, s)
                 PROVE  /\ Sound(t, own, {}, Null) /\ t.dead = <<>>
                        /\ \A a : OnTop(s, a, Null, {}) => OnTop(t, a, Null, {})
                        /\ \A x \in Places : Live(t, x) <=> Live(s, x)
      BY <2>3 DEF Purges, Sound
    <3>1. CASE s.dead = <<>>
      <4>1. t = s
        BY <3>1 DEF PurgeDead
      <4> QED BY <3>1, <4>1
    <3>2. CASE s.dead # <<>>
      <4>1. PICK u \in DeleteBy(f, "action", s, Head(s.dead)) :
               t \in DeleteBy(f, "dead", [u EXCEPT !.dead = Tail(s.dead)], Null)
        BY <3>2 DEF PurgeDead
      <4> DEFINE v == [u EXCEPT !.dead = Tail(s.dead)]
      <4>2. /\ Sound(v, own, {}, Null)
            /\ \A a : OnTop(s, a, Null, {}) => OnTop(v, a, Null, {})
            /\ \A x \in Places : Live(v, x) <=> Live(s, x)
        BY <2>1, <3>2, <4>1, FirstPurged
      <4>3. t \in DeleteBy(f, "dead", v, Null)
        BY <4>1
      <4> HIDE DEF v
      <4>4. /\ Sound(t, own, {}, Null) /\ t.dead = <<>>
            /\ \A a : OnTop(v, a, Null, {}) => OnTop(t, a, Null, {})
            /\ \A x \in Places : Live(t, x) <=> Live(v, x)
        BY <2>1, <4>2, <4>3 DEF Purges
      <4> QED BY <4>2, <4>4
    <3> QED BY <3>1, <3>2
  <2> QED BY <2>4 DEF g
<1>3. S \in SUBSET Nat
  OBVIOUS
<1> HIDE DEF S
<1>4. S = Nat
  BY <1>1, <1>2, <1>3, NatAll
<1> QED BY <1>4 DEF S
-----------------------------------------------------------------------------
(* What the bot reaches when nothing is left to be deleted.                *)

Tidy(s, own, a) == /\ Sound(s, own, {}, Null) /\ s.dead = <<>> /\ a \in Pointer
                   /\ a # Null => OnTop(s, a, Null, {})

LEMMA TidyReached ==
    ASSUME NEW s, NEW own, NEW a, Tidy(s, own, a)
    PROVE  LET R == Reached(s, a) IN
           /\ R \in SUBSET Places /\ Closed(Own(s), R) /\ (a # Null => a \in R)
           /\ \A x \in R : x = a \/ \E y \in R : x \in Owned(s, y)
           /\ \A x \in R : Live(s, x) \/ (s.act[x].state = "made" /\ s.act[x].parent = Null)
<1> DEFINE R == Reached(s, a)
           C == {x \in Places : Live(s, x) \/ (s.act[x].state = "made" /\ s.act[x].parent = Null)}
<1>0. s \in Typed /\ a \in Pointer /\ GoalsSound(s) /\ Sound(s, own, {}, Null)
  BY DEF Tidy, Sound
<1>1. /\ Own(s) \in Links /\ \A x \in Places : Own(s)[x] = Owned(s, x)
      /\ At(a) \in SUBSET Places /\ R = Reach(Own(s), At(a))
      /\ R \in SUBSET Places /\ Closed(Own(s), R) /\ (a # Null => a \in R)
  BY <1>0, OwnFacts
<1>2. C \in SUBSET Places /\ At(a) \subseteq C
  BY PlacesFacts DEF Tidy, OnTop, At
<1>3. Closed(Own(s), C)
  <2> SUFFICES ASSUME NEW x \in C, NEW y \in Owned(s, x) PROVE y \in C
    BY <1>1 DEF Closed
  <2>1. x \in Places /\ y # Null
    BY DEF Owned
  <2>2. CASE y = s.act[x].goal
    <3>1. y \in Places /\ s.act[y].state = "made" /\ s.act[y].parent = Null
      BY <1>0, <2>1, <2>2, PointingTyped DEF GoalsSound
    <3> QED BY <3>1
  <2>3. CASE y = s.act[x].under \/ y = s.act[x].child
    <3>1. s.act[x].state # "made"
      BY <1>0, <2>1, <2>3 DEF GoalsSound
    <3>2. Live(s, x)
      BY <3>1
    <3>3. y \in Places /\ Live(s, y)
      BY <1>0, <2>1, <2>3, <3>2, LiveLinks
    <3> QED BY <3>3
  <2> QED BY <2>2, <2>3 DEF Owned
<1>4. R \subseteq C
  <2> HIDE DEF C
  <2> QED BY <1>1, <1>2, <1>3, ReachMinimal
<1>5. ASSUME NEW x \in R PROVE x = a \/ \E y \in R : x \in Owned(s, y)
  <2>1. x \in At(a) \/ \E y \in R : x \in Own(s)[y]
    BY <1>1, ReachOwner
  <2> HIDE DEF R
  <2> QED BY <1>1, <2>1 DEF At
<1> QED BY <1>1, <1>4, <1>5

\* Pointers lead to what is reached, and those up match those down.
LEMMA TidyPointers ==
    ASSUME NEW s, NEW own, NEW a, Tidy(s, own, a), NEW x \in Reached(s, a)
    PROVE  /\ Pointers(s.act[x]) \subseteq Reached(s, a) /\ s.act[x].state # "free"
           /\ s.act[x].over # Null => s.act[s.act[x].over].under = x
           /\ s.act[x].parent # Null => x \in Stack(s, s.act[s.act[x].parent].child)
<1> DEFINE R == Reached(s, a)
           K(y) == s.act[y].parent # Null =>
                     s.act[y].parent \in R /\ y \in Stack(s, s.act[s.act[y].parent].child)
           C == {y \in R : K(y)}
<1>0. s \in Typed /\ a \in Pointer /\ GoalsSound(s) /\ Sound(s, own, {}, Null)
      /\ (a # Null => OnTop(s, a, Null, {})) /\ OnceSound(s, own, {}) /\ s.dead = <<>>
  BY DEF Tidy, Sound
<1>1. /\ R \in SUBSET Places /\ Closed(Own(s), R) /\ (a # Null => a \in R)
      /\ \A y \in R : y = a \/ \E z \in R : y \in Owned(s, z)
      /\ \A y \in R : Live(s, y) \/ (s.act[y].state = "made" /\ s.act[y].parent = Null)
  BY TidyReached
<1>2. /\ Own(s) \in Links /\ \A y \in Places : Own(s)[y] = Owned(s, y)
      /\ At(a) \in SUBSET Places /\ R = Reach(Own(s), At(a))
  BY <1>0, OwnFacts
<1> HIDE DEF R
<1>3. ASSUME NEW y \in R, s.act[y].over # Null
      PROVE  s.act[y].over \in R /\ s.act[s.act[y].over].under = y
  <2> DEFINE z == s.act[y].over
  <2>1. y \in Places /\ z \in Places /\ Live(s, y)
    BY <1>0, <1>1, <1>3, PointingTyped DEF GoalsSound
  <2>2. OverFits(s, own, y, z) /\ y # Null
    BY <1>0, <1>3, <2>1, PlacesFacts DEF Sound, LinksSound, LinkSound, Live, Used
  <2> HIDE DEF z
  <2>3. Used(s, z) /\ s.act[z].under = y /\ ~ Root(s, own, z)
    BY <1>0, <2>2 DEF OverFits, Earlier
  <2>4. own[z] = Null
    BY <1>0, <2>1, <2>2, <2>3, LiveLinks DEF Sound, LinksSound, LinkSound, UnderFits
  <2>5. Live(s, z)
    BY <1>0, <2>1, <2>3, <2>4 DEF Sound, LinksSound, LinkSound
  <2>6. y # a
    BY <1>0, <2>1, <2>2, <2>3, <2>5 DEF OnTop
  <2>7. PICK w \in R : y \in Owned(s, w)
    BY <1>1, <2>6
  <2>8. w \in Places /\ Live(s, w)
    BY <1>0, <1>1, <2>7 DEF Owned, GoalsSound, Used
  <2>9. y # s.act[w].goal
    BY <1>0, <2>1, <2>2, <2>8 DEF GoalsSound, Live
  <2>10. y # s.act[w].child
    BY <1>0, <2>1, <2>2, <2>3, <2>5, <2>8, LiveLinks
  <2>11. w = z
    BY <1>0, <2>1, <2>2, <2>3, <2>5, <2>7, <2>8, <2>9, <2>10, LiveLinks DEF Owned
  <2>12. z \in R /\ s.act[z].under = y
    BY <2>3, <2>11
  <2> QED BY <2>12 DEF z
<1>4. C \in SUBSET Places /\ At(a) \subseteq C
  BY <1>0, <1>1 DEF OnTop, At
<1>5. Closed(Own(s), C)
  <2> SUFFICES ASSUME NEW y \in C, NEW z \in Owned(s, y) PROVE z \in C
    BY <1>1, <1>2 DEF Closed
  <2>1. y \in R /\ y \in Places /\ K(y)
    BY <1>1
  <2> HIDE DEF C
  <2>2. z \in R /\ z \in Places /\ z # Null
    BY <1>1, <1>2, <2>1 DEF Closed, Owned
  <2>3. CASE z = s.act[y].goal
    <3>1. s.act[z].parent = Null
      BY <1>0, <2>1, <2>2, <2>3 DEF GoalsSound
    <3> QED BY <2>2, <3>1 DEF C
  <2>4. CASE z = s.act[y].child
    <3>1. Live(s, y)
      BY <1>0, <1>1, <2>1, <2>2, <2>4 DEF GoalsSound
    <3>2. s.act[z].parent \in {y, Null}
      BY <1>0, <2>1, <2>2, <2>4, <3>1, LiveLinks
    <3>3. z \in Stack(s, s.act[y].child)
      <4>1. s.act[y].child \in Pointer
        BY <1>0, <2>1, PointersTyped
      <4> QED BY <1>0, <2>2, <2>4, <4>1, StackFrom
    <3>4. K(z)
      BY <2>1, <3>2, <3>3
    <3> QED BY <2>2, <3>4 DEF C
  <2>5. CASE z = s.act[y].under
    <3>1. Live(s, y)
      BY <1>0, <1>1, <2>1, <2>2, <2>5 DEF GoalsSound
    <3>2. s.act[z].parent = s.act[y].parent
      BY <1>0, <2>1, <2>2, <2>5, <3>1, LiveLinks
    <3> DEFINE p == s.act[y].parent
    <3>3. ASSUME p # Null PROVE p \in R /\ z \in Stack(s, s.act[p].child)
      <4>1. p \in R /\ y \in Stack(s, s.act[p].child) /\ p \in Places
        BY <1>1, <2>1, <3>3
      <4>2. s.act[p].child \in Pointer
        BY <1>0, <4>1, PointersTyped
      <4> QED BY <1>0, <2>2, <2>5, <4>1, <4>2, StackFrom
    <3>4. K(z)
      BY <3>2, <3>3
    <3> QED BY <2>2, <3>4 DEF C
  <2> QED BY <2>3, <2>4, <2>5 DEF Owned
<1>6. K(x) /\ x \in R
  <2>1. R \subseteq C
    <3> HIDE DEF C
    <3> QED BY <1>2, <1>4, <1>5, ReachMinimal
  <2>2. x \in R
    BY DEF R
  <2> QED BY <2>1, <2>2
<1>7. s.act[x].state # "free" /\ x \in Places
  BY <1>1, <1>6 DEF Live
<1>8. Owned(s, x) \subseteq R
  BY <1>1, <1>2, <1>6, <1>7 DEF Closed
<1>9. Pointers(s.act[x]) \subseteq R
  BY <1>3, <1>6, <1>8 DEF Pointers, Owned
<1> QED BY <1>3, <1>6, <1>7, <1>9 DEF R

LEMMA TidyNotStray ==
    ASSUME NEW s, NEW own, NEW a, Tidy(s, own, a)
    PROVE  ~ Stray(s, a)
BY TidyPointers DEF Stray
-----------------------------------------------------------------------------
(* The same actions at other places.                                       *)

Moved(p, q, R, N) == \/ p = Null /\ q = Null
                     \/ p \in R /\ q = N[p]
MovedAction(r, q, R, N) ==
    /\ q.state = r.state /\ q.suspended = r.suspended
    /\ Moved(r.under, q.under, R, N) /\ Moved(r.over, q.over, R, N)
    /\ Moved(r.parent, q.parent, R, N) /\ Moved(r.child, q.child, R, N)
    /\ Moved(r.goal, q.goal, R, N)
Moves(s, t, R, N) ==
    /\ R \in SUBSET Places /\ N \in [R -> Places]
    /\ \A b, c \in R : N[b] = N[c] => b = c
    /\ \A b \in R : MovedAction(s.act[b], t.act[N[b]], R, N)
    /\ \A i \in Places : t.act[i] = Blank("free") \/ \E b \in R : i = N[b]

NoOwner == [x \in Places |-> Null]

LEMMA MovedSound ==
    ASSUME NEW s, NEW own, NEW a, Tidy(s, own, a), NEW t \in Typed, NEW N,
           Moves(s, t, Reached(s, a), N), t.dead = <<>>, ~ t.missed, ~ t.wild
    PROVE  Sound(t, NoOwner, {}, Null) /\ (a # Null => OnTop(t, N[a], Null, {}))
<1> DEFINE R == Reached(s, a)
<1>0. s \in Typed /\ a \in Pointer /\ GoalsSound(s) /\ Sound(s, own, {}, Null)
      /\ (a # Null => OnTop(s, a, Null, {}) /\ a \in R)
  BY TidyReached DEF Tidy, Sound
<1>1. /\ R \in SUBSET Places /\ N \in [R -> Places]
      /\ \A b, c \in R : N[b] = N[c] => b = c
      /\ \A b \in R : MovedAction(s.act[b], t.act[N[b]], R, N)
      /\ \A i \in Places : t.act[i] = Blank("free") \/ \E b \in R : i = N[b]
  BY DEF Moves
<1>2. /\ \A x \in R : Live(s, x) \/ (s.act[x].state = "made" /\ s.act[x].parent = Null)
      /\ \A x \in R : /\ s.act[x].over # Null => s.act[s.act[x].over].under = x
                      /\ s.act[x].over # Null => s.act[x].over \in R
  <2>1. \A x \in R : Live(s, x) \/ (s.act[x].state = "made" /\ s.act[x].parent = Null)
    BY TidyReached
  <2>2. \A x \in R : Pointers(s.act[x]) \subseteq R /\
                     (s.act[x].over # Null => s.act[s.act[x].over].under = x)
    BY TidyPointers
  <2> HIDE DEF R
  <2> QED BY <2>1, <2>2 DEF Pointers
<1> HIDE DEF R
<1>3. Null \notin Places /\ \A b \in R : N[b] \in Places /\ N[b] # Null /\ b # Null /\ b \in Places
  BY <1>1, PlacesFacts
<1>4. ASSUME NEW p, NEW q, Moved(p, q, R, N)
      PROVE  (p = Null <=> q = Null) /\ (q # Null => p \in R /\ q = N[p])
  BY <1>3, <1>4 DEF Moved
<1>5. \A i \in Places : \/ t.act[i].state = "free" /\ t.act[i].goal = Null
                        \/ \E b \in R : i = N[b]
  BY <1>1 DEF Blank
<1>6. ASSUME NEW b \in R
      PROVE  LET r == s.act[b]
                 q == t.act[N[b]] IN
             /\ q.state = r.state /\ q.suspended = r.suspended
             /\ (r.under = Null <=> q.under = Null) /\ (q.under # Null => r.under \in R /\ q.under = N[r.under])
             /\ (r.over = Null <=> q.over = Null) /\ (q.over # Null => r.over \in R /\ q.over = N[r.over])
             /\ (r.parent = Null <=> q.parent = Null) /\ (q.parent # Null => r.parent \in R /\ q.parent = N[r.parent])
             /\ (r.child = Null <=> q.child = Null) /\ (q.child # Null => r.child \in R /\ q.child = N[r.child])
             /\ (r.goal = Null <=> q.goal = Null) /\ (q.goal # Null => r.goal \in R /\ q.goal = N[r.goal])
             /\ (Live(t, N[b]) <=> Live(s, b)) /\ (Used(t, N[b]) <=> Live(s, b))
  <2>1. MovedAction(s.act[b], t.act[N[b]], R, N)
    BY <1>1
  <2>2. s.act[b].state \in {"started", "made"}
    BY <1>2 DEF Live
  <2> QED BY <1>4, <2>1, <2>2 DEF MovedAction, Live, Used
<1>7. ASSUME NEW i \in Places, t.act[i].state # "free" \/ t.act[i].goal # Null
      PROVE  \E b \in R : i = N[b]
  BY <1>5, <1>7
<1>8. GoalsSound(t)
  <2>1. ASSUME NEW i \in Places, ~ Used(t, i) PROVE t.act[i].goal = Null
    <3>1. ASSUME NEW b \in R, i = N[b] PROVE t.act[i].goal = Null
      <4>1. ~ Live(s, b)
        BY <1>6, <2>1, <3>1
      <4>2. ~ Used(s, b)
        BY <1>2, <4>1 DEF Used
      <4>3. s.act[b].goal = Null
        BY <1>0, <1>3, <4>2 DEF GoalsSound
      <4> QED BY <1>6, <3>1, <4>3
    <3> QED BY <1>5, <3>1
  <2>2. ASSUME NEW i \in Places, t.act[i].state = "made"
        PROVE  t.act[i].under = Null /\ t.act[i].over = Null /\ t.act[i].child = Null
    <3>1. PICK b \in R : i = N[b]
      BY <1>7, <2>2
    <3>2. s.act[b].under = Null /\ s.act[b].over = Null /\ s.act[b].child = Null
      BY <1>0, <1>3, <1>6, <2>2, <3>1 DEF GoalsSound
    <3> QED BY <1>6, <3>1, <3>2
  <2>3. ASSUME NEW i \in Places, t.act[i].goal # Null
        PROVE  t.act[t.act[i].goal].state = "made" /\ t.act[t.act[i].goal].parent = Null
    <3>1. PICK b \in R : i = N[b]
      BY <1>7, <2>3
    <3>2. s.act[b].goal # Null /\ s.act[b].goal \in R /\ t.act[i].goal = N[s.act[b].goal]
      BY <1>6, <2>3, <3>1
    <3>3. s.act[s.act[b].goal].state = "made" /\ s.act[s.act[b].goal].parent = Null
      BY <1>0, <1>3, <3>2 DEF GoalsSound
    <3> QED BY <1>6, <3>2, <3>3
  <2>4. ASSUME NEW i \in Places, NEW j \in Places, i # j, t.act[i].goal # Null, t.act[i].goal = t.act[j].goal
        PROVE  FALSE
    <3>1. PICK b \in R : i = N[b]
      BY <1>7, <2>4
    <3>2. PICK c \in R : j = N[c]
      BY <1>7, <2>4
    <3>3. s.act[b].goal = s.act[c].goal /\ s.act[b].goal # Null /\ b # c
      BY <1>1, <1>6, <2>4, <3>1, <3>2
    <3> QED BY <1>0, <1>3, <3>3 DEF GoalsSound
  <2> QED BY <2>1, <2>2, <2>3, <2>4 DEF GoalsSound
<1>9. ASSUME NEW i \in Places, Used(t, i) PROVE \E b \in R : i = N[b] /\ Live(s, b)
  <2>1. PICK b \in R : i = N[b]
    BY <1>7, <1>9 DEF Used
  <2> QED BY <1>6, <1>9, <2>1
<1>10. \A x \in Places : NoOwner[x] = Null /\ (Used(t, x) => ~ Root(t, NoOwner, x))
  BY PlacesFacts DEF NoOwner, Root
<1>11. LinksSound(t, NoOwner, {}, Null)
  <2> SUFFICES ASSUME NEW i \in Places, Used(t, i) PROVE LinkSound(t, NoOwner, {}, Null, i)
    BY DEF LinksSound
  <2>1. PICK b \in R : i = N[b] /\ Live(s, b)
    BY <1>9
  <2> DEFINE r == s.act[b]
             q == t.act[i]
  <2>2. /\ q.state = r.state /\ q.suspended = r.suspended
        /\ (q.under # Null => r.under \in R /\ q.under = N[r.under])
        /\ (q.over # Null => r.over \in R /\ q.over = N[r.over])
        /\ (q.parent # Null => r.parent \in R /\ q.parent = N[r.parent])
        /\ (r.parent = Null <=> q.parent = Null)
        /\ (q.child # Null => r.child \in R /\ q.child = N[r.child])
        /\ Live(t, i)
    BY <1>6, <2>1
  <2>3. b \in Places /\ b # Null
    BY <1>3
  <2>4. ASSUME q.child # Null PROVE ChildFits(t, NoOwner, i, q.child)
    <3> DEFINE c == r.child
    <3>1. c \in R /\ q.child = N[c] /\ c # Null
      BY <1>3, <2>2, <2>4
    <3>2. Live(s, c) /\ s.act[c].parent \in {b, Null}
      BY <1>0, <2>1, <2>3, <3>1, LiveLinks
    <3> HIDE DEF c, q
    <3> DEFINE k == N[c]
    <3>3. k \in Places /\ Used(t, k) /\ t.act[k].parent \in {i, Null}
      BY <1>3, <1>6, <2>1, <3>1, <3>2
    <3> HIDE DEF k
    <3>4. ChildFits(t, NoOwner, i, k)
      BY <1>10, <3>3 DEF ChildFits
    <3> QED BY <3>1, <3>4 DEF k
  <2>5. ASSUME q.under # Null PROVE UnderFits(t, NoOwner, i, q.under)
    <3> DEFINE c == r.under
    <3>1. c \in R /\ q.under = N[c] /\ c # Null
      BY <1>3, <2>2, <2>5
    <3>2. Live(s, c) /\ s.act[c].parent = r.parent /\ s.act[c].suspended
      BY <1>0, <2>1, <2>3, <3>1, LiveLinks
    <3> HIDE DEF c
    <3> DEFINE k == N[c]
    <3>3. k \in Places /\ Used(t, k) /\ t.act[k].suspended /\
          (t.act[k].parent = Null <=> s.act[c].parent = Null) /\
          (t.act[k].parent # Null => t.act[k].parent = N[s.act[c].parent])
      BY <1>3, <1>6, <3>1, <3>2
    <3> HIDE DEF k, r
    <3>4. t.act[k].parent = q.parent
      BY <2>2, <3>2, <3>3
    <3>5. UnderFits(t, NoOwner, i, k)
      BY <1>10, <3>3, <3>4 DEF UnderFits
    <3> QED BY <3>1, <3>5 DEF k
  <2>6. ASSUME q.over # Null PROVE OverFits(t, NoOwner, i, q.over)
    <3> DEFINE y == r.over
    <3>1. y \in R /\ q.over = N[y] /\ y # Null /\ s.act[y].under = b
      BY <1>2, <1>3, <2>2, <2>6
    <3> HIDE DEF y
    <3>2. Live(s, y)
      BY <1>0, <1>2, <1>3, <2>3, <3>1 DEF GoalsSound
    <3>3. N[y] \in Places /\ Used(t, N[y]) /\ t.act[N[y]].under = i
      BY <1>3, <1>6, <2>1, <2>3, <3>1, <3>2
    <3> DEFINE k == N[y]
    <3> HIDE DEF k
    <3>4. OverFits(t, NoOwner, i, k)
      BY <1>10, <3>3 DEF OverFits, k
    <3> QED BY <3>1, <3>4 DEF k
  <2> QED BY <1>10, <2>2, <2>4, <2>5, <2>6 DEF LinkSound
<1>12. OnceSound(t, NoOwner, {})
  <2> SUFFICES ASSUME NEW i \in Places, NEW j \in Places, Used(t, i), Used(t, j)
               PROVE  /\ i # j /\ t.act[i].child # Null => t.act[i].child # t.act[j].child
                      /\ i # j /\ t.act[i].under # Null => t.act[i].under # t.act[j].under
                      /\ t.act[i].child # Null => t.act[i].child # t.act[j].under
    BY DEF OnceSound
  <2>1. PICK b \in R : i = N[b] /\ Live(s, b)
    BY <1>9
  <2>2. PICK c \in R : j = N[c] /\ Live(s, c)
    BY <1>9
  <2>3. i # j => b # c
    BY <2>1, <2>2
  <2>4. /\ b # c /\ s.act[b].under # Null => s.act[b].under # s.act[c].under
        /\ b # c /\ s.act[b].child # Null => s.act[b].child # s.act[c].child
        /\ s.act[b].child # Null => s.act[b].child # s.act[c].under
    BY <1>0, <1>3, <2>1, <2>2, LiveLinks
  <2>5. /\ (s.act[b].under = Null <=> t.act[i].under = Null)
        /\ (t.act[i].under # Null => s.act[b].under \in R /\ t.act[i].under = N[s.act[b].under])
        /\ (s.act[b].child = Null <=> t.act[i].child = Null)
        /\ (t.act[i].child # Null => s.act[b].child \in R /\ t.act[i].child = N[s.act[b].child])
    BY <1>6, <2>1
  <2>6. /\ (s.act[c].under = Null <=> t.act[j].under = Null)
        /\ (t.act[j].under # Null => s.act[c].under \in R /\ t.act[j].under = N[s.act[c].under])
        /\ (s.act[c].child = Null <=> t.act[j].child = Null)
        /\ (t.act[j].child # Null => s.act[c].child \in R /\ t.act[j].child = N[s.act[c].child])
    BY <1>6, <2>2
  <2> QED BY <1>1, <2>3, <2>4, <2>5, <2>6
<1>13. DeadSound(t, NoOwner) /\ Away(t, {}) /\ NoOwner \in [Places -> Pointer]
  BY PlacesFacts DEF DeadSound, Away, NoOwner
<1>14. ASSUME a # Null PROVE OnTop(t, N[a], Null, {})
  <2>1. OnTop(s, a, Null, {}) /\ a \in R /\ Live(s, a) /\ s.act[a].parent = Null
    BY <1>0, <1>14 DEF OnTop
  <2>2. N[a] \in Places /\ Live(t, N[a]) /\ t.act[N[a]].parent = Null
    BY <1>3, <1>6, <2>1
  <2>3. ASSUME NEW i \in Places, Live(t, i) PROVE t.act[i].under # N[a] /\ t.act[i].child # N[a]
    <3>1. PICK b \in R : i = N[b] /\ Live(s, b)
      BY <1>9, <2>3 DEF Live, Used
    <3>2. s.act[b].under # a /\ s.act[b].child # a
      BY <1>3, <2>1, <3>1 DEF OnTop
    <3> QED BY <1>1, <1>3, <1>6, <2>1, <3>1, <3>2
  <2> QED BY <2>2, <2>3 DEF OnTop
<1> QED BY <1>8, <1>11, <1>12, <1>13, <1>14 DEF Sound

LEMMA PackedMoves ==
    ASSUME NEW s \in Typed, NEW a \in Pointer, NEW t \in Typed, t.act = Packed(s, Numbers(s, a)),
           \A x \in Reached(s, a) : Pointers(s.act[x]) \subseteq Reached(s, a)
    PROVE  \E N : /\ Moves(s, t, Reached(s, a), N)
                  /\ \A x \in Reached(s, a) : N[x] = Number(Numbers(s, a), x)
<1> DEFINE n == Numbers(s, a)
           R == Reached(s, a)
           N == [x \in R |-> Number(n, x)]
<1>1. R \in SUBSET Places /\ Null \notin R /\ Null \in Pointer /\ Places \subseteq Pointer
  BY OwnFacts, PlacesFacts
<1>2. /\ \A x \in R : Number(n, x) \in Places /\ <<x, Number(n, x)>> \in n
      /\ Number(n, Null) = Null
  BY <1>1, NumberFacts
<1>3. \A b, c, i : <<b, i>> \in n /\ <<c, i>> \in n => b = c
  BY NumbersFacts
<1>4. /\ \A b \in R : t.act[Number(n, b)] = Renumbered(s.act[b], n)
      /\ \A i \in Places : \/ t.act[i] = Blank("free")
                           \/ \E b \in R : i = Number(n, b)
  BY PackedFacts
<1>5. \A b \in R : LET q == t.act[Number(n, b)] IN
           /\ q.state = s.act[b].state /\ q.suspended = s.act[b].suspended
           /\ q.under = Number(n, s.act[b].under) /\ q.over = Number(n, s.act[b].over)
           /\ q.parent = Number(n, s.act[b].parent) /\ q.child = Number(n, s.act[b].child)
           /\ q.goal = Number(n, s.act[b].goal)
  BY <1>4, RenumberedFacts
<1>6. \A x \in R : Pointers(s.act[x]) \subseteq R
  OBVIOUS
<1> HIDE DEF n, R
<1>7. N \in [R -> Places] /\ \A x \in R : N[x] = Number(n, x)
  BY <1>2
<1> HIDE DEF N
<1>8. ASSUME NEW b \in R PROVE MovedAction(s.act[b], t.act[N[b]], R, N)
  <2>1. /\ s.act[b].under \in R \cup {Null} /\ s.act[b].over \in R \cup {Null}
        /\ s.act[b].parent \in R \cup {Null} /\ s.act[b].child \in R \cup {Null}
        /\ s.act[b].goal \in R \cup {Null}
    BY <1>6 DEF Pointers
  <2>2. \A p \in R \cup {Null} : Moved(p, Number(n, p), R, N)
    BY <1>2, <1>7 DEF Moved
  <2> QED BY <1>5, <1>7, <2>1, <2>2 DEF MovedAction
<1>9. \A b, c \in R : N[b] = N[c] => b = c
  BY <1>2, <1>3, <1>7
<1>10. Moves(s, t, R, N)
  BY <1>1, <1>4, <1>7, <1>8, <1>9 DEF Moves
<1> QED BY <1>7, <1>10 DEF n, R
-----------------------------------------------------------------------------
(* Between updates.                                                        *)

ActionInv ==
    /\ ActionTypeOK /\ ~ missed /\ ~ wild
    /\ started => Tidy(Memory, NoOwner, top)
    /\ ~ started => action = FirstAction /\ top = 1

LEMMA LeftSound ==
    ASSUME NEW s, NEW own, NEW a, Tidy(s, own, a), Left(s, a), started' = TRUE
    PROVE  ActionInv'
<1> DEFINE n == Numbers(s, a)
           M == [act |-> Packed(s, n), top |-> Number(n, a), dead |-> <<>>, quiet |-> FALSE,
                 missed |-> FALSE, wild |-> FALSE]
<1>0. s \in Typed /\ a \in Pointer /\ ~ s.missed /\ ~ s.wild
  BY DEF Tidy, Sound
<1>1. ~ Stray(s, a)
  BY TidyNotStray
<1>2. ~ missed' /\ ~ wild' /\ action' = Packed(s, n) /\ top' = Number(n, a)
  BY <1>0, <1>1 DEF Left
<1>3. ActionTypeOK'
  BY <1>0, LeftTyped
<1>4. Packed(s, n) \in [Places -> Actions] /\ Number(n, a) \in Pointer
  BY <1>0, PackedFacts, NumberFacts
<1>5. wild' = FALSE
  BY <1>2, <1>3 DEF ActionTypeOK
<1>6. Memory' = M
  BY <1>2, <1>5 DEF Memory
<1> HIDE DEF n
<1>7. /\ M \in Typed /\ M.act = Packed(s, n) /\ M.dead = <<>> /\ ~ M.missed /\ ~ M.wild
  BY <1>4 DEF Typed, Memories, Actions
<1> HIDE DEF M
<1>8. PICK N : /\ Moves(s, M, Reached(s, a), N)
               /\ \A x \in Reached(s, a) : N[x] = Number(n, x)
  <2>1. \A x \in Reached(s, a) : Pointers(s.act[x]) \subseteq Reached(s, a)
    BY TidyPointers
  <2> QED BY <1>0, <1>7, <2>1, PackedMoves DEF n
<1>9. Sound(M, NoOwner, {}, Null) /\ (a # Null => OnTop(M, N[a], Null, {}))
  BY <1>7, <1>8, MovedSound
<1>10. a # Null => N[a] = Number(n, a)
  BY <1>8, TidyReached
<1>11. a = Null => Number(n, a) = Null
  BY <1>0, NumberFacts, OwnFacts DEF n
<1>12. Tidy(M, NoOwner, top')
  BY <1>2, <1>4, <1>7, <1>9, <1>10, <1>11 DEF Tidy
<1>13. Tidy(Memory, NoOwner, top)'
  BY <1>6, <1>12
<1> QED BY <1>2, <1>3, <1>13 DEF ActionInv

\* The first action of a bot, before it is started.
LEMMA FirstSound ==
    ASSUME ActionTypeOK, ~ wild, action = FirstAction
    PROVE  /\ Memory \in Typed /\ Sound(Memory, NoOwner, {}, Null)
           /\ Spare(Memory, 1) /\ Memory.act[1].parent = Null
           /\ \A x \in Places : Owned(Memory, x) = {} /\ ~ Live(Memory, x)
<1> DEFINE s == Memory
<1>1. s \in Typed /\ s.act = FirstAction /\ s.dead = <<>> /\ ~ s.missed /\ ~ s.wild
  BY MemoryTyped DEF Memory
<1> HIDE DEF s
<1>2. \A x \in Places : /\ s.act[x].under = Null /\ s.act[x].over = Null /\ s.act[x].parent = Null
                        /\ s.act[x].child = Null /\ s.act[x].goal = Null
                        /\ s.act[x].state = IF x = 1 THEN "made" ELSE "free"
  BY <1>1 DEF FirstAction, Blank
<1>3. \A x \in Places : ~ Used(s, x) /\ ~ Live(s, x)
  BY <1>2 DEF Used, Live
<1>4. 1 \in Places /\ Null \notin Places /\ NoOwner \in [Places -> Pointer]
  BY PlacesFacts DEF NoOwner
<1>5. GoalsSound(s)
  BY <1>2 DEF GoalsSound
<1>6. LinksSound(s, NoOwner, {}, Null) /\ OnceSound(s, NoOwner, {}) /\ DeadSound(s, NoOwner)
      /\ Away(s, {})
  BY <1>1, <1>3 DEF LinksSound, OnceSound, DeadSound, Away
<1>7. Spare(s, 1)
  BY <1>2, <1>4 DEF Spare
<1>8. \A x \in Places : Owned(s, x) = {}
  BY <1>2 DEF Owned
<1> QED BY <1>1, <1>2, <1>3, <1>4, <1>5, <1>6, <1>7, <1>8 DEF Sound, s

\* The update starts it.
LEMMA FirstUpdate ==
    ASSUME NEW n \in Nat, NEW s \in Typed, NEW a \in Places, s.act[a].under = Null,
           ~ Live(s, a), NEW o \in OnUpdate(Runs[n], s, a)
    PROVE  o.s = s /\ o.a = a /\ o.r = Result("CHANGE_TO", a)
<1>0. [what |-> "update", s |-> s, a |-> a, r |-> Continue] \in Calls
  BY ResultsAnswered, PlacesFacts DEF Calls, Typed, Answered
<1>1. n # 0
  BY <1>0, RunsUnfold DEF NoCall, OnUpdate
<1>2. n - 1 \in Nat /\ n = (n - 1) + 1
  BY <1>1
<1> DEFINE f == Runs[n - 1]
<1>3. Runs[n] = CallStep(f)
  BY <1>2, RunsUnfold
<1> HIDE DEF f
<1>4. a # Null /\ Null \in Pointer
  BY PlacesFacts
<1>5. OnUpdate(Runs[n], s, a) = DoUpdate(f, s, a)
  BY <1>0, <1>3, <1>4 DEF OnUpdate, CallStep, Call
<1>6. Stack(s, Null) \subseteq {}
  <2>1. \A S \in SUBSET Places :
          (Null # Null => Null \in S) /\ (\A x \in S : s.act[x].under # Null => s.act[x].under \in S)
          => Stack(s, Null) \subseteq S
    BY StackFrom, <1>4
  <2>2. {} \in SUBSET Places
    OBVIOUS
  <2> QED BY <2>1, <2>2
<1>7. ~ OutOfScope(s, a)
  BY <1>6 DEF OutOfScope, Under
<1>8. o = Outcome(s, a, Result("CHANGE_TO", a))
  BY <1>5, <1>7 DEF DoUpdate, Live
<1> QED BY <1>8 DEF Outcome

LEMMA UpdateSound ==
    ASSUME ActionInv, Update
    PROVE  ActionInv'
<1> DEFINE f == Runs[MaxCalls]
<1>1. Promises(f)
  BY RunsPromise, ActionsAssumption
<1>2. /\ started' = TRUE /\ top # Null
      /\ \E q \in OnUpdate(f, Memory, top) : \E o \in Apply(f, q.s, top, q.r) :
            \E t \in Purged(o.s) : Left(t, o.a)
  BY DEF Update
<1>3. ActionTypeOK /\ ~ wild /\ MaxCalls \in Nat /\ top \in Pointer
  BY ActionsAssumption DEF ActionInv, ActionTypeOK
<1>4. PICK q \in OnUpdate(f, Memory, top) : \E o \in Apply(f, q.s, top, q.r) :
            \E t \in Purged(o.s) : Left(t, o.a)
  BY <1>2
<1>5. PICK o \in Apply(f, q.s, top, q.r) : \E t \in Purged(o.s) : Left(t, o.a)
  BY <1>4
<1>6. Kept(Memory, NoOwner, {}, Null, o.a, o.s)
  <2>1. CASE started
    <3>1. Tidy(Memory, NoOwner, top)
      BY <2>1 DEF ActionInv
    <3> HIDE DEF f
    <3>2. Sound(Memory, NoOwner, {}, Null) /\ OnTop(Memory, top, Null, {}) /\ Memory.dead = <<>>
      BY <1>2, <3>1 DEF Tidy
    <3>3. /\ Kept(Memory, NoOwner, {}, Null, top, q.s) /\ Proper(q.s, q.r)
          /\ q.s.act[top].over = Null
      BY <1>1, <1>4, <3>2 DEF Promises, Updates
    <3> QED BY <1>1, <1>2, <1>5, <3>3, AppliedThen
  <2>2. CASE ~ started
    <3>1. action = FirstAction /\ top = 1
      BY <2>2 DEF ActionInv
    <3>2. /\ Memory \in Typed /\ Sound(Memory, NoOwner, {}, Null)
          /\ Spare(Memory, 1) /\ Memory.act[1].parent = Null
          /\ \A x \in Places : Owned(Memory, x) = {} /\ ~ Live(Memory, x)
      BY <1>3, <3>1, FirstSound
    <3>3. 1 \in Places /\ Memory.act[1].under = Null
      BY <3>2, PlacesFacts DEF Sound, GoalsSound, Spare
    <3>4. q.s = Memory /\ q.r = Result("CHANGE_TO", 1)
      BY <1>3, <1>4, <3>1, <3>2, <3>3, FirstUpdate
    <3>5. o \in Apply(f, Memory, 1, Result("CHANGE_TO", 1))
      BY <1>5, <3>1, <3>4
    <3> HIDE DEF f
    <3> QED BY <1>1, <3>2, <3>5 DEF Promises, Starts
  <2> QED BY <2>1, <2>2
<1>7. PICK own : /\ Sound(o.s, own, {}, Null)
                 /\ o.a # Null => OnTop(o.s, o.a, Null, {})
  BY <1>6 DEF Kept
<1>8. PICK t \in Purged(o.s) : Left(t, o.a)
  BY <1>5
<1>9. /\ Sound(t, own, {}, Null) /\ t.dead = <<>>
      /\ \A a : OnTop(o.s, a, Null, {}) => OnTop(t, a, Null, {})
  <2>1. Purges(Deletions[MaxCalls])
    BY <1>3, DeletionsPurge
  <2> QED BY <1>7, <1>8, <2>1 DEF Purges, Purged
<1>10. o.a \in Pointer
  <2>1. o.a # Null => o.a \in Places
    BY <1>7 DEF OnTop
  <2> QED BY <2>1, PlacesFacts
<1>11. Tidy(t, own, o.a)
  BY <1>7, <1>9, <1>10 DEF Tidy
<1> QED BY <1>2, <1>8, <1>11, LeftSound

LEMMA BotEventSound ==
    ASSUME ActionInv, BotEvent
    PROVE  ActionInv'
<1>1. PICK s \in Handled(Memory) : Left(s, top)
  BY DEF BotEvent
<1>2. ActionTypeOK /\ ~ wild /\ Memory \in Typed /\ top \in Pointer /\ Memory.top = top
  BY MemoryTyped DEF ActionInv, ActionTypeOK
<1>3. CASE started
  <2>1. Tidy(Memory, NoOwner, top) /\ started' = TRUE
    BY <1>3 DEF ActionInv, BotEvent, ActionTypeOK
  <2>2. Stirred(Memory, s)
    BY <1>1, <2>1, HandledStirs DEF Tidy
  <2>3. /\ Sound(s, NoOwner, {}, Null)
        /\ \A a, p : OnTop(Memory, a, p, {}) => OnTop(s, a, p, {})
    BY <2>1, <2>2, StirredSound DEF Tidy
  <2>4. Tidy(s, NoOwner, top)
    BY <2>1, <2>2, <2>3 DEF Tidy, Stirred
  <2> QED BY <1>1, <2>1, <2>4, LeftSound
<1>4. CASE ~ started
  <2>1. \A x \in Places : ~ Live(Memory, x)
    BY <1>2, <1>4, FirstSound DEF ActionInv
  <2>2. Levels(Memory) = {}
    BY <2>1 DEF Levels, Live, Reach
  <2>3. Handled(Memory) = {}
    BY <2>2 DEF Handled, Responders
  <2> QED BY <1>1, <2>3
<1> QED BY <1>3, <1>4
-----------------------------------------------------------------------------
(* ~Behavior: the bottom of the stack is deleted, with all that covers it. *)

Above(s, a) == Reach([b \in Places |-> At(s.act[b].over)], At(a))
Pile(s, a) == Above(s, a) \cup UNION {Below(s, x) : x \in Above(s, a)}

\* An action of the bot, nothing under which is part of what it is deleted with.
PileDeletable(s, a) ==
    /\ a \in Places /\ s.act[a].under \notin Pile(s, a)
    /\ \A x \in Above(s, a) :
        /\ Removable(s, x) /\ s.act[x].parent = Null
        /\ s.act[x].over # Null => s.act[s.act[x].over].under = x
        /\ Below(s, x) \cap Above(s, a) = {}
    /\ \A x, y \in Above(s, a) : x # y => Below(s, x) \cap Below(s, y) = {}

LEMMA AboveFacts ==
    ASSUME NEW s \in Typed
    PROVE  /\ Above(s, Null) = {}
           /\ \A p \in Pointer :
                /\ Above(s, p) \in SUBSET Places
                /\ p # Null => p \in Above(s, p)
                /\ \A x \in Above(s, p) : s.act[x].over # Null => s.act[x].over \in Above(s, p)
                /\ \A x \in Above(s, p) : x = p \/ \E y \in Above(s, p) : x = s.act[y].over
                /\ \A S \in SUBSET Places :
                     (p # Null => p \in S) /\ (\A x \in S : s.act[x].over # Null => s.act[x].over \in S)
                     => Above(s, p) \subseteq S
           /\ \A a \in Places : Above(s, a) = {a} \cup Above(s, s.act[a].over)
<1> DEFINE link == [b \in Places |-> At(s.act[b].over)]
<1>1. link \in Links /\ \A b \in Places : link[b] = At(s.act[b].over)
  BY PointingTyped DEF Links, At
<1>2. \A p \in Pointer : At(p) \in SUBSET Places /\ (p # Null => At(p) = {p})
  BY PlacesFacts DEF At
<1>3. \A p : Above(s, p) = Reach(link, At(p))
  BY DEF Above
<1> HIDE DEF link
<1>4. Above(s, Null) = {}
  BY <1>1, <1>3, ReachNothing DEF At
<1>5. ASSUME NEW p \in Pointer
      PROVE  /\ Above(s, p) \in SUBSET Places
             /\ p # Null => p \in Above(s, p)
             /\ \A x \in Above(s, p) : s.act[x].over # Null => s.act[x].over \in Above(s, p)
             /\ \A x \in Above(s, p) : x = p \/ \E y \in Above(s, p) : x = s.act[y].over
  <2>1. /\ Above(s, p) \in SUBSET Places /\ At(p) \subseteq Above(s, p)
        /\ Closed(link, Above(s, p))
    BY <1>1, <1>2, <1>3, ReachCloses
  <2>2. \A x \in Above(s, p) : x \in At(p) \/ \E y \in Above(s, p) : x \in link[y]
    BY <1>1, <1>2, <1>3, ReachOwner
  <2> QED BY <1>1, <2>1, <2>2 DEF Closed, At
<1>6. ASSUME NEW p \in Pointer, NEW S \in SUBSET Places, p # Null => p \in S,
             \A x \in S : s.act[x].over # Null => s.act[x].over \in S
      PROVE  Above(s, p) \subseteq S
  <2>1. At(p) \subseteq S /\ Closed(link, S)
    BY <1>1, <1>6 DEF At, Closed
  <2> QED BY <1>3, <2>1, ReachMinimal
<1>7. ASSUME NEW a \in Places PROVE Above(s, a) = {a} \cup Above(s, s.act[a].over)
  <2>1. a \in Pointer /\ a # Null
    BY PlacesFacts
  <2>2. Above(s, a) = Reach(link, {a}) /\ Above(s, s.act[a].over) = Reach(link, link[a])
    BY <1>1, <1>2, <1>3, <2>1
  <2> QED BY <1>1, <2>2, ReachFirst
<1> QED BY <1>4, <1>5, <1>6, <1>7

LEMMA AboveOnSame ==
    ASSUME NEW s \in Typed, NEW t \in Typed, NEW p \in Pointer,
           \A x \in Above(s, p) : t.act[x].over = s.act[x].over
    PROVE  Above(t, p) = Above(s, p)
<1> DEFINE link == [b \in Places |-> At(s.act[b].over)]
           other == [b \in Places |-> At(t.act[b].over)]
<1>1. link \in Links /\ other \in Links
  BY PointingTyped DEF Links, At
<1>2. At(p) \in SUBSET Places
  BY PlacesFacts DEF At
<1>3. Above(s, p) = Reach(link, At(p)) /\ Above(t, p) = Reach(other, At(p))
  BY DEF Above
<1>4. Above(s, p) \in SUBSET Places
  BY AboveFacts
<1>5. \A b \in Above(s, p) : other[b] = link[b]
  BY <1>4
<1> HIDE DEF link, other
<1> QED BY <1>1, <1>2, <1>3, <1>5, ReachOnSame

\* It is removable where other actions are gone.
LEMMA RemovableKept ==
    ASSUME NEW s \in Typed, NEW x, Removable(s, x), s.act[x].parent = Null,
           NEW t, NEW U, NEW P, NEW B, Gone(s, t, U, P, B),
           ({x} \cup Below(s, x)) \cap (U \cup P) = {}, Below(s, x) \cap B = {},
           s.act[x].under \notin U
    PROVE  Removable(t, x) /\ t.act[x].parent = Null /\ Below(t, x) = Below(s, x)
<1> DEFINE L == Below(s, x)
<1>0. /\ x \in Places /\ t \in Typed /\ L \in SUBSET Places /\ Forest(s, L) /\ x \notin L
      /\ s.act[x].child \in Pointer /\ s.act[x].goal \in Pointer
      /\ s.act[x].under \in Pointer
  BY PointersTyped DEF Removable, Gone, Forest
<1>1. \A y \in {x} \cup L :
          /\ t.act[y].state = s.act[y].state /\ t.act[y].under = s.act[y].under
          /\ t.act[y].parent = s.act[y].parent /\ t.act[y].goal = s.act[y].goal
          /\ t.act[y].child = s.act[y].child
          /\ y \in L => t.act[y].over = s.act[y].over
  BY <1>0 DEF Gone
<1>2. \A q \in {s.act[x].child, s.act[x].goal} : Reached(s, q) \subseteq L /\ Reached(t, q) = Reached(s, q)
  <2> SUFFICES ASSUME NEW q \in {s.act[x].child, s.act[x].goal}
               PROVE  Reached(s, q) \subseteq L /\ Reached(t, q) = Reached(s, q)
    OBVIOUS
  <2>1. Reached(s, q) \subseteq L /\ q \in Pointer
    BY <1>0 DEF Below
  <2> HIDE DEF L
  <2> QED BY <1>0, <1>1, <2>1, ReachedOnSame
<1>3. Below(t, x) = L
  BY <1>1, <1>2 DEF Below
<1>4. Forest(t, L)
  <2> HIDE DEF L
  <2> QED BY <1>0, ForestKept DEF L
<1>5. \A y \in {x} \cup L : Owned(t, y) = Owned(s, y)
  BY <1>1 DEF Owned
<1>6. /\ s.act[x].child # Null => s.act[x].child \in L
      /\ s.act[x].goal # Null => s.act[x].goal \in L
  BY <1>0, OwnFacts DEF Below
<1>7. s.act[x].under # Null =>
         /\ s.act[x].under \in Places \ ({x} \cup L)
         /\ t.act[s.act[x].under].state # "free"
  BY DEF Removable, Outside, Gone
<1>8. /\ t.act[x].state # "free"
      /\ \A y \in L : Owned(t, y) \cap {t.act[x].child, t.act[x].goal} = {}
  BY <1>1, <1>5 DEF Removable
<1>9. t.act[x].child # Null => /\ t.act[x].child # t.act[x].goal
                               /\ t.act[t.act[x].child].parent \in {x, Null}
  BY <1>1, <1>6 DEF Removable
<1>10. t.act[x].goal # Null => LET g == t.act[x].goal IN
         Owned(t, g) = {} /\ t.act[g].parent = Null /\ t.act[g].over = Null
  BY <1>1, <1>5, <1>6 DEF Removable
<1>11. Outside(t, {x} \cup L, t.act[x].parent) /\ Outside(t, {x} \cup L, t.act[x].under)
  BY <1>1, <1>7 DEF Outside
<1> HIDE DEF L
<1> QED BY <1>0, <1>1, <1>3, <1>4, <1>8, <1>9, <1>10, <1>11 DEF Removable, L

\* The parts of what an action is deleted with.
LEMMA PileParts ==
    ASSUME NEW s \in Typed, NEW a, PileDeletable(s, a)
    PROVE  LET o == s.act[a].over
               b == s.act[a].under
               L == Below(s, a)
           IN  /\ a \in Places /\ o \in Pointer /\ b \in Pointer /\ a # b
               /\ b \notin L /\ b \notin Above(s, o) /\ L \in SUBSET Places
               /\ a \notin L /\ a \notin Above(s, o) /\ L \cap Above(s, o) = {}
               /\ a \in Above(s, a) /\ Above(s, a) = {a} \cup Above(s, o)
               /\ Pile(s, a) = {a} \cup L \cup Pile(s, o)
               /\ Removable(s, a) /\ s.act[a].parent = Null
               /\ o # Null => o \in Places /\ o \in Above(s, o) /\ s.act[o].under = a
<1> DEFINE o == s.act[a].over
           b == s.act[a].under
           L == Below(s, a)
<1>1. a \in Places /\ o \in Pointer /\ b \in Pointer /\ a \in Pointer /\ a # Null /\ b \notin Pile(s, a)
  BY PointersTyped, PlacesFacts DEF PileDeletable
<1>2. a \in Above(s, a) /\ Above(s, a) = {a} \cup Above(s, o)
  BY <1>1, AboveFacts
<1>3. Pile(s, a) = {a} \cup L \cup Pile(s, o)
  BY <1>2 DEF Pile
<1>4. b \notin L /\ b # a /\ b \notin Above(s, o) /\ b \notin Above(s, a)
  BY <1>1, <1>2, <1>3 DEF Pile
<1>5. Removable(s, a) /\ s.act[a].parent = Null /\ L \cap Above(s, a) = {}
  BY <1>2 DEF PileDeletable
<1>6. L \in SUBSET Places
  BY <1>5 DEF Removable, Forest
<1>7. o # Null => o \in Places /\ o \in Above(s, o) /\ s.act[o].under = a
  BY <1>1, <1>2, AboveFacts, PlacesFacts DEF PileDeletable
<1>8. a \notin Above(s, o)
  <2> SUFFICES ASSUME a \in Above(s, o) PROVE FALSE
    OBVIOUS
  <2>1. a = o \/ \E y \in Above(s, o) : a = s.act[y].over
    BY <1>1, AboveFacts
  <2>2. \E y \in Above(s, a) : a = s.act[y].over
    BY <1>2, <2>1
  <2>3. PICK y \in Above(s, a) : a = s.act[y].over
    BY <2>2
  <2>4. s.act[a].under = y
    BY <1>1, <2>3 DEF PileDeletable
  <2> QED BY <1>4, <2>3, <2>4
<1> HIDE DEF o, b, L
<1> QED BY <1>1, <1>2, <1>3, <1>4, <1>5, <1>6, <1>7, <1>8 DEF o, b, L

\* What covers an action can be deleted when its children are.
LEMMA OverDeletable ==
    ASSUME NEW s \in Typed, NEW a, PileDeletable(s, a), s.act[a].over # Null,
           NEW t, NEW R \in SUBSET Below(s, a), Gone(s, t, R, {a}, {s.act[a].under})
    PROVE  LET o == s.act[a].over IN
           /\ PileDeletable(t, o) /\ Pile(t, o) = Pile(s, o) /\ t.act[o].under = a
           /\ ({a} \cup Below(s, a)) \cap Pile(s, o) = {}
<1> DEFINE o == s.act[a].over
           b == s.act[a].under
           L == Below(s, a)
           U == Above(s, o)
<1>1. /\ a \in Places /\ o \in Places /\ o \in Pointer /\ b \in Pointer /\ a # b
      /\ b \notin L /\ b \notin U /\ L \in SUBSET Places
      /\ a \notin L /\ a \notin U /\ L \cap U = {}
      /\ a \in Above(s, a) /\ Above(s, a) = {a} \cup U
      /\ Pile(s, a) = {a} \cup L \cup Pile(s, o)
      /\ o \in U /\ s.act[o].under = a
  BY PileParts
<1>2. t \in Typed /\ U \in SUBSET Places
  BY <1>1, AboveFacts DEF Gone
<1>3. \A x \in U : x \in Places \ R /\ x # a /\ x # b
  BY <1>1, <1>2
<1>4. \A x \in U : /\ t.act[x].over = s.act[x].over /\ t.act[x].under = s.act[x].under
  BY <1>3 DEF Gone
<1>5. Above(t, o) = U
  BY <1>1, <1>2, <1>4, AboveOnSame
<1>6. ASSUME NEW x \in U
      PROVE  /\ Removable(s, x) /\ s.act[x].parent = Null
             /\ s.act[x].over # Null => s.act[x].over \in U /\ s.act[s.act[x].over].under = x
             /\ Below(s, x) \cap U = {} /\ a \notin Below(s, x) /\ b \notin Below(s, x)
             /\ Below(s, x) \cap L = {} /\ s.act[x].under \in {a} \cup U
  <2>1. x \in Above(s, a) /\ x # a
    BY <1>1
  <2>2. /\ Removable(s, x) /\ s.act[x].parent = Null
        /\ s.act[x].over # Null => s.act[s.act[x].over].under = x
        /\ Below(s, x) \cap Above(s, a) = {}
        /\ Below(s, x) \cap Below(s, a) = {}
    BY <1>1, <2>1 DEF PileDeletable
  <2>3. b \notin Below(s, x)
    BY <2>1 DEF PileDeletable, Pile
  <2>4. s.act[x].over # Null => s.act[x].over \in U
    BY <1>1, AboveFacts
  <2>5. x = o \/ \E y \in U : x = s.act[y].over
    BY <1>1, AboveFacts
  <2>6. s.act[x].under \in {a} \cup U
    <3>1. CASE x = o
      BY <1>1, <3>1
    <3>2. CASE \E y \in U : x = s.act[y].over
      <4>1. PICK y \in U : x = s.act[y].over
        BY <3>2
      <4>2. y \in Above(s, a) /\ x # Null
        BY <1>1, <1>2, PlacesFacts
      <4>3. s.act[x].under = y
        BY <4>1, <4>2 DEF PileDeletable
      <4> QED BY <4>3
    <3> QED BY <2>5, <3>1, <3>2
  <2> HIDE DEF U, L, b, o
  <2> QED BY <1>1, <2>2, <2>3, <2>4, <2>6 DEF L
<1>7. ASSUME NEW x \in U
      PROVE  Removable(t, x) /\ t.act[x].parent = Null /\ Below(t, x) = Below(s, x)
  <2>1. x \in Places /\ Below(s, x) \in SUBSET Places
    BY <1>2, <1>6 DEF Removable, Forest
  <2>2. /\ ({x} \cup Below(s, x)) \cap (R \cup {a}) = {} /\ Below(s, x) \cap {b} = {}
        /\ s.act[x].under \notin R
    BY <1>1, <1>3, <1>6
  <2>3. Gone(s, t, R, {a}, {b})
    OBVIOUS
  <2> HIDE DEF U, L, b, o
  <2> QED BY <1>6, <2>2, <2>3, RemovableKept
<1>8. Pile(t, o) = Pile(s, o) /\ Pile(s, o) = U \cup UNION {Below(s, x) : x \in U}
  BY <1>5, <1>7 DEF Pile
<1>9. ({a} \cup L) \cap Pile(s, o) = {}
  <2> HIDE DEF U, L, o
  <2> QED BY <1>1, <1>6, <1>8
<1>10. t.act[o].under = a
  BY <1>1, <1>4
<1>11. PileDeletable(t, o)
  <2>1. ASSUME NEW x \in U
        PROVE  /\ Removable(t, x) /\ t.act[x].parent = Null
               /\ t.act[x].over # Null => t.act[t.act[x].over].under = x
               /\ Below(t, x) \cap U = {}
    <3> HIDE DEF U, L, b, o
    <3> QED BY <1>4, <1>6, <1>7
  <2>2. \A x, y \in U : x # y => Below(t, x) \cap Below(t, y) = {}
    <3>1. \A x \in U : x \in Above(s, a)
      BY <1>1
    <3>2. \A x, y \in U : x # y => Below(s, x) \cap Below(s, y) = {}
      BY <3>1 DEF PileDeletable
    <3> HIDE DEF U
    <3> QED BY <1>7, <3>2
  <2>3. t.act[o].under \notin Pile(t, o)
    BY <1>8, <1>9, <1>10
  <2> HIDE DEF U, L, b, o
  <2> QED BY <1>1, <1>5, <2>1, <2>2, <2>3 DEF PileDeletable
<1> QED BY <1>8, <1>9, <1>10, <1>11

DeletesPiles(f) == \A s \in Typed : \A a : PileDeletable(s, a) =>
    \A t \in DeleteBy(f, "action", s, a) : Gone(s, t, Pile(s, a), {}, {s.act[a].under})

\* What ~Action does of an action that is covered, when what it calls does so.
LEMMA DeletePileGone ==
    ASSUME NEW f, Deletes(f), DeletesPiles(f), NEW s \in Typed, NEW a, PileDeletable(s, a),
           NEW t \in DeleteAction(f, s, a)
    PROVE  Gone(s, t, Pile(s, a), {}, {s.act[a].under})
<1> DEFINE b == s.act[a].under
           c == s.act[a].child
           g == s.act[a].goal
           o == s.act[a].over
           L == Below(s, a)
           R == Reached(s, c)
           Q == Pile(s, o)
           s1 == Leave([s EXCEPT !.wild = @ \/ Dangling(s, a),
                                 !.missed = @ \/ s.act[a].state = "started"], a)
<1>0. /\ a \in Places /\ o \in Pointer /\ b \in Pointer /\ a # b /\ c \in Pointer /\ g \in Pointer
      /\ b \notin L /\ L \in SUBSET Places /\ a \notin L /\ R \subseteq L /\ R \in SUBSET Places
      /\ Removable(s, a) /\ s.act[a].parent = Null
      /\ Pile(s, a) = {a} \cup L \cup Q
      /\ o # Null => o \in Places /\ o \in Above(s, o)
  <2>1. a \in Places
    BY DEF PileDeletable
  <2>2. c \in Pointer /\ g \in Pointer
    BY <2>1, PointersTyped
  <2>3. R \subseteq L
    BY DEF Below
  <2> HIDE DEF c, g, R, L, b, o, Q
  <2> QED BY <2>1, <2>2, <2>3, PileParts DEF L, b, o, Q
<1>1. Gone(s, s1, {}, {}, {})
  <2> DEFINE u == [s EXCEPT !.wild = s.wild \/ Dangling(s, a),
                            !.missed = s.missed \/ s.act[a].state = "started"]
             m == s.missed \/ s.act[a].state = "started"
  <2>1. ~ Dangling(s, a)
    <3>1. \A p \in Pointers(s.act[a]) : s.act[p].state # "free"
      <4>1. o # Null => s.act[o].state # "free"
        <5>1. o # Null => o \in Above(s, a)
          BY <1>0, AboveFacts, PlacesFacts
        <5> QED BY <5>1 DEF PileDeletable, Removable
      <4>2. b # Null => s.act[b].state # "free"
        BY <1>0 DEF Removable, Outside
      <4>3. (c # Null => c \in L) /\ (g # Null => g \in L)
        BY <1>0, OwnFacts DEF Below
      <4>4. \A x \in L : s.act[x].state # "free"
        BY <1>0 DEF Removable, Forest
      <4> QED BY <1>0, <4>1, <4>2, <4>3, <4>4 DEF Pointers
    <3> QED BY <1>0, <3>1 DEF Dangling, Removable
  <2>2. m \in BOOLEAN /\ s.wild \in BOOLEAN
    BY DEF Typed, Memories
  <2>3. u = [s EXCEPT !.wild = s.wild, !.missed = m]
    BY <2>1, <2>2, Zenon
  <2>4. /\ u \in Typed /\ u.act = s.act /\ u.top = s.top /\ u.dead = s.dead
        /\ u.quiet = s.quiet /\ u.wild = s.wild
    <3> DEFINE v == [s EXCEPT !.wild = s.wild, !.missed = m]
    <3> HIDE DEF u, m
    <3>1. /\ v \in Typed /\ v.act = s.act /\ v.top = s.top /\ v.dead = s.dead
          /\ v.quiet = s.quiet /\ v.wild = s.wild
      BY <2>2 DEF Typed, Memories
    <3> QED BY <2>3, <3>1
  <2>5. s1 = Leave(u, a)
    OBVIOUS
  <2> HIDE DEF u
  <2>6. s1 = u
    BY <1>0, <2>4, <2>5 DEF Leave
  <2> HIDE DEF s1
  <2> QED BY <2>4, <2>6 DEF Gone
<1>2. s1 \in Typed /\ s1.act[a].child = c
  BY <1>0, <1>1 DEF Gone
<1>3. PICK t1 \in DeleteBy(f, "stack", s1, s1.act[a].child) :
      \E t3 \in DeleteBy(f, "action", Uncover(t1, a), Uncover(t1, a).act[a].over) :
      \E t4 \in DeleteBy(f, "action", t3, t3.act[a].goal) :
         t = [t4 EXCEPT !.act[a] = Blank("free")]
  <2> HIDE DEF s1
  <2>1. LET S2 == {Uncover(u, a) : u \in DeleteBy(f, "stack", s1, s1.act[a].child)}
            S3 == UNION {DeleteBy(f, "action", u, u.act[a].over) : u \in S2}
            S4 == UNION {DeleteBy(f, "action", u, u.act[a].goal) : u \in S3}
        IN  t \in {[u EXCEPT !.act[a] = Blank("free")] : u \in S4}
    BY DEF DeleteAction, s1
  <2> QED BY <2>1
<1> HIDE DEF s1
<1> DEFINE t2 == Uncover(t1, a)
<1>4. Gone(s, t1, R, {a}, {})
  <2>1. CASE c = Null
    <3>1. t1 = s1 /\ R = {}
      BY <1>2, <1>3, <2>1, OwnFacts DEF Deletes
    <3> QED BY <1>1, <3>1, GoneMore
  <2>2. CASE c # Null
    <3>0. Gone(s, s1, {}, {s.act[a].parent}, {})
      BY <1>0, <1>1, GoneMore
    <3>1. c \in Places /\ StackDeletable(s1, c) /\ Reached(s1, c) = R
          /\ s1.act[c].parent \in {a, Null}
      BY <1>0, <2>2, <3>0, ChildrenDeletable
    <3>2. Gone(s1, t1, R, {s1.act[c].parent}, {})
      BY <1>2, <1>3, <3>1 DEF Deletes
    <3>3. Gone(s, t1, {} \cup R, {} \cup {s1.act[c].parent}, {} \cup {})
      BY <1>0, <1>1, <3>2, GoneTwice
    <3>4. ({} \cup {s1.act[c].parent}) \cap Places \subseteq {a}
      BY <3>1, PlacesFacts
    <3> QED BY <3>3, <3>4, GoneMore
  <2> QED BY <2>1, <2>2
<1>5. t1 \in Typed /\ t1.act[a].under = b
  BY <1>0, <1>4 DEF Gone
<1>6. Gone(s, t2, R, {a}, {b})
  <2>1. Gone(t1, t2, {}, {}, {b})
    BY <1>0, <1>5, UncoverGone
  <2>2. Gone(s, t2, R \cup {}, {a} \cup {}, {} \cup {b})
    BY <1>0, <1>4, <2>1, GoneTwice
  <2> QED BY <2>2
<1>7. t2 \in Typed /\ t2.act[a].over = o /\ t2.act[a].goal = g
  <2> HIDE DEF t2
  <2> QED BY <1>0, <1>6 DEF Gone
<1>8. PICK t3 \in DeleteBy(f, "action", t2, o) :
        \E t4 \in DeleteBy(f, "action", t3, t3.act[a].goal) :
           t = [t4 EXCEPT !.act[a] = Blank("free")]
  BY <1>3, <1>7
<1> HIDE DEF t2
<1>9. /\ Gone(s, t3, R \cup Q, {a}, {b, a}) /\ ({a} \cup L) \cap Q = {} /\ Q \in SUBSET Places
  <2>1. CASE o = Null
    <3>1. Q = {}
      BY <2>1, AboveFacts DEF Pile
    <3>2. t3 = t2
      BY <1>7, <1>8, <2>1 DEF Deletes
    <3>3. Gone(s, t2, R, {a}, {b, a})
      BY <1>0, <1>6, <2>1 DEF Gone
    <3> QED BY <3>1, <3>2, <3>3
  <2>2. CASE o # Null
    <3>1. /\ PileDeletable(t2, o) /\ Pile(t2, o) = Q /\ t2.act[o].under = a
          /\ ({a} \cup L) \cap Q = {}
      BY <1>0, <1>6, <2>2, OverDeletable
    <3>2. Gone(t2, t3, Q, {}, {a})
      BY <1>7, <1>8, <3>1 DEF DeletesPiles
    <3>3. Q \in SUBSET Places
      <4>1. Above(t2, o) \in SUBSET Places
        BY <1>0, <1>7, AboveFacts
      <4>2. \A x \in Above(t2, o) : Below(t2, x) \in SUBSET Places
        BY <3>1 DEF PileDeletable, Removable, Forest
      <4> QED BY <3>1, <4>1, <4>2 DEF Pile
    <3>4. Gone(s, t3, R \cup Q, {a} \cup {}, {b} \cup {a})
      <4> HIDE DEF R, Q, L, o, b
      <4> QED BY <1>0, <1>6, <3>2, <3>3, GoneTwice
    <3>5. {a} \cup {} = {a} /\ {b} \cup {a} = {b, a}
      OBVIOUS
    <3> QED BY <3>1, <3>3, <3>4, <3>5
  <2> QED BY <2>1, <2>2
<1>10. t3 \in Typed /\ t3.act[a].goal = g
  BY <1>0, <1>9 DEF Gone
<1>11. PICK t4 \in DeleteBy(f, "action", t3, g) : t = [t4 EXCEPT !.act[a] = Blank("free")]
  BY <1>8, <1>10
<1>12. Gone(s, t4, L \cup Q, {a}, {b, a})
  <2>1. CASE g = Null
    <3>1. t4 = t3 /\ L = R
      BY <1>10, <1>11, <2>1, OwnFacts DEF Deletes, Below
    <3> QED BY <1>9, <3>1
  <2>2. CASE g # Null
    <3>1. g \in Places /\ Owned(s, g) = {} /\ s.act[g].parent = Null /\ s.act[g].over = Null
      BY <1>0, <2>2, PlacesFacts DEF Removable
    <3>2. Reached(s, g) = {g} /\ L = R \cup {g}
      BY <3>1, LeafReached DEF Below
    <3>3. s.act[g].state # "free"
      BY <1>0, <3>2 DEF Removable, Forest
    <3>4. g \notin R
      <4>1. SUFFICES ASSUME g \in Reach(Own(s), At(c)) PROVE FALSE
        BY <1>0, OwnFacts
      <4>2. g \notin At(c)
        BY <1>0, PlacesFacts DEF At, Removable
      <4>3. PICK x \in Reach(Own(s), At(c)) : g \in Own(s)[x]
        BY <1>0, <4>1, <4>2, OwnFacts, ReachOwner
      <4>4. x \in L /\ g \in Owned(s, x)
        BY <1>0, <4>3, OwnFacts
      <4> QED BY <1>0, <4>4 DEF Removable
    <3>5. g # a /\ g # b /\ g \notin Q
      BY <1>0, <1>9, <3>2
    <3>6. /\ Owned(t3, g) = {} /\ t3.act[g].state # "free"
          /\ t3.act[g].parent = Null /\ t3.act[g].over = Null
      <4>1. g \in Places \ (R \cup Q) /\ g # a /\ g # b
        BY <3>1, <3>4, <3>5
      <4> QED BY <1>9, <3>1, <3>3, <4>1 DEF Gone, Owned
    <3>7. Gone(t3, t4, {g}, {}, {Null})
      <4>1. Deletable(t3, g) /\ {g} \cup Below(t3, g) = {g} /\ t3.act[g].under = Null
        BY <1>10, <3>1, <3>6, LeafDeletable
      <4>2. Gone(t3, t4, {g} \cup Below(t3, g), Parents(t3, g), {t3.act[g].under})
        BY <1>10, <1>11, <3>1, <4>1 DEF Deletes
      <4>3. Parents(t3, g) = {}
        BY <3>6 DEF Parents
      <4> QED BY <4>1, <4>2, <4>3
    <3>8. Gone(s, t4, (R \cup Q) \cup {g}, {a} \cup {}, {b, a} \cup {Null})
      <4>1. {Null} \cap (R \cup Q) = {}
        BY <1>0, <1>9, PlacesFacts
      <4> HIDE DEF R, Q, L, o, b, g
      <4> QED BY <1>0, <1>9, <3>1, <3>7, <4>1, GoneTwice
    <3>9. (R \cup Q) \cup {g} = L \cup Q
      BY <3>2
    <3> HIDE DEF R, Q, L, o, b, g
    <3> QED BY <3>8, <3>9, GoneMore, PlacesFacts
  <2> QED BY <2>1, <2>2
<1>13. t4 \in Typed
  BY <1>12 DEF Gone
<1>14. Gone(t4, t, {a}, {}, {})
  <2> DEFINE v == [t4 EXCEPT !.act[a] = Blank("free")]
  <2>1. Gone(t4, v, {a}, {}, {})
    BY <1>0, <1>13, BlankSet
  <2> HIDE DEF v
  <2> QED BY <1>11, <2>1 DEF v
<1> HIDE DEF R, Q, L, o, b, g
<1>15. Gone(s, t, (L \cup Q) \cup {a}, {a} \cup {}, {b, a} \cup {})
  <2>1. L \cup Q \in SUBSET Places /\ {a} \in SUBSET Places
    BY <1>0, <1>9
  <2> QED BY <1>12, <1>14, <2>1, GoneTwice
<1>16. Gone(s, t, {a} \cup L \cup Q, {}, {b})
  <2>1. {a} \cup L \cup Q = (L \cup Q) \cup {a}
    OBVIOUS
  <2> QED BY <1>15, <2>1, GoneMore
<1> QED BY <1>0, <1>16 DEF b

LEMMA DeletionsPile == \A n \in Nat : DeletesPiles(Deletions[n])
<1> DEFINE S == {n \in Nat : DeletesPiles(Deletions[n])}
<1>0. \A s \in Typed, a \in Places : [what |-> "action", s |-> s, a |-> a] \in Deletion
  BY PlacesFacts DEF Deletion, Typed
<1>1. 0 \in S
  <2>1. \A d \in Deletion : Deletions[0][d] = {}
    BY DeletionsUnfold DEF NoDeletion
  <2>2. \A s \in Typed, a \in Places : DeleteBy(Deletions[0], "action", s, a) = {}
    BY <1>0, <2>1 DEF DeleteBy
  <2>3. DeletesPiles(Deletions[0])
    BY <2>2 DEF DeletesPiles, PileDeletable
  <2> QED BY <2>3
<1>2. ASSUME NEW n \in Nat, n \in S PROVE n + 1 \in S
  <2> DEFINE f == Deletions[n]
             g == Deletions[n + 1]
  <2>1. DeletesPiles(f) /\ Deletes(f)
    BY <1>2, DeletionsDelete
  <2>2. g = DeletionStep(f)
    BY DeletionsUnfold
  <2> HIDE DEF f, g
  <2>3. \A s \in Typed, a \in Places : DeleteBy(g, "action", s, a) = DeleteAction(f, s, a)
    BY <1>0, <2>2, PlacesFacts DEF DeleteBy, DeletionStep
  <2>4. DeletesPiles(g)
    <3> SUFFICES ASSUME NEW s \in Typed, NEW a, PileDeletable(s, a),
                        NEW t \in DeleteBy(g, "action", s, a)
                 PROVE  Gone(s, t, Pile(s, a), {}, {s.act[a].under})
      BY DEF DeletesPiles
    <3>1. t \in DeleteAction(f, s, a)
      BY <2>3 DEF PileDeletable
    <3> QED BY <2>1, <3>1, DeletePileGone
  <2> QED BY <2>4 DEF g
<1>3. S \in SUBSET Nat
  OBVIOUS
<1> HIDE DEF S
<1>4. S = Nat
  BY <1>1, <1>2, <1>3, NatAll
<1> QED BY <1>4 DEF S
-----------------------------------------------------------------------------
\* What an action of the bot owns, nothing else does.
LEMMA TidyOwned ==
    ASSUME NEW s, NEW own, NEW a, Tidy(s, own, a)
    PROVE  LET R == Reached(s, a) IN
           /\ \A x \in R : LET r == s.act[x] IN
                /\ r.child # Null => /\ Live(s, x) /\ Live(s, r.child)
                                     /\ r.child \notin {r.under, r.goal}
                                     /\ s.act[r.child].parent \in {x, Null}
                /\ r.under # Null => /\ Live(s, x) /\ Live(s, r.under) /\ s.act[r.under].suspended
                                     /\ s.act[r.under].parent = r.parent
                /\ r.goal # Null => /\ r.goal # r.under /\ s.act[r.goal].state = "made"
                                    /\ Owned(s, r.goal) = {} /\ s.act[r.goal].parent = Null
                                    /\ s.act[r.goal].over = Null
           /\ \A x, y \in R : x # y => Owned(s, x) \cap Owned(s, y) = {}
<1> DEFINE R == Reached(s, a)
<1>0. s \in Typed /\ GoalsSound(s) /\ Sound(s, own, {}, Null)
  BY DEF Tidy, Sound
<1>1. R \in SUBSET Places /\ \A x \in R : Live(s, x) \/ s.act[x].state = "made"
  BY TidyReached
<1> HIDE DEF R
<1>2. \A x \in Places : s.act[x].state = "made" => ~ Live(s, x)
  BY DEF Live
<1>3. ASSUME NEW x \in R, s.act[x].goal # Null
      PROVE  LET g == s.act[x].goal IN
             /\ s.act[g].state = "made" /\ Owned(s, g) = {} /\ s.act[g].parent = Null
             /\ s.act[g].over = Null /\ g \in Places
  <2> DEFINE g == s.act[x].goal
  <2>1. x \in Places
    BY <1>1
  <2>2. g \in Places /\ s.act[g].state = "made" /\ s.act[g].parent = Null
    BY <1>0, <1>3, <2>1, PointingTyped DEF GoalsSound
  <2> HIDE DEF g
  <2>3. /\ s.act[g].under = Null /\ s.act[g].child = Null /\ s.act[g].over = Null
        /\ s.act[g].goal = Null
    BY <1>0, <2>2 DEF GoalsSound, Used
  <2>4. Owned(s, g) = {}
    BY <2>3 DEF Owned
  <2> QED BY <2>2, <2>3, <2>4 DEF g
<1>4. ASSUME NEW x \in R, s.act[x].child # Null
      PROVE  LET c == s.act[x].child IN
             Live(s, x) /\ Live(s, c) /\ c \in Places /\ s.act[c].parent \in {x, Null}
  <2>1. x \in Places /\ Live(s, x)
    BY <1>0, <1>1, <1>4 DEF GoalsSound
  <2> QED BY <1>0, <1>4, <2>1, LiveLinks
<1>5. ASSUME NEW x \in R, s.act[x].under # Null
      PROVE  LET u == s.act[x].under IN
             /\ Live(s, x) /\ Live(s, u) /\ u \in Places /\ s.act[u].suspended
             /\ s.act[u].parent = s.act[x].parent
  <2>1. x \in Places /\ Live(s, x)
    BY <1>0, <1>1, <1>5 DEF GoalsSound
  <2> QED BY <1>0, <1>5, <2>1, LiveLinks
<1>6. \A x, y \in Places : Live(s, x) /\ Live(s, y) =>
        /\ x # y /\ s.act[x].under # Null => s.act[x].under # s.act[y].under
        /\ x # y /\ s.act[x].child # Null => s.act[x].child # s.act[y].child
        /\ s.act[x].child # Null => s.act[x].child # s.act[y].under
  BY <1>0, LiveLinks
<1>7. \A x, y \in Places : x # y /\ s.act[x].goal # Null => s.act[x].goal # s.act[y].goal
  BY <1>0 DEF GoalsSound
<1>8. ASSUME NEW x \in R, NEW y \in R, x # y, NEW z \in Owned(s, x), z \in Owned(s, y)
      PROVE  FALSE
  <2>0. x \in Places /\ y \in Places /\ z # Null
    BY <1>1 DEF Owned
  <2>1. /\ z \in {s.act[x].under, s.act[x].child, s.act[x].goal}
        /\ z \in {s.act[y].under, s.act[y].child, s.act[y].goal}
    BY <1>8 DEF Owned
  <2>2. z \in Places
    BY <1>3, <1>4, <1>5, <2>0, <2>1
  <2>3. /\ z = s.act[x].goal => z = s.act[y].goal
        /\ z = s.act[y].goal => z = s.act[x].goal
    BY <1>2, <1>3, <1>4, <1>5, <2>0, <2>1, <2>2
  <2>4. z # s.act[x].goal /\ z # s.act[y].goal
    BY <1>7, <1>8, <2>0, <2>3
  <2>5. Live(s, x) /\ Live(s, y)
    BY <1>4, <1>5, <2>0, <2>1, <2>4
  <2> QED BY <1>6, <1>8, <2>0, <2>1, <2>4, <2>5
<1>9. ASSUME NEW x \in R
      PROVE  /\ s.act[x].child # Null => s.act[x].child \notin {s.act[x].under, s.act[x].goal}
             /\ s.act[x].goal # Null => s.act[x].goal # s.act[x].under
  <2>1. x \in Places
    BY <1>1
  <2>2. s.act[x].child # Null => s.act[x].child # s.act[x].under
    BY <1>4, <1>6, <2>1
  <2>3. s.act[x].child # Null => s.act[x].child # s.act[x].goal
    BY <1>2, <1>3, <1>4
  <2>4. s.act[x].goal # Null => s.act[x].goal # s.act[x].under
    BY <1>2, <1>3, <1>5
  <2> QED BY <2>2, <2>3, <2>4
<1>10. \A x, y \in R : x # y => Owned(s, x) \cap Owned(s, y) = {}
  BY <1>8
<1> QED BY <1>3, <1>4, <1>5, <1>9, <1>10 DEF R

\* The stack of the bot itself.
LEMMA TidyStack ==
    ASSUME NEW s, NEW own, NEW a, Tidy(s, own, a), a # Null
    PROVE  LET T == Stack(s, a) IN
           /\ T \subseteq Reached(s, a) /\ a \in T /\ T \in SUBSET Places
           /\ \A x \in T : /\ Live(s, x) /\ s.act[x].parent = Null
                           /\ s.act[x].under # Null => s.act[x].under \in T
                           /\ s.act[x].under \notin {x, a}
                           /\ s.act[x].over # Null => /\ s.act[x].over \in T
                                                      /\ s.act[s.act[x].over].under = x
           /\ \A u \in T : Below(s, u) \cap T = {} /\ Below(s, u) \subseteq Reached(s, a)
<1> DEFINE R == Reached(s, a)
           T == Stack(s, a)
           C == {x \in R : Live(s, x) /\ s.act[x].parent = Null}
<1>0. /\ s \in Typed /\ a \in Places /\ a \in Pointer /\ Live(s, a) /\ s.act[a].parent = Null
      /\ \A x \in Places : Live(s, x) => s.act[x].under # a /\ s.act[x].child # a
  BY PlacesFacts DEF Tidy, Sound, OnTop
<1>1. /\ R \in SUBSET Places /\ Closed(Own(s), R) /\ a \in R
      /\ \A x \in R : x = a \/ \E y \in R : x \in Owned(s, y)
  BY TidyReached
<1>2. /\ \A x \in R : s.act[x].under # Null =>
             /\ Live(s, x) /\ Live(s, s.act[x].under)
             /\ s.act[s.act[x].under].parent = s.act[x].parent
      /\ \A x \in R : /\ s.act[x].child # Null => s.act[x].child \notin {s.act[x].under, s.act[x].goal}
                      /\ s.act[x].goal # Null => s.act[s.act[x].goal].state = "made"
      /\ \A x, y \in R : x # y => Owned(s, x) \cap Owned(s, y) = {}
  BY TidyOwned
<1>3. /\ T \in SUBSET Places /\ a \in T
      /\ \A x \in T : s.act[x].under # Null => s.act[x].under \in T
      /\ \A x \in T : x = a \/ \E y \in T : x = s.act[y].under
      /\ \A S \in SUBSET Places :
           a \in S /\ (\A x \in S : s.act[x].under # Null => s.act[x].under \in S) => T \subseteq S
  BY <1>0, StackFrom
<1>4. /\ Own(s) \in Links /\ \A x \in Places : Own(s)[x] = Owned(s, x)
      /\ \A q \in Pointer : q # Null => q \in Reached(s, q)
  BY <1>0, OwnFacts
<1>5. \A x \in R : Owned(s, x) \subseteq R
  BY <1>1, <1>4 DEF Closed
<1> HIDE DEF R, T
<1>6. C \in SUBSET Places /\ a \in C
  BY <1>0, <1>1
<1>7. \A x \in C : s.act[x].under # Null => s.act[x].under \in C
  BY <1>2, <1>5 DEF Owned
<1>8. T \subseteq C
  <2> HIDE DEF C
  <2> QED BY <1>3, <1>6, <1>7
<1>9. T \subseteq R /\ \A x \in T : Live(s, x) /\ s.act[x].parent = Null /\ x \in R /\ x # Null
  BY <1>3, <1>8, PlacesFacts
<1>10. \A x \in T : s.act[x].under # a
  BY <1>0, <1>3, <1>9
<1>11. ASSUME NEW x \in T, NEW y \in R, x \in Owned(s, y)
       PROVE  y \in T /\ x = s.act[y].under
  <2>1. x = a \/ \E z \in T : x = s.act[z].under
    BY <1>3
  <2>2. s.act[y].goal # x
    BY <1>2, <1>9 DEF Live
  <2>3. CASE x = a
    <3>1. s.act[y].under = a \/ s.act[y].child = a
      BY <1>11, <2>2, <2>3 DEF Owned
    <3>2. Live(s, y)
      BY <1>0, <1>9, <3>1, TidyOwned DEF R
    <3> QED BY <1>0, <1>1, <3>1, <3>2
  <2>4. CASE \E z \in T : x = s.act[z].under
    <3>1. PICK z \in T : x = s.act[z].under
      BY <2>4
    <3>2. x \in Owned(s, z) /\ z \in R
      BY <1>9, <3>1 DEF Owned
    <3>3. z = y
      BY <1>2, <1>11, <3>2
    <3> QED BY <3>1, <3>3
  <2> QED BY <2>1, <2>3, <2>4
<1>12. ASSUME NEW x \in T PROVE s.act[x].under # x
  <2> SUFFICES ASSUME s.act[x].under = x PROVE FALSE
    OBVIOUS
  <2> DEFINE D == T \ {x}
  <2>1. x # a
    BY <1>10
  <2>2. ASSUME NEW y \in D, s.act[y].under # Null PROVE s.act[y].under \in D
    <3>1. s.act[y].under # x
      <4> SUFFICES ASSUME s.act[y].under = x PROVE FALSE
        OBVIOUS
      <4>1. x \in Owned(s, y) /\ x \in Owned(s, x)
        BY <1>9 DEF Owned
      <4> QED BY <1>2, <1>9, <4>1
    <3> QED BY <1>3, <2>2, <3>1
  <2>3. T \subseteq D
    BY <1>3, <2>1, <2>2
  <2> QED BY <2>3
<1>13. ASSUME NEW x \in T, s.act[x].over # Null
       PROVE  s.act[x].over \in T /\ s.act[s.act[x].over].under = x
  <2>1. s.act[x].over \in R /\ s.act[s.act[x].over].under = x
    BY <1>9, <1>13, TidyPointers DEF R, Pointers
  <2>2. x \in Owned(s, s.act[x].over)
    BY <1>9, <2>1 DEF Owned
  <2> QED BY <1>11, <2>1, <2>2
<1>14. ASSUME NEW u \in T
       PROVE  Below(s, u) \cap T = {} /\ Below(s, u) \subseteq R
  <2> DEFINE L == Below(s, u)
             c == s.act[u].child
             g == s.act[u].goal
  <2>1. c \in Pointer /\ g \in Pointer /\ u \in Places
    BY <1>0, <1>3, PointersTyped
  <2>2. \A q \in {c, g} : /\ At(q) \subseteq R /\ At(q) \in SUBSET Places
                          /\ Reached(s, q) = Reach(Own(s), At(q))
    <3>1. c # Null => c \in R
      BY <1>5, <1>9 DEF Owned
    <3>2. g # Null => g \in R
      BY <1>5, <1>9 DEF Owned
    <3> QED BY <1>0, <1>1, <2>1, <3>1, <3>2, OwnFacts DEF At
  <2>3. \A q \in {c, g} : Reached(s, q) \subseteq R
    <3> HIDE DEF c, g
    <3> QED BY <1>1, <2>2, ReachMinimal
  <2>4. L \subseteq R
    BY <2>3 DEF Below
  <2>5. \A x \in L : x \in {c, g} \/ \E y \in L : x \in Owned(s, y)
    <3> SUFFICES ASSUME NEW q \in {c, g}, NEW x \in Reached(s, q)
                 PROVE  x = q \/ \E y \in Reached(s, q) : x \in Owned(s, y)
      BY DEF Below
    <3>1. x \in At(q) \/ \E y \in Reached(s, q) : x \in Own(s)[y]
      BY <1>4, <2>2, ReachOwner
    <3>2. Reached(s, q) \in SUBSET Places
      BY <1>1, <2>3
    <3> QED BY <1>4, <3>1, <3>2 DEF At
  <2> DEFINE D == T \ L
  <2>6. ASSUME NEW x \in T, x \in L PROVE x # a /\ \E y \in T : y \in L /\ x = s.act[y].under
    <3>1. x # Null
      BY <1>9
    <3>2. x \notin {c, g}
      <4> SUFFICES ASSUME x \in {c, g} PROVE FALSE
        OBVIOUS
      <4>1. x \in Owned(s, u) /\ u \in R
        BY <1>9, <3>1 DEF Owned
      <4>2. x = s.act[u].under
        BY <1>11, <4>1
      <4>3. x # c
        BY <1>2, <3>1, <4>1, <4>2
      <4>4. x # g
        BY <1>2, <1>9, <3>1, <4>1 DEF Live
      <4> QED BY <4>3, <4>4
    <3>3. PICK y \in L : x \in Owned(s, y)
      BY <2>5, <2>6, <3>2
    <3>4. y \in T /\ x = s.act[y].under
      BY <1>11, <2>4, <3>3
    <3> QED BY <1>10, <3>3, <3>4
  <2> HIDE DEF L
  <2>7. a \in D /\ D \in SUBSET Places
    BY <1>3, <2>6
  <2>8. ASSUME NEW x \in D, s.act[x].under # Null PROVE s.act[x].under \in D
    <3> DEFINE v == s.act[x].under
    <3>1. v \in T
      BY <1>3, <2>8
    <3>2. v \notin L
      <4> SUFFICES ASSUME v \in L PROVE FALSE
        OBVIOUS
      <4>1. PICK y \in T : y \in L /\ v = s.act[y].under
        BY <2>6, <3>1
      <4>2. v \in Owned(s, y) /\ v \in Owned(s, x)
        BY <2>8, <4>1 DEF Owned
      <4> QED BY <1>2, <1>9, <4>1, <4>2
    <3> QED BY <3>1, <3>2
  <2>9. T \subseteq D
    <3> HIDE DEF D
    <3> QED BY <1>3, <2>7, <2>8
  <2>10. L \cap T = {}
    BY <2>9
  <2> QED BY <2>4, <2>10 DEF L
<1>15. \A x \in T : s.act[x].under # Null => s.act[x].under \in T
  BY <1>3
<1> QED BY <1>3, <1>9, <1>10, <1>12, <1>13, <1>14, <1>15 DEF R, T

LEMMA TidyRemovable ==
    ASSUME NEW s, NEW own, NEW a, Tidy(s, own, a), a # Null, NEW x \in Stack(s, a)
    PROVE  Removable(s, x)
<1> DEFINE R == Reached(s, a)
           L == Below(s, x)
           c == s.act[x].child
           g == s.act[x].goal
           u == s.act[x].under
<1>0. s \in Typed
  BY DEF Tidy, Sound
<1>1. /\ R \in SUBSET Places /\ Closed(Own(s), R)
      /\ \A y \in R : Live(s, y) \/ s.act[y].state = "made"
  BY TidyReached
<1>2. /\ \A y \in R : LET r == s.act[y] IN
           /\ r.child # Null => /\ Live(s, y) /\ Live(s, r.child)
                                /\ r.child \notin {r.under, r.goal}
                                /\ s.act[r.child].parent \in {y, Null}
           /\ r.under # Null => s.act[r.under].parent = r.parent
           /\ r.goal # Null => /\ r.goal # r.under
                               /\ Owned(s, r.goal) = {} /\ s.act[r.goal].parent = Null
                               /\ s.act[r.goal].over = Null
      /\ \A y, z \in R : y # z => Owned(s, y) \cap Owned(s, z) = {}
  BY TidyOwned
<1>3. /\ x \in R /\ x \in Places /\ Live(s, x) /\ s.act[x].parent = Null /\ x # Null
      /\ u # Null => u \in Stack(s, a) /\ u \in Places /\ Live(s, u)
      /\ u # x /\ L \cap Stack(s, a) = {} /\ L \subseteq R
  BY TidyStack, PlacesFacts
<1>4. /\ Own(s) \in Links /\ \A y \in Places : Own(s)[y] = Owned(s, y)
  BY <1>0, OwnFacts
<1>5. c \in Pointer /\ g \in Pointer
  BY <1>0, <1>3, PointersTyped
<1>6. \A q \in {c, g} : /\ Reached(s, q) \subseteq L /\ Closed(Own(s), Reached(s, q))
                        /\ \A y \in Reached(s, q) : y = q \/ \E z \in Reached(s, q) : y \in Own(s)[z]
  <2> SUFFICES ASSUME NEW q \in {c, g}
               PROVE  /\ Reached(s, q) \subseteq L /\ Closed(Own(s), Reached(s, q))
                      /\ \A y \in Reached(s, q) : y = q \/ \E z \in Reached(s, q) : y \in Own(s)[z]
    OBVIOUS
  <2>1. Reached(s, q) \subseteq L
    BY DEF Below
  <2>2. /\ Closed(Own(s), Reached(s, q)) /\ Reached(s, q) = Reach(Own(s), At(q))
        /\ At(q) \in SUBSET Places
    BY <1>0, <1>5, OwnFacts
  <2>3. \A y \in Reached(s, q) : y \in At(q) \/ \E z \in Reached(s, q) : y \in Own(s)[z]
    BY <1>4, <2>2, ReachOwner
  <2> QED BY <2>1, <2>2, <2>3 DEF At
<1>7. L = Reached(s, c) \cup Reached(s, g)
  BY DEF Below
<1>8. \A y \in R : Owned(s, y) \subseteq R
  BY <1>1, <1>4 DEF Closed
<1> HIDE DEF R, L
<1>9. Closed(Own(s), L)
  BY <1>6, <1>7 DEF Closed
<1>10. \A y \in L : y \in {c, g} \/ \E z \in L : y \in Owned(s, z)
  BY <1>1, <1>3, <1>4, <1>6, <1>7
<1>11. x \notin L /\ u \notin L
  <2>1. Null \notin L
    BY <1>1, <1>3, PlacesFacts
  <2> QED BY <1>3, <2>1
<1>12. ASSUME NEW y \in L, s.act[y].over # Null
       PROVE  s.act[y].over \in L /\ s.act[s.act[y].over].under = y
  <2> DEFINE o == s.act[y].over
  <2>1. y \in R /\ y # Null
    BY <1>1, <1>3, PlacesFacts
  <2>2. o \in R /\ s.act[o].under = y
    BY <1>12, <2>1, TidyPointers DEF Pointers, R
  <2> HIDE DEF o
  <2>3. y \in Owned(s, o)
    BY <2>1, <2>2 DEF Owned
  <2>4. y \notin {c, g}
    <3> SUFFICES ASSUME y \in {c, g} PROVE FALSE
      OBVIOUS
    <3>1. y \in Owned(s, x)
      BY <2>1 DEF Owned
    <3>2. o = x
      BY <1>2, <1>3, <2>2, <2>3, <3>1
    <3> QED BY <1>2, <1>3, <2>1, <2>2, <3>2
  <2>5. PICK z \in L : y \in Owned(s, z)
    BY <1>10, <2>4
  <2>6. z = o
    BY <1>2, <1>3, <2>2, <2>3, <2>5
  <2> QED BY <2>2, <2>5, <2>6 DEF o
<1>13. Forest(s, L)
  <2>1. \A y \in L : s.act[y].state # "free"
    BY <1>1, <1>3 DEF Live
  <2>2. L \in SUBSET Places
    BY <1>1, <1>3
  <2> QED BY <1>2, <1>3, <1>9, <1>12, <2>1, <2>2 DEF Forest
<1>14. \A y \in L : Owned(s, y) \cap {c, g} = {}
  <2> SUFFICES ASSUME NEW y \in L, NEW z \in Owned(s, y), z \in {c, g} PROVE FALSE
    OBVIOUS
  <2>1. z \in Owned(s, x)
    BY DEF Owned
  <2> QED BY <1>2, <1>3, <1>11, <2>1
<1>15. Outside(s, {x} \cup L, s.act[x].parent) /\ Outside(s, {x} \cup L, u)
  BY <1>3, <1>11 DEF Outside, Live
<1>16. s.act[x].state # "free"
  BY <1>3 DEF Live
<1>17. /\ c # Null => c # g /\ s.act[c].parent \in {x, Null}
       /\ g # Null => Owned(s, g) = {} /\ s.act[g].parent = Null /\ s.act[g].over = Null
  BY <1>2, <1>3
<1> QED BY <1>3, <1>11, <1>13, <1>14, <1>15, <1>16, <1>17 DEF Removable, L

\* What two actions of it contain is apart.
LEMMA StackApart ==
    ASSUME NEW s, NEW own, NEW a, Tidy(s, own, a), a # Null,
           NEW x \in Stack(s, a), NEW y \in Stack(s, a), x # y
    PROVE  Below(s, x) \cap Below(s, y) = {}
<1> DEFINE from(z) == {s.act[z].child, s.act[z].goal} \ {Null}
           T == Below(s, x) \cup Below(s, y)
<1>0. s \in Typed
  BY DEF Tidy, Sound
<1>1. /\ x \in Places /\ y \in Places /\ x \in Reached(s, a) /\ y \in Reached(s, a)
      /\ x \notin T /\ y \notin T /\ T \subseteq Reached(s, a)
  BY TidyStack
<1>2. \A z, w \in Reached(s, a) : z # w => Owned(s, z) \cap Owned(s, w) = {}
  BY TidyOwned
<1>3. /\ Own(s) \in Links /\ \A z \in Places : Own(s)[z] = Owned(s, z)
      /\ Reached(s, a) \in SUBSET Places
  <2>1. a \in Pointer
    BY DEF Tidy
  <2> QED BY <1>0, <2>1, OwnFacts
<1>4. ASSUME NEW z \in {x, y}
      PROVE  /\ from(z) \in SUBSET Places /\ Below(s, z) = Reach(Own(s), from(z))
             /\ from(z) \subseteq Below(s, z) /\ Closed(Own(s), Below(s, z))
             /\ from(z) \subseteq Owned(s, z)
  <2>1. /\ s.act[z].child \in Pointer /\ s.act[z].goal \in Pointer
    BY <1>0, <1>1, PointersTyped
  <2>2. from(z) = At(s.act[z].child) \cup At(s.act[z].goal) /\ from(z) \in SUBSET Places
    BY <2>1, PlacesFacts DEF At
  <2>3. Below(s, z) = Reach(Own(s), from(z))
    BY <1>0, <1>3, <2>1, <2>2, OwnFacts, ReachParts DEF Below
  <2>4. from(z) \subseteq Owned(s, z)
    BY DEF Owned
  <2> HIDE DEF from
  <2> QED BY <1>3, <2>2, <2>3, <2>4, ReachCloses
<1>5. from(x) \cap from(y) = {}
  BY <1>1, <1>2, <1>4
<1>6. Closed(Own(s), T) /\ T \in SUBSET Places
  BY <1>1, <1>3, <1>4 DEF Closed
<1> HIDE DEF from, T
<1>7. \A z, w \in T : z # w => Own(s)[z] \cap Own(s)[w] = {}
  BY <1>1, <1>2, <1>3, <1>6
<1>8. \A z \in T : Own(s)[z] \cap (from(x) \cup from(y)) = {}
  BY <1>1, <1>2, <1>3, <1>4, <1>6
<1>9. from(x) \cup from(y) \subseteq T
  BY <1>4 DEF T
<1>10. from(x) \in SUBSET Places /\ from(y) \in SUBSET Places
  BY <1>4
<1>11. Reach(Own(s), from(x)) \cap Reach(Own(s), from(y)) = {}
  BY <1>3, <1>5, <1>6, <1>7, <1>8, <1>9, <1>10, ReachApart
<1> QED BY <1>4, <1>11

\* One of them is at the bottom: there are finitely many, none under two others.
LEMMA StackBottom ==
    ASSUME NEW s, NEW own, NEW a, Tidy(s, own, a), a # Null
    PROVE  \E b \in Stack(s, a) : s.act[b].under = Null
<1> DEFINE T == Stack(s, a)
           f == [x \in T |-> s.act[x].under]
<1>1. SUFFICES ASSUME \A x \in T : s.act[x].under # Null PROVE FALSE
  OBVIOUS
<1>2. /\ a \in T /\ T \in SUBSET Places /\ T \subseteq Reached(s, a)
      /\ \A x \in T : s.act[x].under \in T \ {a}
  BY <1>1, TidyStack
<1>3. ASSUME NEW x \in T, NEW y \in T, x # y PROVE s.act[x].under # s.act[y].under
  <2>1. Owned(s, x) \cap Owned(s, y) = {}
    BY <1>2, <1>3, TidyOwned
  <2>2. s.act[x].under \in Owned(s, x) /\ s.act[y].under \in Owned(s, y)
    BY <1>1 DEF Owned
  <2> QED BY <2>1, <2>2
<1> HIDE DEF T
<1>4. IsFiniteSet(T) /\ Cardinality(T) \in Nat
  BY <1>2, PlacesFinite, FS_Subset, FS_CardinalityType
<1>5. IsFiniteSet(T \ {a}) /\ Cardinality(T \ {a}) = Cardinality(T) - 1
  BY <1>2, <1>4, FS_RemoveElement
<1>6. Cardinality(T \ {a}) < Cardinality(T)
  BY <1>4, <1>5
<1>7. f \in [T -> T \ {a}]
  BY <1>2
<1> HIDE DEF f
<1>8. \E x, y \in T : x # y /\ f[x] = f[y]
  BY <1>4, <1>5, <1>6, <1>7, FS_PigeonHole
<1> QED BY <1>3, <1>8 DEF f

LEMMA TidyPile ==
    ASSUME NEW s, NEW own, NEW a, Tidy(s, own, a), a # Null,
           NEW b \in Stack(s, a), s.act[b].under = Null
    PROVE  PileDeletable(s, b)
<1> DEFINE T == Stack(s, a)
           U == Above(s, b)
<1>0. s \in Typed
  BY DEF Tidy, Sound
<1>1. /\ T \in SUBSET Places /\ T \subseteq Reached(s, a)
      /\ \A x \in T : /\ s.act[x].parent = Null
                      /\ s.act[x].over # Null => /\ s.act[x].over \in T
                                                 /\ s.act[s.act[x].over].under = x
      /\ \A x \in T : Below(s, x) \cap T = {} /\ Below(s, x) \subseteq Reached(s, a)
  BY TidyStack
<1>2. b \in Places /\ b \in Pointer
  BY <1>1, PlacesFacts
<1>3. U \subseteq T
  <2> HIDE DEF T
  <2> QED BY <1>0, <1>1, <1>2, AboveFacts DEF T
<1>4. \A x \in T : Removable(s, x)
  BY TidyRemovable
<1>5. \A x, y \in T : x # y => Below(s, x) \cap Below(s, y) = {}
  BY StackApart
<1>6. Null \notin Reached(s, a)
  BY TidyReached, PlacesFacts
<1> HIDE DEF T, U
<1>7. s.act[b].under \notin Pile(s, b)
  BY <1>1, <1>3, <1>6 DEF Pile, U
<1> QED BY <1>1, <1>2, <1>3, <1>4, <1>5, <1>7 DEF PileDeletable, U
-----------------------------------------------------------------------------
\* The same actions, of which some may have ended.
Marked(s, t) ==
    /\ t \in Typed /\ t.top = s.top /\ t.wild = s.wild
    /\ \A x \in Places : /\ FieldsBut(s.act[x], t.act[x], {"state"})
                         /\ t.act[x].state = "free" => s.act[x].state = "free"

LEMMA MarkedPile ==
    ASSUME NEW s \in Typed, NEW t, Marked(s, t)
    PROVE  /\ \A a \in Pointer : Stack(t, a) = Stack(s, a)
           /\ \A a : PileDeletable(s, a) => PileDeletable(t, a)
<1>0. t \in Typed /\ \A x \in Places :
        /\ t.act[x].under = s.act[x].under /\ t.act[x].over = s.act[x].over
        /\ t.act[x].parent = s.act[x].parent /\ t.act[x].child = s.act[x].child
        /\ t.act[x].goal = s.act[x].goal
        /\ t.act[x].state = "free" => s.act[x].state = "free"
  BY DEF Marked, FieldsBut
<1>1. [b \in Places |-> At(t.act[b].under)] = [b \in Places |-> At(s.act[b].under)]
  BY <1>0
<1>2. \A a : Stack(t, a) = Stack(s, a)
  BY <1>1 DEF Stack
<1>3. [b \in Places |-> At(t.act[b].over)] = [b \in Places |-> At(s.act[b].over)]
  BY <1>0
<1>4. \A a : Above(t, a) = Above(s, a)
  BY <1>3 DEF Above
<1>5. \A x \in Places : Owned(t, x) = Owned(s, x)
  BY <1>0 DEF Owned
<1>6. Own(t) = Own(s)
  BY <1>5 DEF Own
<1>7. \A a : Reached(t, a) = Reached(s, a)
  BY <1>6 DEF Reached, Own
<1>8. \A x \in Places : Below(t, x) = Below(s, x)
  BY <1>0, <1>7 DEF Below
<1>9. ASSUME NEW T, Forest(s, T) PROVE Forest(t, T)
  <2>1. /\ T \in SUBSET Places /\ Closed(Own(s), T)
        /\ \A x \in T : s.act[x].state # "free"
        /\ \A x, y \in T : x # y => Owned(s, x) \cap Owned(s, y) = {}
    BY <1>9 DEF Forest
  <2>2. ASSUME NEW x \in T PROVE LET r == t.act[x] IN
        /\ r.child # Null => r.child \notin {r.under, r.goal}
        /\ r.goal # Null => r.goal # r.under
        /\ r.child # Null => t.act[r.child].parent \in {x, Null}
        /\ r.under # Null => t.act[r.under].parent = r.parent
        /\ r.goal # Null => /\ Owned(t, r.goal) = {} /\ t.act[r.goal].parent = Null
                            /\ t.act[r.goal].over = Null
        /\ r.over # Null => r.over \in T /\ t.act[r.over].under = x
    <3>1. x \in Places
      BY <2>1
    <3>2. /\ s.act[x].child # Null => s.act[x].child \in Places
          /\ s.act[x].under # Null => s.act[x].under \in Places
          /\ s.act[x].goal # Null => s.act[x].goal \in Places
          /\ s.act[x].over # Null => s.act[x].over \in Places
      BY <3>1, PointingTyped
    <3>3. LET r == s.act[x] IN
        /\ r.child # Null => r.child \notin {r.under, r.goal}
        /\ r.goal # Null => r.goal # r.under
        /\ r.child # Null => s.act[r.child].parent \in {x, Null}
        /\ r.under # Null => s.act[r.under].parent = r.parent
        /\ r.goal # Null => /\ Owned(s, r.goal) = {} /\ s.act[r.goal].parent = Null
                            /\ s.act[r.goal].over = Null
        /\ r.over # Null => r.over \in T /\ s.act[r.over].under = x
      BY <1>9 DEF Forest
    <3> QED BY <1>0, <1>5, <3>1, <3>2, <3>3
  <2> QED BY <1>0, <1>5, <1>6, <2>1, <2>2 DEF Forest
<1>10. ASSUME NEW x, Removable(s, x) PROVE Removable(t, x)
  <2>1. /\ x \in Places /\ s.act[x].state # "free"
        /\ s.act[x].child # Null => s.act[x].child \in Places
        /\ s.act[x].goal # Null => s.act[x].goal \in Places
        /\ Forest(s, Below(s, x)) /\ Below(s, x) \in SUBSET Places
    BY <1>10, PointingTyped DEF Removable, Forest
  <2>2. Forest(t, Below(t, x)) /\ Below(t, x) = Below(s, x)
    BY <1>8, <1>9, <2>1
  <2>3. \A y \in Below(t, x) : Owned(t, y) \cap {t.act[x].child, t.act[x].goal} = {}
    BY <1>0, <1>5, <1>10, <2>1, <2>2 DEF Removable
  <2>4. /\ Outside(t, {x} \cup Below(t, x), t.act[x].parent)
        /\ Outside(t, {x} \cup Below(t, x), t.act[x].under)
    BY <1>0, <1>10, <2>1, <2>2 DEF Removable, Outside
  <2>5. /\ t.act[x].child # Null => /\ t.act[x].child # t.act[x].goal
                                    /\ t.act[t.act[x].child].parent \in {x, Null}
        /\ t.act[x].goal # Null => LET g == t.act[x].goal IN
             Owned(t, g) = {} /\ t.act[g].parent = Null /\ t.act[g].over = Null
    BY <1>0, <1>5, <1>10, <2>1 DEF Removable
  <2>6. x \notin Below(t, x) /\ t.act[x].state # "free"
    BY <1>0, <1>10, <2>1, <2>2 DEF Removable
  <2> QED BY <2>1, <2>2, <2>3, <2>4, <2>5, <2>6 DEF Removable
<1>11. ASSUME NEW a, PileDeletable(s, a) PROVE PileDeletable(t, a)
  <2> DEFINE U == Above(s, a)
  <2>0. a \in Places /\ a \in Pointer
    BY <1>11, PlacesFacts DEF PileDeletable
  <2>1. U \in SUBSET Places /\ Above(t, a) = U
    BY <1>4, <2>0, AboveFacts
  <2>2. \A x \in U : s.act[x].over # Null => s.act[x].over \in Places
    BY <2>1, PointingTyped
  <2>3. Pile(t, a) = Pile(s, a)
    BY <1>4, <1>8, <2>1 DEF Pile
  <2>4. s.act[a].under \notin Pile(s, a) /\ \A x \in U :
        /\ Removable(s, x) /\ s.act[x].parent = Null
        /\ s.act[x].over # Null => s.act[s.act[x].over].under = x
        /\ Below(s, x) \cap U = {}
    BY <1>11 DEF PileDeletable
  <2>5. \A x, y \in U : x # y => Below(s, x) \cap Below(s, y) = {}
    BY <1>11 DEF PileDeletable
  <2> HIDE DEF U
  <2>6. \A x \in U :
        /\ Removable(t, x) /\ t.act[x].parent = Null
        /\ t.act[x].over # Null => t.act[t.act[x].over].under = x
        /\ Below(t, x) \cap U = {}
    BY <1>0, <1>8, <1>10, <2>1, <2>2, <2>4
  <2>7. \A x, y \in U : x # y => Below(t, x) \cap Below(t, y) = {}
    BY <1>8, <2>1, <2>5
  <2> QED BY <1>0, <2>0, <2>1, <2>3, <2>4, <2>6, <2>7 DEF PileDeletable
<1> QED BY <1>2, <1>11

\* The destructors of a behavior use nothing that is deleted.
LEMMA DestructedSound ==
    ASSUME ActionInv, top # Null, NEW t \in Destructed
    PROVE  ~ t.wild
<1>1. ActionTypeOK /\ ~ wild /\ Memory \in Typed /\ Memory.top = top /\ Memory.wild = wild
      /\ top \in Pointer /\ top \in Places
  BY MemoryTyped, PlacesFacts DEF ActionInv, ActionTypeOK, Memory
<1>2. CASE started
  <2> DEFINE s == End(Memory, top)
             b == Bottom(s)
  <2>1. Tidy(Memory, NoOwner, top)
    BY <1>2 DEF ActionInv
  <2>2. Sound(Memory, NoOwner, {}, Null) /\ OnTop(Memory, top, Null, {})
    BY <2>1 DEF Tidy
  <2>3. PICK E \in SUBSET Places : EndsWith(Memory, {}, top, E)
    BY <2>2, EndingParts
  <2>4. Ending(Memory, top) = E /\ \A x \in E : Live(Memory, x)
    <3>1. Ending(Memory, top) = E
      BY <1>1, <2>3, EndingIs
    <3> QED BY <2>3, <3>1 DEF EndsWith
  <2>5. /\ Frame(Memory, s) /\ \A x \in Places \ E : s.act[x] = Memory.act[x]
        /\ \A x \in E \cap Places : /\ FieldsBut(Memory.act[x], s.act[x], {"state"})
                                    /\ s.act[x].state = "ended"
    BY <1>1, <2>4, EndFields
  <2>6. t \in Delete(s, b)
    BY <1>2 DEF Destructed
  <2> HIDE DEF s
  <2>7. Marked(Memory, s)
    BY <2>5 DEF Marked, Frame, FieldsBut
  <2>8. s.top = top /\ s.wild = wild /\ s \in Typed /\ Stack(s, top) = Stack(Memory, top)
        /\ \A x \in Places : s.act[x].under = Memory.act[x].under
    BY <1>1, <2>7, MarkedPile DEF Marked, FieldsBut
  <2>9. \E x \in Stack(s, s.top) : s.act[x].under = Null
    <3>1. PICK x \in Stack(Memory, top) : Memory.act[x].under = Null
      BY <2>1, StackBottom
    <3>2. x \in Places
      BY <1>1, <3>1, StackFrom
    <3> QED BY <2>8, <3>1, <3>2
  <2>10. b \in Stack(s, top) /\ s.act[b].under = Null
    BY <2>8, <2>9 DEF Bottom
  <2> HIDE DEF b
  <2>11. b \in Stack(Memory, top) /\ Memory.act[b].under = Null
    <3>1. b \in Places
      BY <1>1, <2>8, <2>10, StackFrom
    <3> QED BY <2>8, <2>10, <3>1
  <2>12. PileDeletable(Memory, b)
    BY <2>1, <2>11, TidyPile
  <2>13. PileDeletable(s, b)
    BY <1>1, <2>7, <2>12, MarkedPile
  <2>14. DeletesPiles(Deletions[MaxCalls])
    BY DeletionsPile, ActionsAssumption
  <2>15. Gone(s, t, Pile(s, b), {}, {s.act[b].under})
    BY <2>6, <2>8, <2>13, <2>14 DEF DeletesPiles, Delete
  <2> QED BY <1>1, <2>8, <2>15 DEF Gone
<1>3. CASE ~ started
  <2>1. action = FirstAction /\ top = 1
    BY <1>3 DEF ActionInv
  <2> DEFINE s == Memory
  <2>2. /\ GoalsSound(s) /\ Spare(s, 1) /\ s.act[1].parent = Null
        /\ \A x \in Places : Owned(s, x) = {}
    BY <1>1, <2>1, FirstSound DEF Sound
  <2>3. t \in Delete(s, Bottom(s))
    BY <1>3 DEF Destructed
  <2>4. s \in Typed /\ s.top = 1 /\ 1 \in Places /\ 1 \in Pointer
    BY <1>1, <2>1, PlacesFacts
  <2> HIDE DEF s
  <2>5. \A x \in Places : s.act[x].under = Null
    BY <2>2 DEF Owned
  <2>6. /\ 1 \in Stack(s, 1) /\ Stack(s, 1) \subseteq Places
        /\ \A x \in Stack(s, 1) : x = 1 \/ \E y \in Stack(s, 1) : x = s.act[y].under
    BY <2>4, StackFrom, PlacesFacts
  <2>7. Stack(s, 1) = {1}
    BY <2>5, <2>6, PlacesFacts
  <2>8. Bottom(s) = 1
    BY <2>4, <2>5, <2>7 DEF Bottom
  <2>9. s.act[1].over = Null /\ s.act[1].state # "free"
    BY <2>2 DEF Spare, GoalsSound
  <2>10. Deletable(s, 1)
    BY <2>2, <2>4, <2>9, LeafDeletable
  <2>11. t.wild = s.wild
    BY <2>3, <2>4, <2>8, <2>10, DeletionFrees DEF Gone
  <2> QED BY <1>1, <2>11 DEF s
<1> QED BY <1>2, <1>3

LEMMA ResetSound ==
    ASSUME ActionInv, Reset
    PROVE  ActionInv'
<1>1. /\ action' = FirstAction /\ top' = 1 /\ started' = FALSE /\ missed' = FALSE
      /\ wild' = (wild \/ (top # Null /\ \E t \in Destructed : t.wild))
  BY DEF Reset
<1>2. wild' = FALSE
  BY <1>1, DestructedSound DEF ActionInv
<1>3. ActionTypeOK'
  BY <1>1, <1>2, FirstActionTyped, PlacesFacts DEF ActionTypeOK, Actions
<1> QED BY <1>1, <1>2, <1>3 DEF ActionInv
-----------------------------------------------------------------------------
\* ActionInv is inductive: every step of the behaviour keeps what holds between two.
LEMMA ActionInvHolds == ActionSpec => []ActionInv
<1>1. ActionInit => ActionInv
  <2> SUFFICES ASSUME ActionInit PROVE ActionInv
    OBVIOUS
  <2>1. ActionTypeOK
    BY FirstActionTyped, PlacesFacts DEF ActionInit, ActionTypeOK, Actions
  <2> QED BY <2>1 DEF ActionInit, ActionInv
<1>2. ActionInv /\ [ActionNext]_actionVars => ActionInv'
  <2> SUFFICES ASSUME ActionInv, [ActionNext]_actionVars PROVE ActionInv'
    OBVIOUS
  <2>1. CASE Update
    BY <2>1, UpdateSound
  <2>2. CASE BotEvent
    BY <2>2, BotEventSound
  <2>3. CASE Reset
    BY <2>3, ResetSound
  <2>4. CASE UNCHANGED actionVars
    BY <2>4 DEF actionVars, ActionInv, ActionTypeOK, Tidy, Memory, Sound, OnTop
  <2> QED BY <2>1, <2>2, <2>3, <2>4 DEF ActionNext
<1> QED BY <1>1, <1>2, PTL DEF ActionSpec

LEMMA ActionInvSound == ActionInv => StackIsSound /\ CoveredIsSuspended
<1> SUFFICES ASSUME ActionInv PROVE StackIsSound /\ CoveredIsSuspended
  OBVIOUS
<1> DEFINE R == Reached(Memory, top)
<1>1. ActionTypeOK /\ ~ wild /\ Memory \in Typed /\ Memory.act = action
  BY MemoryTyped DEF ActionInv
<1>2. CASE started
  <2>1. Tidy(Memory, NoOwner, top)
    BY <1>2 DEF ActionInv
  <2>2. /\ R \in SUBSET Places /\ (top # Null => top \in R)
        /\ \A x \in R : x = top \/ \E y \in R : x \in Owned(Memory, y)
        /\ \A x \in R : Live(Memory, x) \/ Memory.act[x].state = "made"
    BY <2>1, TidyReached
  <2>3. /\ \A x \in R : LET r == Memory.act[x] IN
             /\ r.child # Null => Live(Memory, r.child)
             /\ r.under # Null => Live(Memory, r.under) /\ Memory.act[r.under].suspended
        /\ \A x, y \in R : x # y => Owned(Memory, x) \cap Owned(Memory, y) = {}
    BY <2>1, TidyOwned
  <2>4. \A x \in R :
          /\ Memory.act[x].over # Null => Memory.act[Memory.act[x].over].under = x
          /\ Memory.act[x].parent # Null =>
                x \in Stack(Memory, Memory.act[Memory.act[x].parent].child)
    BY <2>1, TidyPointers
  <2>5. \A x \in R : x # Null
    BY <2>2, PlacesFacts
  <2>6. top # Null => Live(Memory, top)
    BY <2>1 DEF Tidy, OnTop
  <2>7. InTree = R \ {action[a].goal : a \in Places}
    BY DEF InTree
  <2> HIDE DEF R
  <2>8. ASSUME NEW x \in InTree PROVE Live(Memory, x)
    <3>1. x \in R /\ \A y \in R : x # Memory.act[y].goal
      BY <1>1, <2>2, <2>7
    <3>2. x = top \/ \E y \in R : x \in {Memory.act[y].under, Memory.act[y].child}
      BY <2>2, <3>1 DEF Owned
    <3> QED BY <2>3, <2>5, <2>6, <3>1, <3>2
  <2>9. \A x \in InTree : x \in R
    BY <2>7
  <2>10. StackIsSound
    BY <1>1, <1>2, <2>3, <2>4, <2>8, <2>9 DEF StackIsSound, Live
  <2>11. CoveredIsSuspended
    BY <1>1, <2>3, <2>9 DEF CoveredIsSuspended
  <2> QED BY <2>10, <2>11
<1>3. CASE ~ started
  <2>1. action = FirstAction /\ top = 1
    BY <1>3 DEF ActionInv
  <2>2. \A x \in Places : Owned(Memory, x) = {}
    BY <1>1, <2>1, FirstSound
  <2>3. Reached(Memory, 1) = {1} /\ 1 \in Places
    BY <1>1, <2>2, LeafReached, PlacesFacts
  <2>4. action[1] = Blank("made")
    BY <2>1, <2>3 DEF FirstAction
  <2>5. InTree \subseteq {1}
    BY <2>1, <2>3 DEF InTree
  <2>6. /\ action[1].state = "made" /\ action[1].over = Null /\ action[1].parent = Null
        /\ action[1].under = Null
    BY <2>4 DEF Blank
  <2> QED BY <1>1, <1>3, <2>5, <2>6 DEF StackIsSound, CoveredIsSuspended
<1> QED BY <1>2, <1>3

\* StackIsSound: between two updates the pointers of a bot reach nothing that is
\* deleted or has ended, no action is owned twice, and the pointers up match those
\* down; no destructor, of an action or of the whole behaviour, has used a deleted one.
THEOREM StackSoundCorrect == ActionSpec => []StackIsSound
BY ActionInvHolds, ActionInvSound, PTL

\* EndedBeforeDeleted: no action that was started is deleted without its OnEnd.
THEOREM EndedFirstCorrect == ActionSpec => []EndedBeforeDeleted
<1>1. ActionInv => EndedBeforeDeleted
  BY DEF ActionInv, EndedBeforeDeleted
<1> QED BY <1>1, ActionInvHolds, PTL

\* CoveredIsSuspended: what is covered by another action has been told to suspend.
THEOREM CoveredSuspendedCorrect == ActionSpec => []CoveredIsSuspended
BY ActionInvHolds, ActionInvSound, PTL
=============================================================================
