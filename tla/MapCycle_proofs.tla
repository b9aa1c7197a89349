--------------------------- MODULE MapCycle_proofs ---------------------------
(***************************************************************************)
(* Proofs about MapCycle, for any maps, any files and any bounds.          *)
(***************************************************************************)
EXTENDS MapCycle, WellFoundedInduction, FiniteSetTheorems, TLAPS

\* The index is in the list, or at 0 of an empty one.
AtIndex(l, i) == i < Len(l) \/ (l = <<>> /\ i = 0)

\* The index follows the current map, which is not in a list it is at the
\* beginning of.
Follows(l, i, m) ==
    IF Occurs(l, m) # {} THEN l[Previous(l, i) + 1] = m ELSE i = 0

IInv == /\ TypeOK
        /\ AtIndex(list, index)
        /\ Running /\ ~ moved => Follows(list, index, map)
        /\ executing => Running
-----------------------------------------------------------------------------
(* The list and its index.                                                 *)

\* A finite set of numbers has a smallest one: what lies below each is a subset
\* of it, and among these subsets one has no smaller.
LEMMA FiniteHasSmallest ==
    ASSUME NEW S, S \subseteq Nat, S # {}, IsFiniteSet(S)
    PROVE  \E i \in S : \A j \in S : i <= j
<1> DEFINE Below(n) == {k \in S : k < n}
           T == {Below(n) : n \in S}
<1>1. IsWellFoundedOn(StrictSubsetOrdering(S), FiniteSubsetsOf(S))
  BY FS_StrictSubsetOrderingWellFounded
<1>2. T # {} /\ T \subseteq SUBSET S
  OBVIOUS
<1>3. T \subseteq FiniteSubsetsOf(S)
  BY <1>2, FS_FiniteSubsetsOfFinite
<1> HIDE DEF T
<1>4. PICK B \in T : \A C \in T : ~ (<<C, B>> \in StrictSubsetOrdering(S))
  BY <1>1, <1>2, <1>3, WFMin
<1>5. PICK i \in S : B = Below(i)
  BY DEF T
<1>6. ASSUME NEW j \in S, j < i PROVE FALSE
  <2>1. Below(j) \in T
    BY DEF T
  <2>2. /\ j < i /\ ~ (j < j)
        /\ \A k \in S : k < j => k < i
    BY <1>6
  <2>3. Below(j) \subseteq Below(i) /\ j \in Below(i) /\ j \notin Below(j)
    BY <2>2, Zenon
  <2>4. <<Below(j), B>> \in StrictSubsetOrdering(S)
    BY <1>2, <1>5, <2>1, <2>3 DEF StrictSubsetOrdering
  <2> QED BY <1>4, <2>1, <2>4
<1> QED BY <1>6

\* The first place of a map is the smallest one.
LEMMA FirstInType ==
    ASSUME NEW l \in Seq(Names), NEW m, Occurs(l, m) # {}
    PROVE  FirstIn(l, m) \in 0..(Len(l) - 1) /\ l[FirstIn(l, m) + 1] = m
<1>1. Occurs(l, m) \subseteq Nat /\ Occurs(l, m) \subseteq 0..(Len(l) - 1)
  BY DEF Occurs
<1>2. IsFiniteSet(Occurs(l, m))
  <2>1. 0 \in Int /\ Len(l) - 1 \in Int
    OBVIOUS
  <2>2. IsFiniteSet(0..(Len(l) - 1))
    BY <2>1, FS_Interval
  <2> QED BY <1>1, <2>2, FS_Subset
<1>3. \E i \in Occurs(l, m) : \A j \in Occurs(l, m) : i <= j
  BY <1>1, <1>2, FiniteHasSmallest
<1>4. FirstIn(l, m) \in Occurs(l, m)
  BY <1>3 DEF FirstIn
<1> QED BY <1>4 DEF Occurs

LEMMA IncrementType ==
    ASSUME NEW l \in Seq(Names), NEW i \in 0..(Len(l) - 1)
    PROVE  /\ Increment(l, i) \in 0..(Len(l) - 1)
           /\ Previous(l, Increment(l, i)) = i
  BY DEF Increment, Previous

\* LoadMapCycleFile leaves the index after the current map.
LEMMA IndexForFollows ==
    ASSUME NEW l \in Seq(Names), NEW old \in Nat, NEW m
    PROVE  /\ IndexFor(l, old, m) \in Nat
           /\ AtIndex(l, IndexFor(l, old, m))
           /\ Follows(l, IndexFor(l, old, m), m)
<1>0. Len(l) \in Nat
  OBVIOUS
<1>1. CASE old < Len(l) /\ l[Previous(l, old) + 1] = m
  <2>1. Previous(l, old) \in 0..(Len(l) - 1)
    BY <1>0, <1>1 DEF Previous
  <2>2. Occurs(l, m) # {}
    BY <1>1, <2>1 DEF Occurs
  <2>3. IndexFor(l, old, m) = old
    BY <1>1 DEF IndexFor
  <2> QED BY <1>1, <2>2, <2>3 DEF AtIndex, Follows
<1>2. CASE /\ ~ (old < Len(l) /\ l[Previous(l, old) + 1] = m)
           /\ Occurs(l, m) # {}
  <2>1. IndexFor(l, old, m) = Increment(l, FirstIn(l, m))
    BY <1>2 DEF IndexFor
  <2>2. FirstIn(l, m) \in 0..(Len(l) - 1) /\ l[FirstIn(l, m) + 1] = m
    BY <1>2, FirstInType
  <2>3. /\ IndexFor(l, old, m) \in 0..(Len(l) - 1)
        /\ Previous(l, IndexFor(l, old, m)) = FirstIn(l, m)
    BY <2>1, <2>2, IncrementType
  <2> QED BY <1>0, <1>2, <2>2, <2>3 DEF AtIndex, Follows
<1>3. CASE /\ ~ (old < Len(l) /\ l[Previous(l, old) + 1] = m)
           /\ Occurs(l, m) = {}
  <2>1. IndexFor(l, old, m) = 0
    BY <1>3 DEF IndexFor
  <2>2. 0 < Len(l) \/ l = <<>>
    BY <1>0
  <2> QED BY <1>3, <2>1, <2>2 DEF AtIndex, Follows
<1> QED BY <1>1, <1>2, <1>3

\* A map that is put at the end of the list, behind the index, leaves the index
\* after the current map, which it is itself.
LEMMA AppendFollows ==
    ASSUME NEW l \in Seq(Names), NEW i \in Nat, NEW m \in Names, AtIndex(l, i)
    PROVE  /\ Append(l, m) \in Seq(Names)
           /\ i < Len(Append(l, m))
           /\ Follows(l, i, m) => Follows(Append(l, m), i, m)
<1>1. /\ Append(l, m) \in Seq(Names) /\ Len(Append(l, m)) = Len(l) + 1
      /\ Append(l, m)[Len(l) + 1] = m /\ Len(l) \in Nat
      /\ \A j \in 1..Len(l) : Append(l, m)[j] = l[j]
  OBVIOUS
<1>2. i < Len(l) \/ (i = 0 /\ Len(l) = 0)
  BY DEF AtIndex
<1>3. ASSUME Follows(l, i, m) PROVE Follows(Append(l, m), i, m)
  <2>1. CASE i = 0
    <3>1. Previous(Append(l, m), i) = Len(l)
      BY <1>1, <2>1 DEF Previous
    <3> QED BY <1>1, <2>1, <3>1 DEF Follows
  <2>2. CASE i # 0
    <3>1. Occurs(l, m) # {} /\ l[Previous(l, i) + 1] = m
      BY <1>3, <2>2 DEF Follows
    <3>2. Previous(l, i) = i - 1 /\ Previous(Append(l, m), i) = i - 1
      BY <2>2 DEF Previous
    <3>3. Append(l, m)[i - 1 + 1] = l[i - 1 + 1]
      BY <1>1, <1>2, <2>2
    <3>4. Append(l, m)[Previous(Append(l, m), i) + 1] = m
      BY <3>1, <3>2, <3>3
    <3>5. i - 1 \in Occurs(Append(l, m), m)
      BY <1>1, <1>2, <2>2, <3>2, <3>4 DEF Occurs
    <3> QED BY <2>2, <3>4, <3>5 DEF Follows
  <2> QED BY <2>1, <2>2
<1> QED BY <1>1, <1>2, <1>3

LEMMA InFileType == TypeOK => InFile \in Seq(Names)
  BY NamesAssumption DEF TypeOK, InFile

\* What GetNextLevelName reads.
LEMMA NowFollows ==
    ASSUME IInv, Running
    PROVE  /\ ListNow \in Seq(Names) /\ ListNow # <<>>
           /\ IndexNow \in 0..(Len(ListNow) - 1)
           /\ NextName \in Names
           /\ ~ moved \/ Reloads => Follows(ListNow, IndexNow, map)
<1> DEFINE l == IF file = NoFile THEN Append(list, map)
                ELSE IF stale THEN file ELSE list
<1>0. map \in Names /\ index \in Nat /\ list \in Seq(Names)
  BY DEF IInv, TypeOK, Running, Names
<1>1. /\ l \in Seq(Names) /\ IndexNow \in Nat
      /\ AtIndex(l, IndexNow)
      /\ ~ moved \/ Reloads => Follows(l, IndexNow, map)
  <2>1. CASE file = NoFile
    <3>1. ~ Reloads /\ IndexNow = index /\ l = Append(list, map)
      BY <2>1 DEF Reloads, IndexNow
    <3>2. /\ Append(list, map) \in Seq(Names)
          /\ index < Len(Append(list, map))
          /\ Follows(list, index, map) => Follows(Append(list, map), index, map)
      BY <1>0, AppendFollows DEF IInv
    <3> QED BY <1>0, <3>1, <3>2 DEF IInv, AtIndex
  <2>2. CASE Reloads
    <3>1. l = file /\ IndexNow = IndexFor(file, index, map) /\ file \in Seq(Names)
      BY <2>2, NamesAssumption DEF Reloads, IndexNow, IInv, TypeOK
    <3> HIDE DEF l
    <3> QED BY <1>0, <3>1, IndexForFollows
  <2>3. CASE file # NoFile /\ ~ stale
    <3>1. ~ Reloads /\ IndexNow = index /\ l = list
      BY <2>3 DEF Reloads, IndexNow
    <3> HIDE DEF l
    <3> QED BY <1>0, <3>1 DEF IInv
  <2> QED BY <2>1, <2>2, <2>3 DEF Reloads
<1>2. ListNow = IF l = <<>> THEN <<map>> ELSE l
  BY DEF ListNow
<1> HIDE DEF l
<1>3. CASE l # <<>>
  <2>1. ListNow = l /\ IndexNow < Len(l) /\ Len(l) \in Nat
    BY <1>1, <1>2, <1>3 DEF AtIndex
  <2> QED BY <1>1, <1>3, <2>1 DEF NextName
<1>4. CASE l = <<>>
  <2>1. ListNow = <<map>> /\ IndexNow = 0
    BY <1>1, <1>2, <1>4 DEF AtIndex
  <2>2. Previous(<<map>>, 0) = 0 /\ Follows(<<map>>, 0, map)
    BY DEF Previous, Follows
  <2> QED BY <1>0, <2>1, <2>2 DEF NextName
<1> QED BY <1>3, <1>4
-----------------------------------------------------------------------------
(* Steps.                                                                  *)

LEMMA InitInv == Init => IInv
<1> SUFFICES ASSUME Init PROVE IInv
  OBVIOUS
<1> USE DEF Init
<1>1. /\ list \in Seq(Names) /\ cmds \in Seq(Names \cup {GotoNext})
      /\ index \in Nat /\ crashes \in 0..MaxCrashes
  BY BoundsAssumption
<1>2. /\ file \in Cycles \cup {NoFile}
      /\ {nextlevel, map, target, recovery} \subseteq {NoMap}
      /\ {stale, moved, gameOver, chat, done, executing, booted} \subseteq BOOLEAN
  OBVIOUS
<1>3. TypeOK
  BY <1>1, <1>2 DEF TypeOK
<1> QED BY <1>3 DEF IInv, AtIndex, Running

\* What a step has to do for the invariant when it leaves the list alone.
LEMMA CycleStays ==
    ASSUME IInv, TypeOK', UNCHANGED <<list, index, moved, map>>,
           executing' => Running
    PROVE  IInv'
  BY DEF IInv, Running, AtIndex, Follows, Occurs, Previous

\* After the index has been moved on.
LEMMA IncrementInv ==
    ASSUME IInv, Running, TypeOK', moved', UNCHANGED map,
           list' \in {ListNow, Append(ListNow, map)},
           index' = Increment(ListNow, IndexNow)
    PROVE  IInv'
<1>1. /\ ListNow \in Seq(Names) /\ map \in Names
      /\ IndexNow \in 0..(Len(ListNow) - 1)
  BY NowFollows DEF IInv, TypeOK, Running, Names
<1>2. index' \in 0..(Len(ListNow) - 1)
  BY <1>1, IncrementType
<1>3. /\ Len(ListNow) \in Nat
      /\ Len(Append(ListNow, map)) = Len(ListNow) + 1
  BY <1>1
<1>4. index' < Len(list')
  BY <1>2, <1>3
<1> QED BY <1>4 DEF IInv, AtIndex, Running

\* The types of what ChangeLevel and its callers compute.
LEMMA NowType ==
    ASSUME IInv, Running
    PROVE  /\ ListNow \in Seq(Names) /\ Append(ListNow, map) \in Seq(Names)
           /\ IndexNow \in Nat /\ Increment(ListNow, IndexNow) \in Nat
           /\ Changelevel \in Names
<1>1. /\ ListNow \in Seq(Names) /\ NextName \in Names /\ map \in Names
      /\ IndexNow \in 0..(Len(ListNow) - 1)
  BY NowFollows DEF IInv, TypeOK, Running, Names
<1>2. Increment(ListNow, IndexNow) \in 0..(Len(ListNow) - 1)
  BY <1>1, IncrementType
<1>3. nextlevel \in Names \cup {NoMap}
  BY DEF IInv, TypeOK
<1> QED BY <1>1, <1>2, <1>3 DEF Changelevel

LEMMA NextmapInv == IInv /\ Nextmap => IInv'
<1> SUFFICES ASSUME IInv, Nextmap PROVE IInv'
  OBVIOUS
<1>1. Running /\ list' = ListNow /\ index' = IndexNow
      /\ moved' = (moved /\ ~ Reloads) /\ map' = map
  BY DEF Nextmap, InGame, GetNextLevelName, procVars
<1>2. /\ ListNow \in Seq(Names) /\ IndexNow \in 0..(Len(ListNow) - 1)
      /\ ~ moved \/ Reloads => Follows(ListNow, IndexNow, map)
  BY <1>1, NowFollows
<1>3. TypeOK'
  BY <1>1, NowType DEF IInv, TypeOK, Nextmap, GetNextLevelName,
                     overVars, frameVars, procVars
<1>4. AtIndex(list, index)'
  BY <1>1, <1>2 DEF AtIndex
<1>5. (Running /\ ~ moved => Follows(list, index, map))'
  BY <1>1, <1>2 DEF Follows, Occurs, Previous
<1> QED BY <1>1, <1>3, <1>4, <1>5 DEF IInv, Running

LEMMA SkipInv == IInv /\ SkipNextMapInCycle => IInv'
<1> SUFFICES ASSUME IInv, SkipNextMapInCycle PROVE IInv'
  OBVIOUS
<1>1. /\ Running /\ moved' /\ map' = map
      /\ list' \in {ListNow, Append(ListNow, map)}
      /\ index' = Increment(ListNow, IndexNow)
  BY DEF SkipNextMapInCycle, InGame, procVars
<1>2. TypeOK'
  BY <1>1, NowType DEF IInv, TypeOK, SkipNextMapInCycle, overVars, frameVars, procVars
<1> QED BY <1>1, <1>2, IncrementInv

\* The two steps that call ChangeLevel.
LEMMA ChangeLevelInv ==
    ASSUME IInv, Running, TypeOK', ChangeLevel, UNCHANGED map
    PROVE  IInv'
<1>1. CASE nextlevel # NoMap
  BY <1>1, CycleStays DEF ChangeLevel, cycleVars
<1>2. CASE nextlevel = NoMap
  BY <1>2, IncrementInv DEF ChangeLevel, GetNextLevelName
<1> QED BY <1>1, <1>2

\* The types the list and the index keep when ChangeLevel is called.
LEMMA ChangeLevelType ==
    ASSUME IInv, Running, ChangeLevel
    PROVE  /\ list' \in Seq(Names) /\ index' \in Nat
           /\ stale' \in BOOLEAN /\ moved' \in BOOLEAN
<1>1. list \in Seq(Names) /\ index \in Nat /\ stale \in BOOLEAN /\ moved \in BOOLEAN
  BY DEF IInv, TypeOK
<1> QED BY <1>1, NowType DEF ChangeLevel, GetNextLevelName, cycleVars

LEMMA ThinkGameOverInv == IInv /\ ThinkGameOver => IInv'
<1> SUFFICES ASSUME IInv, ThinkGameOver PROVE IInv'
  OBVIOUS
<1>1. Running /\ ChangeLevel /\ map' = map
  BY DEF ThinkGameOver, InGame, procVars
<1>2. Append(cmds, Changelevel) \in Seq(Names \cup {GotoNext})
  BY <1>1, NowType DEF IInv, TypeOK
<1>3. TypeOK'
  BY <1>1, <1>2, ChangeLevelType
     DEF IInv, TypeOK, ThinkGameOver, ChangeLevel, procVars
<1> QED BY <1>1, <1>3, ChangeLevelInv

LEMMA ExecGotoNextInv == IInv /\ ExecGotoNext => IInv'
<1> SUFFICES ASSUME IInv, ExecGotoNext PROVE IInv'
  OBVIOUS
<1>1. Running /\ ChangeLevel /\ map' = map
  BY DEF ExecGotoNext, IInv, procVars
<1>2. <<Changelevel>> \o Tail(cmds) \in Seq(Names \cup {GotoNext})
  BY <1>1, NowType DEF IInv, TypeOK, ExecGotoNext
<1>3. TypeOK'
  BY <1>1, <1>2, ChangeLevelType
     DEF IInv, TypeOK, ExecGotoNext, ChangeLevel, procVars
<1> QED BY <1>1, <1>3, ChangeLevelInv

\* The steps of chat, operator, rules and engine that leave the list alone.
LEMMA OtherSteps ==
    ASSUME IInv,
           \/ \E m \in Names \cup {NoMap} : SetNextlevel(m)
           \/ \E f \in Cycles : EditFile(f)
           \/ RemoveFile
           \/ \E c \in Names \cup {GotoNext} : AskChange(c)
           \/ \E full \in BOOLEAN : GoToIntermission(full)
           \/ ChatOver \/ ExecChangelevel \/ RunGame \/ NextFrame
    PROVE  IInv'
<1> USE DEF IInv, TypeOK, cycleVars, overVars, frameVars, procVars, InGame
<1>1. CASE \E m \in Names \cup {NoMap} : SetNextlevel(m)
  BY <1>1, CycleStays DEF SetNextlevel
<1>2. CASE \E f \in Cycles : EditFile(f)
  BY <1>2, CycleStays DEF EditFile
<1>3. CASE RemoveFile
  BY <1>3, CycleStays DEF RemoveFile
<1>4. CASE \E c \in Names \cup {GotoNext} : AskChange(c)
  BY <1>4, CycleStays DEF AskChange
<1>5. CASE \E full \in BOOLEAN : GoToIntermission(full)
  <2>1. Append(cmds, GotoNext) \in Seq(Names \cup {GotoNext})
    OBVIOUS
  <2> QED BY <1>5, <2>1, CycleStays DEF GoToIntermission
<1>6. CASE ChatOver
  BY <1>6, CycleStays DEF ChatOver
<1>7. CASE ExecChangelevel
  BY <1>7, CycleStays DEF ExecChangelevel
<1>8. CASE RunGame
  BY ZenonT(60), <1>8, CycleStays DEF RunGame
<1>9. CASE NextFrame
  BY <1>9, CycleStays DEF NextFrame
<1> QED BY <1>1, <1>2, <1>3, <1>4, <1>5, <1>6, <1>7, <1>8, <1>9

LEMMA LevelInitInv ==
    ASSUME IInv, NEW m \in Maps, LevelInit(m)
    PROVE  IInv'
<1> USE DEF LevelInit
<1>1. /\ InFile \in Seq(Names)
      /\ IndexFor(InFile, index, m) \in Nat
      /\ AtIndex(InFile, IndexFor(InFile, index, m))
      /\ Follows(InFile, IndexFor(InFile, index, m), m)
  BY InFileType, IndexForFollows DEF IInv, TypeOK
<1>2. /\ recovery' \in Maps \cup {NoMap}
      /\ cmds' \in Seq(Names \cup {GotoNext})
  <2>1. cmds \in Seq(Names \cup {GotoNext}) /\ recovery \in Maps \cup {NoMap}
    BY DEF IInv, TypeOK
  <2>2. recovery # NoMap => Append(cmds, recovery) \in Seq(Names \cup {GotoNext})
    BY <2>1 DEF Names
  <2> QED BY <2>1, <2>2 DEF MapRecovery
<1>3. TypeOK'
  BY <1>1, <1>2 DEF IInv, TypeOK
<1>4. AtIndex(list, index)' /\ Follows(list, index, map)' /\ Running'
  BY <1>1, NamesAssumption DEF AtIndex, Follows, Occurs, Previous, Running, Names
<1> QED BY <1>3, <1>4 DEF IInv

LEMMA CrashInv == IInv /\ Crash => IInv'
<1> SUFFICES ASSUME IInv, Crash PROVE IInv'
  OBVIOUS
<1> USE DEF Crash
<1>1. /\ list' \in Seq(Names) /\ cmds' \in Seq(Names \cup {GotoNext})
      /\ index' \in Nat
  OBVIOUS
<1>2. crashes' \in 0..MaxCrashes
  BY BoundsAssumption DEF IInv, TypeOK
<1>3. /\ {nextlevel', map', target'} \subseteq {NoMap}
      /\ {stale', moved', gameOver', chat', done', executing', booted'} \subseteq BOOLEAN
  OBVIOUS
<1>4. TypeOK'
  BY <1>1, <1>2, <1>3 DEF IInv, TypeOK
<1> QED BY <1>4 DEF IInv, AtIndex, Running

LEMMA StepInv == IInv /\ [Next]_vars => IInv'
<1> SUFFICES ASSUME IInv, [Next]_vars PROVE IInv'
  OBVIOUS
<1>1. CASE Nextmap
  BY <1>1, NextmapInv
<1>2. CASE SkipNextMapInCycle
  BY <1>2, SkipInv
<1>3. CASE ThinkGameOver
  BY <1>3, ThinkGameOverInv
<1>4. CASE ExecGotoNext
  BY <1>4, ExecGotoNextInv
<1>5. CASE NewLevel
  BY <1>5, LevelInitInv DEF NewLevel, IInv, TypeOK
<1>6. CASE Boot
  BY <1>6, LevelInitInv, NamesAssumption DEF Boot
<1>7. CASE Crash
  BY <1>7, CrashInv
<1>8. CASE UNCHANGED vars
  <2>1. TypeOK' /\ (executing' => Running)
    BY <1>8 DEF IInv, TypeOK, vars, cycleVars, overVars, frameVars, procVars
  <2> QED BY <1>8, <2>1, CycleStays DEF vars, cycleVars, procVars
<1>9. ASSUME ~ (\/ Nextmap \/ SkipNextMapInCycle \/ ThinkGameOver \/ ExecGotoNext
                \/ NewLevel \/ Boot \/ Crash \/ UNCHANGED vars)
      PROVE  IInv'
  BY <1>9, OtherSteps DEF Next, EngineStep, RulesStep, OthersStep
<1> QED BY <1>1, <1>2, <1>3, <1>4, <1>5, <1>6, <1>7, <1>8, <1>9
-----------------------------------------------------------------------------
(* Theorems.                                                               *)

LEMMA IInvCorrect == Spec => []IInv
<1> QED BY InitInv, StepInv, PTL DEF Spec

\* TypeOK is an invariant of the map cycle.
THEOREM TypeCorrect == Spec => []TypeOK
<1>1. IInv => TypeOK
  BY DEF IInv
<1> QED BY <1>1, IInvCorrect, PTL

\* Whatever was done to the file, the name GetNextLevelName reads is in the
\* list: the static index never points behind it.
THEOREM IndexInListCorrect == Spec => []IndexInList
<1>1. IInv => IndexInList
  BY NowFollows DEF IndexInList
<1> QED BY <1>1, IInvCorrect, PTL

\* Until it is moved on, the static index comes after the current map.
THEOREM FollowsCurrentCorrect == Spec => []FollowsCurrent
<1>1. IInv => FollowsCurrent
  BY DEF IInv, FollowsCurrent, Follows
<1> QED BY <1>1, IInvCorrect, PTL

\* A player who asks for the next map does not change it, also when his
\* question makes the list be loaded again or grow.
THEOREM NextmapIsStableCorrect == Spec => NextmapIsStable
<1>1. ASSUME IInv, Nextmap PROVE NextName' = NextName
  <2>1. /\ Running /\ list' = ListNow /\ index' = IndexNow
        /\ stale' = (stale /\ ~ Reloads) /\ file' = file /\ map' = map
    BY <1>1 DEF Nextmap, InGame, GetNextLevelName, procVars
  <2>2. /\ ListNow \in Seq(Names) /\ ListNow # <<>>
        /\ IndexNow \in 0..(Len(ListNow) - 1)
    BY <1>1, <2>1, NowFollows
  <2>3. ~ Reloads'
    BY <2>1 DEF Reloads
  <2>4. IndexNow' = IndexNow
    BY <2>1, <2>3 DEF IndexNow
  <2>5. ListNow' = IF file = NoFile THEN Append(ListNow, map) ELSE ListNow
    <3>1. Append(ListNow, map) # <<>>
      BY <2>2
    <3>2. file # NoFile => ~ stale'
      BY <2>1 DEF Reloads
    <3> HIDE DEF ListNow
    <3>3. ListNow' = LET l == IF file' = NoFile THEN Append(list', map')
                              ELSE IF stale' THEN file' ELSE list'
                     IN  IF l = <<>> THEN <<map'>> ELSE l
      BY DEF ListNow
    <3> QED BY <2>1, <2>2, <3>1, <3>2, <3>3
  <2>6. ListNow'[IndexNow + 1] = ListNow[IndexNow + 1]
    BY <2>2, <2>5
  <2> QED BY <2>4, <2>6 DEF NextName
<1>2. IInv => [Nextmap => NextName' = NextName]_vars
  BY <1>1
<1> QED BY <1>2, IInvCorrect, PTL DEF NextmapIsStable
-----------------------------------------------------------------------------
(* The server left to itself (QuietSpec): what it records, and the order   *)
(* in which it plays its cycle.                                            *)

\* The server is to come back to the map it was recorded to play.
Recovering == recovery \notin {NoMap, map}

\* The change that is under way then: nothing else moves the index or ends the
\* level before it.
Returns ==
    /\ ~ done /\ ~ moved /\ (gameOver => chat)
    /\ \/ executing /\ cmds = <<recovery>> /\ target = NoMap
       \/ cmds = <<>> /\ target = recovery

\* Else no change is asked for, or the one to the map the index just passed.
Asked == list[Previous(list, index) + 1]
Plays ==
    \/ ~ done /\ ~ moved /\ cmds = <<>> /\ target = NoMap
    \/ /\ done /\ moved /\ Asked \in Names
       /\ \/ cmds = <<Asked>> /\ target = NoMap
          \/ cmds = <<>> /\ target \in {Asked, NoMap}

QuietInv ==
    /\ IInv
    /\ ~ stale /\ nextlevel = NoMap
    /\ ~ Running => cmds = <<>>
    /\ Running <=> booted
    /\ Running /\ InFile # <<>> => list = InFile
    /\ Running => IF Recovering THEN Returns ELSE Plays

\* The entry of the file that is being played.
Entry == IF moved THEN Previous(InFile, Previous(InFile, index))
                  ELSE Previous(InFile, index)

\* A level that starts without a recovery is the next entry of the file; after
\* the last one comes the first.
EntriesInOrder ==
    [][NewLevel /\ ~ Recovering /\ InFile # <<>> =>
          /\ Entry' = Increment(InFile, Entry)
          /\ map' = InFile[Entry' + 1]]_vars

\* The file maprecovery.txt is written only when the map it names is played,
\* or when it names none.
RecordIsKept == [][recovery' # recovery => recovery \in {NoMap, map}]_vars

LEMMA QuietIsNext == QuietNext => Next
  BY DEF QuietNext, Next

LEMMA QuietInit == Init => QuietInv
  BY InitInv DEF Init, QuietInv, Running

LEMMA PreviousType ==
    ASSUME NEW l \in Seq(Names), NEW i \in Nat, i < Len(l)
    PROVE  /\ Previous(l, i) \in 0..(Len(l) - 1)
           /\ Increment(l, Previous(l, i)) = i
  BY DEF Previous, Increment

\* The rules ask for the map the index passes.
LEMMA ThinkGameOverQuiet == QuietInv /\ ThinkGameOver => QuietInv'
<1> SUFFICES ASSUME QuietInv, ThinkGameOver PROVE QuietInv'
  OBVIOUS
<1> USE DEF QuietInv
<1>1. /\ Running /\ gameOver /\ ~ chat /\ ~ done
      /\ cmds' = Append(cmds, Changelevel) /\ done'
      /\ file' = file /\ nextlevel' = nextlevel /\ map' = map
      /\ booted' = booted /\ recovery' = recovery /\ target' = target
  BY DEF ThinkGameOver, InGame, procVars
<1>2. ~ Recovering /\ cmds = <<>> /\ target = NoMap
  BY <1>1 DEF Returns, Plays
<1>3. /\ moved' /\ list' = ListNow /\ index' = Increment(ListNow, IndexNow)
      /\ stale' = (stale /\ ~ Reloads)
  BY DEF ThinkGameOver, ChangeLevel, GetNextLevelName
<1>4. /\ ListNow \in Seq(Names)
      /\ IndexNow \in 0..(Len(ListNow) - 1)
  BY <1>1, NowFollows
<1>5. Previous(list', index') = IndexNow
  BY <1>3, <1>4, IncrementType
<1>6. Changelevel = Asked'
  BY <1>3, <1>5 DEF Changelevel, NextName, Asked
<1>7. cmds' = <<Asked'>> /\ Asked' \in Names
  BY <1>1, <1>2, <1>6, NowType
<1>8. Plays'
  BY <1>1, <1>2, <1>3, <1>7 DEF Plays
<1>9. InFile' = InFile /\ (InFile # <<>> => ListNow = InFile)
  BY <1>1 DEF InFile, ListNow
<1>10. IInv'
  BY ThinkGameOverInv
<1>11. ~ Recovering'
  BY <1>1, <1>2 DEF Recovering
<1> QED BY <1>1, <1>3, <1>8, <1>9, <1>10, <1>11 DEF Running

\* A level starts: it may be the one the recovery begins with.
LEMMA LevelInitQuiet ==
    ASSUME QuietInv, NEW m \in Maps, LevelInit(m),
           cmds = <<>>, booted \/ ~ Running
    PROVE  QuietInv'
<1> USE DEF QuietInv
<1>1. /\ map' = m /\ executing' /\ target' = NoMap /\ list' = InFile
      /\ ~ stale' /\ ~ moved' /\ nextlevel' = NoMap /\ booted' /\ file' = file
      /\ ~ gameOver' /\ ~ done'
  BY DEF LevelInit
<1>2. Running' /\ InFile' = InFile
  BY <1>1, NamesAssumption DEF Running, Names, InFile
<1>3. IInv'
  BY LevelInitInv
<1>4. /\ Recovering' => cmds' = <<recovery>> /\ recovery' = recovery
      /\ ~ Recovering' => cmds' = <<>>
  <2>1. MapRecovery(m)
    BY DEF LevelInit
  <2>2. Append(cmds, recovery) = <<recovery>>
    OBVIOUS
  <2> QED BY <1>1, <2>1, <2>2 DEF MapRecovery, Recovering
<1>5. IF Recovering' THEN Returns' ELSE Plays'
  BY <1>1, <1>4 DEF Returns, Plays
<1> QED BY <1>1, <1>2, <1>3, <1>5

\* The command is carried out: a changelevel to a map that is not there leaves
\* the server where it is.
LEMMA ExecChangelevelQuiet == QuietInv /\ ExecChangelevel => QuietInv'
<1> SUFFICES ASSUME QuietInv, ExecChangelevel PROVE QuietInv'
  OBVIOUS
<1> USE DEF QuietInv
<1>1. /\ Running /\ cmds # <<>>
      /\ target' = IF Head(cmds) \in Maps THEN Head(cmds) ELSE target
      /\ cmds' = Tail(cmds)
      /\ UNCHANGED <<file, list, index, stale, moved, nextlevel, gameOver, chat,
                     done, executing, map, booted, recovery>>
  BY DEF ExecChangelevel, IInv, cycleVars, overVars, procVars
<1>2. IInv'
  BY OtherSteps
<1>3. Recovering' = Recovering /\ Asked' = Asked /\ InFile' = InFile /\ Running'
  BY <1>1 DEF Recovering, Asked, Previous, InFile, Running
<1>4. CASE Recovering
  <2>1. cmds = <<recovery>> /\ recovery \in Maps
    BY <1>1, <1>4 DEF Returns, Recovering, IInv, TypeOK
  <2>2. target' = recovery /\ cmds' = <<>>
    BY <1>1, <2>1
  <2> QED BY <1>1, <1>2, <1>3, <1>4, <2>2 DEF Returns
<1>5. CASE ~ Recovering
  <2>1. /\ done /\ moved /\ cmds = <<Asked>> /\ target = NoMap
        /\ Asked \in Names
    BY <1>1, <1>5 DEF Plays
  <2>2. target' \in {Asked, NoMap} /\ cmds' = <<>>
    BY <1>1, <2>1
  <2> QED BY <1>1, <1>2, <1>3, <1>5, <2>1, <2>2 DEF Plays
<1> QED BY <1>4, <1>5

LEMMA QuietStep == QuietInv /\ [QuietNext]_vars => QuietInv'
<1> SUFFICES ASSUME QuietInv, [QuietNext]_vars PROVE QuietInv'
  OBVIOUS
<1>0. IInv'
  BY StepInv, QuietIsNext DEF QuietInv
<1> USE DEF QuietInv
<1>1. CASE ThinkGameOver
  BY <1>1, ThinkGameOverQuiet
<1>2. CASE ExecChangelevel
  BY <1>2, ExecChangelevelQuiet
<1>3. CASE ExecGotoNext
  <2>1. Running /\ cmds # <<>> /\ Head(cmds) = GotoNext
    BY <1>3 DEF ExecGotoNext, IInv
  <2>2. CASE Recovering
    BY <2>1, <2>2, NamesAssumption DEF Returns, Recovering, IInv, TypeOK, Names
  <2>3. CASE ~ Recovering
    <3>1. cmds = <<Asked>> /\ Asked \in Names
      BY <2>1, <2>3 DEF Plays
    <3>2. Asked = GotoNext
      BY <2>1, <3>1
    <3> QED BY <3>1, <3>2, NamesAssumption
  <2> QED BY <2>2, <2>3
<1>4. CASE NewLevel
  <2>1. /\ Running /\ booted /\ target \in Maps /\ LevelInit(target)
    BY <1>4 DEF NewLevel, InGame, IInv, TypeOK
  <2>2. cmds = <<>>
    BY <1>4, <2>1 DEF NewLevel, Returns, Plays
  <2> QED BY <2>1, <2>2, LevelInitQuiet
<1>5. CASE Boot
  BY <1>5, LevelInitQuiet, NamesAssumption DEF Boot
<1>6. CASE Crash
  BY <1>0, <1>6 DEF Crash, Running
<1>7. CASE \/ RunGame \/ NextFrame \/ ChatOver \/ GoToIntermission(FALSE)
           \/ UNCHANGED vars
  <2>1. /\ UNCHANGED <<file, list, index, stale, moved, nextlevel, done, cmds,
                       target, map, booted, recovery>>
    BY <1>7 DEF RunGame, NextFrame, ChatOver, GoToIntermission, vars, cycleVars,
                overVars, frameVars, procVars
  <2>2. /\ Recovering' = Recovering /\ Asked' = Asked /\ InFile' = InFile
        /\ Running' = Running
    BY <2>1 DEF Recovering, Asked, Previous, InFile, Running
  <2>3. Plays => Plays'
    BY <2>1, <2>2 DEF Plays
  <2>4. Running /\ Recovering /\ Returns => Returns'
    <3> SUFFICES ASSUME Running, Recovering, Returns PROVE Returns'
      OBVIOUS
    <3>1. recovery # NoMap
      BY DEF Recovering
    <3>2. gameOver' => chat'
      <4>1. ~ ChatOver
        <5>1. cmds = <<recovery>> => cmds # <<>>
          OBVIOUS
        <5> QED BY <3>1, <5>1 DEF ChatOver, Returns
      <4>2. CASE GoToIntermission(FALSE)
        BY <4>2 DEF GoToIntermission
      <4>3. CASE RunGame \/ NextFrame \/ UNCHANGED vars
        BY <4>3 DEF RunGame, NextFrame, vars, overVars, Returns
      <4> QED BY <1>7, <4>1, <4>2, <4>3
    <3>3. cmds = <<recovery>> => cmds # <<>>
      OBVIOUS
    <3>4. cmds = <<recovery>> /\ executing => executing'
      BY <1>7, <3>3 DEF RunGame, NextFrame, ChatOver, GoToIntermission, InGame,
                        vars, frameVars
    <3> QED BY <2>1, <3>2, <3>4 DEF Returns
  <2> QED BY <1>0, <2>1, <2>2, <2>3, <2>4
<1> QED BY <1>1, <1>2, <1>3, <1>4, <1>5, <1>6, <1>7 DEF QuietNext, EngineStep, RulesStep

LEMMA QuietInvCorrect == QuietSpec => []QuietInv
<1> QED BY QuietInit, QuietStep, PTL DEF QuietSpec

\* However often the server dies on its way back, no other map is recorded
\* until it has been there: the safety half of Recovers.
THEOREM RecordIsKeptCorrect == QuietSpec => RecordIsKept
<1>1. ASSUME QuietInv, QuietNext, recovery' # recovery
      PROVE  recovery \in {NoMap, map}
  <2>1. PICK m \in Maps : LevelInit(m) /\ ((NewLevel /\ m = target) \/ ~ Running)
    BY <1>1, NamesAssumption
       DEF QuietNext, EngineStep, RulesStep, ThinkGameOver, ChatOver, Crash,
           GoToIntermission, ExecGotoNext, ExecChangelevel, RunGame, NextFrame,
           NewLevel, Boot, procVars, InGame, QuietInv, IInv, TypeOK
  <2>2. booted /\ recovery' = m
    BY <1>1, <2>1 DEF LevelInit, MapRecovery
  <2>3. NewLevel /\ m = target
    BY <2>1, <2>2, <1>1 DEF QuietInv
  <2> QED BY <1>1, <2>2, <2>3 DEF NewLevel, InGame, QuietInv, Returns, Recovering
<1>2. QuietInv /\ [QuietNext]_vars
        => [recovery' # recovery => recovery \in {NoMap, map}]_vars
  BY <1>1
<1> QED BY <1>2, QuietInvCorrect, PTL DEF QuietSpec, RecordIsKept

\* Left to itself the server plays its cycle in the order of the file and skips
\* no entry, also when the same map is in it more than once: what is safety in
\* EveryEntryPlayed.
THEOREM EntriesInOrderCorrect == QuietSpec => EntriesInOrder
<1>1. ASSUME QuietInv, NewLevel, ~ Recovering, InFile # <<>>
      PROVE  Entry' = Increment(InFile, Entry) /\ map' = InFile[Entry' + 1]
  <2> DEFINE l == InFile
             e == Previous(l, index)
  <2>1. /\ Running /\ target # NoMap /\ target \in Maps /\ LevelInit(target)
        /\ l \in Seq(Names) /\ list = l /\ index \in Nat
    BY <1>1, InFileType DEF NewLevel, InGame, QuietInv, IInv, TypeOK
  <2>2. moved /\ target = l[e + 1]
    BY <1>1, <2>1 DEF QuietInv, Plays, Asked
  <2>3. index < Len(l)
    BY <1>1, <2>1 DEF QuietInv, IInv, AtIndex
  <2>4. /\ map' = target /\ ~ moved' /\ l' = l
        /\ index' = IndexFor(l, index, target)
    BY <2>1 DEF LevelInit, InFile
  <2>5. index' = index
    BY <2>2, <2>3, <2>4 DEF IndexFor
  <2>6. /\ e \in 0..(Len(l) - 1) /\ e \in Nat /\ e < Len(l)
    BY <2>1, <2>3, PreviousType
  <2>7. Increment(l, Previous(l, e)) = e
    BY <2>1, <2>6, PreviousType
  <2>8. Entry' = e
    BY <2>4, <2>5 DEF Entry, Previous
  <2>9. Entry = Previous(l, e)
    BY <2>2 DEF Entry
  <2> HIDE DEF l, e
  <2> QED BY <2>2, <2>4, <2>7, <2>8, <2>9 DEF l
<1>2. QuietInv => [NewLevel /\ ~ Recovering /\ InFile # <<>> =>
                      /\ Entry' = Increment(InFile, Entry)
                      /\ map' = InFile[Entry' + 1]]_vars
  BY <1>1
<1> QED BY <1>2, QuietInvCorrect, PTL DEF EntriesInOrder
=============================================================================
