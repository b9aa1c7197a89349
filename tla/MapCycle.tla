------------------------------ MODULE MapCycle ------------------------------
(***************************************************************************)
(* The map cycle: the list of maps read from mapcyclefile, the static      *)
(* index of the map to play next, nextlevel, and the command buffer in     *)
(* which votes, operators, exits and the rules ask for changes of level.   *)
(* With it maprecovery.txt, which brings a server that died back to the    *)
(* map it was playing.                                                     *)
(*                                                                         *)
(* The index is counted from 0, as in the code.  A frame first executes    *)
(* the command buffer, then runs the game, and ends with the change of     *)
(* level the commands asked for.                                           *)
(***************************************************************************)
EXTENDS Integers, Sequences, FiniteSets

CONSTANTS
    Maps,       \* maps whose .bsp is on the server
    Missing,    \* names in the cycle, or in nextlevel, that have none
    Cycles,     \* what the file may hold: sequences of names
    StartMap,   \* the map the process is started with
    NoMap,      \* an empty name
    NoFile,     \* the file does not exist
    GotoNext,   \* changelevel_next; other commands are changelevel <name>
    MaxCmds,    \* bound on the commands in the buffer
    MaxList,    \* bound on the length the list grows to without a file
    MaxCrashes  \* bound on the crashes

Names == Maps \cup Missing

ASSUME NamesAssumption == /\ StartMap \in Maps
                          /\ NoMap \notin Names /\ GotoNext \notin Names
                          /\ NoFile \notin Cycles
                          /\ Cycles \subseteq Seq(Names)
ASSUME BoundsAssumption == /\ MaxCmds \in Nat /\ MaxList \in Nat /\ MaxCrashes \in Nat

VARIABLES
    file,       \* the contents of mapcyclefile, or NoFile
    stale,      \* its time is not m_nMapCycleTimeStamp
    list, index,    \* m_MapList, m_nMapCycleindex
    nextlevel,
    map,        \* gpGlobals->mapname, or NoMap while the process is down
    gameOver,   \* g_fGameOver
    chat,       \* m_flIntermissionEndTime is not reached
    done,       \* m_bChangelevelDone
    cmds,       \* the command buffer
    executing,  \* the frame is still at the command buffer
    target,     \* the map of the last changelevel it executed
    booted,     \* C_MapRecovery::m_initialised
    recovery,   \* the map maprecovery.txt names, or NoMap
    moved,      \* history: the index was moved since the list was loaded
    crashes     \* history: how often the process died

cycleVars == <<list, index, stale, moved>>
overVars  == <<gameOver, chat, done>>
frameVars == <<cmds, executing, target>>
procVars  == <<map, booted, recovery, crashes>>
vars == <<file, cycleVars, nextlevel, overVars, frameVars, procVars>>

Running == map # NoMap
InGame == Running /\ ~ executing
-----------------------------------------------------------------------------
(* The list and its index.                                                 *)

BadIncrement(l, i) == IF i + 1 > Len(l) THEN 0 ELSE i + 1   \* off by one
Increment(l, i) == IF i + 1 >= Len(l) THEN 0 ELSE i + 1

Previous(l, i) == IF i = 0 THEN Len(l) - 1 ELSE i - 1
Occurs(l, m) == {i \in 0..(Len(l) - 1) : l[i + 1] = m}
FirstIn(l, m) == CHOOSE i \in Occurs(l, m) : \A j \in Occurs(l, m) : i <= j

\* LoadMapCycleFile: the old index is kept when the current map comes before
\* it in the new list, else it is the one after the map's first occurrence.
BadIndexFor(l, old, m) ==                                 \* the index is not kept
    IF m \in {l[i] : i \in 1..Len(l)} THEN Increment(l, FirstIn(l, m)) ELSE 0
Bad2IndexFor(l, old, m) ==                                \* not the one after it
    IF old < Len(l) /\ l[Previous(l, old) + 1] = m THEN old
    ELSE IF Occurs(l, m) # {} THEN FirstIn(l, m) ELSE 0
IndexFor(l, old, m) ==
    IF old < Len(l) /\ l[Previous(l, old) + 1] = m THEN old
    ELSE IF Occurs(l, m) # {} THEN Increment(l, FirstIn(l, m)) ELSE 0

InFile == IF file = NoFile THEN <<>> ELSE file

\* GetNextLevelName, before it reads the name: without a file the current map
\* is put at the end, and a file that has changed is loaded again.
Reloads == file # NoFile /\ stale
ListNow == LET l == IF file = NoFile THEN Append(list, map)
                    ELSE IF stale THEN file ELSE list
           IN  IF l = <<>> THEN <<map>> ELSE l
IndexNow == IF Reloads THEN IndexFor(file, index, map) ELSE index
NextName == ListNow[IndexNow + 1]

GetNextLevelName ==
    /\ Len(ListNow) <= MaxList
    /\ list' = ListNow
    /\ stale' = (stale /\ ~ Reloads)

\* ChangeLevel: to nextlevel when it is set, else to the next map of the list.
\* ChangeLevelToMap ends the game and gives the engine the command.
Changelevel == IF nextlevel # NoMap THEN nextlevel ELSE NextName

ChangeLevel ==
    /\ IF nextlevel # NoMap
       THEN UNCHANGED cycleVars
       ELSE /\ GetNextLevelName
            /\ index' = Increment(ListNow, IndexNow)
            /\ moved' = TRUE
    /\ gameOver' = TRUE
-----------------------------------------------------------------------------
(* Chat, operator and files.                                               *)

\* A player says "nextmap".
BadNextmap ==                                             \* as if it were played
    /\ InGame /\ nextlevel = NoMap
    /\ GetNextLevelName
    /\ index' = Increment(ListNow, IndexNow)
    /\ UNCHANGED <<file, moved, nextlevel, overVars, frameVars, procVars>>
Nextmap ==
    /\ InGame /\ nextlevel = NoMap
    /\ GetNextLevelName
    /\ index' = IndexNow
    /\ moved' = (moved /\ ~ Reloads)
    /\ UNCHANGED <<file, nextlevel, overVars, frameVars, procVars>>

\* skip_next_map asks for the name before and after it moves the index.
SkipNextMapInCycle ==
    /\ InGame
    /\ stale' = (stale /\ ~ Reloads)
    /\ index' = Increment(ListNow, IndexNow)
    /\ list' = IF file = NoFile THEN Append(ListNow, map) ELSE ListNow
    /\ Len(list') <= MaxList
    /\ moved' = TRUE
    /\ UNCHANGED <<file, nextlevel, overVars, frameVars, procVars>>

SetNextlevel(m) ==
    /\ InGame
    /\ nextlevel' = m
    /\ UNCHANGED <<file, cycleVars, overVars, frameVars, procVars>>

EditFile(f) ==
    /\ file' = f
    /\ stale' = TRUE
    /\ UNCHANGED <<list, index, moved, nextlevel, overVars, frameVars, procVars>>

RemoveFile ==
    /\ file' = NoFile
    /\ UNCHANGED <<cycleVars, nextlevel, overVars, frameVars, procVars>>

\* A vote or an operator puts changelevel_next in the buffer; an exit, or an
\* operator, a changelevel.
AskChange(c) ==
    /\ InGame
    /\ Len(cmds) < MaxCmds
    /\ cmds' = Append(cmds, c)
    /\ UNCHANGED <<file, cycleVars, nextlevel, overVars, executing, target, procVars>>
-----------------------------------------------------------------------------
(* CHL2MPRules::Think, at the end of a level.                              *)

GoToIntermission(full) ==
    /\ InGame /\ ~ gameOver
    /\ gameOver' = TRUE
    /\ chat' = TRUE
    /\ full => Len(cmds) < MaxCmds
    /\ cmds' = IF full THEN Append(cmds, GotoNext) ELSE cmds
    /\ UNCHANGED <<file, cycleVars, nextlevel, done, executing, target, procVars>>

\* The intermission lasts longer than the engine needs for its buffer.
ChatOver ==
    /\ InGame /\ chat
    /\ cmds = <<>> /\ target = NoMap
    /\ chat' = FALSE
    /\ UNCHANGED <<file, cycleVars, nextlevel, gameOver, done, frameVars, procVars>>

ThinkGameOver ==
    /\ InGame /\ gameOver /\ ~ chat /\ ~ done
    /\ Len(cmds) < MaxCmds
    /\ ChangeLevel
    /\ cmds' = Append(cmds, Changelevel)
    /\ done' = TRUE
    /\ UNCHANGED <<file, nextlevel, chat, executing, target, procVars>>
-----------------------------------------------------------------------------
(* The engine.                                                             *)

\* A command that is added while the buffer is executed comes next.
ExecGotoNext ==
    /\ executing /\ cmds # <<>> /\ Head(cmds) = GotoNext
    /\ ChangeLevel
    /\ cmds' = <<Changelevel>> \o Tail(cmds)
    /\ UNCHANGED <<file, nextlevel, chat, done, executing, target, procVars>>

\* A changelevel to a map that is not there fails.
BadExecChangelevel ==                                     \* it is not looked for
    /\ executing /\ cmds # <<>> /\ Head(cmds) \in Names
    /\ target' = Head(cmds)
    /\ cmds' = Tail(cmds)
    /\ UNCHANGED <<file, cycleVars, nextlevel, overVars, executing, procVars>>
ExecChangelevel ==
    /\ executing /\ cmds # <<>> /\ Head(cmds) \in Names
    /\ target' = IF Head(cmds) \in Maps THEN Head(cmds) ELSE target
    /\ cmds' = Tail(cmds)
    /\ UNCHANGED <<file, cycleVars, nextlevel, overVars, executing, procVars>>

RunGame ==
    /\ executing /\ cmds = <<>>
    /\ executing' = FALSE
    /\ UNCHANGED <<file, cycleVars, nextlevel, overVars, cmds, target, procVars>>

NextFrame ==
    /\ InGame /\ target = NoMap
    /\ executing' = TRUE
    /\ UNCHANGED <<file, cycleVars, nextlevel, overVars, cmds, target, procVars>>

\* C_ConCommandHelper::LevelInitPreEntity: the first level of the process is
\* not recorded; if the file names another map, the server goes there.
BadMapRecovery(m) ==                                      \* always recorded
    /\ recovery' = m
    /\ cmds' = IF ~ booted /\ recovery \notin {m, NoMap} THEN Append(cmds, recovery) ELSE cmds
MapRecovery(m) ==
    IF booted THEN recovery' = m /\ cmds' = cmds
    ELSE /\ recovery' = recovery
         /\ cmds' = IF recovery \in {m, NoMap} THEN cmds ELSE Append(cmds, recovery)

\* A level starts: the rules are made anew and load the cycle.
LevelInit(m) ==
    /\ map' = m
    /\ executing' = TRUE /\ target' = NoMap
    /\ list' = InFile
    /\ index' = IndexFor(InFile, index, m)
    /\ stale' = FALSE
    /\ moved' = FALSE
    /\ nextlevel' = NoMap
    /\ gameOver' = FALSE /\ chat' = FALSE /\ done' = FALSE
    /\ MapRecovery(m)
    /\ booted' = TRUE
    /\ UNCHANGED <<file, crashes>>

NewLevel == InGame /\ target # NoMap /\ LevelInit(target)
Boot == ~ Running /\ LevelInit(StartMap)

Crash ==
    /\ Running /\ crashes < MaxCrashes
    /\ crashes' = crashes + 1
    /\ map' = NoMap /\ booted' = FALSE
    /\ list' = <<>> /\ index' = 0 /\ stale' = FALSE /\ moved' = FALSE
    /\ nextlevel' = NoMap
    /\ gameOver' = FALSE /\ chat' = FALSE /\ done' = FALSE
    /\ cmds' = <<>> /\ executing' = FALSE /\ target' = NoMap
    /\ UNCHANGED <<file, recovery>>
-----------------------------------------------------------------------------
Init ==
    /\ file \in Cycles \cup {NoFile}
    /\ stale = FALSE /\ list = <<>> /\ index = 0 /\ moved = FALSE
    /\ nextlevel = NoMap /\ map = NoMap
    /\ gameOver = FALSE /\ chat = FALSE /\ done = FALSE
    /\ cmds = <<>> /\ executing = FALSE /\ target = NoMap
    /\ booted = FALSE /\ recovery = NoMap /\ crashes = 0

EngineStep == ExecGotoNext \/ ExecChangelevel \/ RunGame \/ NextFrame
              \/ NewLevel \/ Boot
RulesStep == ChatOver \/ ThinkGameOver

OthersStep == \/ Nextmap \/ SkipNextMapInCycle
              \/ \E m \in Names \cup {NoMap} : SetNextlevel(m)
              \/ \E f \in Cycles : EditFile(f)
              \/ RemoveFile
              \/ \E c \in Names \cup {GotoNext} : AskChange(c)

Next == \/ EngineStep \/ RulesStep \/ OthersStep \/ Crash
        \/ \E full \in BOOLEAN : GoToIntermission(full)

Spec == Init /\ [][Next]_vars

\* The server left to itself: levels end by the time limit or the frag limit.
QuietNext == EngineStep \/ RulesStep \/ Crash \/ GoToIntermission(FALSE)

\* The engine runs its frames; the rules think in every one of them, and so
\* notice that time is over.
Fairness == /\ WF_vars(EngineStep)
            /\ SF_vars(GoToIntermission(FALSE))
            /\ SF_vars(ChatOver) /\ SF_vars(ThinkGameOver)

QuietSpec == Init /\ [][QuietNext]_vars /\ Fairness
-----------------------------------------------------------------------------
\* Every variable holds a value of its type.
TypeOK ==
    /\ file \in Cycles \cup {NoFile} /\ stale \in BOOLEAN /\ moved \in BOOLEAN
    /\ list \in Seq(Names) /\ index \in Nat
    /\ nextlevel \in Names \cup {NoMap} /\ map \in Maps \cup {NoMap}
    /\ gameOver \in BOOLEAN /\ chat \in BOOLEAN /\ done \in BOOLEAN
    /\ cmds \in Seq(Names \cup {GotoNext}) /\ target \in Maps \cup {NoMap}
    /\ executing \in BOOLEAN
    /\ booted \in BOOLEAN /\ recovery \in Maps \cup {NoMap}
    /\ crashes \in 0..MaxCrashes

\* Whatever happens to the file and the list, the name that is read next is in
\* the list.
IndexInList == Running => IndexNow < Len(ListNow)

\* As long as nobody moves it on, the index names a map that comes after the
\* current one, if the cycle has the current one at all.
FollowsCurrent ==
    Running /\ ~ moved /\ Occurs(list, map) # {} =>
        list[Previous(list, index) + 1] = map

\* Asking for the next map does not change it.
NextmapIsStable == [][Nextmap => NextName' = NextName]_vars

\* The server left to itself plays every entry of its cycle, again and again,
\* also when a map is in the cycle more than once.
EveryEntryPlayed ==
    \A i \in 0..(MaxList - 1) :
        []<>(i < Len(InFile)
                 => Running /\ Previous(InFile, index) = i /\ map = InFile[i + 1])

\* A server that dies comes back to the map it was recorded to play, and until
\* it does, however often it dies again, no other map is recorded.
Recovers ==
    /\ \A m \in Maps : (~ Running /\ recovery = m) ~> map = m
    /\ [][recovery' # recovery => recovery \in {NoMap, map}]_vars
=============================================================================
