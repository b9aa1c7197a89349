----------------------- MODULE LevelTransition_proofs -----------------------
(***************************************************************************)
(* What TLAPS proves of LevelTransition, for every set of players and maps *)
(* and every bound.                                                        *)
(***************************************************************************)
EXTENDS LevelTransition, TLAPS

AllExits == Maps \cup Missing

\* The variables of the engine and of the pending transition.
ControlOK ==
    /\ phase \in {"play", "leaving", "shut", "down"}
    /\ map \in Maps /\ refs \in Maps /\ loadType \in {"NewGame", "Transition"}
    /\ nextMap \in Maps \cup {NoMap} /\ oldMap \in Maps \cup {NoMap}
    /\ cmds \in Seq(Maps) /\ target \in Maps \cup {NoMap}
    /\ visited \subseteq Maps /\ respotted \in BOOLEAN
    /\ phase \in {"leaving", "shut"} => target # NoMap

LEMMA ControlInit == Init => ControlOK
<1> SUFFICES ASSUME Init PROVE ControlOK
    OBVIOUS
<1>1. cmds \in Seq(Maps)
    BY DEF Init
<1> QED
    BY <1>1, MapsAssumption DEF Init, ControlOK

LEMMA ControlStep == ControlOK /\ [Next]_vars => ControlOK'
<1> SUFFICES ASSUME ControlOK, [Next]_vars PROVE ControlOK'
    OBVIOUS
<1> USE MapsAssumption DEF ControlOK
<1>1. CASE PlayerStep
    BY <1>1 DEF PlayerStep, ClientPutInServer, Spawn, Killed, Score, BuyCompanion,
                ClientDisconnect, levelVars
<1>2. CASE ExitStep
    BY <1>2 DEF ExitStep, TouchChangeLevel, TimerThink, InputChangeLevel, ChangeLevelNow,
                FireExit, SetPending, levelVars
<1>3. CASE ExecChangelevel
    BY <1>3 DEF ExecChangelevel, levelVars
<1>4. CASE BeginChange
    BY <1>4 DEF BeginChange
<1>5. CASE LevelShutdown
    BY <1>5 DEF LevelShutdown
<1>6. CASE LevelInit
    <2>1. target \in Maps
        BY <1>6 DEF LevelInit, LevelInitTransition, LevelInitNewGame
    <2>2. CASE LevelInitTransition
        BY <1>6, <2>1, <2>2 DEF LevelInit, LevelInitTransition, TakePending
    <2>3. CASE LevelInitNewGame
        BY <1>6, <2>1, <2>3 DEF LevelInit, LevelInitNewGame
    <2> QED
        BY <1>6, <2>2, <2>3 DEF LevelInit
<1>7. CASE EnableSpawnPoint
    BY <1>7 DEF EnableSpawnPoint
<1>8. CASE CleanupDeleteList \/ RestartGame
    BY <1>8 DEF CleanupDeleteList, RestartGame, levelVars
<1>9. CASE \E m \in Maps : OrdinaryChange(m)
    BY <1>9 DEF OrdinaryChange, levelVars
<1>10. CASE Crash
    BY <1>10 DEF Crash
<1>11. CASE Boot
    BY <1>11 DEF Boot
<1>12. CASE UNCHANGED vars
    BY <1>12 DEF vars, levelVars
<1> QED
    BY <1>1, <1>2, <1>3, <1>4, <1>5, <1>6, <1>7, <1>8, <1>9, <1>10, <1>11, <1>12
       DEF Next, EngineStep

THEOREM ControlCorrect == Spec => []ControlOK
<1> QED
    BY ControlInit, ControlStep, PTL DEF Spec
-----------------------------------------------------------------------------
(* The pending transition.                                                 *)

\* A transition that is pending starts in the level that runs, and the change
\* of level it asked for is on its way.
PendingInv == PendingFromHere /\ PendingIsMoving

LEMMA PendingInit == Init => PendingInv
BY DEF Init, PendingInv, PendingFromHere, PendingIsMoving

LEMMA PendingStep == ControlOK /\ PendingInv /\ [Next]_vars => PendingInv'
<1> SUFFICES ASSUME ControlOK, PendingInv, [Next]_vars PROVE PendingInv'
    OBVIOUS
<1> USE MapsAssumption DEF PendingInv, PendingFromHere, PendingIsMoving
<1>1. CASE PlayerStep
    BY <1>1 DEF PlayerStep, ClientPutInServer, Spawn, Killed, Score, BuyCompanion,
                ClientDisconnect, levelVars
<1>2. CASE ExitStep
    <2>1. ASSUME NEW e \in AllExits, FireExit(e), map' = map, target' = target
          PROVE  PendingInv'
        BY <2>1 DEF FireExit, SetPending, ControlOK, AllExits
    <2>2. CASE \E e \in AllExits : TouchChangeLevel(e)
        BY <2>2 DEF TouchChangeLevel, levelVars
    <2>3. CASE \E e \in AllExits : TimerThink(e) \/ InputChangeLevel(e)
        BY <2>1, <2>3 DEF TimerThink, InputChangeLevel, ChangeLevelNow, levelVars
    <2> QED
        BY <1>2, <2>2, <2>3 DEF ExitStep, AllExits
<1>3. CASE ExecChangelevel
    BY <1>3 DEF ExecChangelevel, levelVars, ControlOK
<1>4. CASE BeginChange \/ LevelShutdown \/ EnableSpawnPoint \/ Boot
    BY <1>4 DEF BeginChange, LevelShutdown, EnableSpawnPoint, Boot, ControlOK
<1>5. CASE LevelInit
    BY <1>5 DEF LevelInit, LevelInitTransition, LevelInitNewGame, TakePending
<1>6. CASE CleanupDeleteList \/ RestartGame
    BY <1>6 DEF CleanupDeleteList, RestartGame, levelVars
<1>7. CASE \E m \in Maps : OrdinaryChange(m)
    BY <1>7 DEF OrdinaryChange, levelVars, ControlOK
<1>8. CASE Crash
    BY <1>8 DEF Crash
<1>9. CASE UNCHANGED vars
    BY <1>9 DEF vars, levelVars
<1> QED
    BY <1>1, <1>2, <1>3, <1>4, <1>5, <1>6, <1>7, <1>8, <1>9 DEF Next, EngineStep

\* A pending transition starts in the level that runs: the .HL1 written when
\* the level shuts down is that of the level the exit was in.
THEOREM PendingFromHereCorrect == Spec => []PendingFromHere
<1>1. PendingInv => PendingFromHere
    BY DEF PendingInv
<1> QED
    BY <1>1, PendingInit, PendingStep, ControlCorrect, PTL DEF Spec

\* A pending transition always has a changelevel queued or executed, so
\* st_szNextMap cannot outlive the change it stands for.
THEOREM PendingIsMovingCorrect == Spec => []PendingIsMoving
<1>1. PendingInv => PendingIsMoving
    BY DEF PendingInv
<1> QED
    BY <1>1, PendingInit, PendingStep, ControlCorrect, PTL DEF Spec
-----------------------------------------------------------------------------
(* The saved levels.                                                       *)

\* SavedLevelsVisited is not inductive: the level that is shutting down must be
\* one of the campaign for its file to be, and between a shutdown and a
\* transition the files must still be of this campaign.
SavedLevelsInv ==
    /\ DOMAIN world = Maps
    /\ phase \in {"play", "leaving"} => map \in visited
    /\ phase \in {"play", "leaving"} \/ (phase = "shut" /\ oldMap # NoMap) =>
          \A m \in Maps : world[m] # NoFile => m \in visited
    /\ phase = "down" => oldMap = NoMap

LEMMA SavedLevelsInit == Init => SavedLevelsInv
BY DEF Init, SavedLevelsInv

LEMMA SavedLevelsStep == ControlOK /\ SavedLevelsInv /\ [Next]_vars => SavedLevelsInv'
<1> SUFFICES ASSUME ControlOK, SavedLevelsInv, [Next]_vars PROVE SavedLevelsInv'
    OBVIOUS
<1> USE MapsAssumption DEF SavedLevelsInv
<1>1. CASE PlayerStep
    BY <1>1 DEF PlayerStep, ClientPutInServer, Spawn, Killed, Score, BuyCompanion,
                ClientDisconnect, levelVars
<1>2. CASE ExitStep
    BY <1>2 DEF ExitStep, TouchChangeLevel, TimerThink, InputChangeLevel, levelVars
<1>3. CASE ExecChangelevel \/ CleanupDeleteList \/ RestartGame
    BY <1>3 DEF ExecChangelevel, CleanupDeleteList, RestartGame, levelVars
<1>4. CASE BeginChange \/ EnableSpawnPoint \/ Boot
    BY <1>4 DEF BeginChange, EnableSpawnPoint, Boot
<1>5. CASE LevelShutdown
    BY <1>5 DEF LevelShutdown, SaveGameState
<1>6. CASE LevelInit
    <2>1. CASE LevelInitTransition
        BY <1>6, <2>1 DEF LevelInit, LevelInitTransition, IsTransition, TakePending
    <2>2. CASE LevelInitNewGame
        BY <1>6, <2>2 DEF LevelInit, LevelInitNewGame, ResetSaveData
    <2> QED
        BY <1>6, <2>1, <2>2 DEF LevelInit
<1>7. CASE \E m \in Maps : OrdinaryChange(m)
    BY <1>7 DEF OrdinaryChange, levelVars
<1>8. CASE Crash
    BY <1>8 DEF Crash
<1>9. CASE UNCHANGED vars
    BY <1>9 DEF vars, levelVars
<1> QED
    BY <1>1, <1>2, <1>3, <1>4, <1>5, <1>6, <1>7, <1>8, <1>9 DEF Next, EngineStep

\* While a level runs, every saved level on disk belongs to this campaign.
THEOREM SavedLevelsVisitedCorrect == Spec => []SavedLevelsVisited
<1>1. SavedLevelsInv => SavedLevelsVisited
    BY DEF SavedLevelsInv, SavedLevelsVisited
<1> QED
    BY <1>1, SavedLevelsInit, SavedLevelsStep, ControlCorrect, PTL DEF Spec
-----------------------------------------------------------------------------
(* The exits of the level and of the saved levels.                         *)

\* Only exits that exist are armed, count or have fired, in the level and in
\* every saved one: a restart may have brought back only some of them.
ExitsInv ==
    /\ exits \subseteq AllExits
    /\ armed \subseteq exits /\ thinking \subseteq exits /\ touched \subseteq exits
    /\ DOMAIN world = Maps
    /\ \A m \in Maps : world[m] # NoFile =>
          /\ world[m].exits \subseteq AllExits
          /\ world[m].armed \subseteq world[m].exits
          /\ world[m].thinking \subseteq world[m].exits

LEMMA ExitsInit == Init => ExitsInv
BY DEF Init, ExitsInv

LEMMA ExitsStep == ControlOK /\ ExitsInv /\ [Next]_vars => ExitsInv'
<1> SUFFICES ASSUME ControlOK, ExitsInv, [Next]_vars PROVE ExitsInv'
    OBVIOUS
<1> USE DEF ExitsInv
<1>1. CASE PlayerStep
    BY <1>1 DEF PlayerStep, ClientPutInServer, Spawn, Killed, Score, BuyCompanion,
                ClientDisconnect, levelVars, exitVars
<1>2. CASE ExitStep
    <2>1. ASSUME NEW e \in AllExits, TouchChangeLevel(e) PROVE ExitsInv'
        BY <2>1 DEF TouchChangeLevel, levelVars
    <2>2. ASSUME NEW e \in AllExits, TimerThink(e) \/ InputChangeLevel(e) PROVE ExitsInv'
        BY <2>2 DEF TimerThink, InputChangeLevel, ChangeLevelNow, FireExit, levelVars
    <2> QED
        BY <1>2, <2>1, <2>2 DEF ExitStep, AllExits
<1>3. CASE ExecChangelevel \/ CleanupDeleteList \/ BeginChange \/ EnableSpawnPoint \/ Boot
    BY <1>3 DEF ExecChangelevel, CleanupDeleteList, BeginChange, EnableSpawnPoint, Boot,
                levelVars, exitVars
<1>4. CASE (\E m \in Maps : OrdinaryChange(m)) \/ UNCHANGED vars
    BY <1>4 DEF OrdinaryChange, vars, levelVars, exitVars
<1>5. CASE RestartGame
    BY <1>5, ExitsAssumption DEF RestartGame, FreshlyArmed, ControlOK, AllExits, levelVars
<1>6. CASE LevelShutdown
    <2>1. \A m \in Maps : world'[m] = world[m] \/ world'[m] = SavedLevel
        BY <1>6 DEF LevelShutdown, SaveGameState
    <2>2. SavedLevel.exits = exits /\ SavedLevel.armed = armed /\ SavedLevel.thinking = thinking
        BY DEF SavedLevel
    <2>3. DOMAIN world' = Maps
        BY <1>6 DEF LevelShutdown, SaveGameState
    <2> QED
        BY <1>6, <2>1, <2>2, <2>3 DEF LevelShutdown
<1>7. CASE LevelInit
    <2>1. target \in Maps
        BY <1>7 DEF LevelInit, LevelInitTransition, LevelInitNewGame, ControlOK
    <2>2. CASE LevelInitTransition
        BY <2>1, <2>2, ExitsAssumption
           DEF LevelInitTransition, LoadLevel, FreshlyArmed, AllExits
    <2>3. CASE LevelInitNewGame
        BY <2>1, <2>3, ExitsAssumption
           DEF LevelInitNewGame, ResetSaveData, FreshlyArmed, AllExits
    <2> QED
        BY <1>7, <2>2, <2>3 DEF LevelInit
<1>8. CASE Crash
    BY <1>8 DEF Crash
<1> QED
    BY <1>1, <1>2, <1>3, <1>4, <1>5, <1>6, <1>7, <1>8 DEF Next, EngineStep
-----------------------------------------------------------------------------
(* The players and their files.                                            *)

States == {"out", "joining", "alive", "dead"}
FileOrNone == ClientFile \cup {NoFile}

\* The types of what a player has, here and on disk.
PlayersOK ==
    /\ st \in [Players -> States]
    /\ frags \in [Players -> 0..MaxFrags]
    /\ npc \in [Players -> 0..MaxNpc] /\ doomed \in [Players -> 0..MaxNpc]
    /\ bought \in [Players -> 0..MaxNpc]
    /\ file \in [Players -> FileOrNone]
    /\ owed \in [Players -> [map : Maps, frags : 0..MaxFrags] \cup {NoFile}]
    /\ world \in [Maps -> LevelFile \cup {NoFile}]

\* Nobody is in a level that is shut down; a player who is out has no
\* companions in it, and one who was never spawned has no frags.
OutInv == /\ phase \in {"shut", "down"} => InLevel = {}
          /\ \A p \in Players : /\ st[p] = "out" => npc[p] = 0
                                /\ st[p] = "joining" => frags[p] = 0

\* Companions never exceed what was bought, which is why npc keeps its bound;
\* that a spawned player has no file is why a respawn adds none.
PlayersInv == PlayersOK /\ OutInv /\ ConsumedOnSpawn /\ NpcConservation

LEMMA OutNotSpawned == \A p \in Players : st[p] = "out" => p \notin Spawned
BY DEF Spawned

\* Marking changes nothing of a file but its flags.
LEMMA MarkFilesFacts ==
    ASSUME PlayersOK, NEW b \in BOOLEAN
    PROVE  /\ MarkFiles(b) \in [Players -> FileOrNone]
           /\ \A p \in Players :
                 /\ MarkFiles(b)[p] = NoFile <=> file[p] = NoFile
                 /\ file[p] # NoFile =>
                       /\ MarkFiles(b)[p].npc = file[p].npc
                       /\ MarkFiles(b)[p].map = file[p].map
                       /\ MarkFiles(b)[p].client = file[p].client
                       /\ MarkFiles(b)[p].frags = file[p].frags
<1>1. ASSUME NEW p \in Players, file[p] # NoFile
      PROVE  /\ [file[p] EXCEPT !.noRestore = b] \in ClientFile
             /\ file[p] \in ClientFile
    BY <1>1 DEF PlayersOK, FileOrNone, ClientFile
<1> QED
    BY <1>1, NoFileAssumption DEF MarkFiles, PlayersOK, FileOrNone, ClientFile

\* What SaveClientState writes is a client file that holds the companions.
LEMMA SaveClientStateFacts ==
    ASSUME ControlOK, PlayersOK, NEW p \in Players
    PROVE  /\ SavedState(p) \in ClientFile
           /\ SavedState(p) # NoFile
           /\ SavedState(p).npc = npc[p]
           /\ SaveClientState(p) \in [Players -> FileOrNone]
           /\ \A q \in Players \ {p} : SaveClientState(p)[q] = file[q]
           /\ SaveClientState(p)[p] =
                 IF st[p] # "dead" \/ npc[p] > 0 THEN SavedState(p) ELSE file[p]
<1>1. SavedState(p) \in ClientFile
    BY MapsAssumption, BoundsAssumption
       DEF SavedState, SavedMap, ClientFile, ControlOK, PlayersOK, States
<1>2. SavedState(p) # NoFile
    BY <1>1, NoFileAssumption
<1>3. SavedState(p).npc = npc[p]
    BY DEF SavedState
<1> QED
    BY <1>1, <1>2, <1>3 DEF SaveClientState, PlayersOK, FileOrNone

\* A spawn gives back at most what the file holds.
LEMMA RestoreFacts ==
    ASSUME PlayersOK, NEW p \in Players
    PROVE  /\ RestoredFrags(p) \in 0..MaxFrags
           /\ RestoredNpcs(p) \in 0..MaxNpc
           /\ RestoredNpcs(p) <= FiledNpcs(p)
           /\ FiledNpcs(p) \in 0..MaxNpc
<1>1. file[p] # NoFile => file[p] \in ClientFile
    BY DEF PlayersOK, FileOrNone
<1> QED
    BY <1>1, BoundsAssumption
       DEF RestoredFrags, RestoredNpcs, Restores, FiledNpcs, ClientFile, PlayersOK

LEMMA PlayersInit == Init => PlayersInv
<1> SUFFICES ASSUME Init PROVE PlayersInv
    OBVIOUS
<1> USE BoundsAssumption DEF Init, Nobody
<1>1. PlayersOK
    BY DEF PlayersOK, States, FileOrNone
<1>2. OutInv
    BY DEF OutInv, InLevel
<1>3. ConsumedOnSpawn
    BY DEF ConsumedOnSpawn, Spawned
<1>4. NpcConservation
    BY DEF NpcConservation, FiledNpcs, LeftNpcs
<1> QED
    BY <1>1, <1>2, <1>3, <1>4 DEF PlayersInv

\* The steps of one player, one conjunct of the invariant at a time.
LEMMA PlayerStepFacts ==
    ASSUME ControlOK, PlayersInv, NEW p \in Players,
           \/ ClientPutInServer(p) \/ Spawn(p) \/ Killed(p) \/ Score(p)
           \/ BuyCompanion(p) \/ ClientDisconnect(p)
    PROVE  PlayersInv'
<1> USE BoundsAssumption DEF PlayersInv
<1>1. CASE ClientPutInServer(p)
    <2> USE <1>1 DEF ClientPutInServer
    <2>1. PlayersOK'
        BY DEF PlayersOK, States, levelVars
    <2>2. OutInv'
        BY DEF OutInv, PlayersOK, States, levelVars, InLevel
    <2>3. ConsumedOnSpawn'
        BY DEF ConsumedOnSpawn, Spawned, PlayersOK, States
    <2>4. NpcConservation'
        BY DEF NpcConservation, FiledNpcs, LeftNpcs, levelVars
    <2> QED BY <2>1, <2>2, <2>3, <2>4
<1>2. CASE Spawn(p)
    <2> USE <1>2 DEF Spawn
    <2>1. /\ RestoredFrags(p) \in 0..MaxFrags
          /\ RestoredNpcs(p) \in 0..MaxNpc
          /\ RestoredNpcs(p) <= FiledNpcs(p)
          /\ FiledNpcs(p) \in 0..MaxNpc
        BY RestoreFacts
    <2>2. \A m \in Maps : LeftNpcs(m, p) \in Nat
        BY DEF LeftNpcs, PlayersOK, LevelFile
    <2>3. StartMap \in Maps
        BY MapsAssumption
    <2>4. npc[p] + RestoredNpcs(p) <= bought[p]
        BY <2>1, <2>2, <2>3 DEF NpcConservation, PlayersOK
    <2>5. FilesAfterSpawn({p}) \in [Players -> FileOrNone]
        BY DEF FilesAfterSpawn, PlayersOK, FileOrNone
    <2>6. PlayersOK'
        <3>1. npc[p] + RestoredNpcs(p) \in 0..MaxNpc
            BY <2>1, <2>4 DEF PlayersOK
        <3>2. npc' \in [Players -> 0..MaxNpc] /\ frags' \in [Players -> 0..MaxFrags]
            BY <2>1, <3>1 DEF PlayersOK
        <3>3. /\ st' \in [Players -> States]
              /\ owed' \in [Players -> [map : Maps, frags : 0..MaxFrags] \cup {NoFile}]
            BY DEF PlayersOK, States
        <3> QED BY <2>5, <3>2, <3>3 DEF PlayersOK, levelVars
    <2>7. OutInv'
        BY DEF OutInv, PlayersOK, States, levelVars, InLevel
    <2>8. ConsumedOnSpawn'
        BY DEF ConsumedOnSpawn, Spawned, PlayersOK, States, FilesAfterSpawn
    <2>9. ASSUME NEW q \in Players, NEW m \in Maps
          PROVE  (npc[q] + FiledNpcs(q) + LeftNpcs(m, q) <= bought[q])'
        <3>1. CASE q = p
            <4>1. FiledNpcs(p)' = 0
                BY DEF FiledNpcs, FilesAfterSpawn
            <4>2. npc'[p] = npc[p] + RestoredNpcs(p)
                BY DEF PlayersOK
            <4>3. LeftNpcs(m, p)' = LeftNpcs(m, p)
                BY DEF LeftNpcs, levelVars
            <4> QED
                BY <3>1, <4>1, <4>2, <4>3, <2>1, <2>2 DEF NpcConservation, PlayersOK
        <3>2. CASE q # p
            BY <3>2 DEF NpcConservation, FiledNpcs, LeftNpcs, FilesAfterSpawn, levelVars,
                        PlayersOK
        <3> QED BY <3>1, <3>2
    <2> QED BY <2>6, <2>7, <2>8, <2>9 DEF NpcConservation
<1>3. CASE Killed(p) \/ Score(p)
    <2> USE <1>3 DEF Killed, Score
    <2>1. PlayersOK'
        BY DEF PlayersOK, States, levelVars
    <2>2. OutInv'
        BY DEF OutInv, PlayersOK, States, levelVars, InLevel
    <2>3. ConsumedOnSpawn'
        BY DEF ConsumedOnSpawn, Spawned, PlayersOK, States
    <2>4. NpcConservation'
        BY DEF NpcConservation, FiledNpcs, LeftNpcs, levelVars
    <2> QED BY <2>1, <2>2, <2>3, <2>4
<1>4. CASE BuyCompanion(p)
    <2> USE <1>4 DEF BuyCompanion
    <2>1. \A m \in Maps : LeftNpcs(m, p) \in Nat
        BY DEF LeftNpcs, PlayersOK, LevelFile
    <2>2. FiledNpcs(p) \in 0..MaxNpc
        BY RestoreFacts
    <2>3. npc[p] <= bought[p]
        BY <2>1, <2>2, MapsAssumption DEF NpcConservation, PlayersOK
    <2>4. PlayersOK'
        BY <2>3 DEF PlayersOK, levelVars
    <2>5. OutInv'
        BY DEF OutInv, PlayersOK, States, levelVars, InLevel
    <2>6. ConsumedOnSpawn'
        BY DEF ConsumedOnSpawn, Spawned
    <2>7. NpcConservation'
        BY <2>1, <2>2 DEF NpcConservation, FiledNpcs, LeftNpcs, levelVars, PlayersOK
    <2> QED BY <2>4, <2>5, <2>6, <2>7
<1>5. CASE ClientDisconnect(p)
    <2> USE <1>5 DEF ClientDisconnect
    <2>1. /\ SavedState(p) # NoFile
          /\ SavedState(p).npc = npc[p]
          /\ SaveClientState(p) \in [Players -> FileOrNone]
          /\ \A q \in Players \ {p} : SaveClientState(p)[q] = file[q]
          /\ SaveClientState(p)[p] =
                IF st[p] # "dead" \/ npc[p] > 0 THEN SavedState(p) ELSE file[p]
        BY SaveClientStateFacts
    <2>2. DebtTo(p) \in [map : Maps, frags : 0..MaxFrags] \cup {NoFile}
        BY MapsAssumption DEF DebtTo, PlayersOK, ControlOK
    <2>3. PlayersOK'
        <3>1. /\ npc' \in [Players -> 0..MaxNpc] /\ frags' \in [Players -> 0..MaxFrags]
              /\ doomed' \in [Players -> 0..MaxNpc]
            BY DEF PlayersOK
        <3>2. st' \in [Players -> States]
            BY DEF PlayersOK, States
        <3>3. owed' \in [Players -> [map : Maps, frags : 0..MaxFrags] \cup {NoFile}]
            BY <2>2 DEF PlayersOK
        <3> QED BY <2>1, <3>1, <3>2, <3>3 DEF PlayersOK, levelVars
    <2>4. OutInv'
        BY DEF OutInv, PlayersOK, States, levelVars, InLevel
    <2>5. ConsumedOnSpawn'
        BY <2>1 DEF ConsumedOnSpawn, Spawned, PlayersOK, States
    <2>6. ASSUME NEW q \in Players, NEW m \in Maps
          PROVE  (npc[q] + FiledNpcs(q) + LeftNpcs(m, q) <= bought[q])'
        <3>1. FiledNpcs(q) \in 0..MaxNpc /\ LeftNpcs(m, q) \in Nat
            BY RestoreFacts DEF LeftNpcs, PlayersOK, LevelFile
        <3>2. LeftNpcs(m, q)' = LeftNpcs(m, q)
            BY DEF LeftNpcs, levelVars
        <3>3. CASE q = p
            <4>1. FiledNpcs(p)' <= npc[p] \/ FiledNpcs(p)' = FiledNpcs(p)
                BY <2>1 DEF FiledNpcs, PlayersOK
            <4>2. npc'[p] = 0
                BY DEF PlayersOK
            <4>3. FiledNpcs(p)' \in Int
                BY <2>1, <3>1, <3>3 DEF FiledNpcs, PlayersOK
            <4> QED
                BY <3>1, <3>2, <3>3, <4>1, <4>2, <4>3 DEF NpcConservation, PlayersOK
        <3>4. CASE q # p
            BY <2>1, <3>2, <3>4 DEF NpcConservation, FiledNpcs, PlayersOK
        <3> QED BY <3>3, <3>4
    <2> QED BY <2>3, <2>4, <2>5, <2>6 DEF NpcConservation
<1> QED
    BY <1>1, <1>2, <1>3, <1>4, <1>5

LEMMA PlayersStep == ControlOK /\ ExitsInv /\ PlayersInv /\ [Next]_vars => PlayersInv'
<1> SUFFICES ASSUME ControlOK, ExitsInv, PlayersInv, [Next]_vars PROVE PlayersInv'
    OBVIOUS
<1> USE BoundsAssumption DEF PlayersInv
<1>1. CASE PlayerStep
    BY <1>1, PlayerStepFacts DEF PlayerStep
<1>2. ASSUME UNCHANGED playerVars, UNCHANGED world,
             phase' = phase \/ (phase = "play" /\ phase' = "leaving")
                            \/ (phase = "down" /\ phase' = "shut")
                            \/ (phase = "shut" /\ phase' = "play")
      PROVE  PlayersInv'
    BY <1>2 DEF playerVars, PlayersOK, OutInv, InLevel, ConsumedOnSpawn, Spawned,
                NpcConservation, FiledNpcs, LeftNpcs
<1>3. CASE ExitStep
    BY <1>2, <1>3 DEF ExitStep, TouchChangeLevel, TimerThink, InputChangeLevel, levelVars
<1>4. CASE ExecChangelevel \/ (\E m \in Maps : OrdinaryChange(m)) \/ UNCHANGED vars
    BY <1>2, <1>4 DEF ExecChangelevel, OrdinaryChange, vars, levelVars
<1>5. CASE BeginChange \/ Boot
    BY <1>2, <1>5 DEF BeginChange, Boot
<1>6. CASE EnableSpawnPoint
    <2> USE <1>6 DEF EnableSpawnPoint
    <2>1. PlayersOK'
        BY MarkFilesFacts DEF PlayersOK
    <2>2. OutInv' /\ ConsumedOnSpawn'
        BY MarkFilesFacts DEF OutInv, InLevel, ConsumedOnSpawn, Spawned
    <2>3. NpcConservation'
        BY MarkFilesFacts DEF NpcConservation, FiledNpcs, LeftNpcs
    <2> QED BY <2>1, <2>2, <2>3
<1>7. CASE CleanupDeleteList
    BY <1>7 DEF CleanupDeleteList, Nobody, levelVars, PlayersOK, OutInv, InLevel,
                ConsumedOnSpawn, Spawned, NpcConservation, FiledNpcs, LeftNpcs
<1>8. CASE RestartGame
    <2>1. PICK late \in SUBSET {p \in Players : st[p] = "dead"} :
             /\ st' = [p \in Players |-> IF p \in InLevel \ late THEN "alive" ELSE st[p]]
             /\ npc' = [p \in Players |-> IF p \in InLevel \ late THEN RestoredNpcs(p) ELSE 0]
             /\ file' = FilesAfterSpawn(InLevel \ late)
             /\ owed' = [p \in Players |-> IF p \in InLevel \ late THEN NoFile ELSE owed[p]]
        BY <1>8 DEF RestartGame
    <2>2. \A p \in Players : /\ RestoredNpcs(p) \in 0..MaxNpc
                             /\ RestoredNpcs(p) <= FiledNpcs(p)
                             /\ FiledNpcs(p) \in 0..MaxNpc
        BY RestoreFacts
    <2>3. PlayersOK'
        BY <1>8, <2>1, <2>2
           DEF RestartGame, PlayersOK, FilesAfterSpawn, FileOrNone, States, Nobody, levelVars
    <2>4. OutInv'
        BY <1>8, <2>1 DEF RestartGame, OutInv, PlayersOK, InLevel, States, Nobody, levelVars
    <2>5. ConsumedOnSpawn'
        BY <2>1 DEF ConsumedOnSpawn, Spawned, FilesAfterSpawn, InLevel, PlayersOK, States
    <2>6. ASSUME NEW p \in Players, NEW m \in Maps
          PROVE  (npc[p] + FiledNpcs(p) + LeftNpcs(m, p) <= bought[p])'
        <3>1. LeftNpcs(m, p) \in Nat /\ LeftNpcs(m, p)' = LeftNpcs(m, p)
            BY <1>8 DEF RestartGame, LeftNpcs, PlayersOK, LevelFile, levelVars
        <3>2. npc'[p] + FiledNpcs(p)' <= npc[p] + FiledNpcs(p)
            BY <2>1, <2>2 DEF FiledNpcs, FilesAfterSpawn, PlayersOK
        <3>3. /\ npc'[p] \in Int /\ FiledNpcs(p)' \in Int
              /\ npc[p] \in Int /\ FiledNpcs(p) \in Int /\ bought[p] \in Int
            BY <2>1, <2>2 DEF FiledNpcs, FilesAfterSpawn, PlayersOK
        <3> QED BY <1>8, <3>1, <3>2, <3>3 DEF NpcConservation, RestartGame
    <2> QED BY <2>3, <2>4, <2>5, <2>6 DEF NpcConservation
<1>9. CASE LevelShutdown
    <2> USE <1>9 DEF LevelShutdown
    <2>1. \A p \in Players : npc[p] = 0 /\ p \notin Spawned
        <3>1. \A p \in Players : st[p] = "out"
            BY DEF InLevel
        <3>2. \A p \in Players : npc[p] = 0
            BY <3>1 DEF OutInv
        <3> QED BY <3>1, <3>2, OutNotSpawned
    <2>2. SavedLevel \in LevelFile
        BY DEF SavedLevel, LevelFile, PlayersOK, ExitsInv, AllExits
    <2>3. PlayersOK'
        <3>1. world' \in [Maps -> LevelFile \cup {NoFile}]
            BY <2>2 DEF SaveGameState, PlayersOK
        <3>2. file' \in [Players -> FileOrNone]
            BY MarkFilesFacts DEF SaveGameState, PlayersOK
        <3> QED
            BY <3>1, <3>2 DEF PlayersOK, Nobody
    <2>4. OutInv' /\ ConsumedOnSpawn'
        BY <2>1, MarkFilesFacts
           DEF SaveGameState, OutInv, InLevel, ConsumedOnSpawn, Spawned
    <2>5. ASSUME NEW p \in Players, NEW m \in Maps
          PROVE  (npc[p] + FiledNpcs(p) + LeftNpcs(m, p) <= bought[p])'
        <3>1. FiledNpcs(p)' = FiledNpcs(p) /\ FiledNpcs(p) \in 0..MaxNpc
            BY MarkFilesFacts, RestoreFacts DEF SaveGameState, FiledNpcs
        <3>2. LeftNpcs(m, p) \in Nat
            BY DEF LeftNpcs, PlayersOK, LevelFile
        <3>3. LeftNpcs(m, p)' = LeftNpcs(m, p) \/ LeftNpcs(m, p)' = 0
            <4>1. world'[m] = world[m] \/ (world'[m] = SavedLevel /\ SavedLevel.npc[p] = 0)
                BY <2>1 DEF SaveGameState, SavedLevel, PlayersOK
            <4> QED
                BY <4>1 DEF LeftNpcs
        <3> QED
            BY <3>1, <3>2, <3>3 DEF NpcConservation, PlayersOK
    <2> QED BY <2>3, <2>4, <2>5 DEF NpcConservation
<1>10. CASE LevelInit
    <2>1. CASE LevelInitTransition
        BY <1>2, <1>10, <2>1 DEF LevelInit, LevelInitTransition, playerVars
    <2>2. CASE LevelInitNewGame
        <3>1. \A p \in Players : st[p] = "out"
            BY <2>2 DEF LevelInitNewGame, OutInv, InLevel
        <3>2. \A p \in Players : npc[p] = 0
            BY <3>1 DEF OutInv
        <3>3. \A p \in Players : p \notin Spawned
            BY <3>1, OutNotSpawned
        <3> QED
            BY <1>10, <2>2, <3>1, <3>2, <3>3
               DEF LevelInit, LevelInitNewGame, ResetSaveData, Nobody, PlayersOK, FileOrNone,
                   OutInv, InLevel, ConsumedOnSpawn, Spawned, NpcConservation, FiledNpcs,
                   LeftNpcs
    <2> QED BY <1>10, <2>1, <2>2 DEF LevelInit
<1>11. CASE Crash
    <2> USE <1>11 DEF Crash, Nobody
    <2>1. PlayersOK'
        BY DEF PlayersOK, States
    <2>2. OutInv' /\ ConsumedOnSpawn'
        BY DEF OutInv, InLevel, ConsumedOnSpawn, Spawned
    <2>3. ASSUME NEW p \in Players, NEW m \in Maps
          PROVE  (npc[p] + FiledNpcs(p) + LeftNpcs(m, p) <= bought[p])'
        <3>1. FiledNpcs(p) \in 0..MaxNpc /\ LeftNpcs(m, p) \in Nat
            BY RestoreFacts DEF LeftNpcs, PlayersOK, LevelFile
        <3>2. FiledNpcs(p)' = FiledNpcs(p) /\ LeftNpcs(m, p)' = LeftNpcs(m, p)
            BY DEF FiledNpcs, LeftNpcs
        <3> QED BY <3>1, <3>2 DEF NpcConservation, PlayersOK
    <2> QED BY <2>1, <2>2, <2>3 DEF NpcConservation
<1> QED
    BY <1>1, <1>3, <1>4, <1>5, <1>6, <1>7, <1>8, <1>9, <1>10, <1>11 DEF Next, EngineStep

\* Every variable keeps its type, for every number of players, maps and bounds.
THEOREM TypeCorrect == Spec => []TypeOK
<1>1. ControlOK /\ ExitsInv /\ PlayersInv => TypeOK
    BY DEF ControlOK, ExitsInv, PlayersInv, PlayersOK, TypeOK, AllExits, States, FileOrNone
<1> QED
    BY <1>1, ControlCorrect, ExitsInit, ExitsStep, PlayersInit, PlayersStep, PTL DEF Spec

\* A spawned player has no saved file: RestoreClientState removes what it
\* reads, whoever triggers the spawn.
THEOREM ConsumedOnSpawnCorrect == Spec => []ConsumedOnSpawn
<1>1. PlayersInv => ConsumedOnSpawn
    BY DEF PlayersInv
<1> QED
    BY <1>1, ControlCorrect, ExitsInit, ExitsStep, PlayersInit, PlayersStep, PTL DEF Spec

\* No companion exists twice, in the level, in a player's file and in a saved
\* level: CleanupDeleteList runs before the level is written.
THEOREM NpcConservationCorrect == Spec => []NpcConservation
<1>1. PlayersInv => NpcConservation
    BY DEF PlayersInv
<1> QED
    BY <1>1, ControlCorrect, ExitsInit, ExitsStep, PlayersInit, PlayersStep, PTL DEF Spec
-----------------------------------------------------------------------------
(* What a player is owed.                                                  *)

\* File f pays debt d.
Pays(f, d) == /\ f # NoFile
              /\ f.client
              /\ f.map = d.map
              /\ f.frags = d.frags

\* A debt is settled by a spawn, so no spawned player has one.
OwedInv == \A p \in Players :
              owed[p] # NoFile => p \notin Spawned /\ Pays(file[p], owed[p])

LEMMA OwedInit == Init => OwedInv
BY DEF Init, OwedInv

LEMMA OwedStep == ControlOK /\ PlayersInv /\ OwedInv /\ [Next]_vars => OwedInv'
<1> SUFFICES ASSUME ControlOK, PlayersInv, OwedInv, [Next]_vars PROVE OwedInv'
    OBVIOUS
<1> USE DEF OwedInv
<1>1. CASE PlayerStep
    <2> SUFFICES ASSUME NEW p \in Players,
                        \/ ClientPutInServer(p) \/ Spawn(p) \/ Killed(p) \/ Score(p)
                        \/ BuyCompanion(p) \/ ClientDisconnect(p)
                 PROVE  OwedInv'
        BY <1>1 DEF PlayerStep
    <2>1. CASE ClientPutInServer(p) \/ Killed(p) \/ Score(p) \/ BuyCompanion(p)
        BY <2>1 DEF ClientPutInServer, Killed, Score, BuyCompanion, Spawned, PlayersInv,
                    PlayersOK
    <2>2. CASE Spawn(p)
        BY <2>2 DEF Spawn, Spawned, FilesAfterSpawn, PlayersInv, PlayersOK
    <2>3. CASE ClientDisconnect(p)
        <3>1. ASSUME NEW q \in Players, q # p, owed'[q] # NoFile
              PROVE  q \notin Spawned' /\ Pays(file'[q], owed'[q])
            <4>1. owed'[q] = owed[q] /\ st'[q] = st[q]
                BY <2>3, <3>1 DEF ClientDisconnect, PlayersInv, PlayersOK
            <4>2. file'[q] = file[q]
                BY <2>3, <3>1, SaveClientStateFacts DEF ClientDisconnect, PlayersInv
            <4> QED BY <3>1, <4>1, <4>2 DEF Spawned
        <3>2. ASSUME owed'[p] # NoFile
              PROVE  p \notin Spawned' /\ Pays(file'[p], owed'[p])
            <4>1. owed'[p] = DebtTo(p) /\ DebtTo(p) # NoFile
                BY <2>3, <3>2 DEF ClientDisconnect, PlayersInv, PlayersOK
            <4>2. st[p] = "alive" /\ DebtTo(p) = [map |-> SavedMap, frags |-> frags[p]]
                BY <4>1, MapsAssumption DEF DebtTo, SavedMap, ControlOK
            <4>3. file'[p] = SavedState(p) /\ SavedState(p) # NoFile
                BY <2>3, <4>2, SaveClientStateFacts DEF ClientDisconnect, PlayersInv
            <4>4. p \notin Spawned'
                BY <2>3 DEF ClientDisconnect, Spawned, PlayersInv, PlayersOK
            <4>5. /\ SavedState(p).client /\ SavedState(p).map = SavedMap
                  /\ SavedState(p).frags = frags[p]
                BY <4>2 DEF SavedState
            <4>6. DebtTo(p).map = SavedMap /\ DebtTo(p).frags = frags[p]
                BY <4>2
            <4> QED
                BY <4>1, <4>3, <4>4, <4>5, <4>6 DEF Pays
        <3> QED BY <3>1, <3>2
    <2> QED BY <2>1, <2>2, <2>3
<1>2. CASE ExitStep \/ UNCHANGED vars
    BY <1>2 DEF ExitStep, TouchChangeLevel, TimerThink, InputChangeLevel, playerVars, vars,
                Spawned
<1>3. CASE ExecChangelevel \/ BeginChange \/ Boot \/ \E m \in Maps : OrdinaryChange(m)
    BY <1>3 DEF ExecChangelevel, BeginChange, Boot, OrdinaryChange, playerVars, Spawned
<1>4. CASE CleanupDeleteList
    BY <1>4 DEF CleanupDeleteList, Spawned
<1>5. CASE EnableSpawnPoint
    BY <1>5, MarkFilesFacts DEF EnableSpawnPoint, Spawned, Pays, PlayersInv
<1>6. CASE RestartGame
    BY <1>6 DEF RestartGame, FilesAfterSpawn, Spawned, InLevel, PlayersInv, PlayersOK, States
<1>7. CASE LevelShutdown
    <2>1. UNCHANGED <<st, owed>> /\ file' \in {file, MarkFiles(TRUE)}
        BY <1>7 DEF LevelShutdown, SaveGameState
    <2>2. ASSUME NEW p \in Players, owed'[p] # NoFile
          PROVE  p \notin Spawned' /\ Pays(file'[p], owed'[p])
        <3>1. owed[p] # NoFile /\ p \notin Spawned /\ Pays(file[p], owed[p])
            BY <2>1, <2>2
        <3>2. p \notin Spawned'
            BY <2>1, <3>1 DEF Spawned
        <3>3. Pays(MarkFiles(TRUE)[p], owed[p])
            BY <3>1, MarkFilesFacts DEF PlayersInv, Pays
        <3> QED BY <2>1, <3>1, <3>2, <3>3
    <2> QED BY <2>2
<1>8. CASE LevelInit
    BY <1>8 DEF LevelInit, LevelInitTransition, LevelInitNewGame, Spawned
<1>9. CASE Crash
    BY <1>9 DEF Crash, Spawned
<1> QED
    BY <1>1, <1>2, <1>3, <1>4, <1>5, <1>6, <1>7, <1>8, <1>9 DEF Next, EngineStep

\* What a living player had when the campaign moved on is what his file holds,
\* under the name of the map he will arrive on, until he is spawned there.
THEOREM OwedIsSavedCorrect == Spec => []OwedIsSaved
<1>1. OwedInv => OwedIsSaved
    BY DEF OwedInv, OwedIsSaved, Pays
<1> QED
    BY <1>1, ControlCorrect, ExitsInit, ExitsStep, PlayersInit, PlayersStep,
       OwedInit, OwedStep, PTL DEF Spec
-----------------------------------------------------------------------------
(* The saved files implement Carryover.                                    *)

\* In every step each player's progress is kept, lost, or earned in his hands.
LEMMA WorthStep ==
    ASSUME ControlOK, PlayersInv, [Next]_vars, NEW q \in Players
    PROVE  \/ Worth(q)' = Worth(q)
           \/ Worth(q)' = 0
           \/ q \in Spawned /\ q \in Spawned' /\ Worth(q)' = Worth(q) + 1
<1> USE DEF Worth, Spawned
<1>1. CASE PlayerStep
    <2> SUFFICES ASSUME NEW p \in Players,
                        \/ ClientPutInServer(p) \/ Spawn(p) \/ Killed(p) \/ Score(p)
                        \/ BuyCompanion(p) \/ ClientDisconnect(p)
                 PROVE  \/ Worth(q)' = Worth(q)
                        \/ Worth(q)' = 0
                        \/ q \in Spawned /\ q \in Spawned' /\ Worth(q)' = Worth(q) + 1
        BY <1>1 DEF PlayerStep
    <2>1. CASE ClientPutInServer(p) \/ Killed(p) \/ Score(p) \/ BuyCompanion(p)
        BY <2>1 DEF ClientPutInServer, Killed, Score, BuyCompanion, PlayersInv, PlayersOK
    <2>2. CASE Spawn(p)
        <3>1. CASE q # p
            BY <2>2, <3>1 DEF Spawn, FilesAfterSpawn, PlayersInv, PlayersOK
        <3>2. CASE q = p /\ st[p] = "dead"
            BY <2>2, <3>2 DEF Spawn, RestoredFrags, Restores, PlayersInv, PlayersOK,
                              ConsumedOnSpawn
        <3>3. CASE q = p /\ st[p] = "joining"
            BY <2>2, <3>3
               DEF OutInv, Spawn, RestoredFrags, Restores, PlayersInv, PlayersOK
        <3> QED BY <2>2, <3>1, <3>2, <3>3 DEF Spawn
    <2>3. CASE ClientDisconnect(p)
        <3>1. CASE q # p
            BY <2>3, <3>1, SaveClientStateFacts DEF ClientDisconnect, PlayersInv, PlayersOK
        <3>2. CASE q = p
            <4>1. /\ SavedState(p).client = (st[p] # "dead")
                  /\ SavedState(p).frags = IF st[p] = "dead" THEN 0 ELSE frags[p]
                BY DEF SavedState
            <4>2. p \notin Spawned'
                BY <2>3 DEF ClientDisconnect, PlayersInv, PlayersOK
            <4>3. st[p] = "joining" => frags[p] = 0
                BY DEF PlayersInv, OutInv
            <4>4. file'[p] = IF st[p] # "dead" \/ npc[p] > 0 THEN SavedState(p) ELSE file[p]
                BY <2>3, SaveClientStateFacts DEF ClientDisconnect, PlayersInv
            <4>5. st[p] = "dead" => file[p] = NoFile
                BY DEF PlayersInv, ConsumedOnSpawn
            <4>6. st[p] \in {"joining", "alive", "dead"}
                BY <2>3 DEF ClientDisconnect, PlayersInv, PlayersOK, States
            <4> QED
                BY <3>2, <4>1, <4>2, <4>3, <4>4, <4>5, <4>6
        <3> QED BY <3>1, <3>2
    <2> QED BY <2>1, <2>2, <2>3
<1>2. CASE ExitStep \/ UNCHANGED vars
    BY <1>2 DEF ExitStep, TouchChangeLevel, TimerThink, InputChangeLevel, playerVars, vars
<1>3. CASE ExecChangelevel \/ BeginChange \/ Boot \/ \E m \in Maps : OrdinaryChange(m)
    BY <1>3 DEF ExecChangelevel, BeginChange, Boot, OrdinaryChange, playerVars
<1>4. CASE CleanupDeleteList
    BY <1>4 DEF CleanupDeleteList
<1>5. CASE EnableSpawnPoint
    BY <1>5, MarkFilesFacts DEF EnableSpawnPoint, PlayersInv
<1>6. CASE RestartGame
    <2>1. frags'[q] = 0
        BY <1>6 DEF RestartGame, Nobody
    <2>2. file'[q] = file[q] \/ file'[q] = NoFile
        BY <1>6 DEF RestartGame, FilesAfterSpawn
    <2>3. q \in Spawned => file[q] = NoFile
        BY DEF PlayersInv, ConsumedOnSpawn
    <2> QED BY <2>1, <2>2, <2>3
<1>7. CASE LevelShutdown
    BY <1>7, MarkFilesFacts DEF LevelShutdown, SaveGameState, PlayersInv
<1>8. CASE LevelInit
    BY <1>8 DEF LevelInit, LevelInitTransition, LevelInitNewGame, ResetSaveData, PlayersInv,
                OutInv, InLevel
<1>9. CASE Crash
    BY <1>9 DEF Crash, PlayersInv, ConsumedOnSpawn, Nobody
<1> QED
    BY <1>1, <1>2, <1>3, <1>4, <1>5, <1>6, <1>7, <1>8, <1>9 DEF Next, EngineStep

\* A player's progress is his own and in one place: no order of saving,
\* restoring, restarting and changing level duplicates or adds to it.
THEOREM CarriesOverCorrect == Spec => CarriesOver
<1>1. Init => Progress!Init
    BY DEF Init, Progress!Init, Where, Worth, Spawned, Nobody
<1>2. ControlOK /\ PlayersInv /\ PlayersInv' /\ [Next]_vars => [Progress!Next]_Progress!vars
    <2> SUFFICES ASSUME ControlOK, PlayersInv, PlayersInv', [Next]_vars
                 PROVE  Progress!Next
        BY DEF Progress!Next
    <2>1. \A p \in Players : Where(p)' \in {"none", "hand", "bank"}
        BY DEF Where, PlayersInv, ConsumedOnSpawn
    <2>2. \A p \in Players : /\ Where(p) = "hand" <=> p \in Spawned
                             /\ Where(p)' = "hand" <=> p \in Spawned'
                             /\ Where(p)' = "none" => Worth(p)' = 0
        BY DEF Where, Worth, PlayersInv, ConsumedOnSpawn
    <2>3. \A p \in Players : Progress!Earn(p) \/ Progress!Carry(p) \/ Progress!Lose(p)
        BY <2>1, <2>2, WorthStep DEF Progress!Earn, Progress!Carry, Progress!Lose
    <2> QED
        BY <2>1, <2>3 DEF Progress!Next
<1> QED
    BY <1>1, <1>2, ControlCorrect, ExitsInit, ExitsStep, PlayersInit, PlayersStep, PTL
       DEF Spec, CarriesOver, Progress!Spec
-----------------------------------------------------------------------------
(* Companions stay behind.                                                 *)

\* A file that would carry them: written in another level than it is for, and
\* not marked.
Carrying(p) == /\ file[p] # NoFile
               /\ file[p].client /\ file[p].from # file[p].map
               /\ ~ file[p].noRestore

\* NpcsStayBehind is not inductive: in the level an exit leaves there are files
\* that are not marked yet.  They were written in it, and while it is shut to be
\* left through the exit every file is marked; when it is shut to start a new
\* campaign, or the process dies, nothing is left for a transition to take.
StayInv ==
    /\ phase \in {"play", "leaving"} /\ ~ respotted =>
          \A p \in Players : Carrying(p) => file[p].from = map
    /\ phase = "shut" /\ oldMap # NoMap => \A p \in Players : ~ Carrying(p)
    /\ phase = "down" => oldMap = NoMap

LEMMA StayInit == Init => StayInv
BY DEF Init, StayInv, Carrying

\* Marked files carry nothing, and what a player writes was written here.
LEMMA MarkedCarryNothing ==
    ASSUME PlayersOK, file' = MarkFiles(TRUE), NEW p \in Players
    PROVE  ~ Carrying(p)'
<1>1. file[p] # NoFile => file[p] \in ClientFile
    BY DEF PlayersOK, FileOrNone
<1>2. CASE file[p] # NoFile /\ file[p].client
    <2>1. file'[p] = [file[p] EXCEPT !.noRestore = TRUE]
        BY <1>2 DEF MarkFiles
    <2>2. file'[p].noRestore
        BY <1>1, <1>2, <2>1 DEF ClientFile
    <2> QED
        BY <2>2 DEF Carrying
<1>3. CASE ~ (file[p] # NoFile /\ file[p].client)
    <2>1. file'[p] = file[p]
        BY <1>3 DEF MarkFiles
    <2> QED
        BY <1>3, <2>1 DEF Carrying
<1> QED
    BY <1>2, <1>3

LEMMA StayStep == ControlOK /\ PlayersInv /\ StayInv /\ [Next]_vars => StayInv'
<1> SUFFICES ASSUME ControlOK, PlayersInv, StayInv, [Next]_vars PROVE StayInv'
    OBVIOUS
<1>a. PlayersOK
    BY DEF PlayersInv
<1> DEFINE Same == UNCHANGED <<phase, map, oldMap, respotted>>
<1>b. ASSUME Same, \A p \in Players : Carrying(p)' =>
                       \/ Carrying(p) /\ file'[p] = file[p]
                       \/ phase \in {"play", "leaving"} /\ file'[p].from = map
      PROVE  StayInv'
    BY <1>b DEF StayInv
<1>c. ASSUME Same, \A p \in Players : file'[p] = file[p] \/ file'[p] = NoFile
      PROVE  StayInv'
    BY <1>b, <1>c DEF Carrying
<1>1. CASE PlayerStep
    <2>1. ASSUME NEW p \in Players,
                 ClientPutInServer(p) \/ Killed(p) \/ Score(p) \/ BuyCompanion(p)
          PROVE  StayInv'
        BY <1>c, <2>1 DEF ClientPutInServer, Killed, Score, BuyCompanion, levelVars
    <2>2. ASSUME NEW p \in Players, Spawn(p) PROVE StayInv'
        BY <1>c, <2>2 DEF Spawn, FilesAfterSpawn, levelVars
    <2>3. ASSUME NEW p \in Players, ClientDisconnect(p) PROVE StayInv'
        <3>1. \A q \in Players : file'[q] = file[q] \/ (q = p /\ file'[q] = SavedState(p))
            BY <1>a, <2>3, SaveClientStateFacts DEF ClientDisconnect
        <3>2. SavedState(p).from = map
            BY DEF SavedState
        <3>3. Same /\ phase \in {"play", "leaving"}
            BY <2>3 DEF ClientDisconnect, levelVars
        <3> QED
            BY <1>b, <3>1, <3>2, <3>3 DEF Carrying
    <2> QED
        BY <1>1, <2>1, <2>2, <2>3 DEF PlayerStep
<1>2. CASE ExitStep
    <2>1. phase = "play" /\ UNCHANGED <<phase, map, respotted, file>>
        BY <1>2 DEF ExitStep, TouchChangeLevel, TimerThink, InputChangeLevel, levelVars, playerVars
    <2> QED
        BY <2>1 DEF StayInv, Carrying
<1>3. CASE ExecChangelevel \/ CleanupDeleteList \/ (\E m \in Maps : OrdinaryChange(m))
    BY <1>3, <1>c DEF ExecChangelevel, CleanupDeleteList, OrdinaryChange, levelVars, playerVars
<1>4. CASE BeginChange
    BY <1>4 DEF BeginChange, StayInv, Carrying, playerVars
<1>5. CASE EnableSpawnPoint
    BY <1>5 DEF EnableSpawnPoint, StayInv
<1>6. CASE RestartGame
    <2>1. \A p \in Players : file'[p] = file[p] \/ file'[p] = NoFile
        BY <1>6 DEF RestartGame, FilesAfterSpawn
    <2> QED
        BY <1>6, <1>c, <2>1 DEF RestartGame, levelVars
<1>7. CASE LevelShutdown
    <2>1. CASE oldMap # NoMap
        <3>1. file' = MarkFiles(TRUE) /\ phase' = "shut"
            BY <1>7, <2>1 DEF LevelShutdown, SaveGameState
        <3>2. \A p \in Players : ~ Carrying(p)'
            BY <1>a, <3>1, MarkedCarryNothing
        <3> QED
            BY <3>1, <3>2 DEF StayInv
    <2>2. CASE oldMap = NoMap
        BY <1>7, <2>2 DEF LevelShutdown, StayInv
    <2> QED
        BY <2>1, <2>2
<1>8. CASE LevelInit
    <2>1. phase = "shut" /\ phase' = "play"
        BY <1>8 DEF LevelInit, LevelInitTransition, LevelInitNewGame
    <2>2. CASE LevelInitTransition
        BY <2>1, <2>2 DEF LevelInitTransition, IsTransition, StayInv, Carrying
    <2>3. CASE LevelInitNewGame
        BY <2>1, <2>3 DEF LevelInitNewGame, ResetSaveData, StayInv, Carrying
    <2> QED
        BY <1>8, <2>2, <2>3 DEF LevelInit
<1>9. CASE Crash \/ Boot
    BY <1>9 DEF Crash, Boot, StayInv
<1>10. CASE UNCHANGED vars
    BY <1>10, <1>c DEF vars, levelVars, playerVars
<1> QED
    BY <1>1, <1>2, <1>3, <1>4, <1>5, <1>6, <1>7, <1>8, <1>9, <1>10 DEF Next, EngineStep

\* Until a spawn point is enabled, companions do not follow a living player
\* through an exit: SaveGameState marks every file before the level it leads to
\* is loaded.
THEOREM NpcsStayBehindCorrect == Spec => []NpcsStayBehind
<1>1. StayInv => NpcsStayBehind
    BY DEF StayInv, NpcsStayBehind, Carrying
<1> QED
    BY <1>1, StayInit, StayStep, ControlCorrect, ExitsInit, ExitsStep,
       PlayersInit, PlayersStep, PTL DEF Spec
-----------------------------------------------------------------------------
(* Why a pending transition ends.                                          *)

\* How far the change of level is that it waits for: none has been executed,
\* one has, the clients are leaving, the level is shut down.
Stage == IF phase = "shut" THEN 3 ELSE IF phase = "leaving" THEN 2
         ELSE IF target # NoMap THEN 1 ELSE 0

\* What the engine does next, at each stage.
MovesOn == \/ Stage = 0 /\ ExecChangelevel
           \/ Stage = 1 /\ BeginChange
           \/ Stage = 2 /\ LevelShutdown
           \/ Stage = 3 /\ LevelInit

\* A pending transition never goes back to an earlier stage, whatever players
\* and exits do meanwhile, nobody comes into a level that is being left, and
\* what the engine does next ends it or takes it to the next stage.
PendingMovesOn ==
    [][nextMap # NoMap =>
          \/ nextMap' = NoMap
          \/ Stage' > Stage
          \/ /\ Stage' = Stage /\ ~ MovesOn
             /\ phase = "leaving" => InLevel' \subseteq InLevel]_vars

LEMMA StageStep ==
    ASSUME ControlOK, PlayersOK, [Next]_vars, nextMap # NoMap, nextMap' # NoMap
    PROVE  \/ Stage' > Stage
           \/ /\ Stage' = Stage /\ ~ MovesOn
              /\ phase = "leaving" => InLevel' \subseteq InLevel
<1> USE MapsAssumption DEF Stage
<1>1. ASSUME phase' = phase, target' = target, phase = "leaving" => InLevel' \subseteq InLevel,
             ~ ExecChangelevel
      PROVE  /\ Stage' = Stage /\ ~ MovesOn
             /\ phase = "leaving" => InLevel' \subseteq InLevel
    BY <1>1 DEF MovesOn, BeginChange, LevelShutdown, LevelInit
<1>2. CASE ExecChangelevel
    <2>1. phase = "play" /\ phase' = "play" /\ target' \in Maps
        BY <1>2 DEF ExecChangelevel, levelVars, ControlOK
    <2>2. Stage' = 1 /\ Stage \in {0, 1}
        BY <2>1
    <2>3. Stage = 1 => ~ MovesOn
        BY <1>2, <2>1 DEF MovesOn, ExecChangelevel, BeginChange, levelVars
    <2> QED BY <2>1, <2>2, <2>3
<1>3. CASE BeginChange
    BY <1>3 DEF BeginChange
<1>4. CASE LevelShutdown
    BY <1>4 DEF LevelShutdown
<1>5. CASE LevelInit
    BY <1>5 DEF LevelInit, LevelInitTransition, LevelInitNewGame, TakePending
<1>6. CASE ~ ExecChangelevel /\ PlayerStep
    <2>1. phase' = phase /\ target' = target
        BY <1>6 DEF PlayerStep, ClientPutInServer, Spawn, Killed, Score, BuyCompanion,
                    ClientDisconnect, levelVars
    <2>2. ASSUME phase = "leaving" PROVE InLevel' \subseteq InLevel
        <3>1. PICK p \in Players : ClientDisconnect(p)
            BY <1>6, <2>2 DEF PlayerStep, ClientPutInServer, Spawn, Killed, Score, BuyCompanion
        <3>2. st' = [st EXCEPT ![p] = "out"]
            BY <3>1 DEF ClientDisconnect
        <3> QED BY <3>2 DEF InLevel, PlayersOK
    <2> QED BY <1>1, <1>6, <2>1, <2>2
<1>7. CASE /\ ~ ExecChangelevel
           /\ \/ ExitStep \/ EnableSpawnPoint \/ CleanupDeleteList \/ RestartGame
              \/ \E m \in Maps : OrdinaryChange(m)
    <2>1. phase' = phase /\ target' = target /\ phase = "play"
        BY <1>7 DEF ExitStep, TouchChangeLevel, TimerThink, InputChangeLevel,
                    EnableSpawnPoint, CleanupDeleteList, RestartGame, OrdinaryChange, levelVars
    <2> QED BY <1>1, <1>7, <2>1
<1>8. CASE Crash \/ Boot
    <2>1. ~ Crash
        BY DEF Crash
    <2>2. CASE Boot
        BY <2>2 DEF Boot
    <2> QED BY <1>8, <2>1, <2>2
<1>9. CASE UNCHANGED vars
    <2>1. phase' = phase /\ target' = target /\ InLevel' = InLevel /\ cmds' = cmds
        BY <1>9 DEF vars, levelVars, playerVars, InLevel
    <2>2. ~ MovesOn
        BY <2>1 DEF MovesOn, ExecChangelevel, BeginChange, LevelShutdown, LevelInit
    <2> QED BY <2>1, <2>2
<1> QED
    BY <1>2, <1>3, <1>4, <1>5, <1>6, <1>7, <1>8, <1>9 DEF Next, EngineStep

\* The safety core of PendingEnds: with the engine's steps fair, a transition
\* that only rises through finitely many stages, in a level that only empties,
\* must end.
THEOREM PendingMovesOnCorrect == Spec => PendingMovesOn
<1>1. ControlOK /\ PlayersInv /\ [Next]_vars =>
        [nextMap # NoMap =>
            \/ nextMap' = NoMap
            \/ Stage' > Stage
            \/ /\ Stage' = Stage /\ ~ MovesOn
               /\ phase = "leaving" => InLevel' \subseteq InLevel]_vars
    BY StageStep DEF PlayersInv
<1> QED
    BY <1>1, ControlCorrect, ExitsInit, ExitsStep, PlayersInit, PlayersStep, PTL
       DEF Spec, PendingMovesOn
-----------------------------------------------------------------------------
(* What a level and its restart do give back, where the runs TransitionRevisit *)
(* and TransitionRestart show what they do not.                            *)

\* An exit that has not fired works in a level of which nothing is saved (a
\* first visit, or a new campaign), whatever was fired or restarted in it: only
\* a level loaded from its file has exits that are spent.  Ordinary changes
\* load no file, only a transition does.
FirstVisitUsable ==
    phase = "play" /\ world[map] = NoFile =>
        (exits \ (touched \cup Chapter[map])) \subseteq armed \cup thinking

LEMMA FirstVisitStep ==
    ControlOK /\ ExitsInv /\ FirstVisitUsable /\ [Next]_vars => FirstVisitUsable'
<1> SUFFICES ASSUME ControlOK, ExitsInv, FirstVisitUsable, [Next]_vars,
                    phase' = "play", world'[map'] = NoFile
             PROVE  exits' \ (touched' \cup Chapter[map']) \subseteq armed' \cup thinking'
    BY DEF FirstVisitUsable
<1> USE DEF FirstVisitUsable
<1>1. CASE PlayerStep
    BY <1>1 DEF PlayerStep, ClientPutInServer, Spawn, Killed, Score, BuyCompanion,
                ClientDisconnect, levelVars, exitVars
<1>2. CASE ExitStep
    <2>1. ASSUME NEW e \in AllExits, TouchChangeLevel(e)
          PROVE  exits' \ (touched' \cup Chapter[map']) \subseteq armed' \cup thinking'
        BY <2>1 DEF TouchChangeLevel, levelVars
    <2>2. ASSUME NEW e \in AllExits, TimerThink(e) \/ InputChangeLevel(e)
          PROVE  exits' \ (touched' \cup Chapter[map']) \subseteq armed' \cup thinking'
        <3>1. /\ phase = "play" /\ world' = world /\ map' = map /\ exits' = exits
              /\ thinking \ {e} \subseteq thinking'
              /\ ChangeLevelNow(e)
            BY <2>2 DEF TimerThink, InputChangeLevel, levelVars
        <3>2. e \in touched' /\ touched \subseteq touched' /\ armed \ {e} \subseteq armed'
            BY <3>1 DEF ChangeLevelNow, FireExit
        <3> QED
            BY <3>1, <3>2
    <2> QED
        BY <1>2, <2>1, <2>2 DEF ExitStep, AllExits
<1>3. CASE ExecChangelevel \/ CleanupDeleteList \/ EnableSpawnPoint
    BY <1>3 DEF ExecChangelevel, CleanupDeleteList, EnableSpawnPoint, levelVars, exitVars
<1>4. CASE (\E m \in Maps : OrdinaryChange(m)) \/ UNCHANGED vars
    BY <1>4 DEF OrdinaryChange, vars, levelVars, exitVars
<1>5. CASE RestartGame
    BY <1>5 DEF RestartGame, FreshlyArmed, levelVars
<1>6. CASE BeginChange \/ LevelShutdown \/ Crash \/ Boot
    BY <1>6 DEF BeginChange, LevelShutdown, Crash, Boot
<1>7. CASE LevelInit
    BY <1>7 DEF LevelInit, LevelInitTransition, LevelInitNewGame, LoadLevel, FreshlyArmed
<1> QED
    BY <1>1, <1>2, <1>3, <1>4, <1>5, <1>6, <1>7 DEF Next, EngineStep

\* What holds of UnfiredExitsUsable: it fails only where a saved level is
\* loaded again.
THEOREM FirstVisitUsableCorrect == Spec => []FirstVisitUsable
<1>1. Init => FirstVisitUsable
    BY DEF Init, FirstVisitUsable
<1> QED
    BY <1>1, ControlCorrect, ExitsInit, ExitsStep, FirstVisitStep, PTL DEF Spec

\* In a level that a new campaign began, a restart re-creates every exit and
\* arms all but the chapter exits: there g_MapEntityRefs lists this level's
\* entities.  A level entered by a transition has the list of another one.
NewGameRestart ==
    [][RestartGame /\ loadType = "NewGame" =>
          exits' = Exits[map] /\ armed' = Exits[map] \ Chapter[map]]_vars

RefsInv == loadType = "NewGame" => refs = map

LEMMA RefsStep == ControlOK /\ RefsInv /\ [Next]_vars => RefsInv'
<1> SUFFICES ASSUME ControlOK, RefsInv, [Next]_vars PROVE RefsInv'
    OBVIOUS
<1>1. CASE LevelInit
    BY <1>1 DEF LevelInit, LevelInitTransition, LevelInitNewGame, RefsInv
<1>2. CASE ~ LevelInit
    <2>1. <<loadType, refs, map>>' = <<loadType, refs, map>>
        BY <1>2 DEF Next, EngineStep, PlayerStep, ClientPutInServer, Spawn, Killed, Score,
                    BuyCompanion, ClientDisconnect, ExitStep, TouchChangeLevel, TimerThink,
                    InputChangeLevel, ExecChangelevel, BeginChange, LevelShutdown,
                    EnableSpawnPoint, CleanupDeleteList, RestartGame, OrdinaryChange, Crash,
                    Boot, vars, levelVars
    <2> QED
        BY <2>1 DEF RefsInv
<1> QED
    BY <1>1, <1>2

\* What holds of RestartBringsBackExits: it fails only in a level entered by a
\* transition.
THEOREM NewGameRestartCorrect == Spec => NewGameRestart
<1>1. Init => RefsInv
    BY DEF Init, RefsInv
<1>2. ControlOK /\ RefsInv =>
        (RestartGame /\ loadType = "NewGame" =>
            exits' = Exits[map] /\ armed' = Exits[map] \ Chapter[map])
    BY ExitsAssumption DEF ControlOK, RefsInv, RestartGame, FreshlyArmed
<1> QED
    BY <1>1, <1>2, RefsStep, ControlCorrect, PTL DEF Spec, NewGameRestart
=============================================================================
