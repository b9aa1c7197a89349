-------------------------- MODULE LevelTransition --------------------------
(***************************************************************************)
(* How a cooperative campaign moves from level to level: the exits of a    *)
(* level (trigger_changelevel), the static strings that remember a pending *)
(* transition, the engine's change of level, the saved state of the level  *)
(* (save/<map>.HL1) and the saved state of every player                    *)
(* (save/<SteamID>.hl2).                                                   *)
(*                                                                         *)
(* An exit is named by the map it leads to; one that only its input fires  *)
(* (SF_CHANGELEVEL_NOTOUCH) is left out.  Of a player's saved state the    *)
(* model keeps the frags (they stand for everything under "pClient" and    *)
(* "pWeapons"; points lost are left out) and the number of companions      *)
(* (bought NPCs, "pEntity").                                               *)
(*                                                                         *)
(* An operator whose name starts with Bad is a mistake this code could     *)
(* contain.  No action uses one: put in the place of the definition that   *)
(* follows it, it shows that a property notices.                           *)
(***************************************************************************)
EXTENDS Integers, Sequences, FiniteSets

CONSTANTS
    Players,    \* clients, one SteamID each
    Maps,       \* maps whose .bsp is on the server
    Missing,    \* maps an exit may name whose .bsp is not on the server
    Exits,      \* [Maps -> SUBSET (Maps \cup Missing)]: the exits of a map
    Chapter,    \* the exits among them that carry SF_CHANGELEVEL_CHAPTER
    EntCount,   \* [Maps -> Nat]: entities in the map's entity list
    StartMap,   \* the map the server boots into
    NoMap,      \* an empty string in st_szNextMap, st_szOldMap
    NoFile,     \* a file that does not exist
    Percent,    \* mp_transition_players_percent
    MaxFrags,   \* bound on a player's frags
    MaxNpc,     \* bound on the companions a player buys in a campaign
    MaxCmds     \* bound on the changelevel commands waiting in the buffer

ASSUME MapsAssumption == /\ StartMap \in Maps
                         /\ NoMap \notin Maps \cup Missing
                         /\ Maps \cap Missing = {}
ASSUME ExitsAssumption == /\ Exits \in [Maps -> SUBSET (Maps \cup Missing)]
                          /\ Chapter \in [Maps -> SUBSET (Maps \cup Missing)]
                          /\ EntCount \in [Maps -> Nat]
ASSUME BoundsAssumption == /\ Percent \in Nat
                           /\ MaxFrags \in Nat
                           /\ MaxNpc \in Nat
                           /\ MaxCmds \in Nat

\* What a player's save/<SteamID>.hl2 holds.  "from" is the level it was
\* written in: no code reads it, only NpcsStayBehind does.
ClientFile == [map : Maps, from : Maps, client : BOOLEAN,
               frags : 0..MaxFrags, npc : 0..MaxNpc, noRestore : BOOLEAN]
\* What a level's save/<map>.HL1 holds: the exits of the level, those whose
\* touch function is set, those that think, and every player's companions.
LevelFile == [exits : SUBSET (Maps \cup Missing), armed : SUBSET (Maps \cup Missing),
              thinking : SUBSET (Maps \cup Missing),
              npc : [Players -> 0..MaxNpc]]
ASSUME NoFileAssumption == NoFile \notin ClientFile \cup LevelFile

VARIABLES
    phase,      \* "play", "leaving" (clients inactivated), "shut", "down"
    map,        \* gpGlobals->mapname
    loadType,   \* gpGlobals->eLoadType: "NewGame" or "Transition"
    refs,       \* the map whose entities g_MapEntityRefs lists
    nextMap, oldMap,            \* st_szNextMap, st_szOldMap
    exits,      \* the exits that exist in the level
    armed, thinking, touched,   \* exits: m_pfnTouch set, TimerThink due, m_bTouched
    cmds,       \* changelevel commands in the command buffer
    target,     \* the map of the last changelevel the engine executed
    st,         \* [Players -> "out", "joining", "alive", "dead"]
    frags, npc, \* per player: frag count, companions in the level
    doomed,     \* per player, companions of his on g_DeleteList
    bought,     \* history: per player, companions bought in this campaign
    file,       \* [Players -> ClientFile \cup {NoFile}]
    world,      \* [Maps -> LevelFile \cup {NoFile}]
    visited,    \* history: the maps of this campaign
    respotted,  \* history: a spawn point was enabled in this level
    owed        \* history: per player, the frags to give back and on which map

exitVars   == <<exits, armed, thinking, touched>>
playerVars == <<st, frags, npc, doomed, bought, file, owed>>
levelVars  == <<phase, map, loadType, refs, world, visited, respotted>>
vars == <<levelVars, nextMap, oldMap, exitVars, cmds, target, playerVars>>

InLevel == {p \in Players : st[p] # "out"}
Spawned == {p \in Players : st[p] \in {"alive", "dead"}}
Nobody == [p \in Players |-> 0]
-----------------------------------------------------------------------------
(* The exits of a level.                                                   *)

\* MapEntity_ParseAllEntities spawns and activates every exit of map m; on a
\* new game Activate disarms the chapter exits.
BadFreshlyArmed(m, es, type) == Exits[m]    \* also the exits that were not made
FreshlyArmed(m, es, type) == IF type = "NewGame" THEN es \ Chapter[m] ELSE es

\* result >= percent, with result = int(floor(100.0 / total * touching + 0.5)).
\* With nobody to count the quotient is not a number and the test fails.
QuorumReached(total, touching) ==
    total > 0 /\ (200 * touching + total) \div (2 * total) >= Percent

\* ChangeLevelNow copies the names of both maps and, when there is no .bsp of
\* the next one, clears them again.  (It starts the intermission then, whose
\* change of level is an OrdinaryChange.)
BadSetPending(e) == nextMap' = e /\ oldMap' = map          \* not cleared again
SetPending(e) == IF e \in Maps THEN nextMap' = e /\ oldMap' = map
                              ELSE nextMap' = NoMap /\ oldMap' = NoMap

\* ChangeLevelNow, for an exit that has not fired in this level.
FireExit(e) ==
    /\ touched' = touched \cup {e}
    /\ armed' = armed \ {e}
    /\ SetPending(e)
    /\ IF e \in Maps THEN Len(cmds) < MaxCmds /\ cmds' = Append(cmds, e)
                     ELSE cmds' = cmds

ChangeLevelNow(e) ==
    IF e \in touched THEN UNCHANGED <<touched, armed, nextMap, oldMap, cmds>>
                     ELSE FireExit(e)

\* A player walks into an armed exit: the exit starts counting players.
TouchChangeLevel(e) ==
    /\ phase = "play"
    /\ e \in armed
    /\ \E p \in Players : st[p] = "alive"
    /\ thinking' = thinking \cup {e}
    /\ armed' = armed \ {e}
    /\ UNCHANGED <<levelVars, nextMap, oldMap, exits, touched, cmds, target, playerVars>>

\* An exit counts: who is here (neither AFK nor a spectator) and who is near.
\* Without a quorum it thinks again, and nothing of the model changes.
TimerThink(e) ==
    /\ phase = "play"
    /\ e \in thinking
    /\ Percent = 0 \/ \E here \in SUBSET InLevel : \E near \in SUBSET here :
                          QuorumReached(Cardinality(here), Cardinality(near))
    /\ thinking' = thinking \ {e}
    /\ ChangeLevelNow(e)
    /\ UNCHANGED <<levelVars, exits, target, playerVars>>

\* The map's logic fires the exit's ChangeLevel input.
InputChangeLevel(e) ==
    /\ phase = "play"
    /\ e \in exits
    /\ ChangeLevelNow(e)
    /\ UNCHANGED <<levelVars, exits, thinking, target, playerVars>>
-----------------------------------------------------------------------------
(* The saved state of the players.                                         *)

\* SaveClientState(player): a player who is not dead has a client section; the
\* file is written when it has one, or when the player owns companions.  An
\* entity that was never spawned has m_lifeState = LIFE_ALIVE and zero frags.
BadSavedMap == map                                        \* the level left
SavedMap == IF nextMap # NoMap THEN nextMap ELSE map
SavedState(p) ==
    [map |-> SavedMap, from |-> map,
     client |-> st[p] # "dead", frags |-> IF st[p] = "dead" THEN 0 ELSE frags[p],
     npc |-> npc[p], noRestore |-> FALSE]

SaveClientState(p) ==
    IF st[p] # "dead" \/ npc[p] > 0 THEN [file EXCEPT ![p] = SavedState(p)] ELSE file

\* SaveClientState(NULL, flags): the flags of every file with a client section
\* are replaced.
MarkFiles(noRestore) ==
    [p \in Players |-> IF file[p] # NoFile /\ file[p].client
                       THEN [file[p] EXCEPT !.noRestore = noRestore] ELSE file[p]]

\* RestoreClientState on a spawn: the file is read and removed, and used when
\* it was written for this map.
Restores(p) == file[p] # NoFile /\ file[p].map = map
RestoredFrags(p) == IF Restores(p) /\ file[p].client THEN file[p].frags ELSE frags[p]
RestoredNpcs(p) == IF Restores(p) /\ ~ (file[p].client /\ file[p].noRestore)
                   THEN file[p].npc ELSE 0
BadFilesAfterSpawn(S) == file                             \* no RemoveFile
Bad2FilesAfterSpawn(S) ==                                 \* RemoveFile after the map test
    [p \in Players |-> IF p \in S /\ Restores(p) THEN NoFile ELSE file[p]]
FilesAfterSpawn(S) == [p \in Players |-> IF p \in S THEN NoFile ELSE file[p]]

\* ClientPutInServer: the player entity exists, zeroed, and is not spawned.
\* To come back takes a client longer than the frame in which he left.
ClientPutInServer(p) ==
    /\ phase = "play"
    /\ st[p] = "out"
    /\ doomed[p] = 0
    /\ st' = [st EXCEPT ![p] = "joining"]
    /\ frags' = [frags EXCEPT ![p] = 0]
    /\ UNCHANGED <<levelVars, nextMap, oldMap, exitVars, cmds, target,
                   npc, doomed, bought, file, owed>>

\* CHL2MP_Player_fix::Spawn, called for a client that became active and for a
\* dead player who respawns.
Spawn(p) ==
    /\ phase = "play"
    /\ st[p] \in {"joining", "dead"}
    /\ st' = [st EXCEPT ![p] = "alive"]
    /\ frags' = [frags EXCEPT ![p] = RestoredFrags(p)]
    /\ npc' = [npc EXCEPT ![p] = @ + RestoredNpcs(p)]
    /\ file' = FilesAfterSpawn({p})
    /\ owed' = [owed EXCEPT ![p] = NoFile]
    /\ UNCHANGED <<levelVars, nextMap, oldMap, exitVars, cmds, target, doomed, bought>>

Killed(p) ==
    /\ phase = "play"
    /\ st[p] = "alive"
    /\ st' = [st EXCEPT ![p] = "dead"]
    /\ UNCHANGED <<levelVars, nextMap, oldMap, exitVars, cmds, target,
                   frags, npc, doomed, bought, file, owed>>

Score(p) ==
    /\ phase = "play"
    /\ st[p] = "alive"
    /\ frags[p] < MaxFrags
    /\ frags' = [frags EXCEPT ![p] = @ + 1]
    /\ UNCHANGED <<levelVars, nextMap, oldMap, exitVars, cmds, target,
                   st, npc, doomed, bought, file, owed>>

BuyCompanion(p) ==
    /\ phase = "play"
    /\ st[p] = "alive"
    /\ bought[p] < MaxNpc
    /\ bought' = [bought EXCEPT ![p] = @ + 1]
    /\ npc' = [npc EXCEPT ![p] = @ + 1]
    /\ UNCHANGED <<levelVars, nextMap, oldMap, exitVars, cmds, target,
                   st, frags, doomed, file, owed>>

\* A spawn point is enabled: info_player_spawn, info_spawn_manager and
\* info_player_hl2mpru all replace the flags of the files by CLIENT_NOTP.
EnableSpawnPoint ==
    /\ phase = "play"
    /\ file' = MarkFiles(FALSE)
    /\ respotted' = TRUE
    /\ UNCHANGED <<phase, map, loadType, refs, world, visited, nextMap, oldMap, exitVars,
                   cmds, target, st, frags, npc, doomed, bought, owed>>

\* The debt a disconnecting player leaves: to the level being changed to when
\* the campaign moves on, else to this level.  A client that leaves before its
\* first spawn overwrites what it was owed.
DebtTo(p) == IF st[p] = "alive" /\ phase = "play" /\ nextMap = NoMap
             THEN [map |-> map, frags |-> frags[p]]
             ELSE IF st[p] = "alive" /\ phase = "leaving" /\ nextMap = target
             THEN [map |-> target, frags |-> frags[p]]
             ELSE NoFile

\* ClientDisconnect saves, then the engine frees the player entity, whose
\* UpdateOnRemove puts its companions on the delete list.
ClientDisconnect(p) ==
    /\ phase \in {"play", "leaving"}
    /\ st[p] # "out"
    /\ file' = SaveClientState(p)
    /\ owed' = [owed EXCEPT ![p] = DebtTo(p)]
    /\ st' = [st EXCEPT ![p] = "out"]
    /\ frags' = [frags EXCEPT ![p] = 0]
    /\ npc' = [npc EXCEPT ![p] = 0]
    /\ doomed' = [doomed EXCEPT ![p] = npc[p]]
    /\ UNCHANGED <<levelVars, nextMap, oldMap, exitVars, cmds, target, bought>>

\* gEntList.CleanupDeleteList at the end of a frame.
CleanupDeleteList ==
    /\ phase = "play"
    /\ \E p \in Players : doomed[p] > 0
    /\ doomed' = Nobody
    /\ UNCHANGED <<levelVars, nextMap, oldMap, exitVars, cmds, target,
                   st, frags, npc, bought, file, owed>>
-----------------------------------------------------------------------------
(* RestartGame: CleanUpMap removes and re-creates the map's entities, then *)
(* every player is respawned and reset.  A player who died a moment ago is *)
(* not respawned yet.  Only as many entities are re-created as             *)
(* g_MapEntityRefs lists.                                                  *)
RestartGame ==
    /\ phase = "play"
    /\ \E late \in SUBSET {p \in Players : st[p] = "dead"} :
          LET back == InLevel \ late IN
          /\ st' = [p \in Players |-> IF p \in back THEN "alive" ELSE st[p]]
          /\ npc' = [p \in Players |-> IF p \in back THEN RestoredNpcs(p) ELSE 0]
          /\ file' = FilesAfterSpawn(back)
          /\ owed' = [p \in Players |-> IF p \in back THEN NoFile ELSE owed[p]]
    /\ frags' = Nobody
    /\ doomed' = Nobody
    /\ \E made \in SUBSET Exits[map] :
          /\ EntCount[refs] >= EntCount[map] => made = Exits[map]
          /\ exits' = made
          /\ armed' = FreshlyArmed(map, made, loadType)
    /\ thinking' = {}
    /\ touched' = {}
    /\ UNCHANGED <<levelVars, nextMap, oldMap, cmds, target, bought>>
-----------------------------------------------------------------------------
(* The change of level.                                                    *)

\* A changelevel that no exit asked for: the map cycle, a vote, an operator.
OrdinaryChange(m) ==
    /\ phase = "play"
    /\ Len(cmds) < MaxCmds
    /\ cmds' = Append(cmds, m)
    /\ UNCHANGED <<levelVars, nextMap, oldMap, exitVars, target, playerVars>>

\* The engine executes a command of the buffer; the change itself waits for
\* the end of the frame, and a later changelevel replaces an earlier one.
ExecChangelevel ==
    /\ phase = "play"
    /\ cmds # <<>>
    /\ target' = Head(cmds)
    /\ cmds' = Tail(cmds)
    /\ UNCHANGED <<levelVars, nextMap, oldMap, exitVars, playerVars>>

BeginChange ==
    /\ phase = "play"
    /\ target # NoMap
    /\ phase' = "leaving"
    /\ UNCHANGED <<map, loadType, refs, world, visited, respotted, nextMap, oldMap,
                   exitVars, cmds, target, playerVars>>

\* SaveGameState: the files of the players are marked, the delete list is
\* emptied, and what is left in the level goes to save/<map>.HL1.
BadSavedLevel == [exits |-> exits, armed |-> armed, thinking |-> thinking,
                  npc |-> [p \in Players |-> npc[p] + doomed[p]]]  \* no clean-up
SavedLevel == [exits |-> exits, armed |-> armed, thinking |-> thinking, npc |-> npc]

BadSaveGameState ==                                       \* files not marked
    /\ file' = file
    /\ world' = [world EXCEPT ![map] = SavedLevel]

SaveGameState ==
    /\ file' = MarkFiles(TRUE)
    /\ world' = [world EXCEPT ![map] = SavedLevel]

LevelShutdown ==
    /\ phase = "leaving"
    /\ InLevel = {}
    /\ phase' = "shut"
    /\ IF oldMap # NoMap THEN SaveGameState ELSE UNCHANGED <<file, world>>
    /\ doomed' = Nobody
    /\ exits' = {} /\ armed' = {} /\ thinking' = {} /\ touched' = {}
    /\ UNCHANGED <<map, loadType, refs, visited, respotted, nextMap, oldMap, cmds, target,
                   st, frags, npc, bought, owed>>

\* LevelInit for the pending transition: the level as it was left, or its
\* entities parsed anew.  Touch and think functions come back from the file;
\* m_bTouched does not, and Activate clears it.
LoadLevel(m) ==
    /\ touched' = {}
    /\ IF world[m] # NoFile
       THEN exits' = world[m].exits /\ armed' = world[m].armed
                                    /\ thinking' = world[m].thinking
       ELSE exits' = Exits[m] /\ armed' = FreshlyArmed(m, Exits[m], "Transition")
                              /\ thinking' = {}

\* The transition is taken: st_szNextMap is cleared, st_szOldMap stays.
BadTakePending == UNCHANGED <<nextMap, oldMap>>           \* not cleared
TakePending == nextMap' = NoMap /\ UNCHANGED oldMap

IsTransition(m) == oldMap # NoMap /\ nextMap = m

LevelInitTransition ==
    /\ phase = "shut"
    /\ IsTransition(target)
    /\ TakePending
    /\ loadType' = "Transition"
    /\ LoadLevel(target)
    /\ visited' = visited \cup {target}
    /\ UNCHANGED <<refs, file, world, bought, owed>>

\* ResetSaveData deletes every file of the campaign.
BadResetSaveData ==                                       \* only the players' files
    /\ file' = [p \in Players |-> NoFile]
    /\ world' = world
ResetSaveData ==
    /\ file' = [p \in Players |-> NoFile]
    /\ world' = [m \in Maps |-> NoFile]

LevelInitNewGame ==
    /\ phase = "shut"
    /\ ~ IsTransition(target)
    /\ nextMap' = NoMap
    /\ oldMap' = NoMap
    /\ ResetSaveData
    /\ loadType' = "NewGame"
    /\ refs' = target
    /\ exits' = Exits[target]
    /\ armed' = FreshlyArmed(target, Exits[target], "NewGame")
    /\ thinking' = {} /\ touched' = {}
    /\ visited' = {target}
    /\ bought' = Nobody
    /\ owed' = [p \in Players |-> NoFile]

LevelInit ==
    /\ LevelInitTransition \/ LevelInitNewGame
    /\ phase' = "play"
    /\ map' = target
    /\ target' = NoMap
    /\ respotted' = FALSE
    /\ UNCHANGED <<cmds, st, frags, npc, doomed>>

\* The process dies: its memory is gone, the files stay.
Crash ==
    /\ phase # "down"
    /\ phase' = "down"
    /\ nextMap' = NoMap /\ oldMap' = NoMap
    /\ exits' = {} /\ armed' = {} /\ thinking' = {} /\ touched' = {}
    /\ cmds' = <<>> /\ target' = NoMap
    /\ st' = [p \in Players |-> "out"]
    /\ frags' = Nobody
    /\ npc' = Nobody
    /\ doomed' = Nobody
    /\ UNCHANGED <<map, loadType, refs, world, visited, respotted, bought, file, owed>>

\* The process starts and loads its first map.
Boot ==
    /\ phase = "down"
    /\ phase' = "shut"
    /\ target' = StartMap
    /\ UNCHANGED <<map, loadType, refs, world, visited, respotted, nextMap, oldMap,
                   exitVars, cmds, playerVars>>
-----------------------------------------------------------------------------
\* The server is about to be started for the first time, with no saved files.
Init ==
    /\ phase = "down" /\ map = StartMap /\ loadType = "NewGame" /\ refs = StartMap
    /\ nextMap = NoMap /\ oldMap = NoMap
    /\ exits = {} /\ armed = {} /\ thinking = {} /\ touched = {}
    /\ cmds = <<>> /\ target = NoMap
    /\ st = [p \in Players |-> "out"]
    /\ frags = Nobody /\ npc = Nobody
    /\ doomed = Nobody /\ bought = Nobody
    /\ file = [p \in Players |-> NoFile] /\ owed = [p \in Players |-> NoFile]
    /\ world = [m \in Maps |-> NoFile]
    /\ visited = {} /\ respotted = FALSE

PlayerStep ==
    \E p \in Players : \/ ClientPutInServer(p) \/ Spawn(p) \/ Killed(p) \/ Score(p)
                       \/ BuyCompanion(p) \/ ClientDisconnect(p)
ExitStep ==
    \E e \in Maps \cup Missing :
        TouchChangeLevel(e) \/ TimerThink(e) \/ InputChangeLevel(e)
EngineStep == ExecChangelevel \/ BeginChange \/ LevelShutdown \/ LevelInit

Next == \/ PlayerStep \/ ExitStep \/ EngineStep
        \/ EnableSpawnPoint \/ CleanupDeleteList \/ RestartGame
        \/ \E m \in Maps : OrdinaryChange(m)
        \/ Crash \/ Boot

\* The engine runs its frames: it executes the command buffer, inactivates the
\* clients of a level it leaves, and finishes a change it has begun.
Fairness ==
    /\ WF_vars(ExecChangelevel) /\ WF_vars(BeginChange)
    /\ WF_vars(LevelShutdown) /\ WF_vars(LevelInit)
    /\ \A p \in Players : WF_vars(phase = "leaving" /\ ClientDisconnect(p))

Spec == Init /\ [][Next]_vars /\ Fairness
-----------------------------------------------------------------------------
(* Properties.                                                             *)

\* Every variable holds a value of its type.
TypeOK ==
    /\ phase \in {"play", "leaving", "shut", "down"}
    /\ map \in Maps /\ refs \in Maps /\ loadType \in {"NewGame", "Transition"}
    /\ nextMap \in Maps \cup {NoMap} /\ oldMap \in Maps \cup {NoMap}
    /\ exits \subseteq Maps \cup Missing /\ armed \subseteq exits
    /\ thinking \subseteq exits /\ touched \subseteq exits
    /\ cmds \in Seq(Maps) /\ target \in Maps \cup {NoMap}
    /\ st \in [Players -> {"out", "joining", "alive", "dead"}]
    /\ frags \in [Players -> 0..MaxFrags]
    /\ npc \in [Players -> 0..MaxNpc] /\ doomed \in [Players -> 0..MaxNpc]
    /\ bought \in [Players -> 0..MaxNpc]
    /\ file \in [Players -> ClientFile \cup {NoFile}]
    /\ world \in [Maps -> LevelFile \cup {NoFile}]
    /\ visited \subseteq Maps /\ respotted \in BOOLEAN
    /\ owed \in [Players -> [map : Maps, frags : 0..MaxFrags] \cup {NoFile}]

\* A player who was spawned has no saved file left: RestoreClientState removes
\* what it reads, so no progress can be claimed twice and a dead player who
\* leaves cannot fall back on an older file.
ConsumedOnSpawn == \A p \in Spawned : file[p] = NoFile

\* A pending transition always starts in the level that is running: the .HL1
\* that LevelShutdown writes is the one of the level the exit was in.
PendingFromHere == nextMap # NoMap => oldMap = map

\* A pending transition is always on its way: a changelevel waits in the
\* command buffer or was executed.  (An exit that leads to a missing map must
\* not leave st_szNextMap set, or the next ordinary change to that name would
\* be taken for a transition.)
PendingIsMoving == nextMap # NoMap => target # NoMap \/ cmds # <<>>

\* While a level runs, the saved levels on disk are levels of this campaign:
\* a level is never restored from an earlier one.
SavedLevelsVisited ==
    phase = "play" => \A m \in Maps : world[m] # NoFile => m \in visited

\* Until he is spawned again, what a player is owed is what his file holds:
\* frags, and the map on which RestoreClientState will accept it.  Owed is
\* what a living player had when the campaign moved on, or when he left a
\* level that was not about to be changed.
OwedIsSaved ==
    \A p \in Players : owed[p] # NoFile /\ p \notin Spawned =>
        /\ file[p] # NoFile
        /\ file[p].client
        /\ file[p].map = owed[p].map
        /\ file[p].frags = owed[p].frags

FiledNpcs(p) == IF file[p] = NoFile THEN 0 ELSE file[p].npc
LeftNpcs(m, p) == IF world[m] = NoFile THEN 0 ELSE world[m].npc[p]

\* No companion exists twice: those in the level, in the player's file and in
\* any saved level together are no more than he bought.
NpcConservation ==
    \A p \in Players, m \in Maps :
        npc[p] + FiledNpcs(p) + LeftNpcs(m, p) <= bought[p]

\* Companions do not follow a living player through an exit: a file written in
\* another level says so (NPC_NORESTORE), as long as no spawn point was
\* enabled in this one.
NpcsStayBehind ==
    \A p \in Players :
        /\ phase = "play" /\ ~ respotted
        /\ file[p] # NoFile
        /\ file[p].client /\ file[p].from # file[p].map /\ file[p].map = map
        => file[p].noRestore

\* A pending transition ends: its level is loaded, it is overtaken by another
\* change or called off, or the process dies.
PendingEnds == nextMap # NoMap ~> nextMap = NoMap

\* Activate clears m_bTouched so that an exit can be used on the next visit:
\* an exit that is there and has not fired in this visit is armed or counting,
\* unless it is a chapter exit.
UnfiredExitsUsable ==
    phase = "play" => (exits \ (touched \cup Chapter[map])) \subseteq armed \cup thinking

\* CleanUpMap finds an entity reference for every entity of the map, so that
\* a restart brings every exit back.
RestartBringsBackExits == [][RestartGame => exits' = Exits[map]]_vars
-----------------------------------------------------------------------------
(* What a player has is his own and only he adds to it.                    *)

Where(p) == IF p \in Spawned
            THEN IF file[p] = NoFile THEN "hand" ELSE "both"
            ELSE IF file[p] # NoFile /\ file[p].client THEN "bank" ELSE "none"
Worth(p) == IF p \in Spawned THEN frags[p]
            ELSE IF file[p] # NoFile /\ file[p].client THEN file[p].frags ELSE 0

Progress == INSTANCE Carryover WITH where <- [p \in Players |-> Where(p)],
                                    worth <- [p \in Players |-> Worth(p)]

\* The saved files implement Carryover: progress is never in two places and
\* grows only by playing.
CarriesOver == Progress!Spec
=============================================================================
