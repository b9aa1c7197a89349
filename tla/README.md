# A verification project for the hl2mp.ru cooperative server

The repository is a Source SDK tree: engine interfaces, shared libraries and the
sources of several games. The program it is kept for is the dedicated server of
a cooperative Half-Life 2 campaign (`src/game/server/hl2mp.ru`,
`src/game/server/hl2mp`, `src/game/shared/hl2mp` and the base game DLL under
them). This directory holds TLA+ models of the server's own control logic, the
TLC configurations that check them, and proofs that TLAPS checks.

The server is single-threaded: it runs frames. What makes it hard is not
parallelism but *order over many frames*: console commands wait in the engine's
buffer while players join, die and leave; static variables outlive the level
they were set in; files outlive the process; handles go stale between the frame
that stored them and the frame that reads them. An action of a model is one
callback, command or handler, run to its end; the interleaving of actions is the
order in which the engine may call them.

## Inventory

| Component | Source | State it keeps | Operations | Talks to |
|---|---|---|---|---|
| Level exits | `game/server/triggers.cpp` 1335-1826 (CChangeLevel) | touch/think functions, `m_bTouched` | touch, count players, input, fire | sets the transition strings, queues `changelevel` |
| Transition strings, level init and shutdown | `game/server/gameinterface.cpp` 971-1131, 1431-1478 | `st_szNextMap`, `st_szOldMap`, `eLoadType` | LevelInit, LevelShutdown | saved levels, saved players, map entities |
| Saved levels and players | `hl2mp.ru/hl2mp_saverestore.cpp` | `save/<map>.HL1`, `save/<SteamID>.hl2` | SaveGameState, LoadGameState, SaveClientState, RestoreClientState, ResetSaveData | spawn, disconnect, spawn points, restart |
| Rules of a level | `game/shared/hl2mp/hl2mp_gamerules.cpp` | restart time, ready flags, `g_fGameOver`, intermission | Think, RestartGame, CleanUpMap, CheckRestartGame, CheckAllPlayersReady | console variables, chat, change of level |
| Map cycle | `game/shared/multiplay_gamerules.cpp` 1177-1590 | map list, static index, `nextlevel` | ChangeLevel, Skip, Load | `changelevel_next` |
| Chat: vote, save point, teleport | `hl2mp.ru/chat_command.cpp` | list of votes, player points, waiting times | ExtraChatCommand, end of frame, level init | map cycle |
| Map recovery | `hl2mp.ru/con_command.cpp` 85-181 | `maprecovery.txt` | at boot, at level init | change of level |
| Spawn points and managers | `hl2mp.ru/info_player_spawn.cpp`, `info_spawn_manager.cpp`, `info_npc_random.cpp` | enabled flags, counts | inputs, spawn, death notices | saved players (flags) |
| Player count trigger, countdown timer | `hl2mp.ru/trigger_player_count.cpp`, `game_countdown_timer.cpp` | players inside, time left | touch, think, inputs | outputs |
| Merchant and companions | `hl2mp.ru/npc_merchant.cpp` | money, owner of an NPC | buy, give | saved players |
| Vehicle spawner | `hl2mp.ru/info_vehicle_spawn.cpp` | handle of the vehicle | think, respawn | |
| Input/output queue, relays | `game/server/cbase.cpp`, `logicrelay.cpp` | time-ordered queue; a relay's disabled and waiting flags, its list of connections | add, service, cancel, save, restore; Trigger, Enable, CancelPending ... | every entity |
| Actions of a bot | `NextBot/NextBotBehavior.h` | stack of actions, each with a stack of children, a pending event result | update, event, reset | the bot's senses and body |
| Bot quota | `hl2mp/bot/hl2mp_bot_manager.cpp`, `hl2mp_bot.cpp` | `hl2mp_bot_quota`, who is managed by it | MaintainBotQuota, hl2mp_bot_add, hl2mp_bot_kick | players, teams, command buffer |
| Tables | `hl2mp_admins.cpp`, `hl2mp_localize.cpp`, `DownloadListGenerator.cpp`, `stripper` | read at start | lookup | |
| Simulation, client, other games | weapons, NPCs, `game/client`, `tf`, `hl1` ... | | | |

What makes each correct:

* **Transitions**: a transition is taken exactly when the level it names follows
  the level whose exit fired; a level is never restored from an earlier
  campaign; a pending transition does not stay pending; an exit can be used
  again on the next visit; a restart re-creates the map's entities.
* **Saved players**: what a player had when the campaign moved on, or when he
  left, is given back once, on the right level, and never twice.
* **Votes**: a player has one vote, players who left have none, half of the
  players can change the level.
* **Rounds**: the announced restart happens; the wait for ready signals ends
  exactly when everybody has given one; a level that is over is left, once.
* **Map cycle**: every change goes to the map that follows; two commands in the
  buffer do not skip a map silently; a map that does not exist does not stop the
  server.
* **Queue**: events fire in the order of their times, none is fired twice or
  after it was cancelled, a handler that adds or cancels events while the queue
  is served does no harm; a frame ends, and a relay that waits is woken.
* **Actions of a bot**: no pointer reaches a deleted action, an action that
  began is ended before it is deleted, what is covered was suspended.
* **Bot quota**: left alone the manager comes to the number of bots it wants and
  stays there, and a slot is free for a player.
* **Counters** (players in a trigger, spawned NPCs, vehicles): the number kept
  equals the number of entities that are there.

## Modules

| Module | Models | Proofs |
|---|---|---|
| `LevelTransition` | exits, transition strings, level init and shutdown, saved levels and players, restart, crash | `LevelTransition_proofs` |
| `Carryover` | abstract: where a player's progress is and how it may change | refined by `LevelTransition` |
| `RockTheVote` | the chat vote and its clean-up with `FastRemove` | `RockTheVote_proofs` |
| `HL2MPRules` | restarts, ready signals, intermission | `HL2MPRules_proofs` |
| `MapCycle` | map list, static index, `nextlevel`, command buffer, map recovery | `MapCycle_proofs` |
| `EventQueue` | the queue of entity inputs and the logic_relays that post to it while it is served | `EventQueue_proofs`, `TimedEvents_proofs` |
| `TimedEvents` | abstract: a set of timed events, fired in order | refined by `EventQueue`: `TimedEvents_proofs` |
| `NextBotBehavior` | Behavior and Action: the tree of a bot's actions and its raw pointers | `NextBotBehavior_proofs` |
| `BotQuota` | the bot manager, its commands, players who come and go | `BotQuota_proofs` |
| `MCLevelTransition`, `MCRockTheVote`, `MCMapCycle` | instances for TLC | |
| `MCServer` | map cycle, queue, bot and quota, each in states of its own, in one run | |

An operator whose name starts with `Bad` is a plausible mistake; no action uses
it. Put in the place of the definition that follows it, it makes a property fail,
which is how every property was tried out.

### LevelTransition

`phase` is where the engine is: a level runs (`play`), its clients are being
disconnected (`leaving`), the level is shut (`shut`), the process is not running
(`down`). `nextMap`, `oldMap` are the static strings; `cmds` is the part of the
engine's command buffer that matters (changelevel commands) and `target` the map
of the last one executed. An exit is in up to four sets: `exits` (it exists),
`armed` (its touch function is set), `thinking` (TimerThink is due), `touched`
(`m_bTouched`, the only one of them that is not saved). A player's saved state
is abstracted to a frag count and a number of companions, with the file's map
name and its NPC_NORESTORE flag.

| Action | Code |
|---|---|
| TouchChangeLevel, TimerThink, InputChangeLevel | the handlers of CChangeLevel; ChangeLevelNow is part of the last two |
| ClientPutInServer, Spawn, Killed, ClientDisconnect | join, CHL2MP_Player_fix::Spawn with RestoreClientState, Event_Killed, ClientDisconnect with SaveClientState |
| Score, BuyCompanion | how a player's state grows |
| EnableSpawnPoint | info_player_spawn and its kin, which mark every file |
| CleanupDeleteList | end of frame |
| RestartGame | CleanUpMap, respawn and Reset of every player |
| OrdinaryChange, ExecChangelevel, BeginChange | command buffer and engine |
| LevelShutdown, LevelInit | SaveGameState; transition or ResetSaveData |
| Crash, Boot | the process |

The number of players near an exit is any number its players allow: the geometry
is not modelled. The conversion of the percentage is, with its rounding.

### RockTheVote

The list is a sequence of handles; a handle whose entity is freed is `Null`. The
clean-up of the list is a loop with an index, and `FastRemove` moves the last
element, so the loop is modelled turn by turn (`scan`), with no other action in
between (guards `scan = 0`): the frame is atomic for everybody else. The first
client of a level takes longer to load it than a few frames, so the list is clean
of null handles when the first player of a level comes (guard of
ClientPutInServer).

### HL2MPRules

Time is counted in seconds: `restartIn` and `chatLeft` count down, `periodic`
says that a second has passed since the rules last looked at the console
variables. `ThinkRound` is a whole Think of a round: CheckAllPlayersReady,
CheckRestartGame, RestartGame when it is due, and the start of the ready
countdown, in that order. `life` distinguishes a death less than
DEATH_ANIMATION_TIME ago (`dying`), because `respawn` does not spawn that
player, and so does not reset his ready flag. `said` is a history variable: the
signals given since the last request. `over` is `g_fGameOver` with what set it:
an intermission, or `changelevel_next` (`ChangelevelNext`), which ends the game
without one. `calls` counts the changes of level the engine was asked for, and
`commands` (history) the `changelevel_next` among them.

### MapCycle

A frame has three parts: the engine executes the command buffer (`executing`),
the game runs (chat, votes and Think), and the change of level that a command
asked for (`target`) happens at the end. A command that is added while the buffer
is executed comes next, any other goes to the end (`public/tier1/CommandBuffer.h`).
The index counts from 0. `stale` says that the time of the file is not
`m_nMapCycleTimeStamp`; a file that is not found has no time. `moved` (history)
says that the index was moved since the list was loaded. `list` and `index` are
static: they outlive the level, and only a new process resets them.

| Action | Code |
|---|---|
| Nextmap, SkipNextMapInCycle, ExecGotoNext, ThinkGameOver | GetNextLevelName, with the reload and the growth of the list in it; the last two are ChangeLevel |
| LevelInit | constructor of the rules: `nextlevel` is emptied, LoadMapCycleFile |
| MapRecovery (in LevelInit) | C_ConCommandHelper::LevelInitPreEntity |
| GoToIntermission, ChatOver | the end of a level, at the limit of entities with a command |
| AskChange, SetNextlevel, EditFile, RemoveFile | votes, exits, operator |
| ExecChangelevel, RunGame, NextFrame, NewLevel, Boot, Crash | engine and process |

`maprecovery.txt` exists (the code writes it only if it does); one without a map
gives a `changelevel` with no name, which does nothing and is left out.

### EventQueue

`queue` is the list `m_Events`; the time of an event is what is `left` until it
is due, in units of the 0.001 s that `InputTrigger` adds to the longest delay
(`RefireGap`, which is 0 when `curtime` is so large that the sum is `curtime`
again). `stamp` is history: the rank of an event in the order of posting, kept
dense so that the state space is finite. `phase` is where the frame is. The
handler of an input runs while its event is still in the list, at position `pe`,
so what the handler adds or cancels may move or delete it. `FireOutput` and
`CancelEvents` are loops, modelled turn by turn with nothing in between.

| Action | Code |
|---|---|
| Post | AddEvent from thinks, touches and commands |
| Frame, ServiceEventQueue, ServiceDone | GameFrame, ServiceEvents |
| ServeNoOne, Served | an input without a target; RemoveEvent of the served event |
| InputFlags | InputEnable, InputDisable, InputToggle, InputEnableRefire |
| IgnoreTrigger, InputTrigger, FireOutput, SkipSpent, FiredAndRemoved, FiredFast, FiredAndWaits | InputTrigger of logic_relay with FireOutput and GetMaxDelay |
| InputCancelPending, CancelEvent, PassEvent, CancelDone | InputCancelPending with CancelEvents |
| Unnoticed | ServiceEvents goes on with an event it was made to delete, and nothing is noticed |
| SaveAndClear, RestoreEvent, RestoreDone | CEventQueue::Save and Restore, with the rounding of CSave::WriteTime |
| ClearQueue | CEventQueue::Clear when the map is cleaned up or loaded anew |

A relay whose output cancels its own pending events makes `ServiceEvents` unlink
and delete freed memory. That is undefined: the model goes to the phase
`undefined`, from which the server goes on unnoticed, starts anew, or does not
go on at all. `OutputsBeforeRefire` is what the comment in the code promises and
is violated; `StayingBeforeRefire` is what holds, and is proved. The refinement
of `TimedEvents` takes the event being served for fired and those about to be
restored for pending.

### NextBotBehavior

`action` is the memory: each place is free, or an action with its links
(`m_buriedUnderMe`, `m_coveringMe`, `m_parent`, `m_child`) and its pending event
result. An update is one step. What the virtual functions of an action answer
is left open (continue, change, suspend, be done, with a new action), and while
they run at most one event may reach the actions. Because an update is deeply
nested (an action is ended, another started, which starts a child, which may at
once change), the module's operators map a memory to the set of memories the
code may leave, in the order the code does it. They take as an argument `f` what
the calls they make do: `Deletions[n]` and `Runs[n]` are the destructors and the
calls of an update nested at most `n` deep, and an update is made of
`Runs[MaxCalls]`; deeper ones are left out, so the theorems speak of updates of any
finite depth.

| Definition | Code |
|---|---|
| Update, DoUpdate, Honour, Pending, OutOfScope | Behavior::Update, InvokeUpdate, ProcessPendingEvents, IsOutOfScope |
| BotEvent, Handled, Store | PROCESS_EVENT, StorePendingEventResult |
| DoApply: ChangeTo, SuspendFor, ResumeUnder | ApplyResult, case by case |
| OnStart with Link and StartChild, DoSuspend, DoResume, End with Ending | InvokeOnStart, InvokeOnSuspend, InvokeOnResume, InvokeOnEnd |
| DeleteAction, DeleteStack, PurgeDead; Delete, Purged | ~Action, the vector of dead actions |
| Reset, Destructed | IIntention::Reset with ~Behavior |

`wild` (history) says that a destructor or a pointer met a deleted action,
`missed` that an action was deleted in an update after it had begun and before
its OnEnd. Places are renumbered between updates (`Numbers`) by the order in which pointers
reach them, so that states that differ only in addresses are one state. An
action nothing points to any more is a leak in the code; its place is free in
the model.

What the model shows besides the properties, all of it outside what the bots of
this mod do (their main action is never suspended): ~Behavior ends only the top
of the stack of root actions and deletes from the bottom up, so root actions
that are covered get no OnEnd then (`EndedBeforeDeleted` speaks of updates
only); the dead action's destructor clears the pointer to what covers the one
under it, so that ~Behavior can leak the top; `SuspendFor` forgets a pending
result, a RESULT_CRITICAL one too, without deleting the action it was about.

### BotQuota

A slot holds nobody, a player or a bot, with its team and whether the quota
manages it. A kick is a command for the engine (`kicked`), executed before the
manager thinks again. The team a new bot is on when the manager looks for the
smaller one is the one it got on its first spawn: `JoinTeamAfter`.

| Action | Code |
|---|---|
| MaintainBotQuota (AddBot, KickBot) | CHL2MPBotManager::MaintainBotQuota, GetAvailableBotFromPool, UTIL_KickBotFromTeam |
| hl2mp_bot_add, hl2mp_bot_kick | the commands, with OnForceAddedBots and OnForceKickedBots |
| ClientPutInServer, HandleCommand_JoinTeam, ClientDisconnect | players |
| SetQuota | the operator sets hl2mp_bot_quota |
| Kickid, LevelChange | engine |

Only team games are modelled. In a game without teams bots stay unassigned and
count as not playing: every quarter of a second the pool returns the same bot,
and a quota is never reached. In a team game the pool also gives the manager
bots that were added with `noquota` and moved to the spectators; a bot whose
arrival made the teams equal is moved to the other one and killed at once,
because its team is looked for after it joined one (`hl2mp_bot_add` looks
before); and bots of the quota that are spectators hold slots that
`hl2mp_bot_auto_vacate` does not count, which is why `VacatesSlot` excepts them.

## Runs

| Run | Question | Instance | Result |
|---|---|---|---|
| TransitionExits | are the strings, the buffer and the saved levels consistent, whatever fires when? does the file hold what the player is owed, are companions conserved, do they stay behind? | 1 player, 2 maps, an exit to a missing map, a chapter exit, 2 commands, 1 frag, 1 companion | holds |
| TransitionPlayers | is progress ever in two places, or more than was earned (refinement of Carryover)? does a pending transition end? | 2 players, 2 maps, one-way, an exit to a missing map | holds |
| TransitionRevisit | can an exit be used on the next visit? | as TransitionExits, 1 command | **violated** |
| TransitionRestart | does a restart bring back every exit? | second map with more entities | **violated** |
| Votes | one vote each; no vote lost in the clean-up; by how much can a vote be short? is a vote of half of the players heard? | 5 players, list up to 6, 2 commands | holds |
| VoteHalf | does a vote need half of the players? | 5 players | **violated** |
| Rules | one change of level; the countdown begins when everybody is ready; do restarts happen, is a set of signals heard, is a level left? | 2 players, delays of 2 s, requests up to 3 s | holds |
| RulesRequest | does a new request wait for new signals? | 1 player | **violated** |
| RulesNext | is a commanded change of level the only one? | 1 player | **violated** |
| CycleSafe | does the index stay in the list and after the current map, does asking change it? | 3 maps and a missing one; cycles with a map twice, empty, and with the missing one; 2 commands, 1 crash | holds |
| Server | queue: in order, nothing lost, frames end, relays are woken? bot: are its actions a sound tree? quota: is it reached, is a slot left? cycle: is every entry played, does a server that died come back? | 5 relays and a queue posted to below 3 events; 4 actions, nesting 2; 3 slots, quota up to 2, the three modes; cycles of 4 (one map twice), 2 and 1, 2 crashes | holds |
| RelayRefire | may a relay fire again before its last output has been fired? | as Server | **violated** |

Why the bounds are enough to be interesting: two maps with exits to each other
give the revisit of a level, an ordinary change that names the map of a pending
transition and one that does not; two commands in the buffer give every way one
change overtakes another; one player is enough for all orders of joining, dying,
leaving and changing level of his own file, and two for steps that act on all
players at once. Percent 50 with two players needs a proper quorum. Five players
and six handles are enough for two rounds of moved null handles in one clean-up.
Delays longer than what the operator may ask for, and shorter, occur
(MaxAsk > DelayCap).
A cycle with a map twice needs the index to know where it is, an empty one and a
missing file the list that is made up of the current map; with two commands in
the buffer one overtakes, or follows, the other into the next level. The cycles of
`Server` have no missing maps: the code does not leave a level whose next map is
missing. The five relays are two that trigger one another without a delay, one
that cancels its own outputs (the event being served among them), one that is
removed as it fires, and one whose outputs overtake one another; a queue that is
posted to below three events grows longer by what relays add. Two units of time
per frame make events due at once, due together and not yet due. Four actions are
enough for a covered action with a child and a pending change; two levels for
children that are suspended with their parent. Four actions leave no room for calls
nested deeper than 12; `MaxCalls` is 20. Three slots hold a player, a bot of
the quota and one that is not.

The components of `Server` share no state, so they are not interleaved: the first
state says which of them a behaviour is about, and the others stay in their initial
states. Deadlock is checked in every run.

### What the violated runs show

* **TransitionRevisit** (`triggers.cpp:1734`). Firing an exit clears its touch
  function, which is saved with the level; `m_bTouched` is not saved, and is
  reset on the next visit. A revisited level has an exit that may fire again by
  its flags and that nobody can touch. What does hold, `FirstVisitUsable`, is proved.
* **TransitionRestart** (`hl2mp_gamerules.cpp:1316`). `g_MapEntityRefs` is
  rebuilt for a new game only; a restart after a transition walks the references
  of another level, which the comment there calls impossible. After a new game it
  does bring back every exit (`NewGameRestart`, proved).
* **VoteHalf** (`chat_command.cpp:294`). The loop removes the handle under its
  index with FastRemove and goes on: the handle moved there is not looked at.
  Two voters who leave in the same frame still count for one vote. The proved
  `ShortByHalfOfGone` bounds the damage.
* **RulesRequest** (`hl2mp_gamerules.cpp:1391`). A request for ready signals
  resets what was heard but no player's flag: repeated, it is answered at once by
  the old signals.
* **RelayRefire** (`logicrelay.cpp:158`). The delay after which a relay may fire
  again is read from its connections after those that fired for the last time have
  been removed: a relay whose slowest connection fires once may be triggered again,
  and fire, while that output of its own is still in the queue.
* **RulesNext** (`hl2mp_gamerules.cpp:329`). `changelevel_next` ends the game but
  marks neither the change as done nor an intermission as begun, so the Think of
  the same frame asks for a second change: the cycle is moved on by two, and the
  second `changelevel` waits for the level that comes. `ChangesOnce`, which is
  proved, says that it is never more than one too many.

## Fairness

Only the liveness runs use it.

* `LevelTransition`: weak fairness of the engine's steps (executing the buffer,
  ending the frame, disconnecting the clients of a level it leaves, shutting and
  initialising). These are the engine's main loop; no player and no trigger is
  assumed to do anything, and no crash to happen or not.
* `RockTheVote`: the steps of a frame's end, and a changelevel command that is
  in the buffer.
* `HL2MPRules`: Think runs every frame, seconds pass, and the engine executes a
  change of level it was asked for. Players and operator are under no fairness.
* `MapCycle` (`QuietSpec`): the engine's steps weakly fair; the end of a level, of
  the intermission and Think strongly, because the rules think in every frame and
  notice in one of them that time is over. Between them frames go on, so they are
  not enabled without interruption. Crashes are bounded and need not happen.

* `EventQueue`: frames are run and the queue is served (weakly fair), also when the
  level is left and restored again and again (frames strongly: between two
  restorations the engine runs one). Nobody is assumed to post anything.
* `BotQuota`: the manager thinks and the engine executes its kicks. Players and
  operator are under no fairness; that a quota is reached is stated of behaviours
  in which they stop interfering.
* `NextBotBehavior` has no liveness property and no fairness.

## Proofs

For every set of players, every set of maps and exits, and every bound:

* `LevelTransition_proofs`. The inductive invariant has three parts: control
  (the strings, the buffer and the phase: when a transition is pending the level
  named by `oldMap` is the one that runs, and a command is on its way), types,
  and the files (a spawned player has none; a debt is in the file with a client
  section, for the map owed; companions in the level, on the delete list, in the
  file and in a saved level add up to at most those bought). The invariants the
  runs check are not inductive alone: that a pending transition starts here needs
  to know what the strings are while a level is shut, and that companions are
  conserved needs the delete list to be empty whenever a player who left can come
  back. `CarriesOverCorrect` maps every step to a step of Carryover or a stutter.
  Beside the two violated runs stand the parts of those promises that hold:
  `FirstVisitUsableCorrect` (of a level that was not saved yet) and
  `NewGameRestartCorrect` (of a level that a campaign began).
* `RockTheVote_proofs`. `ShortByHalfOfGone` rests on: during a clean-up the null
  handles still in the list plus those already skipped never exceed the null
  handles it began with, since each handle moved by a removal comes from behind
  the index and at most one is skipped for one removed. That live votes are as
  many as handles that are not null uses `OneVoteEach` as an injection.
* `HL2MPRules_proofs`. The wait is over in the Think that hears everybody, so
  nothing has been heard while it lasts; and besides the commands one change of
  level is asked for, either as the intermission begins (limit of entities) or at
  its end or after a command, because the clock does not pass the end while a
  change is in the buffer.
* `MapCycle_proofs`. The inductive invariant: the index is in the list, or 0 when
  the list is empty; while it has not been moved it comes after the current map,
  or is 0 in a list that has no such map. The second half is what makes the list
  that grows without a file keep its index: the current map is put behind it, and
  it comes after it. That the first place of a map in a list exists (the code's
  loop from 0, a CHOOSE here) is proved from the well-foundedness of the strict
  subsets of a finite set.
* The companions that stay behind: a file that would carry one is written in the
  level that runs, and every file is marked while that level is shut to be left
  through an exit; when it is shut for a new campaign, or the process dies, no
  transition is left to take it (`StayInv`).
* `EventQueue_proofs`. Order and types come first: the list is in the order of
  times and stamps, the event being served is its head and is due, nothing before
  the event just added is later. `RefireInv` strengthens the rest: for every
  waiting relay an EnableRefire is in the queue or among the events being
  restored (`WakeInv`), and no connection of that relay that stays is behind it in
  the list (`InLine`); a relay that neither waits nor is busy has none
  (`IdleHasNone`); while it fires, `longest` bounds the time its connections have
  left (`FiringKnowsLongest`); while it is cancelling, those before the cursor
  are removed (`CancelledSoFar`). `Rising` says that what is being restored is
  in time order and not earlier than what is in the list, so that it goes to the
  end. No step needs `RefireGap` to be 1: at equal times a new event goes behind
  the others. Saving and restoring keep the order because `SavedTime` is
  monotone on the times that are left when a level is saved.

* `TimedEvents_proofs`. The queue implements `TimedEvents` (`FiresInOrder`), step
  by step, from the order invariant. The mapping leaves out the event being served
  and numbers the events being restored behind the list, so the proof has two
  parts. A list as a set: taking an event out of the list and closing the gap in
  the ranks is taking it out of the set (`RemoveIsLeftOf`), and taking out two is
  the same in either order (`TakeTwo`), which is what a handler that cancels other
  events needs. Saving: the rank of an event after the restoration is the number of
  events that are not after it in the saved list (`RankInOrder`), so the times
  change as `SavedTime` changes them and the order does not.
* `BotQuota_proofs`. The invariant is the types, with: only bots are of the quota,
  and only bots are kicked. The manager's next bot is the first of a set of slots;
  that there is a first one is proved from the well-foundedness of <. Every step of
  the manager, and of the kicks it waits for, brings a measure down (bots that are
  not of the quota; how many are missing or too many; how many are about to leave);
  away from the quota there is a step to make; and at the quota a slot is free.

* `NextBotBehavior_proofs`. What an update leaves behind is the outcome of nested
  calls, so the proof has two halves. Each operator, given calls `f` that do what
  they should, does what it should itself, and so do `Deletions[n]` and `Runs[n]` for
  every n, by induction on n (`NatAll`, the least element of the numbers that fail).
  `ActionTypeCorrect`: no callback, no deletion and no renumbering leaves the types,
  and a pending result has an action exactly if it is a change to one. The
  renumbering is proved to be a one-to-one numbering of what the top reaches.
  `DeletionFrees`: of an action that nothing covers and whose children and pending
  result form a forest (`Deletable`), ~Action frees exactly these, each once, and
  changes, of those that stay, only the links to it; its proof follows the recursion
  over children, what is buried under them and their pending results.
  `StackSoundCorrect`, `EndedFirstCorrect` and `CoveredSuspendedCorrect` state the
  three properties of the module for any number of actions and any depth. None of
  them is inductive, and between two updates they follow from `ActionInv`: the memory
  is `Tidy` (links match in both directions, nothing is a child or covered twice,
  pending results are actions that nothing else points to), and what is on top is
  covered by nothing. In the middle of an update far less holds, and `Sound` says
  what: an action that has ended is still linked, until the vector of dead actions is
  purged, to what it was part of (`own` is a witness that says with which ended
  action each will be deleted); the child pointers of the actions whose calls are in
  progress are stale (`calling`), and may be read only after the call returns and
  sets them; an action may be covered by one that is about to be replaced (`bare`).
  `Promises` is the contract of each call of an update (suspend, resume, update,
  apply, apply to an action not started): it keeps `Sound`, what it returns is on top
  (`OnTop`), and of what has ended, is dead or is calling it leaves all that is still
  needed (`Keeps`); `RunsPromise` proves it for every depth, one lemma to a function
  of the code (`DoSuspendSound`, `ChangeToSound`, `EndSound`, `LinkSoundly`). Purging
  needs an order: a dead action lies in the vector before all that its tree was part
  of (`DeadSound`), so the first one is `Deletable` and the rest stay sound
  (`DeletionsPurge`). Renumbering keeps what is tidy (`MovedSound`); and ~Behavior,
  which starts at the bottom of the stack and goes up what covers it, frees a whole
  pile without meeting anything freed (`DeletePileGone`, `DestructedSound`). That
  there is a bottom is a pigeonhole argument: places are finite, and none is under two.

What a liveness property needs besides fairness is safety, and that part of it is
proved as an invariant or an action property (`X` is checked, its core proved):

| Liveness | Its safety core | What it says |
|---|---|---|
| PendingEnds | PendingMovesOn | a pending transition never goes back a stage, nobody comes into a level that is left, the engine's next step ends it or takes it on |
| MajorityIsHeard | MajorityIsCounted | a carried vote stays carried during its clean-up, which comes to its end and asks for the change |
| RestartHappens | RestartComesNearer | an announced restart comes nearer with every second; only a request, the end of the level or of a wait puts it off |
| ReadyIsHonoured | ReadyIsHeard | no step puts off the Think that hears everybody, and that Think ends the wait |
| LevelEnds | OverIsLeft | a level that is over stays over, and a change is asked for, waited for, or about to be asked for |
| EveryEntryPlayed | EntriesInOrder | the server left to itself loads the entries in the order of the file, without a gap |
| Recovers | RecordIsKept | the recorded map is replaced only when it was loaded |
| FrameEnds | ServiceGetsNearer | every step of ServiceEvents and its handlers brings a measure down or ends the frame |
| RefireEnds | WaitingIsWoken | the event that wakes a waiting relay is on its way |
| QuotaReached | ManagerGetsNearer, ManagerIsNotStuck | above |
| VacatesSlot | SettledLeavesSlot | above |

`EntriesInOrder` and `RecordIsKept` are properties of `QuietSpec`, whose invariant
`QuietInv` says what a server left to itself is doing: on its way back to the
recorded map (`Returns`), or at or between the entries of its cycle (`Plays`). The
measure of `ServiceGetsNearer` is lexicographic: the due events that may make a
relay ready again (EnableRefire, CancelPending); the relays that are ready; whether
the relay that fires will not be ready afterwards; its connections, or else the
events that are due; the turns of the handler. It needs `Harmless`: finitely many
relays, the 0.001 s counting (`RefireGap` = 1), and among the connections without a
delay no CancelPending and none of a relay with SF_ALLOW_FAST_RETRIGGER. Each part
is needed: two relays that trigger each other without a delay go on for ever when
they need not wait, when the moment they wait is no moment, or when one wakes the
other by a CancelPending; nothing in the code forbids a map to have them. That
these facts, with fairness, give the liveness property is not proved; TLC checks it.

Assumptions are those of the constants, named in the modules (`MapsAssumption`,
`ExitsAssumption`, `BoundsAssumption`, `NoFileAssumption`, `PlayersAssumption`,
`TimesAssumption`, `NamesAssumption`, `RelaysAssumption`, `DelaysAssumption`,
`ClientsAssumption`, `SettingsAssumption`, `ActionsAssumption`), and `Harmless`, a hypothesis of
`ServiceGetsNearerCorrect` alone.

Only model-checked: the liveness properties of the table, liveness under fairness
being out of the prover's reach. Every invariant and action property that a passing
run checks is proved.

## Plan

`LevelTransition`, `Carryover`, `RockTheVote`, `HL2MPRules`, `MapCycle`,
`EventQueue`, `TimedEvents`, `NextBotBehavior` and `BotQuota` are done. Next:

1. Composition: RockTheVote and HL2MPRules over the command buffer of MapCycle
   (two votes in one level; RulesNext in the cycle), MapRecovery with the boot of
   LevelTransition.
2. Abstract specification of the cycle: the sequence of the maps played by a
   server left to itself, implemented by QuietSpec.
3. `SpawnPoints`, `PlayerCount`, `CountdownTimer`, `VehicleSpawn`: counters and
   handles against the entities that are there.
4. The bots' shared saved file in LevelTransition; BotQuota without teams.
5. Chat points (save, tp, mtp); teams; merchant.
6. Operators: the number of players needed that an exit displays against the
   number that fires it, over bounded inputs.

Theorems planned: QuietSpec implements the abstract cycle of 2; counters equal the
entities of 3.

## Not modelled

Field-by-field serialisation of entities (a saved level is one value), geometry
and physics, weapons and NPC behaviour, networking and the client, the other
games of the SDK, vendored code (SQLite, zlib and other libraries), tables read at start
(admins, translations, downloads, stripper). Files that cannot be read or
written, and the saved file that all bots share, are not modelled yet. Of the
queue, `CancelEventOn` and `HasEventPending` (one NPC uses them), several entities
of one name, and the debugging step mode are left out; of the bots, what an action
does in its OnEnd, when a bot is updated, and the manager's clock: nothing in this
mod calls `CHL2MPBotManager::LevelShutdown`, so the time of its next thought is one
of the level before.
