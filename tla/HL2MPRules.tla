----------------------------- MODULE HL2MPRules -----------------------------
(***************************************************************************)
(* The round of a level (CHL2MPRules): restarts asked for by the operator  *)
(* (mp_restartgame) or by every player's ready signal (mp_readyrestart),   *)
(* and the intermission that ends the level.  Think runs every frame and   *)
(* looks at the console variables and the ready signals once a second.     *)
(*                                                                         *)
(* Time is counted in seconds.  What ends a level (the time limit, the     *)
(* frag limit, too many entities, a vote) is left to the environment, and  *)
(* the maps of the map cycle are on the server.                            *)
(***************************************************************************)
EXTENDS Integers, FiniteSets

CONSTANTS
    Players,    \* clients and bots: everything UTIL_PlayerByIndex returns
    MaxAsk,     \* bound on the delay an operator asks for
    DelayCap,   \* the longest delay mp_restartgame gives (60)
    ReadyDelay, \* the delay once every player is ready (5)
    ChatTime,   \* mp_chattime
    MaxNext     \* bound on the changelevel_next commands of a level

ASSUME TimesAssumption == /\ MaxAsk \in Nat
                          /\ DelayCap \in Nat \ {0} /\ ReadyDelay \in Nat \ {0}
                          /\ ChatTime \in Nat \ {0} /\ MaxNext \in Nat

NoRestart == -1

VARIABLES
    life,       \* [Players -> "out", "alive", "dying", "dead"]
    ready,      \* the players whose m_bReady is set
    said,       \* history: who gave the signal since the last request
    askRestart, askReady,   \* mp_restartgame, mp_readyrestart
    awaiting, heard,        \* m_bAwaitingReadyRestart, m_bHeardAllPlayersReady
    restartIn,  \* seconds until m_flRestartGameTime, or NoRestart
    periodic,   \* m_tmNextPeriodicThink has passed
    over,       \* g_fGameOver: "no", or what set it, "intermission" or "command"
    chatLeft,   \* seconds until m_flIntermissionEndTime
    done,       \* m_bChangelevelDone
    calls,      \* changes of level asked of the engine in this level
    commands    \* history: changelevel_next commands executed in this level

playerVars == <<life, ready, said>>
cvars      == <<askRestart, askReady>>
roundVars  == <<awaiting, heard, restartIn, periodic>>
overVars   == <<over, chatLeft, done, calls, commands>>
vars       == <<playerVars, cvars, roundVars, overVars>>

InGame == {p \in Players : life[p] # "out"}
GameOver == over # "no"
\* CheckAllPlayersReady: with nobody in the game everybody is ready.
AllReady == InGame \subseteq ready
-----------------------------------------------------------------------------
(* Players.                                                                *)

ClientPutInServer(p) ==
    /\ life[p] = "out"
    /\ life' = [life EXCEPT ![p] = "alive"]
    /\ UNCHANGED <<ready, said, cvars, roundVars, overVars>>

ClientDisconnect(p) ==
    /\ p \in InGame
    /\ life' = [life EXCEPT ![p] = "out"]
    /\ ready' = ready \ {p} /\ said' = said \ {p}
    /\ UNCHANGED <<cvars, roundVars, overVars>>

Killed(p) ==
    /\ life[p] = "alive"
    /\ life' = [life EXCEPT ![p] = "dying"]
    /\ UNCHANGED <<ready, said, cvars, roundVars, overVars>>

\* CHL2MP_Player::Spawn, DEATH_ANIMATION_TIME after the death.
Spawn(p) ==
    /\ life[p] = "dead"
    /\ life' = [life EXCEPT ![p] = "alive"]
    /\ ready' = ready \ {p}
    /\ UNCHANGED <<said, cvars, roundVars, overVars>>

\* A player, dead or alive, says the ready signal.
CheckChatForReadySignal(p) ==
    /\ p \in InGame
    /\ awaiting
    /\ ready' = ready \cup {p} /\ said' = said \cup {p}
    /\ UNCHANGED <<life, cvars, roundVars, overVars>>
-----------------------------------------------------------------------------
(* The operator and the clock.                                             *)

AskRestart(n) ==
    /\ askRestart' = n
    /\ UNCHANGED <<playerVars, askReady, roundVars, overVars>>

AskReady ==
    /\ askReady' = TRUE
    /\ UNCHANGED <<playerVars, askRestart, roundVars, overVars>>

\* A second passes.  A change of level the engine was asked for takes less.
Second ==
    /\ calls = 0
    /\ life' \in [Players -> {"out", "alive", "dying", "dead"}]
    /\ \A p \in Players : \/ life'[p] = life[p]
                          \/ life[p] = "dying" /\ life'[p] = "dead"
    /\ restartIn' = IF restartIn > 0 THEN restartIn - 1 ELSE restartIn
    /\ chatLeft' = IF chatLeft > 0 THEN chatLeft - 1 ELSE chatLeft
    /\ periodic' = TRUE
    /\ UNCHANGED <<ready, said, cvars, awaiting, heard, over, done, calls, commands>>
-----------------------------------------------------------------------------
(* Think.                                                                  *)

\* GoToIntermission; at the limit of entities with an immediate change.
ThinkLimit(full) ==
    /\ ~ GameOver
    /\ over' = "intermission"
    /\ chatLeft' = ChatTime
    /\ calls' = IF full THEN calls + 1 ELSE calls
    /\ UNCHANGED <<playerVars, cvars, roundVars, done, commands>>

\* A vote or an operator: changelevel_next is executed.  ChangeLevelToMap sets
\* g_fGameOver, and nothing else that the intermission would.
ChangelevelNext ==
    /\ commands < MaxNext
    /\ commands' = commands + 1
    /\ calls' = calls + 1
    /\ over' = IF GameOver THEN over ELSE "command"
    /\ UNCHANGED <<playerVars, cvars, roundVars, chatLeft, done>>

BadIntermissionOver == GameOver /\ chatLeft = 0           \* done is not looked at
Bad2IntermissionOver ==                                   \* waits for a restart
    GameOver /\ chatLeft = 0 /\ ~ done /\ restartIn = NoRestart
IntermissionOver == GameOver /\ chatLeft = 0 /\ ~ done
ThinkGameOver ==
    /\ IntermissionOver
    /\ calls' = calls + 1
    /\ done' = TRUE
    /\ UNCHANGED <<playerVars, cvars, roundVars, over, chatLeft, commands>>

\* CheckRestartGame, when it is time to look: a request for ready signals
\* calls off the restart in progress.
Asked == periodic /\ askReady
BadAskedDelay == IF periodic /\ askRestart > 0 THEN askRestart ELSE restartIn
                                                          \* any delay
Bad2AskedDelay == IF periodic /\ restartIn >= 0 THEN DelayCap ELSE restartIn
                                                          \* starts over every second
AskedDelay == IF Asked THEN NoRestart
              ELSE IF ~ periodic \/ askRestart = 0 THEN restartIn
              ELSE IF askRestart > DelayCap THEN DelayCap ELSE askRestart

BadHeardNow == heard \/ (periodic /\ AllReady)            \* not reset on a request
Bad2HeardNow == heard                                     \* nobody listens
HeardNow == (heard \/ (periodic /\ AllReady)) /\ ~ Asked

AwaitingNow == awaiting \/ Asked

\* RestartGame respawns everybody whose death is not a moment ago.
Respawned == {p \in InGame : life[p] # "dying"}

\* Every player has given the signal: the restart is due in ReadyDelay.
EveryoneReady == AwaitingNow /\ HeardNow

ReadyAfter == IF AskedDelay = 0 THEN ready \ Respawned ELSE ready

ThinkRound ==
    /\ ~ GameOver
    /\ periodic' = FALSE
    /\ askReady' = (askReady /\ ~ periodic)
    /\ askRestart' = IF periodic THEN 0 ELSE askRestart
    /\ said' = IF Asked THEN {} ELSE said
    /\ heard' = HeardNow
    /\ awaiting' = (AwaitingNow /\ ~ HeardNow)
    /\ life' = IF AskedDelay = 0
               THEN [p \in Players |-> IF p \in Respawned THEN "alive" ELSE life[p]]
               ELSE life
    /\ ready' = ReadyAfter
    /\ restartIn' = IF EveryoneReady THEN ReadyDelay
                    ELSE IF AskedDelay = 0 THEN NoRestart ELSE AskedDelay
    /\ UNCHANGED overVars

Think == ThinkGameOver \/ ThinkRound
-----------------------------------------------------------------------------
\* The level is changed: the rules are made anew, the console variables stay.
NewLevel ==
    /\ life' = [p \in Players |-> "out"]
    /\ ready' = {} /\ said' = {}
    /\ awaiting' = FALSE /\ heard' = FALSE /\ restartIn' = NoRestart /\ periodic' = TRUE
    /\ over' = "no" /\ chatLeft' = 0 /\ done' = FALSE /\ calls' = 0 /\ commands' = 0
    /\ UNCHANGED cvars

Init ==
    /\ life = [p \in Players |-> "out"]
    /\ ready = {} /\ said = {}
    /\ askRestart = 0 /\ askReady = FALSE
    /\ awaiting = FALSE /\ heard = FALSE /\ restartIn = NoRestart /\ periodic = TRUE
    /\ over = "no" /\ chatLeft = 0 /\ done = FALSE /\ calls = 0 /\ commands = 0

Next == \/ \E p \in Players : \/ ClientPutInServer(p) \/ ClientDisconnect(p)
                              \/ Killed(p) \/ Spawn(p) \/ CheckChatForReadySignal(p)
        \/ \E n \in 1..MaxAsk : AskRestart(n)
        \/ AskReady
        \/ Second
        \/ \E full \in BOOLEAN : ThinkLimit(full)
        \/ ChangelevelNext
        \/ Think
        \/ NewLevel

\* Frames are run, time passes, and the engine does what it is asked for.
Fairness == WF_vars(Think) /\ WF_vars(Second) /\ WF_vars(calls > 0 /\ NewLevel)

Spec == Init /\ [][Next]_vars /\ Fairness
-----------------------------------------------------------------------------
\* Every variable holds a value of its type; a restart is never further away
\* than the longer of the two delays, and only players in the game are ready.
TypeOK ==
    /\ life \in [Players -> {"out", "alive", "dying", "dead"}]
    /\ ready \subseteq InGame /\ said \subseteq InGame
    /\ askRestart \in 0..MaxAsk /\ askReady \in BOOLEAN
    /\ awaiting \in BOOLEAN /\ heard \in BOOLEAN /\ periodic \in BOOLEAN
    /\ restartIn \in NoRestart..ReadyDelay \cup 0..DelayCap
    /\ over \in {"no", "intermission", "command"} /\ chatLeft \in 0..ChatTime
    /\ done \in BOOLEAN /\ calls \in Nat /\ commands \in 0..MaxNext

\* A request for ready signals is pending until the countdown begins.
Pending == askReady \/ awaiting

\* A request is answered, and the countdown begins, only when every player in
\* the game is ready; that everybody was ready before the request does not
\* count.
CountdownWhenReady ==
    [][ThinkRound => (Pending /\ ~ Pending' => AllReady)]_vars

\* A request for ready signals calls off the restart in progress: the next one
\* waits until every player in the game has given the signal again.
SignalAfterRequest ==
    [][ThinkRound => (Pending /\ ~ Pending' => InGame \subseteq said)]_vars

\* Besides those that were commanded, one change of level is asked for: the
\* intermission, its end and the frames after it do not ask twice.
ChangesOnce == calls <= commands + 1

\* changelevel_next "immediately changes to the next map": without an
\* intermission only the commands ask for a change of level.
NextIsOneChange == over = "command" => calls <= commands

\* A restart that was announced happens, unless the level is over or another
\* request replaces it.
RestartHappens ==
    restartIn # NoRestart ~>
        restartIn = NoRestart \/ GameOver \/ askRestart > 0 \/ askReady

\* When all players are ready the wait is over, unless one of them leaves or is
\* respawned, somebody comes, the level is over or the request is repeated.
ReadyIsHonoured ==
    awaiting /\ AllReady ~> ~ awaiting \/ ~ AllReady \/ GameOver \/ askReady

\* A level that is over is left.
LevelEnds == GameOver ~> ~ GameOver
=============================================================================
