------------------------------ MODULE BotQuota ------------------------------
(***************************************************************************)
(* The bots that fill up a team game (CHL2MPBotManager): every quarter of  *)
(* a second the manager counts who plays and adds or kicks one bot, while  *)
(* players come, change teams and leave and the operator adds and kicks    *)
(* bots of his own.                                                        *)
(*                                                                         *)
(* A client is who he is to the manager: a bot or not, of the quota or     *)
(* not, on a team.  Who is dead (kicked first) and who is winning is left  *)
(* open.  A kick is a command: the bot leaves later, but before the        *)
(* manager thinks again.  Time is not modelled.                            *)
(***************************************************************************)
EXTENDS Integers, FiniteSets

CONSTANTS
    MaxClients,
    MaxQuota,   \* bound on hl2mp_bot_quota
    Settings    \* hl2mp_bot_quota_mode, _auto_vacate and _join_after_player

ASSUME ClientsAssumption == MaxClients \in Nat \ {0} /\ MaxQuota \in Nat
ASSUME SettingsAssumption ==
    Settings \subseteq [mode : {"normal", "fill", "match"}, vacate : BOOLEAN, after : BOOLEAN]

VARIABLES
    client,     \* who is in each slot, see Human and Bot
    quota,      \* hl2mp_bot_quota
    setting

botVars == <<client, quota, setting>>

GameTeams == {"rebels", "combine"}
Teams == GameTeams \cup {"spectator"}
Slots == 1..MaxClients

\* managed: QUOTA_MANANGED; kicked: kickid is in the command buffer.
Client(bot, managed, team) ==
    [bot |-> bot, managed |-> managed, team |-> team, kicked |-> FALSE]
Human(t) == Client(FALSE, FALSE, t)
Bot(m, t) == Client(TRUE, m, t)
Vacant == Client(FALSE, FALSE, "none")

Connected == {i \in Slots : client[i] # Vacant}
Bots == {i \in Slots : client[i].bot}
Managed == {i \in Slots : client[i].managed}
OnTeam(t) == {i \in Slots : client[i].team = t}
Playing == {i \in Slots : client[i].team \in GameTeams}

Size(t) == Cardinality(OnTeam(t))
Full == Connected = Slots

\* A client takes the first free slot.
FirstFree == CHOOSE i \in Slots \ Connected : \A j \in Slots \ Connected : i <= j
Connects(c) == client' = [client EXCEPT ![FirstFree] = c]
-----------------------------------------------------------------------------
(* MaintainBotQuota.                                                       *)

Larger(x, y) == IF x > y THEN x ELSE y
Smaller(x, y) == IF x < y THEN x ELSE y

\* By the mode, for players on the teams who are not bots of the quota.
ByMode == LET players == Cardinality(Playing \ Managed) IN
          CASE setting.mode = "fill" -> Larger(0, quota - players)
            [] setting.mode = "match" -> quota * players
            [] OTHER -> quota

Nobody == OnTeam("spectator") \cup Playing \subseteq Managed

BadOpenSlots == 0                                         \* none for a player
OpenSlots == IF setting.vacate THEN 1 ELSE 0
Desired ==
    Smaller(IF setting.after /\ Nobody THEN 0 ELSE ByMode,
            MaxClients - Cardinality(Connected \ Managed) - OpenSlots)

\* The smaller team, of those that are counted now.
JoinTeam == IF Size("rebels") < Size("combine") THEN "rebels" ELSE "combine"

\* PickDefaultSpawnTeam
SpawnTeams == {t \in GameTeams : \A u \in GameTeams : Size(t) <= Size(u)}

\* The new bot is on a team by the time the manager looks for the smaller one.
JoinTeamAfter(t) ==
    IF Size("rebels") + (IF t = "rebels" THEN 1 ELSE 0)
       < Size("combine") + (IF t = "combine" THEN 1 ELSE 0)
    THEN "rebels" ELSE "combine"

\* GetAvailableBotFromPool: the first that does not play.
Pool == {i \in Bots : client[i].team = "spectator"}
FromPool == CHOOSE i \in Pool : \A j \in Pool : i <= j

BadAddBot == ~ Full /\ Connects(Bot(TRUE, JoinTeam))      \* not from the pool
AddBot ==
    \/ Pool # {} /\ client' = [client EXCEPT ![FromPool] = Bot(TRUE, JoinTeam)]
    \/ /\ Pool = {} /\ ~ Full
       /\ \E t \in SpawnTeams : Connects(Bot(TRUE, JoinTeamAfter(t)))

\* UTIL_KickBotFromTeam, of the team that has more players, or is winning; of
\* the other when this one has no bots of the quota.
KickTeams == {t \in GameTeams : \A u \in GameTeams : Size(t) >= Size(u)}

KickBot ==
    \E t \in KickTeams, u \in GameTeams :
        /\ u = t \/ Managed \cap OnTeam(t) = {}
        /\ \E i \in Managed \cap OnTeam(u) : client' = [client EXCEPT ![i].kicked = TRUE]

MaintainBotQuota ==
    /\ \A i \in Slots : ~ client[i].kicked
    /\ LET playing == Cardinality(Managed \cap Playing) IN
       \/ Desired > playing /\ AddBot
       \/ Desired < playing /\ KickBot
    /\ UNCHANGED <<quota, setting>>

\* The engine runs the command.
Kickid(i) ==
    /\ client[i].kicked
    /\ client' = [client EXCEPT ![i] = Vacant]
    /\ UNCHANGED <<quota, setting>>
-----------------------------------------------------------------------------
(* Players, the operator, and the change of level.                         *)

ClientPutInServer ==
    /\ ~ Full
    /\ \E t \in SpawnTeams : Connects(Human(t))
    /\ UNCHANGED <<quota, setting>>

HandleCommand_JoinTeam(i, t) ==
    /\ i \in Connected \ Bots /\ client[i].team # t
    /\ client' = [client EXCEPT ![i].team = t]
    /\ UNCHANGED <<quota, setting>>

ClientDisconnect(i) ==
    /\ i \in Connected \ Bots
    /\ client' = [client EXCEPT ![i] = Vacant]
    /\ UNCHANGED <<quota, setting>>

SetQuota(q) ==
    /\ q # quota
    /\ quota' = q
    /\ UNCHANGED <<client, setting>>

\* With OnForceAddedBots; t is asked for, or the smaller team.
hl2mp_bot_add(t, noquota) ==
    /\ ~ Full /\ (noquota \/ quota < MaxQuota)
    /\ Connects(Bot(~ noquota, t))
    /\ quota' = IF noquota THEN quota ELSE quota + 1
    /\ UNCHANGED setting

\* With OnForceKickedBots: the bots of S are kicked, or moved to the spectators.
hl2mp_bot_kick(S, moveToSpectatorTeam) ==
    /\ S # {}
    /\ client' = [i \in Slots |->
          IF i \notin S THEN client[i]
          ELSE IF moveToSpectatorTeam THEN [client[i] EXCEPT !.team = "spectator"]
          ELSE [client[i] EXCEPT !.kicked = TRUE]]
    /\ quota' = Larger(0, quota - Cardinality(S \cap Managed))
    /\ UNCHANGED setting

\* All, those of a team, or one by his name.
MayBeNamed == {Bots} \cup {Bots \cap OnTeam(t) : t \in GameTeams} \cup {{i} : i \in Bots}

\* The engine drops the bots when the level changes; the players come back.
LevelChange ==
    /\ Bots # {}
    /\ client' = [i \in Slots |-> IF i \in Bots THEN Vacant ELSE client[i]]
    /\ UNCHANGED <<quota, setting>>
-----------------------------------------------------------------------------
BotInit == /\ client = [i \in Slots |-> Vacant]
           /\ quota = 0 /\ setting \in Settings

Manager == MaintainBotQuota \/ \E i \in Slots : Kickid(i)

Others ==
    \/ ClientPutInServer \/ LevelChange
    \/ \E i \in Slots : ClientDisconnect(i) \/ \E t \in Teams : HandleCommand_JoinTeam(i, t)
    \/ \E q \in 0..MaxQuota : SetQuota(q)
    \/ \E t \in GameTeams, noquota \in BOOLEAN : hl2mp_bot_add(t, noquota)
    \/ \E S \in MayBeNamed, spectate \in BOOLEAN : hl2mp_bot_kick(S, spectate)

BotNext == Manager \/ Others

\* The frames run, and with them the command buffer.
BotSpec == BotInit /\ [][BotNext]_botVars /\ WF_botVars(Manager)
-----------------------------------------------------------------------------
\* "If 'fill', the server will adjust bots to keep N players in the game": left
\* alone, the manager comes to the number of bots that the mode asks for and the
\* slots allow, and stays there; it does not add and kick for ever.
QuotaReached ==
    \/ []<><<Others>>_botVars
    \/ <>[](Cardinality(Managed \cap Playing) = Larger(0, Desired))

\* "If nonzero, bots will automatically leave to make room for human players":
\* left alone, the manager keeps a slot open, unless bots of its own hold it as
\* spectators, or others hold them all.
VacatesSlot ==
    setting.vacate =>
        \/ []<><<Others>>_botVars
        \/ <>[](~ Full \/ ~ Managed \subseteq Playing \/ Managed = {})
=============================================================================
