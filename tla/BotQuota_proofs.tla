--------------------------- MODULE BotQuota_proofs ---------------------------
(***************************************************************************)
(* What the bot manager does, for any number of slots, any quota and any   *)
(* settings: what a run of frames needs to reach the quota, step by step.  *)
(***************************************************************************)
EXTENDS BotQuota, FiniteSetTheorems, WellFoundedInduction, TLAPS

Records == [bot : BOOLEAN, managed : BOOLEAN, team : Teams \cup {"none"}, kicked : BOOLEAN]

\* Every slot is vacant or holds a client on a team; only bots are of the quota,
\* and only bots are kicked.
BotTypeOK ==
    /\ client \in [Slots -> Records]
    /\ quota \in 0..MaxQuota /\ setting \in Settings
    /\ \A i \in Slots :
        /\ client[i].team = "none" => client[i] = Vacant
        /\ client[i].managed \/ client[i].kicked => client[i].bot

\* Bots of the quota that play and are not about to leave.
Remaining == {i \in Managed \cap Playing : ~ client[i].kicked}
Leaving == {i \in Slots : client[i].kicked}
Unmanaged == Bots \ Managed

\* How many bots the manager has yet to add or to kick.
Distance == LET n == Cardinality(Remaining)
                d == Larger(0, Desired)
            IN  IF n > d THEN n - d ELSE d - n

\* Nearer to the quota: a bot that was not of it is taken or leaves, or one is
\* added or kicked, or one that was kicked leaves.
Nearer ==
    \/ Cardinality(Unmanaged') < Cardinality(Unmanaged)
    \/ /\ Unmanaged' = Unmanaged
       /\ Desired' = Desired
       /\ \/ Distance' < Distance
          \/ Distance' = Distance /\ Cardinality(Leaving') < Cardinality(Leaving)

\* Nobody is about to leave, and as many bots play as the mode asks for.
Settled == Leaving = {} /\ Cardinality(Managed \cap Playing) = Larger(0, Desired)

\* The manager does not add and kick for ever: it gets nearer to the quota with
\* every step, and makes none once it is there.
ManagerGetsNearer == [][Manager => ~ Settled /\ Nearer]_botVars

\* Whoever is not a bot keeps his slot and his team.
PlayersAreLeftAlone ==
    [][Manager => \A i \in Connected \ Bots : client'[i] = client[i]]_botVars

\* There is a bot, or a slot, to add one; there is one on a team that is kicked.
AddBotIsPossible == Pool # {} \/ ~ Full
KickBotIsPossible ==
    \E t \in KickTeams, u \in GameTeams : /\ u = t \/ Managed \cap OnTeam(t) = {}
                                          /\ Managed \cap OnTeam(u) # {}
\* Away from the quota the manager, or a kick it waits for, can make a step.
ManagerIsNotStuck ==
    ~ Settled =>
        \/ Leaving # {}
        \/ Desired > Cardinality(Managed \cap Playing) /\ AddBotIsPossible
        \/ Desired < Cardinality(Managed \cap Playing) /\ KickBotIsPossible

\* At the quota a slot is free for a player, unless bots of the quota hold slots
\* as spectators or there are none.
SettledLeavesSlot ==
    Settled /\ setting.vacate =>
        ~ Full \/ ~ Managed \subseteq Playing \/ Managed = {}
-----------------------------------------------------------------------------
(* Slots and teams.                                                        *)

LEMMA SlotsAreFinite ==
    ASSUME NEW S \in SUBSET Slots
    PROVE  IsFiniteSet(S) /\ Cardinality(S) \in Nat /\ Cardinality(S) <= MaxClients
<1>1. IsFiniteSet(Slots) /\ Cardinality(Slots) = MaxClients
  BY ClientsAssumption, FS_Interval DEF Slots
<1> QED
  BY <1>1, FS_Subset, FS_CardinalityType

LEMMA SmallestSlot ==
    ASSUME NEW S \in SUBSET Slots, S # {}
    PROVE  \E i \in S : \A j \in S : i <= j
<1>1. S \subseteq Nat
  BY DEF Slots
<1>2. PICK i \in S : \A j \in S : ~ (<<j, i>> \in OpToRel(<, Nat))
  BY <1>1, NatLessThanWellFounded, WFMin
<1>3. \A j \in S : ~ (j < i)
  BY <1>1, <1>2 DEF OpToRel
<1> QED
  BY <1>1, <1>3

LEMMA FreeSlot == ~ Full => FirstFree \in Slots \ Connected
<1> SUFFICES ASSUME ~ Full PROVE FirstFree \in Slots \ Connected
  OBVIOUS
<1>1. Slots \ Connected \in SUBSET Slots /\ Slots \ Connected # {}
  BY DEF Full, Connected
<1> QED
  BY <1>1, SmallestSlot DEF FirstFree

LEMMA PoolSlot == Pool # {} => FromPool \in Pool
BY SmallestSlot DEF FromPool, Pool, Bots

LEMMA ChosenTeams == /\ JoinTeam \in GameTeams
                     /\ \A t : JoinTeamAfter(t) \in GameTeams
BY DEF JoinTeam, JoinTeamAfter, GameTeams
-----------------------------------------------------------------------------
(* Types.                                                                  *)

LEMMA BotTypeInit == BotInit => BotTypeOK
BY ClientsAssumption DEF BotInit, BotTypeOK, Records, Vacant, Client

\* A slot is filled, emptied or changed.
LEMMA ReplaceType ==
    ASSUME BotTypeOK, NEW i \in Slots, NEW c \in Records,
           c.team = "none" => c = Vacant, c.managed \/ c.kicked => c.bot,
           client' = [client EXCEPT ![i] = c], quota' \in 0..MaxQuota, setting' \in Settings
    PROVE  BotTypeOK'
BY DEF BotTypeOK

LEMMA NewClients ==
    /\ Vacant \in Records /\ Vacant.team = "none" /\ ~ Vacant.bot /\ ~ Vacant.managed
    /\ ~ Vacant.kicked
    /\ \A m \in BOOLEAN, t \in Teams :
          /\ Bot(m, t) \in Records /\ Bot(m, t).team = t /\ Bot(m, t).bot
          /\ Bot(m, t).managed = m /\ ~ Bot(m, t).kicked
          /\ Human(t) \in Records /\ Human(t).team = t /\ ~ Human(t).bot
          /\ ~ Human(t).managed /\ ~ Human(t).kicked
    /\ GameTeams \subseteq Teams /\ "none" \notin Teams
BY DEF Vacant, Human, Bot, Client, Records, Teams, GameTeams

\* A field of a client is set.
LEMMA ChangedClients ==
    ASSUME BotTypeOK, NEW i \in Slots, client[i] # Vacant
    PROVE  /\ \A t \in Teams : LET c == [client[i] EXCEPT !.team = t] IN
                /\ c \in Records /\ c.team = t /\ c.bot = client[i].bot
                /\ c.managed = client[i].managed /\ c.kicked = client[i].kicked
           /\ LET c == [client[i] EXCEPT !.kicked = TRUE] IN
                /\ c \in Records /\ c.team = client[i].team /\ c.bot = client[i].bot
                /\ c.managed = client[i].managed /\ c.kicked
           /\ client[i].team \in Teams
<1>1. client[i] \in Records /\ client[i].team # "none"
  BY DEF BotTypeOK
<1> QED
  BY <1>1 DEF Records

\* What the manager and the engine do: a vacant slot, or a bot that is a
\* spectator, becomes a bot of the quota that plays; one of these is kicked; one
\* that was kicked leaves.
Adds(i) == /\ \E t \in GameTeams : client' = [client EXCEPT ![i] = Bot(TRUE, t)]
           /\ client[i] = Vacant \/ (client[i].bot /\ client[i].team = "spectator")
           /\ Leaving = {} /\ Desired > Cardinality(Managed \cap Playing)
Kicks(i) == /\ client' = [client EXCEPT ![i].kicked = TRUE]
            /\ i \in Managed \cap Playing
            /\ Leaving = {} /\ Desired < Cardinality(Managed \cap Playing)
Leaves(i) == client' = [client EXCEPT ![i] = Vacant] /\ client[i].kicked

LEMMA ManagerDoes ==
    ASSUME Manager
    PROVE  /\ UNCHANGED <<quota, setting>>
           /\ \E i \in Slots : Adds(i) \/ Kicks(i) \/ Leaves(i)
<1>1. CASE MaintainBotQuota
  <2>1. UNCHANGED <<quota, setting>> /\ Leaving = {}
    BY <1>1 DEF MaintainBotQuota, Leaving
  <2>2. ASSUME Desired > Cardinality(Managed \cap Playing), AddBot
        PROVE  \E i \in Slots : Adds(i)
    <3>1. CASE Pool # {}
      <4>1. FromPool \in Slots /\ client[FromPool].bot /\ client[FromPool].team = "spectator"
        BY <3>1, PoolSlot DEF Pool, Bots
      <4>2. client' = [client EXCEPT ![FromPool] = Bot(TRUE, JoinTeam)]
        BY <2>2, <3>1 DEF AddBot
      <4> QED
        BY <2>1, <2>2, <4>1, <4>2, ChosenTeams DEF Adds
    <3>2. CASE Pool = {}
      <4>1. ~ Full
        BY <2>2, <3>2 DEF AddBot
      <4>2. FirstFree \in Slots /\ client[FirstFree] = Vacant
        BY <4>1, FreeSlot DEF Connected
      <4>3. PICK t : client' = [client EXCEPT ![FirstFree] = Bot(TRUE, JoinTeamAfter(t))]
        BY <2>2, <3>2 DEF AddBot, Connects
      <4> QED
        BY <2>1, <2>2, <4>2, <4>3, ChosenTeams DEF Adds
    <3> QED
      BY <3>1, <3>2
  <2>3. ASSUME Desired < Cardinality(Managed \cap Playing), KickBot
        PROVE  \E i \in Slots : Kicks(i)
    <3>1. PICK u \in GameTeams : \E i \in Managed \cap OnTeam(u) :
             client' = [client EXCEPT ![i].kicked = TRUE]
      BY <2>3 DEF KickBot
    <3>2. PICK i \in Managed \cap OnTeam(u) : client' = [client EXCEPT ![i].kicked = TRUE]
      BY <3>1
    <3>3. i \in Slots /\ i \in Managed \cap Playing
      BY DEF Managed, OnTeam, Playing
    <3> QED
      BY <2>1, <2>3, <3>2, <3>3 DEF Kicks
  <2> QED
    BY <1>1, <2>1, <2>2, <2>3 DEF MaintainBotQuota
<1>2. CASE \E i \in Slots : Kickid(i)
  BY <1>2 DEF Kickid, Leaves
<1> QED
  BY <1>1, <1>2 DEF Manager

LEMMA BotTypeStep == BotTypeOK /\ [BotNext]_botVars => BotTypeOK'
<1> SUFFICES ASSUME BotTypeOK, [BotNext]_botVars PROVE BotTypeOK'
  OBVIOUS
<1>q. quota \in 0..MaxQuota /\ setting \in Settings
  BY DEF BotTypeOK
<1>1. CASE Manager
  <2>1. quota' = quota /\ setting' = setting
    BY <1>1, ManagerDoes
  <2>2. PICK i \in Slots : Adds(i) \/ Kicks(i) \/ Leaves(i)
    BY <1>1, ManagerDoes
  <2>3. CASE Adds(i)
    <3>1. PICK t \in GameTeams : client' = [client EXCEPT ![i] = Bot(TRUE, t)]
      BY <2>3 DEF Adds
    <3> QED
      BY <1>q, <2>1, <3>1, NewClients, ReplaceType
  <2>4. CASE Kicks(i)
    <3> DEFINE c == [client[i] EXCEPT !.kicked = TRUE]
    <3>1. client' = [client EXCEPT ![i] = c] /\ client[i].managed
      BY <2>4 DEF Kicks, Managed
    <3>2. client[i] # Vacant /\ client[i].bot
      BY <3>1, NewClients DEF BotTypeOK
    <3>3. c \in Records /\ c.bot /\ c.team # "none"
      BY <3>2, ChangedClients, NewClients
    <3> HIDE DEF c
    <3> QED
      BY <1>q, <2>1, <3>1, <3>3, ReplaceType
  <2>5. CASE Leaves(i)
    BY <1>q, <2>1, <2>5, NewClients, ReplaceType DEF Leaves
  <2> QED
    BY <2>2, <2>3, <2>4, <2>5
<1>2. CASE ClientPutInServer
  <2>1. PICK t \in GameTeams : client' = [client EXCEPT ![FirstFree] = Human(t)]
    BY <1>2 DEF ClientPutInServer, SpawnTeams, Connects
  <2>2. FirstFree \in Slots /\ quota' = quota /\ setting' = setting
    BY <1>2, FreeSlot DEF ClientPutInServer
  <2> QED
    BY <1>q, <2>1, <2>2, NewClients, ReplaceType
<1>3. ASSUME NEW i \in Slots, ClientDisconnect(i) PROVE BotTypeOK'
  BY <1>q, <1>3, NewClients, ReplaceType DEF ClientDisconnect
<1>4. ASSUME NEW i \in Slots, NEW t \in Teams, HandleCommand_JoinTeam(i, t) PROVE BotTypeOK'
  <2> DEFINE c == [client[i] EXCEPT !.team = t]
  <2>1. /\ client' = [client EXCEPT ![i] = c] /\ client[i] # Vacant
        /\ quota' = quota /\ setting' = setting
    BY <1>4 DEF HandleCommand_JoinTeam, Connected
  <2>2. /\ c \in Records /\ c.team = t /\ c.bot = client[i].bot
        /\ c.managed = client[i].managed /\ c.kicked = client[i].kicked
    BY <2>1, ChangedClients
  <2> HIDE DEF c
  <2>3. c.managed \/ c.kicked => c.bot
    BY <2>2 DEF BotTypeOK
  <2>4. c.team # "none"
    BY <2>2, NewClients
  <2> QED
    BY <1>q, <2>1, <2>2, <2>3, <2>4, ReplaceType
<1>5. ASSUME NEW q \in 0..MaxQuota, SetQuota(q) PROVE BotTypeOK'
  BY <1>5 DEF SetQuota, BotTypeOK, Vacant, Client
<1>6. ASSUME NEW t \in GameTeams, NEW noquota \in BOOLEAN, hl2mp_bot_add(t, noquota)
      PROVE  BotTypeOK'
  <2>1. client' = [client EXCEPT ![FirstFree] = Bot(~ noquota, t)] /\ setting' = setting
    BY <1>6 DEF hl2mp_bot_add, Connects
  <2>2. FirstFree \in Slots
    BY <1>6, FreeSlot DEF hl2mp_bot_add
  <2>3. quota' \in 0..MaxQuota
    BY <1>q, <1>6, ClientsAssumption DEF hl2mp_bot_add
  <2> DEFINE b == Bot(~ noquota, t)
  <2>4. b \in Records /\ b.team = t /\ b.bot /\ t # "none"
    BY NewClients
  <2>5. client' = [client EXCEPT ![FirstFree] = b]
    BY <2>1
  <2> HIDE DEF b
  <2> QED
    BY <1>q, <2>1, <2>2, <2>3, <2>4, <2>5, ReplaceType
<1>7. ASSUME NEW S \in MayBeNamed, NEW spectate \in BOOLEAN, hl2mp_bot_kick(S, spectate)
      PROVE  BotTypeOK'
  <2>1. S \subseteq Bots
    BY DEF MayBeNamed
  <2>2. \A i \in Slots :
          client'[i] \in {client[i], [client[i] EXCEPT !.team = "spectator"],
                          [client[i] EXCEPT !.kicked = TRUE]}
          /\ (i \notin S => client'[i] = client[i])
    BY <1>7 DEF hl2mp_bot_kick
  <2>3. ASSUME NEW i \in Slots
        PROVE  /\ client'[i] \in Records
               /\ client'[i].team = "none" => client'[i] = Vacant
               /\ client'[i].managed \/ client'[i].kicked => client'[i].bot
    <3>1. CASE i \notin S
      BY <2>2, <3>1 DEF BotTypeOK
    <3>2. CASE i \in S
      <4>1. client[i].bot /\ client[i] # Vacant /\ "spectator" \in Teams
        BY <2>1, <3>2, NewClients DEF Bots, Teams
      <4> DEFINE c == [client[i] EXCEPT !.team = "spectator"]
                 d == [client[i] EXCEPT !.kicked = TRUE]
      <4>3. client[i].team \in Teams /\ "none" \notin Teams
        BY <4>1, ChangedClients, NewClients
      <4>4. /\ c \in Records /\ c.team = "spectator" /\ c.bot = client[i].bot
            /\ d \in Records /\ d.team = client[i].team /\ d.bot = client[i].bot
        BY <4>1, ChangedClients
      <4>5. client'[i] \in {client[i], c, d} /\ client[i] \in Records
        BY <2>2 DEF BotTypeOK
      <4> HIDE DEF c, d
      <4>2. client'[i] \in Records /\ client'[i].bot /\ client'[i].team # "none"
        BY <4>1, <4>3, <4>4, <4>5
      <4> QED
        BY <4>2
    <3> QED
      BY <3>1, <3>2
  <2>4. quota' \in 0..MaxQuota /\ setting' = setting
    <3>1. S \cap Managed \in SUBSET Slots
      BY DEF Managed
    <3>2. Cardinality(S \cap Managed) \in Nat
      BY <3>1, SlotsAreFinite
    <3> QED
      BY <1>q, <1>7, <3>2, ClientsAssumption DEF hl2mp_bot_kick, Larger
  <2>5. client' = [i \in Slots |-> client'[i]]
    BY <1>7 DEF hl2mp_bot_kick
  <2> QED
    BY <1>q, <2>3, <2>4, <2>5 DEF BotTypeOK, Vacant, Client
<1>8. CASE LevelChange
  <2>1. /\ client' = [i \in Slots |-> IF i \in Bots THEN Vacant ELSE client[i]]
        /\ quota' = quota /\ setting' = setting
    BY <1>8 DEF LevelChange
  <2>2. \A i \in Slots : client'[i] = Vacant \/ client'[i] = client[i]
    BY <2>1
  <2> HIDE DEF Vacant
  <2> QED
    BY <2>1, <2>2, NewClients DEF BotTypeOK
<1>9. CASE UNCHANGED botVars
  BY <1>9 DEF botVars, BotTypeOK, Vacant, Client
<1> QED
  BY <1>1, <1>2, <1>3, <1>4, <1>5, <1>6, <1>7, <1>8, <1>9 DEF BotNext, Others

\* Who is in the slots, the quota and its mode are what they can be; a kick, and
\* the flag of the quota, is only ever on a bot, whatever the operator names.
THEOREM BotTypeCorrect == BotSpec => []BotTypeOK
BY BotTypeInit, BotTypeStep, PTL DEF BotSpec
-----------------------------------------------------------------------------
(* How many bots the manager wants.                                        *)

LEMMA SetsOfSlots ==
    /\ Connected \in SUBSET Slots /\ Bots \in SUBSET Slots /\ Managed \in SUBSET Slots
    /\ Playing \in SUBSET Slots /\ Leaving \in SUBSET Slots /\ Remaining \in SUBSET Slots
    /\ Pool \in SUBSET Slots /\ \A t : OnTeam(t) \in SUBSET Slots
BY DEF Connected, Bots, Managed, Playing, Leaving, Remaining, Pool, OnTeam

LEMMA DesiredType ==
    ASSUME BotTypeOK
    PROVE  /\ Desired \in Int /\ OpenSlots \in Nat
           /\ Desired <= MaxClients - Cardinality(Connected \ Managed) - OpenSlots
<1>1. /\ Cardinality(Playing \ Managed) \in Nat /\ Cardinality(Connected \ Managed) \in Nat
      /\ Playing \ Managed \in SUBSET Slots /\ Connected \ Managed \in SUBSET Slots
  <2>1. Playing \ Managed \in SUBSET Slots /\ Connected \ Managed \in SUBSET Slots
    BY SetsOfSlots
  <2> QED
    BY <2>1, SlotsAreFinite
<1>2. quota \in Nat /\ MaxClients \in Int
  BY ClientsAssumption DEF BotTypeOK
<1>3. quota * Cardinality(Playing \ Managed) \in Int
  BY <1>1, <1>2
<1>4. ByMode \in Int
  BY <1>1, <1>2, <1>3 DEF ByMode, Larger
<1>5. OpenSlots \in Nat
  BY DEF OpenSlots
<1> QED
  BY <1>1, <1>2, <1>4, <1>5 DEF Desired, Smaller

\* What becomes of bots of the quota does not change how many are wanted.
LEMMA QuotaBotChanges ==
    ASSUME BotTypeOK, BotTypeOK', UNCHANGED <<quota, setting>>, NEW i \in Slots,
           \A j \in Slots : j # i => client'[j] = client[j],
           client[i].managed \/ client[i] = Vacant,
           client'[i].managed \/ client'[i] = Vacant
    PROVE  Unmanaged' = Unmanaged /\ Desired' = Desired
<1>1. ~ Vacant.bot /\ Vacant.team = "none" /\ "none" \notin GameTeams /\ "none" # "spectator"
  BY DEF Vacant, Client, GameTeams
<1>2. Unmanaged' = Unmanaged
  BY <1>1 DEF Unmanaged, Bots, Managed
<1>3. Connected' \ Managed' = Connected \ Managed
  BY DEF Connected, Managed
<1>4. Playing' \ Managed' = Playing \ Managed
  BY <1>1 DEF Playing, Managed
<1>5. Nobody' <=> Nobody
  BY <1>1 DEF Nobody, Playing, Managed, OnTeam
<1>6. ByMode' = ByMode
  BY <1>4 DEF ByMode
<1> QED
  BY <1>2, <1>3, <1>5, <1>6 DEF Desired, OpenSlots

LEMMA DistanceFacts ==
    ASSUME BotTypeOK
    PROVE  /\ Cardinality(Remaining) \in Nat /\ Desired \in Int
           /\ Larger(0, Desired) \in Nat /\ Larger(0, Desired) >= Desired
           /\ Desired >= 0 => Larger(0, Desired) = Desired
           /\ Desired < 0 => Larger(0, Desired) = 0
           /\ Distance \in Nat
           /\ Leaving = {} => Remaining = Managed \cap Playing
<1>1. Cardinality(Remaining) \in Nat /\ Desired \in Int
  BY SetsOfSlots, SlotsAreFinite, DesiredType
<1>2. Leaving = {} => Remaining = Managed \cap Playing
  BY DEF Leaving, Remaining, Managed
<1> QED
  BY <1>1, <1>2 DEF Larger, Distance
-----------------------------------------------------------------------------
(* The manager gets nearer to its quota.                                   *)

LEMMA FewerUnmanaged ==
    ASSUME BotTypeOK, NEW i \in Unmanaged, Unmanaged' = Unmanaged \ {i}
    PROVE  Cardinality(Unmanaged') < Cardinality(Unmanaged)
<1>1. Unmanaged \in SUBSET Slots
  BY SetsOfSlots DEF Unmanaged
<1>2. IsFiniteSet(Unmanaged) /\ Cardinality(Unmanaged) \in Nat
  BY <1>1, SlotsAreFinite
<1>3. Cardinality(Unmanaged \ {i}) = Cardinality(Unmanaged) - 1
  BY <1>2, FS_RemoveElement
<1> QED
  BY <1>2, <1>3

LEMMA AddsNearer ==
    ASSUME BotTypeOK, BotTypeOK', UNCHANGED <<quota, setting>>, NEW i \in Slots, Adds(i)
    PROVE  ~ Settled /\ Nearer
<1>1. PICK t \in GameTeams : client' = [client EXCEPT ![i] = Bot(TRUE, t)]
  BY DEF Adds
<1>2. /\ client[i] = Vacant \/ (client[i].bot /\ client[i].team = "spectator")
      /\ Leaving = {} /\ Desired > Cardinality(Managed \cap Playing)
  BY DEF Adds
<1> DEFINE b == Bot(TRUE, t)
<1>3. b.bot /\ b.managed /\ b.team = t /\ ~ b.kicked
  BY DEF Bot, Client
<1>4. client'[i] = b /\ \A j \in Slots : j # i => client'[j] = client[j]
  BY <1>1 DEF BotTypeOK
<1> HIDE DEF b
<1>5. ~ Settled
  BY <1>2, DistanceFacts DEF Settled
<1>6. CASE client[i].bot /\ ~ client[i].managed
  <2>1. i \in Unmanaged /\ Unmanaged' = Unmanaged \ {i}
    BY <1>3, <1>4, <1>6 DEF Unmanaged, Bots, Managed
  <2> QED
    BY <1>5, <2>1, FewerUnmanaged DEF Nearer
<1>7. CASE client[i].managed \/ client[i] = Vacant
  <2>1. Unmanaged' = Unmanaged /\ Desired' = Desired
    BY <1>3, <1>4, <1>7, QuotaBotChanges
  <2>2. i \notin Remaining /\ Remaining' = Remaining \cup {i}
    <3>1. client[i].team \notin GameTeams
      BY <1>2 DEF Vacant, Client, GameTeams
    <3> QED
      BY <1>3, <1>4, <3>1 DEF Remaining, Managed, Playing
  <2>3. IsFiniteSet(Remaining)
    BY SetsOfSlots, SlotsAreFinite
  <2>4. Cardinality(Remaining') = Cardinality(Remaining) + 1
    BY <2>2, <2>3, FS_AddElement
  <2>5. Cardinality(Remaining) < Desired
    BY <1>2, DistanceFacts
  <2>6. Larger(0, Desired)' = Larger(0, Desired)
    BY <2>1 DEF Larger
  <2>7. Distance' < Distance
    BY <2>4, <2>5, <2>6, DistanceFacts DEF Distance
  <2> QED
    BY <1>5, <2>1, <2>7 DEF Nearer
<1> QED
  BY <1>2, <1>6, <1>7

LEMMA KicksNearer ==
    ASSUME BotTypeOK, BotTypeOK', UNCHANGED <<quota, setting>>, NEW i \in Slots, Kicks(i)
    PROVE  ~ Settled /\ Nearer
<1>1. /\ client' = [client EXCEPT ![i].kicked = TRUE] /\ i \in Managed \cap Playing
      /\ Leaving = {} /\ Desired < Cardinality(Managed \cap Playing)
  BY DEF Kicks
<1>2. /\ client[i].managed /\ client'[i].managed /\ client'[i].kicked
      /\ \A j \in Slots : j # i => client'[j] = client[j]
  <2>1. client[i] \in Records /\ client[i].managed
    BY <1>1 DEF BotTypeOK, Managed
  <2>2. client'[i] = [client[i] EXCEPT !.kicked = TRUE]
    BY <1>1 DEF BotTypeOK
  <2> QED
    BY <1>1, <2>1, <2>2 DEF BotTypeOK, Records
<1>3. Unmanaged' = Unmanaged /\ Desired' = Desired
  BY <1>2, QuotaBotChanges
<1>4. i \in Remaining /\ Remaining' = Remaining \ {i}
  <2>1. i \in Remaining
    BY <1>1, DistanceFacts
  <2> QED
    BY <1>2, <2>1 DEF Remaining, Managed, Playing
<1>5. IsFiniteSet(Remaining)
  BY SetsOfSlots, SlotsAreFinite
<1>6. Cardinality(Remaining') = Cardinality(Remaining) - 1 /\ Cardinality(Remaining) # 0
  BY <1>4, <1>5, FS_RemoveElement, FS_EmptySet
<1>7. Desired < Cardinality(Remaining)
  BY <1>1, DistanceFacts
<1>8. ~ Settled
  <2>1. Cardinality(Remaining) # Larger(0, Desired)
    BY <1>6, <1>7, DistanceFacts
  <2>2. Remaining = Managed \cap Playing
    BY <1>1, DistanceFacts
  <2> QED
    BY <2>1, <2>2 DEF Settled
<1>9. Larger(0, Desired)' = Larger(0, Desired)
  BY <1>3 DEF Larger
<1>10. Distance' < Distance
  BY <1>6, <1>7, <1>9, DistanceFacts DEF Distance
<1> QED
  BY <1>3, <1>8, <1>10 DEF Nearer

LEMMA LeavesNearer ==
    ASSUME BotTypeOK, BotTypeOK', UNCHANGED <<quota, setting>>, NEW i \in Slots, Leaves(i)
    PROVE  ~ Settled /\ Nearer
<1>1. /\ client[i].kicked /\ client[i].bot /\ client'[i] = Vacant
      /\ \A j \in Slots : j # i => client'[j] = client[j]
  BY DEF Leaves, BotTypeOK
<1>2. ~ Vacant.bot /\ ~ Vacant.managed /\ ~ Vacant.kicked
  BY NewClients
<1>3. i \in Leaving /\ Leaving' = Leaving \ {i}
  BY <1>1, <1>2 DEF Leaving
<1>4. ~ Settled
  BY <1>3 DEF Settled
<1>5. CASE ~ client[i].managed
  <2>1. i \in Unmanaged /\ Unmanaged' = Unmanaged \ {i}
    BY <1>1, <1>2, <1>5 DEF Unmanaged, Bots, Managed
  <2> QED
    BY <1>4, <2>1, FewerUnmanaged DEF Nearer
<1>6. CASE client[i].managed
  <2>1. Unmanaged' = Unmanaged /\ Desired' = Desired
    BY <1>1, <1>6, QuotaBotChanges
  <2>2. Remaining' = Remaining
    BY <1>1, <1>2 DEF Remaining, Managed, Playing
  <2>3. Distance' = Distance
    BY <2>1, <2>2 DEF Distance, Larger
  <2>4. IsFiniteSet(Leaving) /\ Cardinality(Leaving) \in Nat
    BY SetsOfSlots, SlotsAreFinite
  <2>5. Cardinality(Leaving \ {i}) = Cardinality(Leaving) - 1
    BY <1>3, <2>4, FS_RemoveElement
  <2>6. Cardinality(Leaving') < Cardinality(Leaving)
    BY <1>3, <2>4, <2>5
  <2> QED
    BY <1>4, <2>1, <2>3, <2>6 DEF Nearer
<1> QED
  BY <1>5, <1>6

\* The manager does not add and kick for ever: each of its steps, and of the
\* kicks it waits for, gets nearer to the quota (there are fewer bots that are
\* not of it, or the number wanted is the same and fewer are missing or too
\* many, or fewer are about to leave), and at the quota it makes none.
THEOREM ManagerGetsNearerCorrect == BotSpec => ManagerGetsNearer
<1>1. BotTypeOK /\ BotTypeOK' /\ [BotNext]_botVars => [Manager => ~ Settled /\ Nearer]_botVars
  <2> SUFFICES ASSUME BotTypeOK, BotTypeOK', Manager PROVE ~ Settled /\ Nearer
    OBVIOUS
  <2> QED
    BY ManagerDoes, AddsNearer, KicksNearer, LeavesNearer
<1> QED
  BY <1>1, BotTypeInit, BotTypeStep, PTL DEF BotSpec, ManagerGetsNearer

\* Whoever is not a bot is left alone by the manager and by its kicks: it takes
\* no slot, changes no team and disconnects nobody.
THEOREM PlayersAreLeftAloneCorrect == BotSpec => PlayersAreLeftAlone
<1>1. BotTypeOK /\ [BotNext]_botVars
        => [Manager => \A i \in Connected \ Bots : client'[i] = client[i]]_botVars
  <2> SUFFICES ASSUME BotTypeOK, Manager, NEW i \in Connected \ Bots
               PROVE  client'[i] = client[i]
    OBVIOUS
  <2>1. i \in Slots /\ client[i] # Vacant /\ ~ client[i].bot
    BY DEF Connected, Bots
  <2>2. PICK j \in Slots : Adds(j) \/ Kicks(j) \/ Leaves(j)
    BY ManagerDoes
  <2>3. client[j] = Vacant \/ client[j].bot
    BY <2>2 DEF Adds, Kicks, Leaves, BotTypeOK, Managed
  <2> QED
    BY <2>1, <2>2, <2>3 DEF Adds, Kicks, Leaves, BotTypeOK
<1> QED
  BY <1>1, BotTypeInit, BotTypeStep, PTL DEF BotSpec, PlayersAreLeftAlone
-----------------------------------------------------------------------------
(* Where the manager stops.                                                *)

\* The slots that are taken, of the quota or not.
LEMMA SlotsTaken ==
    ASSUME BotTypeOK
    PROVE  /\ Managed \subseteq Connected
           /\ Cardinality(Connected) = Cardinality(Managed) + Cardinality(Connected \ Managed)
           /\ Cardinality(Managed) \in Nat /\ Cardinality(Connected \ Managed) \in Nat
           /\ Full => Cardinality(Connected) = MaxClients
<1>1. Managed \subseteq Connected
  BY NewClients DEF Managed, Connected, BotTypeOK
<1>2. /\ IsFiniteSet(Connected) /\ Cardinality(Connected) \in Nat
      /\ Cardinality(Managed) \in Nat
  BY SetsOfSlots, SlotsAreFinite
<1>3. Cardinality(Connected \ Managed) = Cardinality(Connected) - Cardinality(Connected \cap Managed)
  BY <1>2, FS_Difference
<1>4. Connected \cap Managed = Managed
  BY <1>1
<1>5. Connected \ Managed \in SUBSET Slots
  BY SetsOfSlots
<1>6. Cardinality(Connected \ Managed) \in Nat
  BY <1>5, SlotsAreFinite
<1>7. Cardinality(Slots) = MaxClients
  BY ClientsAssumption, FS_Interval DEF Slots
<1>8. Cardinality(Connected) = Cardinality(Managed) + Cardinality(Connected \ Managed)
  <2>1. Cardinality(Connected \ Managed) = Cardinality(Connected) - Cardinality(Managed)
    BY <1>3, <1>4
  <2> QED
    BY <1>2, <1>6, <2>1
<1>9. Full => Cardinality(Connected) = MaxClients
  BY <1>7 DEF Full
<1> QED
  BY <1>1, <1>2, <1>6, <1>8, <1>9

\* Without bots among the spectators every bot of the quota plays.
LEMMA EveryBotPlays == BotTypeOK /\ Pool = {} => Managed \subseteq Playing
<1> SUFFICES ASSUME BotTypeOK, Pool = {}, NEW i \in Managed PROVE i \in Playing
  OBVIOUS
<1>1. i \in Slots /\ client[i].managed /\ client[i].bot
  BY DEF Managed, BotTypeOK
<1>2. client[i].team \in Teams
  BY <1>1, ChangedClients, NewClients
<1>3. client[i].team # "spectator"
  BY <1>1 DEF Pool, Bots
<1> QED
  BY <1>1, <1>2, <1>3 DEF Playing, Teams

\* Away from the quota there is something the manager can do: a bot that is
\* wanted finds a place, and one that is too many is found on a team.
THEOREM ManagerIsNotStuckCorrect == BotSpec => []ManagerIsNotStuck
<1>1. BotTypeOK => ManagerIsNotStuck
  <2> SUFFICES ASSUME BotTypeOK, ~ Settled, Leaving = {}
               PROVE  \/ Desired > Cardinality(Managed \cap Playing) /\ AddBotIsPossible
                      \/ Desired < Cardinality(Managed \cap Playing) /\ KickBotIsPossible
    BY DEF ManagerIsNotStuck
  <2> DEFINE n == Cardinality(Managed \cap Playing)
  <2>1. n \in Nat /\ Desired \in Int /\ n # Larger(0, Desired)
    BY DistanceFacts DEF Settled
  <2>2. CASE Desired > n
    <3>1. ASSUME Pool = {} PROVE ~ Full
      <4>1. Managed \cap Playing = Managed
        BY <3>1, EveryBotPlays
      <4>2. Cardinality(Managed) < MaxClients - Cardinality(Connected \ Managed) - OpenSlots
        <5>1. Cardinality(Managed) < Desired
          BY <2>2, <4>1
        <5>2. /\ Desired \in Int /\ Cardinality(Managed) \in Nat /\ OpenSlots \in Nat
              /\ Cardinality(Connected \ Managed) \in Nat /\ MaxClients \in Nat
              /\ Desired <= MaxClients - Cardinality(Connected \ Managed) - OpenSlots
          BY DesiredType, SlotsTaken, ClientsAssumption
        <5> QED
          BY <5>1, <5>2
      <4>3. Cardinality(Managed) + Cardinality(Connected \ Managed) < MaxClients
        BY <4>2, DesiredType, SlotsTaken, ClientsAssumption
      <4> QED
        BY <4>3, SlotsTaken, ClientsAssumption
    <3> QED
      BY <2>2, <3>1 DEF AddBotIsPossible
  <2>3. CASE Desired < n
    <3>1. Managed \cap Playing # {}
      <4>1. n # 0
        BY <2>1, <2>3, DistanceFacts
      <4> QED
        BY <4>1, FS_EmptySet
    <3>2. PICK u \in GameTeams : Managed \cap OnTeam(u) # {}
      BY <3>1 DEF Managed, Playing, OnTeam
    <3>3. KickTeams # {} /\ KickTeams \subseteq GameTeams
      <4>1. Size("rebels") \in Nat /\ Size("combine") \in Nat
        BY SetsOfSlots, SlotsAreFinite DEF Size
      <4> QED
        BY <4>1 DEF KickTeams, GameTeams
    <3> QED
      BY <2>3, <3>2, <3>3 DEF KickBotIsPossible
  <2>4. Desired # n
    BY <2>1, DistanceFacts
  <2> QED
    BY <2>1, <2>2, <2>3, <2>4
<1> QED
  BY <1>1, BotTypeInit, BotTypeStep, PTL DEF BotSpec

\* "Bots will automatically leave to make room for human players": at the quota
\* a slot is free, unless bots of the quota are spectators or there are none.
THEOREM SettledLeavesSlotCorrect == BotSpec => []SettledLeavesSlot
<1>1. BotTypeOK => SettledLeavesSlot
  <2> SUFFICES ASSUME BotTypeOK, Settled, setting.vacate, Full, Managed \subseteq Playing,
                      Managed # {}
               PROVE  FALSE
    BY DEF SettledLeavesSlot
  <2>1. Managed \cap Playing = Managed
    OBVIOUS
  <2>2. Cardinality(Managed) = Larger(0, Desired) /\ OpenSlots = 1
    BY <2>1 DEF Settled, OpenSlots
  <2>3. IsFiniteSet(Managed) /\ Cardinality(Managed) # 0
    BY SetsOfSlots, SlotsAreFinite, FS_EmptySet
  <2>4. Cardinality(Managed) = Desired
    BY <2>2, <2>3, DistanceFacts
  <2> QED
    BY <2>2, <2>4, DesiredType, SlotsTaken, ClientsAssumption
<1> QED
  BY <1>1, BotTypeInit, BotTypeStep, PTL DEF BotSpec
===============================================================================
