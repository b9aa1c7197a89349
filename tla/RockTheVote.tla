---------------------------- MODULE RockTheVote ----------------------------
(***************************************************************************)
(* "rtv" in the chat: players vote to leave the level, and every frame the *)
(* list of votes is cleaned of players who are gone and counted.           *)
(*                                                                         *)
(* The list g_vecRTVVoters holds handles.  The handle of a player who left *)
(* is null; the clean-up takes it out with FastRemove, which puts the last *)
(* handle in its place, and goes on with the next position.                *)
(***************************************************************************)
EXTENDS Integers, Sequences, FiniteSets

CONSTANTS
    Players,    \* real clients; a client who comes back has a new entity
    Null,       \* a handle whose entity is gone
    MaxVotes,   \* bound on the handles in the list when somebody votes
    MaxCalls    \* bound on the changelevel_next commands in the buffer

ASSUME PlayersAssumption == IsFiniteSet(Players) /\ Null \notin Players
ASSUME BoundsAssumption == MaxVotes \in Nat /\ MaxCalls \in Nat

VARIABLES
    inGame,     \* the real clients that have a player entity
    voters,     \* g_vecRTVVoters
    waiting,    \* m_fWaitVotes >= curtime: too early in the level to vote
    scan,       \* the position the clean-up looks at; 0 outside the frame's end
    stale,      \* history: null handles in the list when the clean-up began
    calls       \* changelevel_next commands in the buffer

vars == <<inGame, voters, waiting, scan, stale, calls>>

Live == {p \in Players : \E j \in 1..Len(voters) : voters[j] = p}
Gone == {j \in 1..Len(voters) : voters[j] = Null}

\* The entities of S are removed: their handles are null.
BadForget(S) == voters                                    \* pointers, not handles
Forget(S) == [j \in 1..Len(voters) |-> IF voters[j] \in S THEN Null ELSE voters[j]]

\* m_iRequiredVotes = (int)ceil(iTotalPlayers * 0.5f).
BadRequired == Cardinality(inGame) \div 2                 \* floor for ceil
Bad2Required == Cardinality(inGame) \div 2 + 1            \* more than half
Required == (Cardinality(inGame) + 1) \div 2

BadFastRemove(s, i) == SubSeq(s, 1, Len(s) - 1)           \* the last is not moved
FastRemove(s, i) ==
    [j \in 1..(Len(s) - 1) |-> IF j = i THEN s[Len(s)] ELSE s[j]]
-----------------------------------------------------------------------------
\* The first client of a level takes longer to load it than the frames that
\* clean the list of those who were there before.
ClientPutInServer(p) ==
    /\ scan = 0
    /\ p \notin inGame
    /\ inGame = {} => Gone = {}
    /\ inGame' = inGame \cup {p}
    /\ UNCHANGED <<voters, waiting, scan, stale, calls>>

\* The engine frees the entity of a client who leaves: his handle is null.
ClientDisconnect(p) ==
    /\ scan = 0
    /\ p \in inGame
    /\ inGame' = inGame \ {p}
    /\ voters' = Forget({p})
    /\ UNCHANGED <<waiting, scan, stale, calls>>

\* A player, dead or alive, says "rtv".
BadMayVote(p) == ~ waiting                                \* may vote again
MayVote(p) == ~ waiting /\ p \notin Live

SayRtv(p) ==
    /\ scan = 0
    /\ p \in inGame
    /\ MayVote(p)
    /\ Len(voters) < MaxVotes
    /\ voters' = Append(voters, p)
    /\ UNCHANGED <<inGame, waiting, scan, stale, calls>>

WaitOver ==
    /\ scan = 0
    /\ waiting
    /\ waiting' = FALSE
    /\ UNCHANGED <<inGame, voters, scan, stale, calls>>

\* The level is changed, by a vote or for another reason.  Its entities are
\* gone; the list of votes is not emptied.
LevelInitPreEntity ==
    /\ scan = 0
    /\ calls' = IF calls > 0 THEN calls - 1 ELSE calls
    /\ inGame' = {}
    /\ voters' = Forget(inGame)
    /\ waiting' = TRUE
    /\ UNCHANGED <<scan, stale>>
-----------------------------------------------------------------------------
(* FrameUpdatePostEntityThink, one step per turn of its loop.              *)

BeginScan ==
    /\ scan = 0
    /\ calls < MaxCalls
    /\ scan' = 1
    /\ stale' = Cardinality(Gone)
    /\ UNCHANGED <<inGame, voters, waiting, calls>>

ScanVoter ==
    /\ scan \in 1..Len(voters)
    /\ scan' = scan + 1
    /\ voters' = IF voters[scan] = Null THEN FastRemove(voters, scan) ELSE voters
    /\ UNCHANGED <<inGame, waiting, stale, calls>>

Tally ==
    /\ scan > Len(voters)
    /\ scan' = 0
    /\ IF Len(voters) >= Required /\ Required > 0
       THEN calls' = calls + 1 /\ voters' = <<>>
       ELSE UNCHANGED <<voters, calls>>
    /\ UNCHANGED <<inGame, waiting, stale>>
-----------------------------------------------------------------------------
Init == /\ inGame = {} /\ voters = <<>> /\ waiting = TRUE
        /\ scan = 0 /\ stale = 0 /\ calls = 0

FrameEnd == BeginScan \/ ScanVoter \/ Tally

Next == \/ \E p \in Players : ClientPutInServer(p) \/ ClientDisconnect(p) \/ SayRtv(p)
        \/ WaitOver \/ LevelInitPreEntity
        \/ FrameEnd

\* The server runs its frames to their end, and executes its command buffer.
Fairness == WF_vars(FrameEnd) /\ WF_vars(calls > 0 /\ LevelInitPreEntity)

Spec == Init /\ [][Next]_vars /\ Fairness
-----------------------------------------------------------------------------
\* Every variable holds a value of its type; the voters are in the game.
TypeOK ==
    /\ inGame \subseteq Players /\ Live \subseteq inGame
    /\ voters \in Seq(Players \cup {Null})
    /\ waiting \in BOOLEAN
    /\ scan \in Nat /\ stale \in Nat /\ calls \in 0..MaxCalls

\* Nobody's vote counts twice, whatever FastRemove moves where.
OneVoteEach ==
    \A j, k \in 1..Len(voters) : voters[j] = voters[k] /\ voters[j] # Null => j = k

\* Cleaning the list takes no vote from a player who is still here.
CleanUpKeepsVotes == [][ScanVoter => Live' = Live]_vars

\* What a successful vote is worth: the clean-up misses at most every second
\* null handle, so a vote short of half of the players is carried only by that
\* many players who are gone.  With one of them it is exact.
ShortByHalfOfGone ==
    [][calls' > calls => 2 * (Cardinality(Live) + stale \div 2) >= Cardinality(inGame)]_vars

\* "50% of the total number of players" have to vote.
HalfOfPlayers ==
    [][calls' > calls => 2 * Cardinality(Live) >= Cardinality(inGame)]_vars

\* When half of the players have voted the level is changed, unless votes are
\* withdrawn by leaving or more players come.
Carried == inGame # {} /\ 2 * Cardinality(Live) >= Cardinality(inGame)
MajorityIsHeard == Carried ~> (calls > 0 \/ ~ Carried)
=============================================================================
