------------------------- MODULE RockTheVote_proofs -------------------------
(***************************************************************************)
(* What RockTheVote guarantees for any number of players and any length of *)
(* the list of votes.                                                      *)
(***************************************************************************)
EXTENDS RockTheVote, FiniteSetTheorems, TLAPS

USE PlayersAssumption, BoundsAssumption

Handles == Players \cup {Null}

LEMMA ForgetFacts ==
    ASSUME voters \in Seq(Handles), NEW S \in SUBSET Players
    PROVE  /\ Forget(S) \in Seq(Handles)
           /\ Len(Forget(S)) = Len(voters)
           /\ \A j \in 1..Len(voters) :
                 Forget(S)[j] = IF voters[j] \in S THEN Null ELSE voters[j]
BY DEF Forget, Handles

LEMMA FastRemoveFacts ==
    ASSUME NEW s \in Seq(Handles), NEW i \in 1..Len(s)
    PROVE  /\ FastRemove(s, i) \in Seq(Handles)
           /\ Len(FastRemove(s, i)) = Len(s) - 1
           /\ \A j \in 1..(Len(s) - 1) :
                 FastRemove(s, i)[j] = IF j = i THEN s[Len(s)] ELSE s[j]
BY DEF FastRemove, Handles

\* The null handles are finitely many.
LEMMA GoneFinite ==
    ASSUME voters \in Seq(Handles)
    PROVE  IsFiniteSet(Gone) /\ Cardinality(Gone) \in Nat
<1>1. IsFiniteSet(1..Len(voters))
  BY FS_Interval
<1>2. Gone \in SUBSET (1..Len(voters))
  BY DEF Gone
<1> QED
  BY <1>1, <1>2, FS_Subset, FS_CardinalityType
-----------------------------------------------------------------------------
\* The clean-up is begun with room for one more command.
TypeInv == TypeOK /\ (scan > 0 => calls < MaxCalls)

\* One turn of the clean-up: the handle at scan goes and the last comes.
LEMMA CleanFacts ==
    ASSUME TypeInv, ScanVoter
    PROVE  \/ /\ voters[scan] # Null
              /\ voters' = voters
           \/ /\ voters[scan] = Null
              /\ voters' \in Seq(Handles)
              /\ Len(voters') = Len(voters) - 1
              /\ \A j \in 1..(Len(voters) - 1) :
                    voters'[j] = IF j = scan THEN voters[Len(voters)] ELSE voters[j]
<1>1. CASE voters[scan] # Null
  BY <1>1 DEF ScanVoter
<1>2. CASE voters[scan] = Null
  <2>1. voters' = FastRemove(voters, scan) /\ scan \in 1..Len(voters)
    BY <1>2 DEF ScanVoter
  <2>2. voters \in Seq(Handles)
    BY DEF TypeInv, TypeOK, Handles
  <2>3. /\ FastRemove(voters, scan) \in Seq(Handles)
        /\ Len(FastRemove(voters, scan)) = Len(voters) - 1
        /\ \A j \in 1..(Len(voters) - 1) :
              FastRemove(voters, scan)[j] =
                 IF j = scan THEN voters[Len(voters)] ELSE voters[j]
    BY <2>1, <2>2, FastRemoveFacts
  <2> QED
    BY <1>2, <2>1, <2>3
<1> QED
  BY <1>1, <1>2

LEMMA TypeInit == Init => TypeInv
BY DEF Init, TypeInv, TypeOK, Live

LEMMA TypeStep == TypeInv /\ [Next]_vars => TypeInv'
<1> SUFFICES ASSUME TypeInv, [Next]_vars PROVE TypeInv'
  OBVIOUS
<1> USE DEF Handles
<1>1. ASSUME NEW p \in Players, ClientPutInServer(p) PROVE TypeInv'
  BY <1>1 DEF TypeInv, TypeOK, ClientPutInServer, Live
<1>2. ASSUME NEW p \in Players, ClientDisconnect(p) PROVE TypeInv'
  BY <1>2, ForgetFacts DEF TypeInv, TypeOK, ClientDisconnect, Live
<1>3. ASSUME NEW p \in Players, SayRtv(p) PROVE TypeInv'
  BY <1>3 DEF TypeInv, TypeOK, SayRtv, Live
<1>4. CASE WaitOver
  BY <1>4 DEF TypeInv, TypeOK, WaitOver, Live
<1>5. CASE LevelInitPreEntity
  BY <1>5, ForgetFacts DEF TypeInv, TypeOK, LevelInitPreEntity, Live
<1>6. CASE BeginScan
  BY <1>6, GoneFinite DEF TypeInv, TypeOK, BeginScan, Live
<1>7. CASE ScanVoter
  <2>1. voters' \in Seq(Handles) /\ Live' \subseteq Live
    <3>1. CASE voters' = voters
      BY <3>1 DEF TypeInv, TypeOK, Live
    <3>2. CASE voters' # voters
      <4>1. /\ voters' \in Seq(Handles) /\ Len(voters') = Len(voters) - 1
            /\ \A j \in 1..(Len(voters) - 1) :
                  voters'[j] = IF j = scan THEN voters[Len(voters)] ELSE voters[j]
        BY <1>7, <3>2, CleanFacts
      <4>2. Len(voters) \in Nat
        BY DEF TypeInv, TypeOK
      <4> QED
        BY <4>1, <4>2 DEF Live
    <3> QED
      BY <3>1, <3>2
  <2> QED
    BY <1>7, <2>1 DEF TypeInv, TypeOK, ScanVoter
<1>8. CASE Tally
  <2>1. voters' = voters \/ voters' = <<>>
    BY <1>8 DEF Tally
  <2>2. Live' \subseteq Live /\ voters' \in Seq(Handles)
    <3>1. CASE voters' = voters
      BY <3>1 DEF TypeInv, TypeOK, Live
    <3>2. CASE voters' = <<>>
      <4>1. Len(voters') = 0 /\ voters' \in Seq(Handles)
        BY <3>2
      <4> QED
        BY <4>1 DEF Live
    <3> QED
      BY <2>1, <3>1, <3>2
  <2> HIDE DEF Handles
  <2>3. calls' \in 0..MaxCalls
    BY <1>8 DEF TypeInv, TypeOK, Tally
  <2> QED
    BY <1>8, <2>2, <2>3 DEF TypeInv, TypeOK, Tally, Handles
<1>9. CASE UNCHANGED vars
  BY <1>9 DEF TypeInv, TypeOK, vars, Live
<1> QED
  BY <1>1, <1>2, <1>3, <1>4, <1>5, <1>6, <1>7, <1>8, <1>9 DEF Next, FrameEnd

LEMMA TypeInvariant == Spec => []TypeInv
BY TypeInit, TypeStep, PTL DEF Spec

\* Every variable keeps its type and only players in the game have votes.
THEOREM TypeCorrect == Spec => []TypeOK
BY TypeInvariant, PTL DEF TypeInv
-----------------------------------------------------------------------------
LEMMA OneVoteStep == TypeInv /\ OneVoteEach /\ [Next]_vars => OneVoteEach'
<1> SUFFICES ASSUME TypeInv, OneVoteEach, [Next]_vars PROVE OneVoteEach'
  OBVIOUS
<1> USE DEF TypeInv, TypeOK, Handles
<1>1. ASSUME NEW p \in Players, ClientPutInServer(p) PROVE OneVoteEach'
  BY <1>1 DEF OneVoteEach, ClientPutInServer
<1>2. ASSUME NEW p \in Players, ClientDisconnect(p) PROVE OneVoteEach'
  BY <1>2, ForgetFacts DEF OneVoteEach, ClientDisconnect
<1>3. ASSUME NEW p \in Players, SayRtv(p) PROVE OneVoteEach'
  BY <1>3 DEF OneVoteEach, SayRtv, MayVote, Live
<1>4. CASE WaitOver
  BY <1>4 DEF OneVoteEach, WaitOver
<1>5. CASE LevelInitPreEntity
  BY <1>5, ForgetFacts DEF OneVoteEach, LevelInitPreEntity
<1>6. CASE BeginScan
  BY <1>6 DEF OneVoteEach, BeginScan
<1>7. CASE ScanVoter
  BY <1>7, CleanFacts DEF OneVoteEach
<1>8. CASE Tally
  BY <1>8 DEF OneVoteEach, Tally
<1>9. CASE UNCHANGED vars
  BY <1>9 DEF OneVoteEach, vars
<1> QED
  BY <1>1, <1>2, <1>3, <1>4, <1>5, <1>6, <1>7, <1>8, <1>9 DEF Next, FrameEnd

\* Nobody's vote counts twice.
THEOREM OneVoteEachCorrect == Spec => []OneVoteEach
<1>1. Init => OneVoteEach
  BY DEF Init, OneVoteEach
<1> QED
  BY <1>1, TypeInvariant, OneVoteStep, PTL DEF Spec

\* Only null handles are taken out, and what FastRemove moves stays in.
LEMMA CleanUpStep == TypeInv /\ ScanVoter => Live' = Live
<1> SUFFICES ASSUME TypeInv, ScanVoter PROVE Live' = Live
  OBVIOUS
<1>1. CASE voters' = voters
  BY <1>1 DEF Live
<1>2. CASE voters' # voters
  <2>1. /\ voters[scan] = Null /\ Len(voters') = Len(voters) - 1
        /\ \A j \in 1..(Len(voters) - 1) :
              voters'[j] = IF j = scan THEN voters[Len(voters)] ELSE voters[j]
    BY <1>2, CleanFacts
  <2>2. Len(voters) \in Nat /\ scan \in 1..Len(voters)
    BY DEF TypeInv, TypeOK, ScanVoter
  <2>3. ASSUME NEW p \in Players, NEW j \in 1..Len(voters), voters[j] = p
        PROVE  \E k \in 1..Len(voters') : voters'[k] = p
    <3>1. j # scan
      BY <2>1, <2>3
    <3>2. CASE j = Len(voters)
      BY <2>1, <2>2, <2>3, <3>1, <3>2
    <3>3. CASE j # Len(voters)
      BY <2>1, <2>2, <2>3, <3>1, <3>3
    <3> QED
      BY <3>2, <3>3
  <2>4. ASSUME NEW p \in Players, NEW k \in 1..Len(voters'), voters'[k] = p
        PROVE  \E j \in 1..Len(voters) : voters[j] = p
    BY <2>1, <2>2, <2>4
  <2> QED
    BY <2>3, <2>4 DEF Live
<1> QED
  BY <1>1, <1>2

\* Cleaning the list takes no vote from a player who is still here.
THEOREM CleanUpKeepsVotesCorrect == Spec => CleanUpKeepsVotes
<1>1. TypeInv /\ [Next]_vars => [ScanVoter => Live' = Live]_vars
  BY CleanUpStep
<1> QED
  BY <1>1, TypeInvariant, PTL DEF Spec, CleanUpKeepsVotes
-----------------------------------------------------------------------------
(* How many null handles a clean-up leaves.  Every one it skips has come   *)
(* to the place of one it removed: those still in the list and those of    *)
(* them already passed are together no more than there were.               *)

Skipped == {j \in Gone : j < scan}
CleanInv == scan > 0 => Cardinality(Gone) + Cardinality(Skipped) <= stale

LEMMA CleanInit == Init => CleanInv
BY DEF Init, CleanInv

LEMMA CleanStep == TypeInv /\ CleanInv /\ [Next]_vars => CleanInv'
<1> SUFFICES ASSUME TypeInv, CleanInv, [Next]_vars PROVE CleanInv'
  OBVIOUS
<1>0. /\ IsFiniteSet(Gone) /\ Cardinality(Gone) \in Nat
      /\ IsFiniteSet(Skipped) /\ Cardinality(Skipped) \in Nat
      /\ Len(voters) \in Nat /\ scan \in Nat /\ stale \in Nat
  <2>1. Skipped \in SUBSET Gone
    BY DEF Skipped
  <2>2. voters \in Seq(Handles) /\ scan \in Nat /\ stale \in Nat
    BY DEF TypeInv, TypeOK, Handles
  <2>3. IsFiniteSet(Gone) /\ Cardinality(Gone) \in Nat
    BY <2>2, GoneFinite
  <2> QED
    BY <2>1, <2>2, <2>3, FS_Subset, FS_CardinalityType
<1>1. ASSUME scan = 0, scan' = 0 PROVE CleanInv'
  BY <1>1 DEF CleanInv
<1>2. CASE BeginScan
  <2>1. Skipped' = {} /\ Gone' = Gone
    BY <1>2 DEF BeginScan, Skipped, Gone
  <2>2. Cardinality(Skipped') = 0
    BY <2>1, FS_EmptySet
  <2> QED
    BY <1>0, <1>2, <2>1, <2>2 DEF BeginScan, CleanInv
<1>3. CASE ScanVoter
  <2>1. scan \in 1..Len(voters) /\ scan' = scan + 1 /\ stale' = stale
    BY <1>3 DEF ScanVoter
  <2>2. CASE voters[scan] # Null
    <3>1. voters' = voters
      BY <1>3, <2>2 DEF ScanVoter
    <3>2. Gone' = Gone /\ Skipped' = Skipped
      BY <1>0, <2>1, <2>2, <3>1 DEF Gone, Skipped
    <3> QED
      BY <1>0, <2>1, <3>2 DEF CleanInv
  <2>3. CASE voters[scan] = Null
    <3>1. /\ Len(voters') = Len(voters) - 1
          /\ \A j \in 1..(Len(voters) - 1) :
                voters'[j] = IF j = scan THEN voters[Len(voters)] ELSE voters[j]
      BY <1>3, <2>3, CleanFacts
    <3>2. scan \in Gone /\ scan \notin Skipped
      BY <1>0, <2>1, <2>3 DEF Gone, Skipped
    <3>3. CASE scan # Len(voters) /\ voters[Len(voters)] = Null
      <4>1. Gone' = Gone \ {Len(voters)} /\ Len(voters) \in Gone
        BY <1>0, <2>1, <2>3, <3>1, <3>3 DEF Gone
      <4>2. Skipped' = Skipped \cup {scan}
        BY <1>0, <2>1, <3>2, <3>3, <4>1 DEF Skipped, Gone
      <4>3. Cardinality(Gone') = Cardinality(Gone) - 1
        BY <1>0, <4>1, FS_RemoveElement
      <4>4. Cardinality(Skipped') = Cardinality(Skipped) + 1
        BY <1>0, <3>2, <4>2, FS_AddElement
      <4> QED
        BY <1>0, <2>1, <4>3, <4>4 DEF CleanInv
    <3>4. CASE scan = Len(voters) \/ voters[Len(voters)] # Null
      <4>1. Gone' = Gone \ {scan}
        BY <1>0, <2>1, <2>3, <3>1, <3>4 DEF Gone
      <4>2. Skipped' = Skipped
        BY <1>0, <2>1, <4>1 DEF Skipped, Gone
      <4>3. Cardinality(Gone') = Cardinality(Gone) - 1
        BY <1>0, <3>2, <4>1, FS_RemoveElement
      <4> QED
        BY <1>0, <2>1, <4>2, <4>3 DEF CleanInv
    <3> QED
      BY <3>3, <3>4
  <2> QED
    BY <2>2, <2>3
<1>4. CASE Tally
  BY <1>4 DEF Tally, CleanInv
<1>5. CASE UNCHANGED vars
  BY <1>5 DEF vars, CleanInv, Gone, Skipped
<1>6. CASE \/ \E p \in Players : ClientPutInServer(p) \/ ClientDisconnect(p) \/ SayRtv(p)
           \/ WaitOver \/ LevelInitPreEntity
  BY <1>1, <1>6 DEF ClientPutInServer, ClientDisconnect, SayRtv, WaitOver, LevelInitPreEntity
<1> QED
  BY <1>2, <1>3, <1>4, <1>5, <1>6 DEF Next, FrameEnd

\* Handles that are not null stand for different players.
LEMMA LiveCount ==
    ASSUME TypeInv, OneVoteEach
    PROVE  /\ Cardinality(Live) \in Nat
           /\ Len(voters) <= Cardinality(Live) + Cardinality(Gone)
<1> DEFINE Held == (1..Len(voters)) \ Gone
           holder == [j \in Held |-> voters[j]]
<1>1. voters \in Seq(Handles) /\ Len(voters) \in Nat
  BY DEF TypeInv, TypeOK, Handles
<1>2. IsFiniteSet(Gone) /\ Cardinality(Gone) \in Nat /\ Gone \in SUBSET (1..Len(voters))
  BY <1>1, GoneFinite DEF Gone
<1>3. IsFiniteSet(Live) /\ Cardinality(Live) \in Nat
  <2>1. Live \in SUBSET Players
    BY DEF Live
  <2> QED
    BY <2>1, FS_Subset, FS_CardinalityType
<1>4. Cardinality(Held) = Len(voters) - Cardinality(Gone)
  <2>1. IsFiniteSet(1..Len(voters)) /\ Cardinality(1..Len(voters)) = Len(voters)
    BY <1>1, FS_Interval
  <2>2. (1..Len(voters)) \cap Gone = Gone
    BY <1>2
  <2> QED
    BY ZenonT(60), <1>2, <2>1, <2>2, FS_Difference
<1>5. \A j \in Held : voters[j] \in Live
  BY <1>1 DEF Gone, Live, Handles
<1>6. holder \in Injection(Held, Live)
  BY <1>5 DEF Injection, IsInjective, OneVoteEach, Gone
<1>7. Cardinality(Held) <= Cardinality(Live)
  BY <1>3, <1>6, FS_Injection
<1> QED
  BY <1>1, <1>2, <1>3, <1>4, <1>7

LEMMA TallyStep ==
    ASSUME TypeInv, OneVoteEach, CleanInv, [Next]_vars, calls' > calls
    PROVE  2 * (Cardinality(Live) + stale \div 2) >= Cardinality(inGame)
<1>0. calls \in Nat /\ stale \in Nat /\ scan \in Nat /\ Len(voters) \in Nat
  BY DEF TypeInv, TypeOK
<1>1. Tally
  <2>1. ~ LevelInitPreEntity
    BY <1>0 DEF LevelInitPreEntity
  <2>2. \A p \in Players : ~ (ClientPutInServer(p) \/ ClientDisconnect(p) \/ SayRtv(p))
    BY <1>0 DEF ClientPutInServer, ClientDisconnect, SayRtv
  <2>3. ~ (WaitOver \/ BeginScan \/ ScanVoter \/ UNCHANGED vars)
    BY <1>0 DEF WaitOver, BeginScan, ScanVoter, vars
  <2> QED
    BY <2>1, <2>2, <2>3 DEF Next, FrameEnd
<1>2. scan > Len(voters) /\ Len(voters) >= Required
  BY <1>0, <1>1 DEF Tally
<1>3. Skipped = Gone
  BY <1>0, <1>2 DEF Skipped, Gone
<1>4. Cardinality(Gone) \in Nat
  BY GoneFinite DEF TypeInv, TypeOK, Handles
<1>5. 2 * Cardinality(Gone) <= stale
  BY <1>0, <1>2, <1>3, <1>4 DEF CleanInv
<1>6. Cardinality(inGame) \in Nat
  BY FS_Subset, FS_CardinalityType DEF TypeInv, TypeOK
<1>7. /\ Cardinality(Live) \in Nat
      /\ Len(voters) <= Cardinality(Live) + Cardinality(Gone)
  BY LiveCount
<1>8. 2 * Required >= Cardinality(inGame) /\ Required \in Nat
  BY <1>6 DEF Required
<1>9. Cardinality(Gone) <= stale \div 2
  BY <1>0, <1>4, <1>5
<1> QED
  BY <1>0, <1>2, <1>4, <1>6, <1>7, <1>8, <1>9

\* A vote that succeeds is short of half of the players by no more than half
\* of those who left after voting.
THEOREM ShortByHalfOfGoneCorrect == Spec => ShortByHalfOfGone
<1>1. TypeInv /\ OneVoteEach /\ CleanInv /\ [Next]_vars
      => [calls' > calls
          => 2 * (Cardinality(Live) + stale \div 2) >= Cardinality(inGame)]_vars
  BY TallyStep
<1>2. Spec => []CleanInv
  BY CleanInit, CleanStep, TypeInvariant, PTL DEF Spec
<1> QED
  BY <1>1, <1>2, TypeInvariant, OneVoteEachCorrect, PTL DEF Spec, ShortByHalfOfGone
-----------------------------------------------------------------------------
(* A vote that is carried.                                                 *)

\* The clean-up loses no vote of a carried one, comes nearer to its end with
\* every turn, and at its end the change of level is asked for: what is safety
\* in MajorityIsHeard.
MajorityIsCounted ==
    [][scan > 0 /\ Carried =>
          IF scan > Len(voters) THEN calls' = calls + 1
          ELSE Carried' /\ Len(voters') - scan' < Len(voters) - scan]_vars

\* Every player who has voted is somewhere in the list.
LEMMA LiveHasPlace ==
    ASSUME TypeInv
    PROVE  Cardinality(Live) \in Nat /\ Cardinality(Live) <= Len(voters)
<1> DEFINE place == [p \in Live |-> CHOOSE j \in 1..Len(voters) : voters[j] = p]
<1>1. Len(voters) \in Nat
  BY DEF TypeInv, TypeOK
<1>2. \A p \in Live : place[p] \in 1..Len(voters) /\ voters[place[p]] = p
  BY DEF Live
<1>3. place \in Injection(Live, 1..Len(voters))
  BY <1>2 DEF Injection, IsInjective
<1>4. /\ IsFiniteSet(1..Len(voters)) /\ Cardinality(1..Len(voters)) = Len(voters)
  BY <1>1, FS_Interval
<1>5. Cardinality(Live) <= Len(voters) /\ IsFiniteSet(Live)
  BY <1>3, <1>4, FS_Injection
<1> QED BY <1>5, FS_CardinalityType

\* What the handles stand for suffices, so the handles suffice.
LEMMA CarriedTally == TypeInv /\ Carried /\ Tally => calls' = calls + 1
<1> SUFFICES ASSUME TypeInv, Carried, Tally PROVE calls' = calls + 1
  OBVIOUS
<1>1. /\ Cardinality(Live) \in Nat /\ Cardinality(Live) <= Len(voters)
      /\ Len(voters) \in Nat
  BY LiveHasPlace DEF TypeInv, TypeOK
<1>2. IsFiniteSet(inGame) /\ Cardinality(inGame) \in Nat
  BY FS_Subset, FS_CardinalityType DEF TypeInv, TypeOK
<1>3. Cardinality(inGame) # 0
  BY <1>2, FS_EmptySet DEF Carried
<1>4. 2 * Cardinality(Live) >= Cardinality(inGame)
  BY DEF Carried
<1>5. Required > 0 /\ Required <= Cardinality(Live)
  BY <1>1, <1>2, <1>3, <1>4 DEF Required
<1>6. Required \in Nat /\ Len(voters) >= Required
  BY <1>1, <1>2, <1>5 DEF Required
<1> QED BY <1>5, <1>6 DEF Tally

\* A vote half of the players have cast is not missed, however many handles of
\* players who are gone are among theirs.
THEOREM MajorityIsCountedCorrect == Spec => MajorityIsCounted
<1>1. ASSUME TypeInv, Next, scan > 0, Carried
      PROVE  IF scan > Len(voters) THEN calls' = calls + 1
             ELSE Carried' /\ Len(voters') - scan' < Len(voters) - scan
  <2>0. scan # 0
    BY <1>1
  <2>1. ScanVoter \/ Tally
    BY Zenon, <1>1, <2>0 DEF Next, FrameEnd, ClientPutInServer, ClientDisconnect, SayRtv,
                WaitOver, LevelInitPreEntity, BeginScan
  <2>2. CASE Tally
    BY <1>1, <2>2, CarriedTally DEF Tally
  <2>3. CASE ScanVoter
    <3>1. Live' = Live /\ inGame' = inGame
      BY <1>1, <2>3, CleanUpStep DEF ScanVoter
    <3>2. Len(voters) \in Nat /\ scan \in 1..Len(voters) /\ scan' = scan + 1
      BY <1>1, <2>3 DEF TypeInv, TypeOK, ScanVoter
    <3>3. Len(voters') \in {Len(voters), Len(voters) - 1}
      BY <1>1, <2>3, CleanFacts
    <3> QED BY <1>1, <3>1, <3>2, <3>3 DEF Carried
  <2> QED BY <2>1, <2>2, <2>3
<1>2. TypeInv /\ [Next]_vars
      => [scan > 0 /\ Carried =>
             IF scan > Len(voters) THEN calls' = calls + 1
             ELSE Carried' /\ Len(voters') - scan' < Len(voters) - scan]_vars
  BY <1>1
<1> QED
  BY <1>2, TypeInvariant, PTL DEF Spec, MajorityIsCounted
=============================================================================
