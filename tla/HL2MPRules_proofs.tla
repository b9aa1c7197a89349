-------------------------- MODULE HL2MPRules_proofs --------------------------
(***************************************************************************)
(* Proofs about HL2MPRules, for any set of players and any delays.         *)
(***************************************************************************)
EXTENDS HL2MPRules, TLAPS

\* The wait is over in the Think that hears everybody: nothing is heard while
\* it lasts.
WaitInv == awaiting => ~ heard

\* One change of level is asked for besides the commands, by the intermission
\* that is done or, at the limit of entities, when it begins.
OverInv ==
    /\ ~ GameOver => calls = 0 /\ commands = 0 /\ ~ done
    /\ calls \in {commands, commands + 1}
    /\ calls > commands => done \/ chatLeft > 0

IInv == TypeOK /\ ChangesOnce /\ WaitInv /\ OverInv

\* The values a level begins with, next to any request of the operator's.
Fresh ==
    /\ life = [p \in Players |-> "out"] /\ ready = {} /\ said = {}
    /\ askRestart \in 0..MaxAsk /\ askReady \in BOOLEAN
    /\ awaiting = FALSE /\ heard = FALSE /\ restartIn = NoRestart /\ periodic = TRUE
    /\ over = "no" /\ chatLeft = 0 /\ done = FALSE /\ calls = 0 /\ commands = 0

LEMMA FreshInv == Fresh => IInv
<1> SUFFICES ASSUME Fresh PROVE IInv
  OBVIOUS
<1> USE DEF Fresh
<1>0. ChangesOnce /\ WaitInv /\ OverInv
  BY DEF ChangesOnce, WaitInv, OverInv, GameOver
<1>1. awaiting \in BOOLEAN /\ heard \in BOOLEAN /\ periodic \in BOOLEAN
  OBVIOUS
<1>2. over \in {"no", "intermission", "command"} /\ done \in BOOLEAN
  OBVIOUS
<1>3. restartIn \in NoRestart..ReadyDelay \cup 0..DelayCap
  BY TimesAssumption DEF NoRestart
<1>4. chatLeft \in 0..ChatTime /\ calls \in Nat /\ commands \in 0..MaxNext
  BY TimesAssumption
<1>5. life \in [Players -> {"out", "alive", "dying", "dead"}]
  OBVIOUS
<1>6. ready \subseteq InGame /\ said \subseteq InGame
  OBVIOUS
<1> QED BY <1>0, <1>1, <1>2, <1>3, <1>4, <1>5, <1>6 DEF TypeOK, IInv

LEMMA InitInv == Init => IInv
<1>1. 0 \in 0..MaxAsk /\ FALSE \in BOOLEAN
  BY TimesAssumption
<1>2. Init => Fresh
  BY <1>1, Zenon DEF Init, Fresh
<1> QED BY <1>2, FreshInv
-----------------------------------------------------------------------------
\* The steps of players.
LEMMA PlayerSteps ==
    ASSUME IInv, NEW p \in Players,
           \/ ClientPutInServer(p) \/ ClientDisconnect(p)
           \/ Killed(p) \/ Spawn(p) \/ CheckChatForReadySignal(p)
    PROVE  IInv'
<1> USE DEF IInv, TypeOK, ChangesOnce, WaitInv, OverInv, GameOver, InGame,
            cvars, roundVars, overVars
<1>1. CASE ClientPutInServer(p) BY <1>1 DEF ClientPutInServer
<1>2. CASE ClientDisconnect(p) BY <1>2 DEF ClientDisconnect
<1>3. CASE Killed(p) BY <1>3 DEF Killed
<1>4. CASE Spawn(p) BY <1>4 DEF Spawn
<1>5. CASE CheckChatForReadySignal(p) BY <1>5 DEF CheckChatForReadySignal
<1> QED BY <1>1, <1>2, <1>3, <1>4, <1>5
-----------------------------------------------------------------------------
\* The delay Think works with is one a restart may have.
LEMMA AskedDelayType ==
    ASSUME TypeOK
    PROVE  AskedDelay \in NoRestart..ReadyDelay \cup 0..DelayCap
BY TimesAssumption DEF TypeOK, AskedDelay, NoRestart

\* A round's Think keeps the types: it respawns players and lets none in or
\* out, and forgets signals only.
LEMMA RoundStep ==
    ASSUME IInv, ThinkRound
    PROVE  IInv'
<1>1. /\ life' \in [Players -> {"out", "alive", "dying", "dead"}]
      /\ InGame' = InGame
  <2>1. CASE AskedDelay = 0
    BY <2>1 DEF IInv, TypeOK, ThinkRound, InGame, Respawned
  <2>2. CASE AskedDelay # 0
    BY <2>2 DEF IInv, TypeOK, ThinkRound, InGame
  <2> QED BY <2>1, <2>2
<1>2. ready' \subseteq InGame /\ said' \subseteq InGame
  BY DEF IInv, TypeOK, ThinkRound, ReadyAfter
<1>3. restartIn' \in NoRestart..ReadyDelay \cup 0..DelayCap
  <2>1. AskedDelay \in NoRestart..ReadyDelay \cup 0..DelayCap
    BY AskedDelayType DEF IInv
  <2> QED BY <2>1, TimesAssumption DEF ThinkRound, NoRestart
<1>4. /\ askRestart' \in 0..MaxAsk /\ askReady' \in BOOLEAN
      /\ periodic' \in BOOLEAN
  <2>1. askRestart' \in 0..MaxAsk
    BY TimesAssumption DEF IInv, TypeOK, ThinkRound
  <2>2. askReady' \in BOOLEAN /\ periodic' \in BOOLEAN
    BY Zenon DEF IInv, TypeOK, ThinkRound
  <2> QED BY <2>1, <2>2
<1>5. awaiting' \in BOOLEAN /\ heard' \in BOOLEAN /\ WaitInv'
  BY DEF IInv, TypeOK, ThinkRound, AwaitingNow, HeardNow, Asked, WaitInv
<1>6. /\ over' \in {"no", "intermission", "command"} /\ chatLeft' \in 0..ChatTime
      /\ done' \in BOOLEAN /\ calls' \in Nat /\ commands' \in 0..MaxNext
      /\ ChangesOnce' /\ OverInv'
  BY DEF IInv, TypeOK, ThinkRound, overVars, ChangesOnce, OverInv, GameOver
<1> QED BY <1>1, <1>2, <1>3, <1>4, <1>5, <1>6 DEF IInv, TypeOK
-----------------------------------------------------------------------------
\* The intermission begins with no change of level asked for, its end asks for
\* one only if its beginning has not, and a command is counted.
LEMMA OverSteps ==
    ASSUME IInv,
           \/ \E full \in BOOLEAN : ThinkLimit(full)
           \/ ChangelevelNext
           \/ ThinkGameOver
    PROVE  IInv'
<1> USE TimesAssumption
    DEF IInv, TypeOK, ChangesOnce, WaitInv, OverInv, GameOver, InGame,
        playerVars, cvars, roundVars
<1>1. ASSUME NEW full \in BOOLEAN, ThinkLimit(full) PROVE IInv'
  BY <1>1 DEF ThinkLimit
<1>2. CASE ThinkGameOver BY <1>2 DEF ThinkGameOver, IntermissionOver
<1>3. CASE ChangelevelNext BY <1>3 DEF ChangelevelNext
<1> QED BY <1>1, <1>2, <1>3

LEMMA SecondStep ==
    ASSUME IInv, Second
    PROVE  IInv'
<1>1. InGame' = InGame
  BY DEF IInv, TypeOK, Second, InGame
<1> QED BY <1>1, TimesAssumption
        DEF IInv, TypeOK, Second, ChangesOnce, WaitInv, OverInv, GameOver, cvars, NoRestart

LEMMA NextInv == IInv /\ [Next]_vars => IInv'
<1> SUFFICES ASSUME IInv, [Next]_vars PROVE IInv'
  OBVIOUS
<1>1. ASSUME NEW p \in Players,
             \/ ClientPutInServer(p) \/ ClientDisconnect(p)
             \/ Killed(p) \/ Spawn(p) \/ CheckChatForReadySignal(p)
      PROVE  IInv'
  BY <1>1, PlayerSteps
<1>2. ASSUME NEW n \in 1..MaxAsk, AskRestart(n) PROVE IInv'
  BY <1>2, TimesAssumption
     DEF AskRestart, IInv, TypeOK, ChangesOnce, WaitInv, OverInv, GameOver, InGame,
         playerVars, roundVars, overVars
<1>3. CASE AskReady
  BY <1>3 DEF AskReady, IInv, TypeOK, ChangesOnce, WaitInv, OverInv, GameOver, InGame,
              playerVars, roundVars, overVars
<1>4. CASE Second BY <1>4, SecondStep
<1>5. ASSUME NEW full \in BOOLEAN, ThinkLimit(full) PROVE IInv'
  BY <1>5, OverSteps
<1>6. CASE Think BY <1>6, OverSteps, RoundStep DEF Think
<1>7. CASE NewLevel
  <2>1. askRestart' \in 0..MaxAsk /\ askReady' \in BOOLEAN
    BY <1>7 DEF NewLevel, cvars, IInv, TypeOK
  <2>2. Fresh'
    BY <1>7, <2>1 DEF NewLevel, Fresh
  <2> QED BY <2>2, FreshInv, PTL
<1>8. CASE UNCHANGED vars
  BY <1>8 DEF vars, playerVars, cvars, roundVars, overVars,
              IInv, TypeOK, ChangesOnce, WaitInv, OverInv, GameOver, InGame
<1>9. CASE ChangelevelNext BY <1>9, OverSteps
<1> QED BY <1>1, <1>2, <1>3, <1>4, <1>5, <1>6, <1>7, <1>8, <1>9 DEF Next

LEMMA Invariance == Spec => []IInv
BY InitInv, NextInv, PTL DEF Spec
-----------------------------------------------------------------------------
\* Every variable holds a value of its type; a restart is never further away
\* than the longer of the two delays.
THEOREM TypeCorrect == Spec => []TypeOK
<1>1. IInv => TypeOK BY DEF IInv
<1> QED BY <1>1, Invariance, PTL

\* Besides the commands, the intermission and the limit of entities together
\* ask for one change of level.
THEOREM ChangesOnceCorrect == Spec => []ChangesOnce
<1>1. IInv => ChangesOnce BY DEF IInv
<1> QED BY <1>1, Invariance, PTL

\* A request for ready signals is answered only when every player is ready.
THEOREM CountdownWhenReadyCorrect == Spec => CountdownWhenReady
<1>1. IInv /\ [Next]_vars =>
          [ThinkRound => (Pending /\ ~ Pending' => AllReady)]_vars
  BY DEF IInv, WaitInv, ThinkRound, AwaitingNow, HeardNow, Asked, Pending
<1> QED BY <1>1, Invariance, PTL DEF Spec, CountdownWhenReady
-----------------------------------------------------------------------------
(* A level that is over.                                                   *)

\* A level that is over always has something to wait for: the engine, the end
\* of the chat, or the Think that ends it; and until it is left, nothing lets
\* it go on, takes a request for a change back or prolongs the chat.  This is
\* what is safety in LevelEnds.
OverIsLeft ==
    /\ [](GameOver => calls > 0 \/ chatLeft > 0 \/ IntermissionOver)
    /\ [][GameOver => \/ NewLevel
                      \/ GameOver' /\ calls' >= calls /\ chatLeft' <= chatLeft]_vars

\* m_bChangelevelDone is set only with a request for a change of level.
DoneInv == done => calls > 0

LEMMA DoneStep == IInv /\ DoneInv /\ [Next]_vars => DoneInv'
<1> SUFFICES ASSUME IInv, DoneInv, [Next]_vars PROVE DoneInv'
  OBVIOUS
<1> USE DEF DoneInv
<1>0. calls \in Nat
  BY DEF IInv, TypeOK
<1>1. ASSUME NEW full \in BOOLEAN, ThinkLimit(full) PROVE DoneInv'
  BY <1>0, <1>1 DEF ThinkLimit
<1>2. CASE ChangelevelNext BY <1>0, <1>2 DEF ChangelevelNext
<1>3. CASE ThinkGameOver BY <1>0, <1>3 DEF ThinkGameOver
<1>4. CASE Second BY <1>4 DEF Second
<1>5. CASE NewLevel BY <1>5 DEF NewLevel
<1>6. ASSUME ~ \/ \E full \in BOOLEAN : ThinkLimit(full)
               \/ ChangelevelNext \/ ThinkGameOver \/ Second \/ NewLevel
      PROVE  UNCHANGED overVars
  BY <1>6 DEF Next, Think, ClientPutInServer, ClientDisconnect, Killed, Spawn,
              CheckChatForReadySignal, AskRestart, AskReady, ThinkRound, vars
<1> QED BY <1>1, <1>2, <1>3, <1>4, <1>5, <1>6 DEF overVars

LEMMA OverStep ==
    ASSUME IInv, Next, GameOver, ~ NewLevel
    PROVE  GameOver' /\ calls' >= calls /\ chatLeft' <= chatLeft
<1>0. calls \in Nat /\ chatLeft \in Nat /\ chatLeft <= chatLeft
  BY TimesAssumption DEF IInv, TypeOK
<1> USE DEF GameOver
<1>1. CASE ChangelevelNext BY <1>0, <1>1 DEF ChangelevelNext
<1>2. CASE ThinkGameOver BY <1>0, <1>2 DEF ThinkGameOver
<1>3. CASE Second BY <1>0, <1>3 DEF Second
<1>4. ASSUME ~ (ChangelevelNext \/ ThinkGameOver \/ Second)
      PROVE  UNCHANGED overVars
  BY <1>4 DEF Next, Think, ClientPutInServer, ClientDisconnect, Killed, Spawn,
              CheckChatForReadySignal, AskRestart, AskReady, ThinkRound, ThinkLimit
<1> QED BY <1>0, <1>1, <1>2, <1>3, <1>4 DEF overVars

\* The end of a level cannot get stuck: every request, by whoever, is kept, and
\* a Think that has asked for the change has indeed asked.
THEOREM OverIsLeftCorrect == Spec => OverIsLeft
<1>1. Init => DoneInv
  BY DEF Init, DoneInv
<1>2. Spec => []DoneInv
  BY <1>1, DoneStep, Invariance, PTL DEF Spec
<1>3. IInv /\ DoneInv => (GameOver => calls > 0 \/ chatLeft > 0 \/ IntermissionOver)
  BY TimesAssumption DEF IInv, TypeOK, DoneInv, IntermissionOver
<1>4. IInv /\ [Next]_vars
      => [GameOver => \/ NewLevel
                      \/ GameOver' /\ calls' >= calls /\ chatLeft' <= chatLeft]_vars
  BY OverStep
<1> QED BY <1>2, <1>3, <1>4, Invariance, PTL DEF Spec, OverIsLeft
-----------------------------------------------------------------------------
(* Why an announced restart happens, and why the players are heard.        *)

\* A restart that was announced comes nearer with every second, its Think starts
\* it, and nothing puts it off but what may: a request, the end of the level, or
\* the end of the wait for everybody's signal, which starts the countdown anew
\* once per request.
RestartComesNearer ==
    /\ [](~ GameOver => calls = 0)
    /\ [][restartIn # NoRestart /\ ~ GameOver /\ askRestart = 0 /\ ~ askReady =>
             \/ restartIn' = NoRestart \/ GameOver' \/ askRestart' > 0 \/ askReady'
             \/ awaiting /\ ~ awaiting'
             \/ /\ awaiting' = awaiting
                /\ restartIn' = IF Second /\ restartIn > 0 THEN restartIn - 1 ELSE restartIn
                /\ ThinkRound => restartIn > 0]_vars

\* When everybody is ready the next periodic Think ends the wait, and no step
\* puts that Think off.
ReadyIsHeard ==
    [][awaiting /\ AllReady /\ ~ GameOver /\ ~ askReady =>
          \/ ~ awaiting' \/ ~ AllReady' \/ GameOver' \/ askReady'
          \/ ~ (ThinkRound /\ periodic) /\ (periodic => periodic')]_vars

LEMMA RestartStep ==
    ASSUME IInv, Next, restartIn # NoRestart, ~ GameOver, askRestart = 0, ~ askReady,
           restartIn' # NoRestart, ~ GameOver', ~ (askRestart' > 0), ~ askReady',
           ~ (awaiting /\ ~ awaiting')
    PROVE  /\ awaiting' = awaiting
           /\ restartIn' = IF Second /\ restartIn > 0 THEN restartIn - 1 ELSE restartIn
           /\ ThinkRound => restartIn > 0
<1>0. /\ restartIn \in Int /\ restartIn >= 0
      /\ awaiting \in BOOLEAN /\ awaiting' \in BOOLEAN /\ awaiting => ~ heard
  <2>1. IInv'
    BY NextInv
  <2> QED BY <2>1, TimesAssumption DEF IInv, TypeOK, WaitInv, NoRestart
<1>1. CASE ThinkRound
  <2>1. ~ Asked /\ AskedDelay = restartIn /\ (AwaitingNow <=> awaiting)
    BY DEF Asked, AskedDelay, AwaitingNow
  <2>2. ~ EveryoneReady
    BY <1>0, <1>1, <2>1 DEF ThinkRound, EveryoneReady
  <2>3. awaiting' = awaiting
    <3>1. awaiting' <=> AwaitingNow /\ ~ HeardNow
      BY <1>1 DEF ThinkRound
    <3>2. awaiting' <=> awaiting
      BY <2>1, <2>2, <3>1 DEF EveryoneReady
    <3> QED BY <1>0, <3>2
  <2>4. restartIn' = (IF restartIn = 0 THEN NoRestart ELSE restartIn)
    BY <1>1, <2>1, <2>2 DEF ThinkRound
  <2>5. restartIn > 0 /\ restartIn' = restartIn
    BY <1>0, <2>4
  <2>6. Second => restartIn' = IF restartIn > 0 THEN restartIn - 1 ELSE restartIn
    BY DEF Second
  <2> QED BY <2>3, <2>5, <2>6
<1>2. CASE ~ ThinkRound /\ Second
  BY <1>2 DEF Second
<1>3. CASE ~ ThinkRound /\ ~ Second
  <2>1. ~ NewLevel
    BY DEF NewLevel
  <2>2. ~ ThinkGameOver
    BY DEF ThinkGameOver, IntermissionOver
  <2>3. restartIn' = restartIn /\ awaiting' = awaiting
    BY <1>3, <2>1, <2>2 DEF Next, Think, ClientPutInServer, ClientDisconnect, Killed, Spawn,
       CheckChatForReadySignal, AskRestart, AskReady, ThinkLimit, ChangelevelNext, roundVars
  <2> QED BY <1>3, <2>3
<1> QED BY <1>1, <1>2, <1>3

\* The safety core of RestartHappens.
THEOREM RestartComesNearerCorrect == Spec => RestartComesNearer
<1>1. IInv => (~ GameOver => calls = 0)
  BY DEF IInv, OverInv
<1>2. IInv /\ [Next]_vars =>
        [restartIn # NoRestart /\ ~ GameOver /\ askRestart = 0 /\ ~ askReady =>
             \/ restartIn' = NoRestart \/ GameOver' \/ askRestart' > 0 \/ askReady'
             \/ awaiting /\ ~ awaiting'
             \/ /\ awaiting' = awaiting
                /\ restartIn' = IF Second /\ restartIn > 0 THEN restartIn - 1 ELSE restartIn
                /\ ThinkRound => restartIn > 0]_vars
  BY RestartStep
<1> QED BY <1>1, <1>2, Invariance, PTL DEF Spec, RestartComesNearer

LEMMA ReadyStep ==
    ASSUME IInv, Next, awaiting, AllReady, ~ GameOver, ~ askReady, awaiting'
    PROVE  ~ (ThinkRound /\ periodic) /\ (periodic => periodic')
<1>1. ~ (ThinkRound /\ periodic)
  BY DEF ThinkRound, Asked, HeardNow, AwaitingNow
<1>2. CASE ThinkRound
  BY <1>1, <1>2
<1>3. CASE Second \/ NewLevel
  BY <1>1, <1>3 DEF Second, NewLevel
<1>4. CASE ~ (ThinkRound \/ Second \/ NewLevel)
  BY <1>1, <1>4 DEF Next, Think, ClientPutInServer, ClientDisconnect, Killed, Spawn,
     CheckChatForReadySignal, AskRestart, AskReady, ThinkLimit, ChangelevelNext,
     ThinkGameOver, roundVars
<1> QED BY <1>2, <1>3, <1>4

\* The safety core of ReadyIsHonoured.
THEOREM ReadyIsHeardCorrect == Spec => ReadyIsHeard
<1>1. IInv /\ [Next]_vars =>
        [awaiting /\ AllReady /\ ~ GameOver /\ ~ askReady =>
            \/ ~ awaiting' \/ ~ AllReady' \/ GameOver' \/ askReady'
            \/ ~ (ThinkRound /\ periodic) /\ (periodic => periodic')]_vars
  BY ReadyStep
<1> QED BY <1>1, Invariance, PTL DEF Spec, ReadyIsHeard
=============================================================================
