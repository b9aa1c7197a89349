----------------------------- MODULE MCServer -----------------------------
(* The components that share no state, each in states of its own: which    *)
(* one a behaviour is about is chosen in the beginning, and the others do  *)
(* not leave their initial states (the map cycle one without a file).      *)
EXTENDS MapCycle, EventQueue, NextBotBehavior, BotQuota, TLC

CONSTANTS A, B, C, r1, r2, r3, r4, r5

VARIABLE component

serverVars == <<vars, queueVars, actionVars, botVars, component>>
-----------------------------------------------------------------------------
\* A map twice in the cycle, two maps, one map.
MCPlayable == {<<A, B, A, C>>, <<B, A>>, <<C>>}

\* r1 and r2 trigger one another; r3 cancels its own outputs; what r4 and r5
\* post is overtaken, and r4 is gone once it has fired.
To(whom, what, after, once) ==
    [target |-> whom, input |-> what, delay |-> after, once |-> once]
MCOnTrigger ==
    (r1 :> <<To(r2, "Trigger", 0, FALSE)>>) @@
    (r2 :> <<To(r1, "Trigger", 0, FALSE), To(r3, "CancelPending", 2, TRUE)>>) @@
    (r3 :> <<To(NoOne, "Enable", 2, FALSE), To(r3, "CancelPending", 1, FALSE)>>) @@
    (r4 :> <<To(r1, "Toggle", 1, FALSE), To(r2, "Disable", 0, FALSE)>>) @@
    (r5 :> <<To(r4, "Trigger", 2, FALSE), To(r2, "Enable", 1, FALSE)>>)
MCPosts == {To(r1, "Trigger", 1, FALSE), To(r1, "CancelPending", 1, FALSE),
            To(r3, "Trigger", 1, FALSE), To(r5, "Trigger", 0, FALSE)}
-----------------------------------------------------------------------------
\* Whether bots wait for a player and leave a slot free, by the kind of quota.
MCSettings == {[mode |-> "normal", vacate |-> TRUE, after |-> TRUE],
               [mode |-> "fill", vacate |-> TRUE, after |-> FALSE],
               [mode |-> "match", vacate |-> FALSE, after |-> TRUE]}
-----------------------------------------------------------------------------
Cycle(Act) == /\ component = "cycle" /\ Act
              /\ UNCHANGED <<queueVars, actionVars, botVars, component>>
Queue(Act) == /\ component = "queue" /\ Act
              /\ UNCHANGED <<vars, actionVars, botVars, component>>
OneBot(Act) == /\ component = "bot" /\ Act
               /\ UNCHANGED <<vars, queueVars, botVars, component>>
AllBots(Act) == /\ component = "quota" /\ Act
                /\ UNCHANGED <<vars, queueVars, actionVars, component>>

ServerInit == /\ Init /\ QueueInit /\ ActionInit /\ BotInit
              /\ component \in {"cycle", "queue", "bot", "quota"}
              /\ component = "cycle" \/ file = NoFile
              /\ component = "quota" \/ setting.mode = "normal"
ServerNext == \/ Cycle(QuietNext) \/ Queue(QueueNext)
              \/ OneBot(ActionNext) \/ AllBots(BotNext)

\* The fairness of QuietSpec, QueueSpec and BotSpec.
ServerFairness ==
    /\ WF_serverVars(Cycle(EngineStep))
    /\ SF_serverVars(Cycle(GoToIntermission(FALSE)))
    /\ SF_serverVars(Cycle(ChatOver)) /\ SF_serverVars(Cycle(ThinkGameOver))
    /\ SF_serverVars(Queue(\E t \in 1..MaxFrame : Frame(t)))
    /\ WF_serverVars(Queue(Service)) /\ WF_serverVars(Queue(Restore))
    /\ WF_serverVars(AllBots(Manager))

ServerSpec == ServerInit /\ [][ServerNext]_serverVars /\ ServerFairness
=============================================================================
