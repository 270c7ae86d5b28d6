-------------------------- MODULE AgentManager_proofs --------------------------
(***************************************************************************)
(* Theorems about the agent manager and its agents, for any agents, rooms, *)
(* capacities and numbers of restarts: types, what an init answer stands   *)
(* for, whom the receiver can know, and that a lost agent stays lost.      *)
(***************************************************************************)
EXTENDS AgentManager, FiniteSetTheorems, TLAPS

-------------------------------------------------------------------------------
(* The inductive invariant.                                                  *)

\* The types of the variables, the request's and the channels' apart.
Types ==
    /\ starts \in 1 .. MaxStarts
    /\ centre \in {"up", "down"} /\ receiver \in {"running", "returned"}
    /\ managed \subseteq Agents /\ fresh \subseteq managed
    /\ initialised \in [Agents -> BOOLEAN] /\ listened \in [Agents -> 0 .. MaxLives]
    /\ phase \in [Agents -> {"off", "registering", "subscribed", "running"}]
    /\ life \in [Agents -> 0 .. MaxLives]
    /\ registerChan \in [Agents -> Marks] /\ serving \in [Agents -> Marks]
    /\ watchingRooms \in [Agents -> SUBSET Rooms]
    /\ actions \in 0 .. MaxActions

\* The channel of the receiver,
Channel == agentChan \in Seq({"info", "status"} \X Agents) /\ Len(agentChan) <= AgentCap

\* and those of the agents' controllers.
Controls ==
    /\ controlChan \in [Agents -> Seq({"AddRoom", "DelRoom"} \X Rooms)]
    /\ \A a \in Agents : Len(controlChan[a]) <= ControlCap

\* The request is to a registered agent.
Requested == request = <<>> \/ request \in managed \X {"open", "answered"}

\* A mark "awaited" belongs to the request that is open and not yet answered.
Awaited ==
    \A a \in Agents :
        registerChan[a] = "awaited" \/ serving[a] = "awaited" => request = <<a, "open">>

\* Nobody is registered in a centre that is down, nor while its receiver runs.
Alone ==
    /\ receiver = "running" => managed = {}
    /\ centre = "down" => managed = {} /\ receiver = "returned"
    /\ managed = {} \/ \E a \in Agents : managed = {a}

\* Lives are numbered from 1, and no agent has listened in one that is to come.
Lives ==
    \A a \in Agents :
        /\ listened[a] <= life[a]
        /\ phase[a] # "off" => life[a] # 0
        /\ phase[a] = "registering" => listened[a] # life[a]

\* An agent whose answer counts, or whose answer is on its way, or which is about to
\* give one to somebody who waits for it, has subscribed to its actions.
Listening ==
    \A a \in Agents :
        \/ initialised[a]
        \/ request = <<a, "answered">>
        \/ phase[a] = "subscribed" /\ serving[a] = "awaited"
        => listened[a] # 0

IInv ==
    /\ Types /\ Channel /\ Controls /\ Requested /\ Awaited /\ Alone
    /\ Lives /\ Listening

\* The invariant holds at the start.
LEMMA Initially == Init => IInv
BY ManagerAssumption DEF Init, IInv, Types, Channel, Controls, Requested, Awaited, Alone, Lives, Listening, Marks

-------------------------------------------------------------------------------
(* Each part is kept by every step.                                          *)

\* Types are kept; the request is needed for the bit it sets, the controllers'
\* channels for the room they add.
LEMMA TypesKept == Types /\ Controls /\ Requested /\ [Next]_vars => Types'
<1> SUFFICES ASSUME Types /\ Requested, Controls, [Next]_vars PROVE Types'
  OBVIOUS
<1> USE ManagerAssumption DEF Types, Requested, Marks, centreVars, agentVars
<1>1. ASSUME NEW a \in Agents, Register(a) PROVE Types'
  BY <1>1 DEF Register, Receive, Return
<1>2. ASSUME NEW a \in Agents, StatusOfUnknown(a) PROVE Types'
  BY <1>2 DEF StatusOfUnknown, Receive, Return
<1>3. ASSUME NEW a \in Agents, InitTick(a) PROVE Types'
  BY <1>3 DEF InitTick
<1>4. ASSUME NEW a \in Agents, GrowStale(a) PROVE Types'
  BY <1>4 DEF GrowStale
<1>5. CASE InitAnswered
  BY <1>5 DEF InitAnswered
<1>6. CASE InitFailed
  BY <1>6 DEF InitFailed, Orphan, Orphaned
<1>7. CASE SyncTick
  BY <1>7 DEF SyncTick, Orphan, Orphaned
<1>8. CASE Start
  BY <1>8 DEF Start
<1>9. ASSUME NEW a \in Agents, StartAgent(a) PROVE Types'
  BY <1>9 DEF StartAgent
<1>10. ASSUME NEW a \in Agents, StopAgent(a) PROVE Types'
  BY <1>10 DEF StopAgent
<1>11. ASSUME NEW a \in Agents, SendInfo(a) PROVE Types'
  BY <1>11 DEF SendInfo
<1>12. ASSUME NEW a \in Agents, TakeInit(a) PROVE Types'
  BY <1>12 DEF TakeInit
<1>13. ASSUME NEW a \in Agents, Subscribe(a) PROVE Types'
  <2>1. /\ UNCHANGED <<starts, centre, receiver, managed, initialised, fresh>>
        /\ UNCHANGED <<registerChan, life, watchingRooms, actions>>
    BY <1>13 DEF Subscribe
  <2>2. \/ /\ phase' = [phase EXCEPT ![a] = "subscribed"]
           /\ listened' = [listened EXCEPT ![a] = life[a]]
           /\ UNCHANGED serving
        \/ /\ serving' = [serving EXCEPT ![a] = "none"]
           /\ UNCHANGED <<phase, listened>>
    BY <1>13 DEF Subscribe, Listen
  <2>3. life[a] \in 0 .. MaxLives
    OBVIOUS
  <2>4. phase' \in [Agents -> {"off", "registering", "subscribed", "running"}]
    BY <2>2
  <2>5. serving' \in [Agents -> Marks]
    BY <2>2
  <2>6. listened' \in [Agents -> 0 .. MaxLives]
    BY <2>2, <2>3
  <2> QED  BY <2>1, <2>4, <2>5, <2>6
<1>14. ASSUME NEW a \in Agents, Answer(a) PROVE Types'
  <2>1. /\ UNCHANGED <<centreVars, life, watchingRooms, actions>>
        /\ phase' = [phase EXCEPT ![a] = "running"]
        /\ serving' = [serving EXCEPT ![a] = "none"]
        /\ registerChan' = [registerChan EXCEPT ![a] = "none"]
    BY <1>14 DEF Answer
  <2> QED  BY <2>1
<1>15. ASSUME NEW a \in Agents, SendStatus(a) PROVE Types'
  BY <1>15 DEF SendStatus
<1>16. ASSUME NEW a \in Agents, Act(a) PROVE Types'
  <2>1. /\ controlChan[a] \in Seq({"AddRoom", "DelRoom"} \X Rooms)
        /\ controlChan[a] # <<>>
    BY <1>16 DEF Controls, Act
  <2>2. Head(controlChan[a])[2] \in Rooms
    BY <2>1
  <2>3. /\ UNCHANGED <<centreVars, registerChan, phase, life, serving, actions>>
        /\ \/ watchingRooms' =
                [watchingRooms EXCEPT ![a] = @ \union {Head(controlChan[a])[2]}]
           \/ watchingRooms' =
                [watchingRooms EXCEPT ![a] = @ \ {Head(controlChan[a])[2]}]
    BY <1>16 DEF Act
  <2> QED  BY <2>2, <2>3
<1>17. ASSUME NEW a \in Agents, NEW type \in {"AddRoom", "DelRoom"}, NEW room \in Rooms,
            SendAction(a, type, room)
      PROVE  Types'
  <2>1. /\ actions' = actions + 1 /\ actions < MaxActions
        /\ UNCHANGED <<centreVars, registerChan, phase, life, serving, watchingRooms>>
    BY <1>17 DEF SendAction
  <2> QED  BY <2>1
<1>18. CASE UNCHANGED vars
  BY <1>18 DEF vars
<1> QED
  BY <1>1, <1>2, <1>3, <1>4, <1>5, <1>6, <1>7, <1>8, <1>9, <1>10, <1>11, <1>12, <1>13, <1>14, <1>15, <1>16, <1>17, <1>18 DEF Next, Centre, Agent

\* Publishing keeps the channel's type and capacity,
LEMMA PublishKeepsChannel ==
    ASSUME Channel, NEW m \in {"info", "status"} \X Agents, Publish(m)
    PROVE  Channel'
BY ManagerAssumption DEF Channel, Publish

\* and so does a receive.
LEMMA ReceiveKeepsChannel ==
    ASSUME Channel, NEW kind, NEW a, Receive(kind, a)
    PROVE  Channel'
BY ManagerAssumption DEF Channel, Receive

\* What else there is leaves the channel alone, or loses it with the centre.
LEMMA ChannelKept == Channel /\ [Next]_vars => Channel'
<1> SUFFICES ASSUME Channel, [Next]_vars PROVE Channel'
  OBVIOUS
<1>1. ASSUME NEW a \in Agents, Register(a) \/ StatusOfUnknown(a) PROVE Channel'
  BY <1>1, ReceiveKeepsChannel DEF Register, StatusOfUnknown
<1>2. ASSUME NEW a \in Agents, SendInfo(a) \/ SendStatus(a) PROVE Channel'
  BY <1>2, PublishKeepsChannel DEF SendInfo, SendStatus
<1>3. CASE SyncTick
  BY <1>3, ManagerAssumption DEF Channel, SyncTick
<1>4. CASE UNCHANGED agentChan
  BY <1>4 DEF Channel
<1>5. ASSUME NEW a \in Agents, InitTick(a) \/ GrowStale(a) PROVE UNCHANGED agentChan
  BY <1>5 DEF InitTick, GrowStale
<1>6. ASSUME InitAnswered \/ InitFailed \/ Start PROVE UNCHANGED agentChan
  BY <1>6 DEF InitAnswered, InitFailed, Start
<1>7. ASSUME NEW a \in Agents,
             \/ StartAgent(a) \/ StopAgent(a) \/ TakeInit(a) \/ Subscribe(a) \/ Answer(a)
             \/ Act(a)
             \/ \E type \in {"AddRoom", "DelRoom"}, room \in Rooms : SendAction(a, type, room)
      PROVE  UNCHANGED agentChan
  BY <1>7 DEF StartAgent, StopAgent, TakeInit, Subscribe, Answer, Act, SendAction
<1>8. ASSUME UNCHANGED vars PROVE UNCHANGED agentChan
  BY <1>8 DEF vars
<1> QED
  BY <1>1, <1>2, <1>3, <1>4, <1>5, <1>6, <1>7, <1>8 DEF Next, Centre, Agent

\* A controller's channel is emptied, sent to when it has room, or received from.
LEMMA ControlsKept == Controls /\ [Next]_vars => Controls'
<1> SUFFICES ASSUME Controls, [Next]_vars PROVE Controls'
  OBVIOUS
<1>1. ASSUME NEW a \in Agents, StopAgent(a) PROVE Controls'
  BY <1>1, ManagerAssumption DEF Controls, StopAgent
<1>2. ASSUME NEW a \in Agents, NEW type \in {"AddRoom", "DelRoom"}, NEW room \in Rooms,
             SendAction(a, type, room)
      PROVE  Controls'
  BY <1>2, ManagerAssumption DEF Controls, SendAction
<1>3. ASSUME NEW a \in Agents, Act(a) PROVE Controls'
  BY <1>3, ManagerAssumption DEF Controls, Act
<1>4. CASE UNCHANGED controlChan
  BY <1>4 DEF Controls
<1> USE DEF agentVars
<1>5. ASSUME NEW a \in Agents,
             Register(a) \/ StatusOfUnknown(a) \/ InitTick(a) \/ GrowStale(a)
      PROVE  UNCHANGED controlChan
  BY <1>5 DEF Register, StatusOfUnknown, Receive, InitTick, GrowStale
<1>6. ASSUME InitAnswered \/ InitFailed \/ SyncTick \/ Start PROVE UNCHANGED controlChan
  BY <1>6 DEF InitAnswered, InitFailed, SyncTick, Start
<1>7. ASSUME NEW a \in Agents,
             \/ StartAgent(a) \/ SendInfo(a) \/ TakeInit(a) \/ Subscribe(a) \/ Answer(a)
             \/ SendStatus(a)
      PROVE  UNCHANGED controlChan
  BY <1>7 DEF StartAgent, SendInfo, TakeInit, Subscribe, Answer, SendStatus
<1>8. ASSUME UNCHANGED vars PROVE UNCHANGED controlChan
  BY <1>8 DEF vars
<1> QED
  BY <1>1, <1>2, <1>3, <1>4, <1>5, <1>6, <1>7, <1>8 DEF Next, Centre, Agent

\* An answer comes from the one who was asked, who is registered.
LEMMA RequestedKept == IInv /\ [Next]_vars => Requested'
<1> SUFFICES ASSUME IInv, [Next]_vars PROVE Requested'
  OBVIOUS
<1> USE ManagerAssumption DEF IInv, Types, Requested, Alone, centreVars, agentVars
<1>1. ASSUME NEW a \in Agents, Register(a) PROVE Requested'
  BY <1>1 DEF Register, Receive, Return
<1>2. ASSUME NEW a \in Agents, StatusOfUnknown(a) PROVE Requested'
  BY <1>2 DEF StatusOfUnknown, Receive, Return
<1>3. ASSUME NEW a \in Agents, InitTick(a) PROVE Requested'
  BY <1>3 DEF InitTick, TakesInit
<1>4. ASSUME NEW a \in Agents, GrowStale(a) PROVE Requested'
  BY <1>4 DEF GrowStale
<1>5. CASE InitAnswered
  BY <1>5 DEF InitAnswered
<1>6. CASE InitFailed
  BY <1>6 DEF InitFailed, Orphan, Orphaned
<1>7. CASE SyncTick
  BY <1>7 DEF SyncTick, Orphan, Orphaned
<1>8. CASE Start
  BY <1>8 DEF Start
<1>9. ASSUME NEW a \in Agents, StartAgent(a) PROVE Requested'
  BY <1>9 DEF StartAgent
<1>10. ASSUME NEW a \in Agents, StopAgent(a) PROVE Requested'
  BY <1>10 DEF StopAgent
<1>11. ASSUME NEW a \in Agents, SendInfo(a) PROVE Requested'
  BY <1>11 DEF SendInfo, Publish
<1>12. ASSUME NEW a \in Agents, TakeInit(a) PROVE Requested'
  BY <1>12 DEF TakeInit
<1>13. ASSUME NEW a \in Agents, Subscribe(a) PROVE Requested'
  BY <1>13 DEF Subscribe, Listen
<1>14. ASSUME NEW a \in Agents, Answer(a) PROVE Requested'
  <2>1. CASE serving[a] = "awaited"
    <3>1. request = <<a, "open">>
      BY <2>1 DEF Awaited
    <3>2. a \in managed
      BY <3>1
    <3>3. request' = <<a, "answered">> /\ managed' = managed
      BY <1>14, <2>1 DEF Answer, Respond
    <3> QED  BY <3>2, <3>3
  <2>2. CASE serving[a] # "awaited"
    BY <1>14, <2>2 DEF Answer, Respond
  <2> QED  BY <2>1, <2>2
<1>15. ASSUME NEW a \in Agents, SendStatus(a) PROVE Requested'
  BY <1>15 DEF SendStatus, Publish
<1>16. ASSUME NEW a \in Agents, Act(a) PROVE Requested'
  BY <1>16 DEF Act
<1>17. ASSUME NEW a \in Agents, NEW type \in {"AddRoom", "DelRoom"}, NEW room \in Rooms,
            SendAction(a, type, room)
      PROVE  Requested'
  BY <1>17 DEF SendAction
<1>18. CASE UNCHANGED vars
  BY <1>18 DEF vars
<1> QED
  BY <1>1, <1>2, <1>3, <1>4, <1>5, <1>6, <1>7, <1>8, <1>9, <1>10, <1>11, <1>12, <1>13, <1>14, <1>15, <1>16, <1>17, <1>18 DEF Next, Centre, Agent

\* No mark outlives the request it belongs to.
LEMMA AwaitedKept == IInv /\ [Next]_vars => Awaited'
<1> SUFFICES ASSUME IInv, [Next]_vars PROVE Awaited'
  OBVIOUS
<1> USE ManagerAssumption DEF IInv, Types, Requested, Awaited, Marks, centreVars, agentVars
<1>1. ASSUME NEW a \in Agents, Register(a) PROVE Awaited'
  BY <1>1 DEF Register, Receive, Return
<1>2. ASSUME NEW a \in Agents, StatusOfUnknown(a) PROVE Awaited'
  BY <1>2 DEF StatusOfUnknown, Receive, Return
<1>3. ASSUME NEW a \in Agents, InitTick(a) PROVE Awaited'
  BY <1>3 DEF InitTick, TakesInit
<1>4. ASSUME NEW a \in Agents, GrowStale(a) PROVE Awaited'
  BY <1>4 DEF GrowStale
<1>5. CASE InitAnswered
  BY <1>5 DEF InitAnswered
<1>6. CASE InitFailed
  BY <1>6 DEF InitFailed, Orphan, Orphaned
<1>7. CASE SyncTick
  BY <1>7 DEF SyncTick, Orphan, Orphaned
<1>8. CASE Start
  BY <1>8 DEF Start
<1>9. ASSUME NEW a \in Agents, StartAgent(a) PROVE Awaited'
  BY <1>9 DEF StartAgent
<1>10. ASSUME NEW a \in Agents, StopAgent(a) PROVE Awaited'
  BY <1>10 DEF StopAgent
<1>11. ASSUME NEW a \in Agents, SendInfo(a) PROVE Awaited'
  BY <1>11 DEF SendInfo, Publish
<1>12. ASSUME NEW a \in Agents, TakeInit(a) PROVE Awaited'
  BY <1>12 DEF TakeInit
<1>13. ASSUME NEW a \in Agents, Subscribe(a) PROVE Awaited'
  BY <1>13 DEF Subscribe, Listen
<1>14. ASSUME NEW a \in Agents, Answer(a) PROVE Awaited'
  BY <1>14 DEF Answer, Respond
<1>15. ASSUME NEW a \in Agents, SendStatus(a) PROVE Awaited'
  BY <1>15 DEF SendStatus, Publish
<1>16. ASSUME NEW a \in Agents, Act(a) PROVE Awaited'
  BY <1>16 DEF Act
<1>17. ASSUME NEW a \in Agents, NEW type \in {"AddRoom", "DelRoom"}, NEW room \in Rooms,
            SendAction(a, type, room)
      PROVE  Awaited'
  BY <1>17 DEF SendAction
<1>18. CASE UNCHANGED vars
  BY <1>18 DEF vars
<1> QED
  BY <1>1, <1>2, <1>3, <1>4, <1>5, <1>6, <1>7, <1>8, <1>9, <1>10, <1>11, <1>12, <1>13, <1>14, <1>15, <1>16, <1>17, <1>18 DEF Next, Centre, Agent

\* The receiver returns with the first agent it registers.
LEMMA AloneKept == Types /\ Requested /\ Alone /\ [Next]_vars => Alone'
<1> SUFFICES ASSUME Types /\ Requested /\ Alone, [Next]_vars PROVE Alone'
  OBVIOUS
<1> USE ManagerAssumption DEF Types, Alone, centreVars, agentVars
<1>1. ASSUME NEW a \in Agents, Register(a) PROVE Alone'
  BY <1>1 DEF Register, Receive, Return
<1>2. ASSUME NEW a \in Agents, StatusOfUnknown(a) PROVE Alone'
  BY <1>2 DEF StatusOfUnknown, Receive, Return
<1>3. ASSUME NEW a \in Agents, InitTick(a) PROVE Alone'
  BY <1>3 DEF InitTick, TakesInit
<1>4. ASSUME NEW a \in Agents, GrowStale(a) PROVE Alone'
  BY <1>4 DEF GrowStale
<1>5. CASE InitAnswered
  BY <1>5 DEF InitAnswered
<1>6. CASE InitFailed
  BY <1>6 DEF InitFailed, Orphan, Orphaned
<1>7. CASE SyncTick
  BY <1>7 DEF SyncTick, Orphan, Orphaned
<1>8. CASE Start
  BY <1>8 DEF Start
<1>9. ASSUME NEW a \in Agents, StartAgent(a) PROVE Alone'
  BY <1>9 DEF StartAgent
<1>10. ASSUME NEW a \in Agents, StopAgent(a) PROVE Alone'
  BY <1>10 DEF StopAgent
<1>11. ASSUME NEW a \in Agents, SendInfo(a) PROVE Alone'
  BY <1>11 DEF SendInfo, Publish
<1>12. ASSUME NEW a \in Agents, TakeInit(a) PROVE Alone'
  BY <1>12 DEF TakeInit
<1>13. ASSUME NEW a \in Agents, Subscribe(a) PROVE Alone'
  BY <1>13 DEF Subscribe, Listen
<1>14. ASSUME NEW a \in Agents, Answer(a) PROVE Alone'
  BY <1>14 DEF Answer, Respond
<1>15. ASSUME NEW a \in Agents, SendStatus(a) PROVE Alone'
  BY <1>15 DEF SendStatus, Publish
<1>16. ASSUME NEW a \in Agents, Act(a) PROVE Alone'
  BY <1>16 DEF Act
<1>17. ASSUME NEW a \in Agents, NEW type \in {"AddRoom", "DelRoom"}, NEW room \in Rooms,
            SendAction(a, type, room)
      PROVE  Alone'
  BY <1>17 DEF SendAction
<1>18. CASE UNCHANGED vars
  BY <1>18 DEF vars
<1> QED
  BY <1>1, <1>2, <1>3, <1>4, <1>5, <1>6, <1>7, <1>8, <1>9, <1>10, <1>11, <1>12, <1>13, <1>14, <1>15, <1>16, <1>17, <1>18 DEF Next, Centre, Agent

\* A new life has a number of its own, and an agent subscribes once in it.
LEMMA LivesKept == IInv /\ [Next]_vars => Lives'
<1> SUFFICES ASSUME IInv, [Next]_vars PROVE Lives'
  OBVIOUS
<1> USE ManagerAssumption DEF IInv, Types, Lives, centreVars, agentVars
<1>1. ASSUME NEW a \in Agents, Register(a) PROVE Lives'
  BY <1>1 DEF Register, Receive, Return
<1>2. ASSUME NEW a \in Agents, StatusOfUnknown(a) PROVE Lives'
  BY <1>2 DEF StatusOfUnknown, Receive, Return
<1>3. ASSUME NEW a \in Agents, InitTick(a) PROVE Lives'
  BY <1>3 DEF InitTick, TakesInit
<1>4. ASSUME NEW a \in Agents, GrowStale(a) PROVE Lives'
  BY <1>4 DEF GrowStale
<1>5. CASE InitAnswered
  BY <1>5 DEF InitAnswered
<1>6. CASE InitFailed
  BY <1>6 DEF InitFailed, Orphan, Orphaned
<1>7. CASE SyncTick
  BY <1>7 DEF SyncTick, Orphan, Orphaned
<1>8. CASE Start
  BY <1>8 DEF Start
<1>9. ASSUME NEW a \in Agents, StartAgent(a) PROVE Lives'
  BY <1>9 DEF StartAgent
<1>10. ASSUME NEW a \in Agents, StopAgent(a) PROVE Lives'
  BY <1>10 DEF StopAgent
<1>11. ASSUME NEW a \in Agents, SendInfo(a) PROVE Lives'
  BY <1>11 DEF SendInfo, Publish
<1>12. ASSUME NEW a \in Agents, TakeInit(a) PROVE Lives'
  BY <1>12 DEF TakeInit
<1>13. ASSUME NEW a \in Agents, Subscribe(a) PROVE Lives'
  BY <1>13 DEF Subscribe, Listen
<1>14. ASSUME NEW a \in Agents, Answer(a) PROVE Lives'
  BY <1>14 DEF Answer, Respond
<1>15. ASSUME NEW a \in Agents, SendStatus(a) PROVE Lives'
  BY <1>15 DEF SendStatus, Publish
<1>16. ASSUME NEW a \in Agents, Act(a) PROVE Lives'
  BY <1>16 DEF Act
<1>17. ASSUME NEW a \in Agents, NEW type \in {"AddRoom", "DelRoom"}, NEW room \in Rooms,
            SendAction(a, type, room)
      PROVE  Lives'
  BY <1>17 DEF SendAction
<1>18. CASE UNCHANGED vars
  BY <1>18 DEF vars
<1> QED
  BY <1>1, <1>2, <1>3, <1>4, <1>5, <1>6, <1>7, <1>8, <1>9, <1>10, <1>11, <1>12, <1>13, <1>14, <1>15, <1>16, <1>17, <1>18 DEF Next, Centre, Agent

\* What an agent has answered while somebody waited it has subscribed before; and who
\* is registered anew has nothing to answer yet.
LEMMA ListeningKept == IInv /\ [Next]_vars => Listening'
<1> SUFFICES ASSUME IInv, [Next]_vars PROVE Listening'
  OBVIOUS
<1> USE ManagerAssumption DEF IInv, Types, Requested, Awaited, Alone, Lives, Listening, Marks, centreVars, agentVars
<1>1. ASSUME NEW a \in Agents, Register(a) PROVE Listening'
  <2>1. request = <<>>
    BY <1>1 DEF Register, Receive
  <2>2. serving[a] # "awaited"
    BY <2>1
  <2>3. /\ initialised' = [initialised EXCEPT ![a] = FALSE]
        /\ listened' = [listened EXCEPT ![a] = 0]
        /\ UNCHANGED <<request, serving, phase>>
    BY <1>1 DEF Register, Receive
  <2> QED  BY <2>1, <2>2, <2>3
<1>2. ASSUME NEW a \in Agents, StatusOfUnknown(a) PROVE Listening'
  BY <1>2 DEF StatusOfUnknown, Receive, Return
<1>3. ASSUME NEW a \in Agents, InitTick(a) PROVE Listening'
  BY <1>3 DEF InitTick, TakesInit
<1>4. ASSUME NEW a \in Agents, GrowStale(a) PROVE Listening'
  BY <1>4 DEF GrowStale
<1>5. CASE InitAnswered
  BY <1>5 DEF InitAnswered
<1>6. CASE InitFailed
  BY <1>6 DEF InitFailed, Orphan, Orphaned
<1>7. CASE SyncTick
  BY <1>7 DEF SyncTick, Orphan, Orphaned
<1>8. CASE Start
  BY <1>8 DEF Start
<1>9. ASSUME NEW a \in Agents, StartAgent(a) PROVE Listening'
  BY <1>9 DEF StartAgent
<1>10. ASSUME NEW a \in Agents, StopAgent(a) PROVE Listening'
  BY <1>10 DEF StopAgent
<1>11. ASSUME NEW a \in Agents, SendInfo(a) PROVE Listening'
  BY <1>11 DEF SendInfo, Publish
<1>12. ASSUME NEW a \in Agents, TakeInit(a) PROVE Listening'
  BY <1>12 DEF TakeInit
<1>13. ASSUME NEW a \in Agents, Subscribe(a) PROVE Listening'
  BY <1>13 DEF Subscribe, Listen
<1>14. ASSUME NEW a \in Agents, Answer(a) PROVE Listening'
  BY <1>14 DEF Answer, Respond
<1>15. ASSUME NEW a \in Agents, SendStatus(a) PROVE Listening'
  BY <1>15 DEF SendStatus, Publish
<1>16. ASSUME NEW a \in Agents, Act(a) PROVE Listening'
  BY <1>16 DEF Act
<1>17. ASSUME NEW a \in Agents, NEW type \in {"AddRoom", "DelRoom"}, NEW room \in Rooms,
            SendAction(a, type, room)
      PROVE  Listening'
  BY <1>17 DEF SendAction
<1>18. CASE UNCHANGED vars
  BY <1>18 DEF vars
<1> QED
  BY <1>1, <1>2, <1>3, <1>4, <1>5, <1>6, <1>7, <1>8, <1>9, <1>10, <1>11, <1>12, <1>13, <1>14, <1>15, <1>16, <1>17, <1>18 DEF Next, Centre, Agent

-------------------------------------------------------------------------------
(* The theorems.                                                             *)

\* Every step keeps the invariant,
LEMMA Inductive == IInv /\ [Next]_vars => IInv'
BY TypesKept, ChannelKept, ControlsKept, RequestedKept, AwaitedKept, AloneKept, LivesKept,
   ListeningKept DEF IInv

\* so it always holds.
LEMMA Invariance == Spec => []IInv
<1>1. Init => IInv  BY Initially
<1>2. IInv /\ [Next]_vars => IInv'  BY Inductive
<1> QED  BY <1>1, <1>2, PTL DEF Spec

\* Every variable of the manager and of its agents keeps its type, for any
\* numbers of agents, restarts and actions; in particular whoever is asked for
\* an answer, or has given one, is registered.
THEOREM TypeCorrect == Spec => []TypeOK
<1>1. IInv => TypeOK
  BY DEF IInv, Types, Channel, Controls, Requested, TypeOK
<1> QED  BY <1>1, Invariance, PTL

\* An agent that counts as initialised has subscribed to its actions since the centre
\* knows it, and listens to them unless that life of it is over: an answer that is
\* late, or says that the subscription failed, sets no bit.
THEOREM InitialisedHasSubscribed == Spec => []InitialisedHasListened
<1>1. IInv => InitialisedHasListened
  <2> SUFFICES ASSUME IInv, NEW a \in Agents, initialised[a]
               PROVE  /\ listened[a] # 0
                      /\ listened[a] = life[a] /\ phase[a] # "off"
                           => phase[a] \in {"subscribed", "running"}
    BY DEF InitialisedHasListened
  <2>1. listened[a] # 0
    BY DEF IInv, Listening
  <2> QED  BY <2>1 DEF IInv, Types, Lives
<1> QED  BY <1>1, Invariance, PTL

\* The receiver never runs with an agent registered, and no two agents ever are.
THEOREM NobodyKnown == Spec => []NobodyKnownIsHeard
<1>1. ASSUME IInv PROVE NobodyKnownIsHeard
  <2>1. receiver = "running" => managed = {}
    BY <1>1 DEF IInv, Alone
  <2>2. Cardinality(managed) <= 1
    <3>1. CASE managed = {}
      <4>1. Cardinality(managed) = 0  BY <3>1, FS_EmptySet
      <4> QED  BY <4>1
    <3>2. ASSUME NEW a \in Agents, managed = {a} PROVE Cardinality(managed) <= 1
      <4>1. Cardinality(managed) = 1  BY <3>2, FS_Singleton
      <4> QED  BY <4>1
    <3> QED  BY <1>1, <3>1, <3>2 DEF IInv, Alone
  <2> QED  BY <2>1, <2>2 DEF NobodyKnownIsHeard
<1> QED  BY <1>1, Invariance, PTL

-------------------------------------------------------------------------------
(* A lost agent stays lost.                                                  *)

\* The messages that the receiver has still to take.
Waiting == {agentChan[i] : i \in DOMAIN agentChan}

\* A publish adds one message at most,
LEMMA PublishAdds ==
    ASSUME Channel, NEW m, Publish(m)
    PROVE  Waiting' \subseteq Waiting \union {m}
BY DEF Channel, Publish, Waiting

\* and a receive none.
LEMMA ReceiveTakes ==
    ASSUME Channel, NEW kind, NEW a, Receive(kind, a)
    PROVE  Waiting' \subseteq Waiting /\ <<kind, a>> \in Waiting
BY DEF Channel, Receive, Waiting

\* What can make a lost agent known again does not happen to it.
LEMMA StepKeepsLost ==
    ASSUME Types, Channel, Next, NEW lost \in Agents, Lost(lost)
    PROVE  Lost(lost)' \/ phase'[lost] = "off"
<1> DEFINE Goal == Lost(lost)' \/ phase'[lost] = "off"
<1>1. phase[lost] = "running" /\ lost \notin managed /\ <<"info", lost>> \notin Waiting
  BY DEF Lost, Waiting
<1>2. /\ phase'[lost] \in {"running", "off"}
      /\ lost \notin managed'
      /\ <<"info", lost>> \notin Waiting'
      => Goal
  BY DEF Lost, Waiting
<1> HIDE DEF Goal
<1> USE DEF centreVars, agentVars
<1>3. Channel /\ phase \in [Agents -> {"off", "registering", "subscribed", "running"}]
  BY DEF Types
<1>4. ASSUME NEW a \in Agents, Register(a) PROVE Goal
  <2>1. <<"info", a>> \in Waiting /\ Waiting' \subseteq Waiting
    BY <1>3, <1>4, ReceiveTakes DEF Register
  <2>2. a # lost
    BY <1>1, <2>1
  <2>3. phase' = phase /\ managed' = managed \union {a}
    BY <1>4 DEF Register, Receive
  <2> QED  BY <1>1, <1>2, <2>1, <2>2, <2>3
<1>5. ASSUME NEW a \in Agents, StatusOfUnknown(a) PROVE Goal
  <2>1. Waiting' \subseteq Waiting
    BY <1>3, <1>5, ReceiveTakes DEF StatusOfUnknown
  <2>2. phase' = phase /\ managed' = managed
    BY <1>5 DEF StatusOfUnknown, Receive
  <2> QED  BY <1>1, <1>2, <2>1, <2>2
<1>6. ASSUME NEW a \in Agents, SendInfo(a) PROVE Goal
  <2>1. Waiting' \subseteq Waiting \union {<<"info", a>>}
    BY <1>3, <1>6, PublishAdds DEF SendInfo
  <2>2. a # lost /\ phase' = phase /\ managed' = managed
    BY <1>1, <1>6 DEF SendInfo
  <2> QED  BY <1>1, <1>2, <2>1, <2>2
<1>7. ASSUME NEW a \in Agents, SendStatus(a) PROVE Goal
  <2>1. Waiting' \subseteq Waiting \union {<<"status", a>>}
    BY <1>3, <1>7, PublishAdds DEF SendStatus
  <2>2. phase' = phase /\ managed' = managed
    BY <1>7 DEF SendStatus
  <2> QED  BY <1>1, <1>2, <2>1, <2>2
<1>8. ASSUME SyncTick PROVE Goal
  <2>1. agentChan' = <<>> /\ managed' = {} /\ phase' = phase
    BY <1>8 DEF SyncTick
  <2>2. DOMAIN agentChan' = {}
    BY <2>1
  <2>3. Waiting' = {}
    BY <2>2 DEF Waiting
  <2> QED  BY <1>1, <1>2, <2>1, <2>3
<1>9. ASSUME UNCHANGED agentChan, managed' = managed,
             phase'[lost] \in {"running", "off"}
      PROVE  Goal
  <2>1. Waiting' = Waiting
    BY <1>9 DEF Waiting
  <2> QED  BY <1>1, <1>2, <1>9, <2>1
<1>10. ASSUME NEW a \in Agents, InitTick(a) \/ GrowStale(a) PROVE Goal
  BY <1>1, <1>9, <1>10 DEF InitTick, GrowStale
<1>11. ASSUME InitAnswered \/ InitFailed \/ Start PROVE Goal
  BY <1>1, <1>9, <1>11 DEF InitAnswered, InitFailed, Start
<1>12. ASSUME NEW a \in Agents,
              StartAgent(a) \/ StopAgent(a) \/ TakeInit(a) \/ Subscribe(a) \/ Answer(a) \/ Act(a)
       PROVE  Goal
  BY <1>1, <1>3, <1>9, <1>12 DEF StartAgent, StopAgent, TakeInit, Subscribe, Listen, Answer, Act
<1>13. ASSUME NEW a \in Agents, NEW type \in {"AddRoom", "DelRoom"}, NEW room \in Rooms,
              SendAction(a, type, room)
       PROVE  Goal
  BY <1>1, <1>9, <1>13 DEF SendAction
<1>14. ASSUME Centre PROVE Goal
  BY <1>4, <1>5, <1>8, <1>10, <1>11, <1>14 DEF Centre
<1>15. ASSUME NEW a \in Agents, Agent(a) PROVE Goal
  BY <1>6, <1>7, <1>12, <1>13, <1>15 DEF Agent
<1> QED  BY <1>14, <1>15 DEF Next, Goal

\* An agent that runs without the centre's knowing it is not known again before it
\* has been restarted itself, whatever the centre does.
THEOREM LostForGood == Spec => LostStaysLost
<1>1. IInv /\ [Next]_vars
        => [\A a \in Agents : Lost(a) => Lost(a)' \/ phase'[a] = "off"]_vars
  BY StepKeepsLost DEF IInv
<1> QED  BY <1>1, Invariance, PTL DEF Spec, LostStaysLost

===============================================================================
