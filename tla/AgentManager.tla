----------------------------- MODULE AgentManager -----------------------------
(***************************************************************************)
(* The centre's agent manager (io-bilive-damaku/agent.go) and the agents   *)
(* that register with it (agent/agent.go, Init and controller).  An agent  *)
(* tells who it is every three seconds until it is sent an init request,   *)
(* then it is controlled by room actions and reports its status.  Requests *)
(* and messages go through NATS, which drops what nobody has subscribed to *)
(* and what does not fit into a channel.                                   *)
(*                                                                         *)
(* The manager's receiver returns as soon as it has registered an agent    *)
(* and syncAgent's next tick then dereferences the status that the agent   *)
(* has not sent yet.  So in one life of the centre the receiver never      *)
(* meets an agent it knows (agent.go:313-320, 332-339), no agent is ever   *)
(* ready (agentStatus's tick, 268-286, and syncAgent from 183 on): those   *)
(* lines are not reached and not modelled, see NobodyKnownIsHeard.         *)
(***************************************************************************)
EXTENDS Integers, Sequences, FiniteSets

CONSTANTS
    Agents,      \* the agents, by ID
    Rooms,       \* the live rooms
    AgentCap,    \* capacity of agentChan (32 in the code)
    ControlCap,  \* capacity of an agent's controlChan (4)
    MaxLives,    \* bound of the model: starts of an agent
    MaxStarts,   \* bound of the model: starts of the centre
    MaxActions   \* bound of the model: room actions sent

ASSUME ManagerAssumption ==
    /\ AgentCap \in Nat \ {0} /\ ControlCap \in Nat \ {0}
    /\ MaxLives \in Nat /\ MaxStarts \in Nat \ {0} /\ MaxActions \in Nat

VARIABLES
    starts,        \* how often the centre has been started
    centre,        \* "up", or "down" after a panic
    receiver,      \* agentStatus: "running" or "returned"
    agentChan,     \* what it has still to receive
    managed,       \* the registered agents
    initialised,   \* per agent, the bit Condition & AgentInitialization
    fresh,         \* the registered agents whose UpdateTime is within 3 s
    request,       \* initAgent's request: none, or to whom and whether it is
                   \* "open" or "answered"
    phase,         \* per agent, where it is: "off", "registering",
                   \* "subscribed" (to the actions) or "running"
    life,          \* per agent, how often it has been started
    registerChan,  \* per agent, the init request in its channel: "none",
                   \* "awaited", or "orphaned" when nobody waits any more
    serving,       \* per agent, likewise the request it is answering
    controlChan,   \* per agent, the room actions in its channel
    watchingRooms, \* per agent, the rooms it lists
    actions,       \* how many room actions were sent
    listened       \* history: per agent, the life in which it last subscribed to
                   \* its actions since the centre knows it, or 0

centreVars == <<starts, centre, receiver, managed, initialised, fresh, listened>>
agentVars == <<phase, life, serving, controlChan, watchingRooms, actions>>
vars == <<centreVars, agentChan, request, registerChan, agentVars>>

Init ==
    /\ starts = 1
    /\ centre = "up" /\ receiver = "running" /\ agentChan = <<>>
    /\ managed = {} /\ fresh = {}
    /\ initialised = [a \in Agents |-> FALSE]
    /\ listened = [a \in Agents |-> 0]
    /\ request = <<>>
    /\ phase = [a \in Agents |-> "off"]
    /\ life = [a \in Agents |-> 0]
    /\ registerChan = [a \in Agents |-> "none"]
    /\ serving = [a \in Agents |-> "none"]
    /\ controlChan = [a \in Agents |-> <<>>]
    /\ watchingRooms = [a \in Agents |-> {}]
    /\ actions = 0

Orphaned(mark) == IF mark = "awaited" THEN "orphaned" ELSE mark

\* Nobody waits any more for the answer to the request.
Orphan ==
    /\ request' = <<>>
    /\ registerChan' = [a \in Agents |-> Orphaned(registerChan[a])]
    /\ serving' = [a \in Agents |-> Orphaned(serving[a])]

-------------------------------------------------------------------------------
(* The centre: its receiver,                                                 *)

Receive(kind, a) ==
    /\ centre = "up" /\ receiver = "running"
    /\ agentChan # <<>> /\ Head(agentChan) = <<kind, a>>
    /\ agentChan' = Tail(agentChan)
    /\ UNCHANGED <<starts, centre, request, registerChan, agentVars>>

\* Mutant of Return: the receiver goes on.
Return_GoesOn == UNCHANGED receiver

\* The handler function returns where it should continue.
Return == receiver' = "returned"

\* "info" of an agent that is not known: it is registered.
Register(a) ==
    /\ Receive("info", a)
    /\ managed' = managed \union {a}
    /\ fresh' = fresh \union {a}
    /\ initialised' = [initialised EXCEPT ![a] = FALSE]
    /\ listened' = [listened EXCEPT ![a] = 0]
    /\ Return

\* "status" of an agent that is not known: it is to be ignored (agent.go:329), but
\* ends the receiver all the same.
StatusOfUnknown(a) ==
    /\ Receive("status", a)
    /\ Return
    /\ UNCHANGED <<managed, fresh, initialised, listened>>

-------------------------------------------------------------------------------
(* its initAgent, whose tick sends a request and waits for up to 3 s,        *)

\* The agent has subscribed to its init subject and has room for the request.
TakesInit(a) == phase[a] \in {"registering", "subscribed"} /\ registerChan[a] = "none"

InitTick(a) ==
    /\ centre = "up" /\ request = <<>>
    /\ a \in managed /\ a \in fresh /\ ~initialised[a]
    /\ request' = <<a, "open">>
    /\ registerChan' =
          IF TakesInit(a) THEN [registerChan EXCEPT ![a] = "awaited"] ELSE registerChan
    /\ UNCHANGED <<centreVars, agentChan, agentVars>>

\* The bit is set, whether or not the life of the agent that answered is over.
InitAnswered ==
    /\ centre = "up"
    /\ request # <<>> /\ request[2] = "answered"
    /\ initialised' = [initialised EXCEPT ![request[1]] = TRUE]
    /\ fresh' = fresh \union {request[1]}
    /\ request' = <<>>
    /\ UNCHANGED <<starts, centre, receiver, managed, listened, agentChan, registerChan,
                   agentVars>>

\* Nobody there, an error in the answer, or the time is up.
InitFailed ==
    /\ centre = "up"
    /\ request # <<>> /\ request[2] = "open"
    /\ Orphan
    /\ UNCHANGED <<centreVars, agentChan, phase, life, controlChan, watchingRooms, actions>>

\* Three seconds pass without news of the agent.
GrowStale(a) ==
    /\ a \in fresh
    /\ fresh' = fresh \ {a}
    /\ UNCHANGED <<starts, centre, receiver, managed, initialised, listened, agentChan,
                   request, registerChan, agentVars>>

-------------------------------------------------------------------------------
(* and its syncAgent.                                                        *)

\* Mutant of NoStatusYet: an agent without a status is skipped.
NoStatusYet_Skipped == {}

\* The registered agents whose CachedStatus is nil: all, as the receiver has
\* returned.
NoStatusYet == managed

\* The tick ranges over the agents and dereferences CachedStatus: the process
\* panics, and what it knew is gone.
SyncTick ==
    /\ centre = "up" /\ NoStatusYet # {}
    /\ centre' = "down"
    /\ receiver' = "returned" /\ agentChan' = <<>>
    /\ managed' = {} /\ fresh' = {}
    /\ initialised' = [a \in Agents |-> FALSE] /\ listened' = [a \in Agents |-> 0]
    /\ Orphan
    /\ UNCHANGED <<starts, phase, life, controlChan, watchingRooms, actions>>

\* Whoever runs the centre starts it again.
Start ==
    /\ centre = "down" /\ starts < MaxStarts
    /\ starts' = starts + 1
    /\ centre' = "up" /\ receiver' = "running"
    /\ UNCHANGED <<agentChan, managed, initialised, listened, fresh, request, registerChan,
                   agentVars>>

-------------------------------------------------------------------------------
(* An agent: it starts, stops or crashes,                                    *)

StartAgent(a) ==
    /\ phase[a] = "off" /\ life[a] < MaxLives
    /\ phase' = [phase EXCEPT ![a] = "registering"]
    /\ life' = [life EXCEPT ![a] = @ + 1]
    /\ UNCHANGED <<centreVars, agentChan, request, registerChan, serving, controlChan,
                   watchingRooms, actions>>

StopAgent(a) ==
    /\ phase[a] # "off"
    /\ phase' = [phase EXCEPT ![a] = "off"]
    /\ registerChan' = [registerChan EXCEPT ![a] = "none"]
    /\ serving' = [serving EXCEPT ![a] = "none"]
    /\ controlChan' = [controlChan EXCEPT ![a] = <<>>]
    /\ watchingRooms' = [watchingRooms EXCEPT ![a] = {}]
    /\ UNCHANGED <<centreVars, agentChan, request, life, actions>>

\* Published to the centre, if it is there and has room.
Publish(m) ==
    agentChan' = IF centre = "up" /\ Len(agentChan) < AgentCap THEN Append(agentChan, m)
                                                              ELSE agentChan

-------------------------------------------------------------------------------
(* registers,                                                                *)

\* Mutant of SendInfo: the ticker is not stopped.
SendInfo_KeepsOn(a) ==
    /\ phase[a] \in {"registering", "running"} /\ serving[a] = "none"
    /\ Publish(<<"info", a>>)
    /\ UNCHANGED <<centreVars, request, registerChan, agentVars>>

SendInfo(a) ==
    /\ phase[a] = "registering" /\ serving[a] = "none"
    /\ Publish(<<"info", a>>)
    /\ UNCHANGED <<centreVars, request, registerChan, agentVars>>

TakeInit(a) ==
    /\ phase[a] = "registering" /\ serving[a] = "none"
    /\ registerChan[a] # "none"
    /\ serving' = [serving EXCEPT ![a] = registerChan[a]]
    /\ registerChan' = [registerChan EXCEPT ![a] = "none"]
    /\ UNCHANGED <<centreVars, agentChan, request, phase, life, controlChan,
                   watchingRooms, actions>>

\* Mutant of Respond: an answer that nobody waits for is taken too.
Respond_Late(a) == request' = <<a, "answered">>

\* The answer reaches the one who waits for it.
Respond(a) ==
    request' = IF serving[a] = "awaited" THEN <<a, "answered">> ELSE request

\* It has subscribed to its actions and is about to answer.
Listen(a) ==
    /\ phase' = [phase EXCEPT ![a] = "subscribed"]
    /\ listened' = [listened EXCEPT ![a] = life[a]]
    /\ UNCHANGED serving

\* Mutant of Subscribe: the agent answers with success although it failed.
Subscribe_Unchecked(a) ==
    /\ phase[a] = "registering" /\ serving[a] # "none"
    /\ \/ Listen(a) /\ UNCHANGED request
       \/ serving' = [serving EXCEPT ![a] = "none"] /\ Respond(a) /\ UNCHANGED <<phase, listened>>
    /\ UNCHANGED <<starts, centre, receiver, managed, initialised, fresh, agentChan,
                   registerChan, life, controlChan, watchingRooms, actions>>

\* The agent subscribes to its actions; when that fails it answers with an error
\* and waits for another request.
Subscribe(a) ==
    /\ phase[a] = "registering" /\ serving[a] # "none"
    /\ \/ Listen(a)
       \/ serving' = [serving EXCEPT ![a] = "none"] /\ UNCHANGED <<phase, listened>>
    /\ UNCHANGED <<starts, centre, receiver, managed, initialised, fresh, agentChan, request,
                   registerChan, life, controlChan, watchingRooms, actions>>

\* It answers the request, leaves the init subject and starts its controller.
Answer(a) ==
    /\ phase[a] = "subscribed"
    /\ Respond(a)
    /\ phase' = [phase EXCEPT ![a] = "running"]
    /\ serving' = [serving EXCEPT ![a] = "none"]
    /\ registerChan' = [registerChan EXCEPT ![a] = "none"]
    /\ UNCHANGED <<centreVars, agentChan, life, controlChan, watchingRooms, actions>>

-------------------------------------------------------------------------------
(* and is controlled.                                                        *)

SendStatus(a) ==
    /\ phase[a] = "running"
    /\ Publish(<<"status", a>>)
    /\ UNCHANGED <<centreVars, request, registerChan, agentVars>>

\* A room action from whoever sends one, with a room; lost when the agent has
\* not subscribed to it or its channel is full.
SendAction(a, type, room) ==
    /\ actions < MaxActions
    /\ actions' = actions + 1
    /\ controlChan' =
          IF phase[a] \in {"subscribed", "running"} /\ Len(controlChan[a]) < ControlCap
            THEN [controlChan EXCEPT ![a] = Append(@, <<type, room>>)]
            ELSE controlChan
    /\ UNCHANGED <<centreVars, agentChan, request, registerChan, phase, life, serving,
                   watchingRooms>>

\* Whether the chat handler fails is not looked at.
Act(a) ==
    /\ phase[a] = "running"
    /\ controlChan[a] # <<>>
    /\ LET action == Head(controlChan[a]) IN
         watchingRooms' = [watchingRooms EXCEPT ![a] =
            IF action[1] = "AddRoom" THEN @ \union {action[2]} ELSE @ \ {action[2]}]
    /\ controlChan' = [controlChan EXCEPT ![a] = Tail(@)]
    /\ UNCHANGED <<centreVars, agentChan, request, registerChan, phase, life, serving,
                   actions>>

-------------------------------------------------------------------------------

Centre ==
    \/ \E a \in Agents : Register(a) \/ StatusOfUnknown(a) \/ InitTick(a) \/ GrowStale(a)
    \/ InitAnswered \/ InitFailed \/ SyncTick \/ Start

Agent(a) ==
    \/ StartAgent(a) \/ StopAgent(a)
    \/ SendInfo(a) \/ TakeInit(a) \/ Subscribe(a) \/ Answer(a)
    \/ SendStatus(a) \/ Act(a)
    \/ \E type \in {"AddRoom", "DelRoom"}, room \in Rooms : SendAction(a, type, room)

Next == Centre \/ \E a \in Agents : Agent(a)

\* The goroutines of the centre run and their tickers tick; of the agents
\* nothing is assumed.
Fairness ==
    /\ WF_vars(\E a \in Agents : Register(a) \/ StatusOfUnknown(a))
    /\ WF_vars(SyncTick)

Spec == Init /\ [][Next]_vars /\ Fairness

-------------------------------------------------------------------------------
(* Properties.                                                               *)

Marks == {"none", "awaited", "orphaned"}

TypeOK ==
    /\ starts \in 1 .. MaxStarts
    /\ centre \in {"up", "down"} /\ receiver \in {"running", "returned"}
    /\ agentChan \in Seq({"info", "status"} \X Agents) /\ Len(agentChan) <= AgentCap
    /\ managed \subseteq Agents /\ fresh \subseteq managed
    /\ initialised \in [Agents -> BOOLEAN]
    /\ listened \in [Agents -> 0 .. MaxLives]
    /\ request = <<>> \/ request \in managed \X {"open", "answered"}
    /\ phase \in [Agents -> {"off", "registering", "subscribed", "running"}]
    /\ life \in [Agents -> 0 .. MaxLives]
    /\ registerChan \in [Agents -> Marks] /\ serving \in [Agents -> Marks]
    /\ controlChan \in [Agents -> Seq({"AddRoom", "DelRoom"} \X Rooms)]
    /\ \A a \in Agents : Len(controlChan[a]) <= ControlCap
    /\ watchingRooms \in [Agents -> SUBSET Rooms]
    /\ actions \in 0 .. MaxActions

\* An agent that counts as initialised has subscribed to its room actions since the
\* centre knows it, whatever requests timed out before and whatever answers came
\* late; and it still listens to them unless that life of it is over
\* (agent/agent.go:133-140, agent.go:142-150).  When it is over the bit stands for
\* nothing: a restarted agent keeps it and initAgent does not ask it again.
InitialisedHasListened ==
    \A a \in Agents : initialised[a] =>
        /\ listened[a] # 0
        /\ listened[a] = life[a] /\ phase[a] # "off" => phase[a] \in {"subscribed", "running"}

\* The receiver runs only while nobody is registered, so no agent of whom the
\* centre has a status, none that is ready and never more than one exists: no
\* mask is given twice (agent.go:303-311).
NobodyKnownIsHeard ==
    /\ receiver = "running" => managed = {}
    /\ Cardinality(managed) <= 1

\* An agent runs that the centre does not know, and nothing on the way tells it.
Lost(a) ==
    /\ phase[a] = "running" /\ a \notin managed
    /\ <<"info", a>> \notin {agentChan[i] : i \in DOMAIN agentChan}

\* Restarts of the centre do not bring such an agent back: it stays lost until it
\* is restarted itself (agent/agent.go:143-145, agent.go:321-331).
LostStaysLost == [][\A a \in Agents : Lost(a) => Lost(a)' \/ phase'[a] = "off"]_vars

\* The first agent that registers brings the centre down at syncAgent's next
\* tick (agent.go:182, :311).
NobodyStaysRegistered == managed # {} ~> centre = "down"

===============================================================================
