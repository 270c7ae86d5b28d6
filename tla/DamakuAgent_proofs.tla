-------------------------- MODULE DamakuAgent_proofs --------------------------
(***************************************************************************)
(* Theorems about the agent's event pipeline, for any events, metas and    *)
(* capacities: its types, what a stop cuts off, the order of the events,   *)
(* the counters, and what readers of the metas know.                       *)
(***************************************************************************)
EXTENDS DamakuAgent, FiniteSetTheorems, SequenceTheorems, TLAPS

-------------------------------------------------------------------------------
(* The inductive invariant.                                                  *)

One(b) == IF b THEN 1 ELSE 0

Working == {"select", "count", "push"}

\* The counter of the WaitGroup is the number of its members.
Members == One(waiter = "waiting") + One(handler \in Working)
               + One(indexer = "select") + One(controller = "select")

Workers ==
    /\ handler \in {"off", "stopped"} \union Working
    /\ indexer \in {"off", "select", "stopped"}
    /\ controller \in {"off", "select", "stopped"}
    /\ waiter \in {"waiting", "left", "returned"}
    /\ main \in {"waiting", "released", "exited"}
    /\ ctxDone \in BOOLEAN /\ early \in BOOLEAN
    /\ wg = Members

\* The order of a stop: signal, context, goroutines, main.
StopOrder ==
    /\ "stopped" \in {handler, indexer, controller} => ctxDone
    /\ ctxDone => waiter = "returned"
    /\ waiter # "waiting" /\ ~early => "off" \notin {handler, indexer, controller}
    /\ main # "waiting" => waiter # "waiting"
    /\ main # "waiting" /\ ~early => handler = "stopped"

\* The handler has an event in hand between its receive and the publish.
Held ==
    /\ msg \in {<<>>} \union {<<e>> : e \in Events}
    /\ msg # <<>> <=> handler \in {"count", "push"}
    /\ pushed \in Nat

\* What was put into the channel is handled, in hand or in the channel, in this
\* order, each event once.
Queue ==
    /\ on \in [Events -> {"none", "counted", "sent"}]
    /\ accepted \in Seq(Events) /\ handled \in Seq(Events)
    /\ eventChan \in Seq(Events) /\ Len(eventChan) <= EventCap
    /\ Len(accepted) = Len(handled) + Len(msg) + Len(eventChan)
    /\ \A i \in 1 .. Len(handled) : accepted[i] = handled[i]
    /\ msg # <<>> => accepted[Len(handled) + 1] = msg[1]
    /\ \A i \in 1 .. Len(eventChan) : accepted[Len(handled) + Len(msg) + i] = eventChan[i]
    /\ \A i, j \in 1 .. Len(accepted) : accepted[i] = accepted[j] => i = j
    /\ \A i \in 1 .. Len(accepted) : on[accepted[i]] = "sent"

\* The events of a command that are counted.
OnTheWay(e) ==
    \/ on[e] = "counted"
    \/ e \in Range(eventChan)
    \/ handler = "count" /\ msg = <<e>>

Pending(c) == {e \in Events : CmdOf[e] = c /\ OnTheWay(e)}

Counts ==
    /\ counter \in [Commands -> Int]
    /\ \A c \in Commands : IsFiniteSet(Pending(c)) /\ counter[c] = Cardinality(Pending(c))

\* Each channel carries metas of its kind.
MetasApart ==
    /\ metaChan \in [Channels -> Seq(Metas)]
    /\ metaChan["user"] \in Seq(UserMetas)
    /\ metaChan["medal"] \in Seq(MedalMetas)

\* What a sequence of user metas has told last.  The greatest index exists, which
\* Max alone does not say.
Knows(said, f) == {i \in DOMAIN said : said[i][f] # Nil}

HasLatest(said) ==
    \A f \in Fields :
        Knows(said, f) = {} \/ \E m \in Knows(said, f) : \A i \in Knows(said, f) : m >= i

Latest(said) ==
    [f \in Fields |-> IF Knows(said, f) = {} THEN Nil ELSE said[Max(Knows(said, f))][f]]

\* An entry of a cache is the latest word since the key was last forgotten, and
\* was published last.
CacheLatest(k) ==
    /\ told[k] = <<>> <=> cache[k] = <<>>
    /\ HasLatest(told[k])
    /\ told[k] # <<>> => cache[k] = <<LatestTold(k)>> /\ published[k] = cache[k]

Caches ==
    /\ cache \in [Keys -> Seq(Infos)] /\ told \in [Keys -> Seq(Infos)]
    /\ published \in [Keys -> Seq(Infos)]
    /\ subject \in [Keys -> {"none", "userInfo", "userInfoMeta", "fansMedal"}]
    /\ evictions \in 0 .. MaxEvictions
    /\ \A k \in Keys : CacheLatest(k)

IInv == Workers /\ StopOrder /\ Held /\ Queue /\ Counts /\ MetasApart /\ Caches

-------------------------------------------------------------------------------
(* Who leaves what alone.                                                    *)

\* Starts, stops, the signal and main.
WorkerStep ==
    \/ StartHandler \/ StopHandler
    \/ StartIndexer \/ StopIndexer
    \/ StartController \/ StopController
    \/ Signal \/ CancelContext \/ Exit

workers == <<indexer, workerVars>>

\* They leave the data alone, and the handler has no event in hand when it starts
\* or stops.
LEMMA WorkersLeaveData ==
    ASSUME WorkerStep
    PROVE  /\ Idle
           /\ handler' = handler \/ {handler, handler'} \subseteq {"off", "select", "stopped"}
BY DEF WorkerStep, StartHandler, StopHandler, StartIndexer, StopIndexer, StartController,
       StopController, Signal, CancelContext, Exit, HandlerTo

\* The handler's steps leave the caches and the workers alone.
LEMMA HandlerLeaves ==
    ASSUME Handler
    PROVE  UNCHANGED <<indexerVars, workers>>
BY DEF Handler, Receive, Uncount, PushMeta, PublishEvent, workers

\* The indexer's leave the events and the workers alone,
LEMMA IndexerLeaves ==
    ASSUME Indexer
    PROVE  UNCHANGED <<channelVars, handler, handlerVars, evictions, workers>>
BY DEF Indexer, IndexUser, IndexMedal, TakeMeta, workers

\* those of the library and the caches all but their own variables.
LEMMA LibraryLeaves ==
    /\ \A e \in Events : CountEvent(e) \/ SendEvent(e)
          => UNCHANGED <<handler, handlerVars, metaChan, indexerVars, workers>>
    /\ \A k \in Keys : Evict(k)
          => UNCHANGED <<channelVars, handler, handlerVars, metaChan, workers>>
BY DEF CountEvent, SendEvent, Evict, workers

\* So every step belongs to one of these.
LEMMA StepKinds ==
    ASSUME [Next]_vars
    PROVE  \/ \E e \in Events : CountEvent(e) \/ SendEvent(e)
           \/ Handler \/ Indexer
           \/ \E k \in Keys : Evict(k)
           \/ WorkerStep
           \/ UNCHANGED vars
BY DEF Next, WorkerStep

-------------------------------------------------------------------------------
(* The workers and the stop.                                                 *)

\* A step that keeps the workers, and the handler among those that work.
LEMMA WorkersUntouched ==
    ASSUME Workers, StopOrder, UNCHANGED workers,
           handler' = handler \/ {handler, handler'} \subseteq Working
    PROVE  Workers' /\ StopOrder'
BY DEF Workers, StopOrder, Members, One, Working, workers, workerVars

\* The handler's steps go from one working place to another.
LEMMA HandlerWorks == ASSUME Handler PROVE {handler, handler'} \subseteq Working
BY DEF Handler, Receive, Uncount, PushMeta, PublishEvent, HandlerTo, Working

\* A start adds a member, the other steps take one away or none, and the last one
\* that leaves lets main go.
LEMMA WorkerStepKeeps ==
    ASSUME Workers, StopOrder, WorkerStep
    PROVE  Workers' /\ StopOrder'
<1> USE DEF Workers, StopOrder, Members, One, Working
<1>1. CASE StartHandler
  BY <1>1 DEF StartHandler, HandlerTo, Join, Alive
<1>2. CASE StopHandler
  BY <1>2 DEF StopHandler, HandlerTo, Leave, Alive
<1>3. CASE StartIndexer
  BY <1>3 DEF StartIndexer, Join, Alive
<1>4. CASE StopIndexer
  BY <1>4 DEF StopIndexer, Leave, Alive
<1>5. CASE StartController
  BY <1>5 DEF StartController, Join, Alive
<1>6. CASE StopController
  BY <1>6 DEF StopController, Leave, Alive
<1>7. CASE Signal
  <2>1. /\ waiter = "waiting" /\ waiter' = "left" /\ ~ctxDone
        /\ main = "waiting"
        /\ UNCHANGED <<handler, indexer, controller, ctxDone>>
        /\ early' = ("off" \in {handler, indexer, controller})
    BY <1>7 DEF Signal
  <2>2. wg' = wg - 1 /\ main' = IF wg = 1 THEN "released" ELSE "waiting"
    BY <1>7, <2>1 DEF Signal, Leave
  <2>3. Workers'
    BY <2>1, <2>2
  <2>4. wg = 1 => handler = "off"
    BY <2>1
  <2> QED  BY <2>1, <2>2, <2>3, <2>4
<1>8. CASE CancelContext
  BY <1>8 DEF CancelContext, Alive
<1>9. CASE Exit
  BY <1>9 DEF Exit
<1> QED  BY <1>1, <1>2, <1>3, <1>4, <1>5, <1>6, <1>7, <1>8, <1>9 DEF WorkerStep

\* So every step keeps both.
LEMMA WorkersKept == Workers /\ StopOrder /\ [Next]_vars => Workers' /\ StopOrder'
<1> SUFFICES ASSUME Workers, StopOrder, [Next]_vars PROVE Workers' /\ StopOrder'
  OBVIOUS
<1>1. ASSUME NEW e \in Events, CountEvent(e) \/ SendEvent(e) PROVE Workers' /\ StopOrder'
  BY <1>1, LibraryLeaves, WorkersUntouched
<1>2. CASE Handler
  BY <1>2, HandlerLeaves, HandlerWorks, WorkersUntouched
<1>3. CASE Indexer
  BY <1>3, IndexerLeaves, WorkersUntouched
<1>4. ASSUME NEW k \in Keys, Evict(k) PROVE Workers' /\ StopOrder'
  BY <1>4, LibraryLeaves, WorkersUntouched
<1>5. CASE WorkerStep
  BY <1>5, WorkerStepKeeps
<1>6. CASE UNCHANGED vars
  BY <1>6, WorkersUntouched DEF vars, workers
<1> QED  BY <1>1, <1>2, <1>3, <1>4, <1>5, <1>6, StepKinds

\* The event in hand follows the handler.
LEMMA HeldKept == Held /\ Queue /\ [Next]_vars => Held'
<1> SUFFICES ASSUME Held, Queue, [Next]_vars PROVE Held'
  OBVIOUS
<1>1. CASE Receive
  <2>1. Head(eventChan) \in Events
    BY <1>1, HeadTailProperties DEF Receive, Queue
  <2>2. msg' = <<Head(eventChan)>> /\ msg' # <<>> /\ handler' = "count" /\ pushed' = 0
    BY <1>1 DEF Receive, HandlerTo
  <2> QED  BY <2>1, <2>2 DEF Held
<1>2. CASE Uncount
  BY <1>2 DEF Held, Uncount, HandlerTo, handlerVars
<1>3. CASE PushMeta
  <2>1. handler = "push" /\ handler' = "push" /\ msg' = msg /\ pushed' = pushed + 1
    BY <1>3 DEF PushMeta, HandlerTo
  <2> QED  BY <2>1 DEF Held
<1>4. CASE PublishEvent
  BY <1>4 DEF Held, PublishEvent, HandlerTo
<1>5. CASE WorkerStep
  BY <1>5, WorkersLeaveData DEF Held, Idle, handlerVars
<1>6. CASE UNCHANGED <<handler, handlerVars>>
  BY <1>6 DEF Held, handlerVars
<1> QED
  BY <1>1, <1>2, <1>3, <1>4, <1>5, <1>6, StepKinds, LibraryLeaves, IndexerLeaves DEF Handler, vars

-------------------------------------------------------------------------------
(* The order of the events.                                                  *)

\* A send of an event that is counted and was not sent before.
LEMMA SendKeepsQueue == ASSUME Queue, Held, NEW e \in Events, SendEvent(e) PROVE Queue'
<1>1. /\ on[e] = "counted" /\ on' = [on EXCEPT ![e] = "sent"]
      /\ eventChan' = Append(eventChan, e) /\ accepted' = Append(accepted, e)
      /\ Len(eventChan) < EventCap
      /\ UNCHANGED <<handled, msg>>
  BY DEF SendEvent, handlerVars
<1>2. EventCap \in Nat
  BY AgentAssumption
<1>3. /\ accepted' \in Seq(Events) /\ Len(accepted') = Len(accepted) + 1
      /\ \A i \in 1 .. Len(accepted) : accepted'[i] = accepted[i]
      /\ accepted'[Len(accepted) + 1] = e
      /\ eventChan' \in Seq(Events) /\ Len(eventChan') = Len(eventChan) + 1
      /\ \A i \in 1 .. Len(eventChan) : eventChan'[i] = eventChan[i]
      /\ eventChan'[Len(eventChan) + 1] = e
  BY <1>1, AppendProperties DEF Queue
<1>4. Len(handled) \in Nat /\ Len(msg) \in Nat /\ Len(eventChan) \in Nat /\ Len(accepted) \in Nat
      /\ (msg # <<>> => Len(msg) = 1) /\ (msg = <<>> => Len(msg) = 0)
  BY DEF Queue, Held
<1>5. \A i \in 1 .. Len(accepted) : accepted[i] # e
  BY <1>1 DEF Queue
<1>6. /\ \A i \in 1 .. Len(handled') : accepted'[i] = handled'[i]
      /\ msg' # <<>> => accepted'[Len(handled') + 1] = msg'[1]
  BY <1>1, <1>3, <1>4 DEF Queue
<1>7. ASSUME NEW i \in 1 .. Len(eventChan')
      PROVE  accepted'[Len(handled') + Len(msg') + i] = eventChan'[i]
  <2> DEFINE place == Len(handled) + Len(msg) + i
  <2>1. Len(accepted) = Len(handled) + Len(msg) + Len(eventChan)
    BY DEF Queue
  <2>2. CASE i \in 1 .. Len(eventChan)
    <3>1. accepted[place] = eventChan[i]
      BY <2>2 DEF Queue
    <3>2. place \in 1 .. Len(accepted)
      BY <1>4, <2>1, <2>2
    <3> QED  BY <1>1, <1>3, <2>2, <3>1, <3>2
  <2>3. CASE i = Len(eventChan) + 1
    <3>1. place = Len(accepted) + 1
      BY <1>4, <2>1, <2>3
    <3> QED  BY <1>1, <1>3, <2>3, <3>1
  <2> QED  BY <1>3, <1>4, <2>2, <2>3
<1>8. /\ \A i, j \in 1 .. Len(accepted') : accepted'[i] = accepted'[j] => i = j
      /\ on' \in [Events -> {"none", "counted", "sent"}]
      /\ \A i \in 1 .. Len(accepted') : on'[accepted'[i]] = "sent"
  BY <1>1, <1>3, <1>4, <1>5 DEF Queue
<1>9. Len(accepted') = Len(handled') + Len(msg') + Len(eventChan') /\ Len(eventChan') <= EventCap
  BY <1>1, <1>2, <1>3, <1>4 DEF Queue
<1> QED  BY <1>1, <1>3, <1>6, <1>7, <1>8, <1>9 DEF Queue

\* A receive takes the event into the hand,
LEMMA ReceiveKeepsQueue == ASSUME Queue, Held, Receive PROVE Queue'
<1>1. /\ eventChan # <<>> /\ msg = <<>>
      /\ msg' = <<Head(eventChan)>> /\ eventChan' = Tail(eventChan)
      /\ UNCHANGED <<on, accepted, handled>>
  BY DEF Receive, HandlerTo, Held
<1>2. /\ Len(eventChan) \in Nat /\ Len(eventChan) > 0
      /\ Tail(eventChan) \in Seq(Events) /\ Len(Tail(eventChan)) = Len(eventChan) - 1
      /\ \A i \in 1 .. Len(Tail(eventChan)) : Tail(eventChan)[i] = eventChan[i + 1]
      /\ Head(eventChan) = eventChan[1]
  BY <1>1, HeadTailProperties DEF Queue
<1>3. Len(handled) \in Nat /\ Len(msg) = 0 /\ Len(msg') = 1 /\ msg'[1] = eventChan[1]
  BY <1>1, <1>2 DEF Queue
<1>4. accepted'[Len(handled') + 1] = msg'[1]
  BY <1>1, <1>2, <1>3 DEF Queue
<1>5. ASSUME NEW i \in 1 .. Len(eventChan')
      PROVE  accepted'[Len(handled') + Len(msg') + i] = eventChan'[i]
  <2>1. i + 1 \in 1 .. Len(eventChan) /\ eventChan'[i] = eventChan[i + 1]
    BY <1>1, <1>2
  <2>2. accepted[Len(handled) + Len(msg) + (i + 1)] = eventChan[i + 1]
    BY <2>1 DEF Queue
  <2> QED  BY <1>1, <1>3, <2>1, <2>2
<1>6. Len(accepted') = Len(handled') + Len(msg') + Len(eventChan') /\ Len(eventChan') <= EventCap
  <2>1. EventCap \in Nat
    BY AgentAssumption
  <2>2. /\ Len(accepted) = Len(handled) + Len(msg) + Len(eventChan)
        /\ Len(eventChan) <= EventCap
    BY DEF Queue
  <2>3. /\ Len(accepted') = Len(accepted) /\ Len(handled') = Len(handled)
        /\ Len(eventChan') = Len(eventChan) - 1
    BY <1>1, <1>2
  <2>4. Len(handled) \in Nat /\ Len(eventChan) \in Nat /\ Len(msg) = 0 /\ Len(msg') = 1
    BY <1>2, <1>3
  <2> QED  BY <2>1, <2>2, <2>3, <2>4
<1>7. /\ on' \in [Events -> {"none", "counted", "sent"}]
      /\ accepted' \in Seq(Events) /\ handled' \in Seq(Events) /\ eventChan' \in Seq(Events)
      /\ \A i \in 1 .. Len(handled') : accepted'[i] = handled'[i]
      /\ \A i, j \in 1 .. Len(accepted') : accepted'[i] = accepted'[j] => i = j
      /\ \A i \in 1 .. Len(accepted') : on'[accepted'[i]] = "sent"
  BY <1>1, <1>2 DEF Queue
<1> QED  BY <1>4, <1>5, <1>6, <1>7 DEF Queue

\* and the publish from there to those that are handled.
LEMMA PublishKeepsQueue == ASSUME Queue, Held, PublishEvent PROVE Queue'
<1>1. /\ msg # <<>> /\ msg' = <<>> /\ handled' = Append(handled, msg[1])
      /\ UNCHANGED <<on, accepted, eventChan>>
  BY DEF PublishEvent, HandlerTo, Held, channelVars
<1>2. Len(msg) = 1 /\ Len(msg') = 0 /\ msg[1] \in Events
  BY <1>1 DEF Held
<1>3. /\ handled' \in Seq(Events) /\ Len(handled) \in Nat /\ Len(handled') = Len(handled) + 1
      /\ \A i \in 1 .. Len(handled) : handled'[i] = handled[i]
      /\ handled'[Len(handled) + 1] = msg[1]
  BY <1>1, <1>2, AppendProperties DEF Queue
<1>4. ASSUME NEW i \in 1 .. Len(handled') PROVE accepted'[i] = handled'[i]
  BY <1>1, <1>3 DEF Queue
<1>5. ASSUME NEW i \in 1 .. Len(eventChan')
      PROVE  accepted'[Len(handled') + Len(msg') + i] = eventChan'[i]
  <2>1. accepted[Len(handled) + Len(msg) + i] = eventChan[i]
    BY <1>1 DEF Queue
  <2>2. Len(handled') + Len(msg') + i = Len(handled) + Len(msg) + i
    BY <1>2, <1>3
  <2> QED  BY <1>1, <2>1, <2>2
<1>6. Len(accepted') = Len(handled') + Len(msg') + Len(eventChan')
  <2>1. Len(eventChan) \in Nat /\ Len(accepted) = Len(handled) + Len(msg) + Len(eventChan)
    BY DEF Queue
  <2> QED  BY <1>1, <1>2, <1>3, <2>1
<1>7. /\ on' \in [Events -> {"none", "counted", "sent"}]
      /\ accepted' \in Seq(Events) /\ handled' \in Seq(Events) /\ eventChan' \in Seq(Events)
      /\ Len(eventChan') <= EventCap /\ msg' = <<>>
      /\ \A i, j \in 1 .. Len(accepted') : accepted'[i] = accepted'[j] => i = j
      /\ \A i \in 1 .. Len(accepted') : on'[accepted'[i]] = "sent"
  BY <1>1, <1>3 DEF Queue
<1> QED  BY <1>4, <1>5, <1>6, <1>7 DEF Queue

\* No other step moves an event.
LEMMA QueueKept == Queue /\ Held /\ [Next]_vars => Queue'
<1> SUFFICES ASSUME Queue, Held, [Next]_vars PROVE Queue'
  OBVIOUS
<1>1. ASSUME NEW e \in Events, CountEvent(e) PROVE Queue'
  <2>1. /\ on[e] = "none" /\ on' = [on EXCEPT ![e] = "counted"]
        /\ UNCHANGED <<accepted, handled, eventChan, msg>>
    BY <1>1 DEF CountEvent, handlerVars
  <2>2. /\ on' \in [Events -> {"none", "counted", "sent"}]
        /\ \A i \in 1 .. Len(accepted) : on'[accepted[i]] = "sent"
    BY <2>1 DEF Queue
  <2> QED  BY <2>1, <2>2 DEF Queue
<1>2. CASE UNCHANGED <<on, accepted, handled, eventChan, msg>>
  BY <1>2 DEF Queue
<1>3. ASSUME Uncount \/ PushMeta PROVE UNCHANGED <<on, accepted, handled, eventChan, msg>>
  BY <1>3 DEF Uncount, PushMeta, channelVars, handlerVars
<1>4. ASSUME Indexer \/ WorkerStep \/ UNCHANGED vars
      PROVE  UNCHANGED <<on, accepted, handled, eventChan, msg>>
  BY <1>4, IndexerLeaves, WorkersLeaveData DEF Idle, channelVars, handlerVars, vars
<1>5. ASSUME NEW k \in Keys, Evict(k) PROVE UNCHANGED <<on, accepted, handled, eventChan, msg>>
  BY <1>5, LibraryLeaves DEF channelVars, handlerVars
<1> QED
  BY <1>1, <1>2, <1>3, <1>4, <1>5, SendKeepsQueue, ReceiveKeepsQueue, PublishKeepsQueue, StepKinds
     DEF Handler

-------------------------------------------------------------------------------
(* The counters.                                                             *)

\* An event in the channel or in hand has been sent, and is in one of the two.
LEMMA WaitingIsSent ==
    ASSUME Queue, Held
    PROVE  /\ \A e \in Range(eventChan) : e \in Events /\ on[e] = "sent" /\ msg # <<e>>
           /\ msg # <<>> => msg[1] \in Events /\ on[msg[1]] = "sent"
<1>1. /\ Len(handled) \in Nat /\ Len(eventChan) \in Nat
      /\ Len(accepted) = Len(handled) + Len(msg) + Len(eventChan)
      /\ (msg # <<>> => Len(msg) = 1) /\ (msg = <<>> => Len(msg) = 0)
  BY DEF Queue, Held
<1>2. ASSUME msg # <<>>
      PROVE  /\ Len(handled) + 1 \in 1 .. Len(accepted)
             /\ accepted[Len(handled) + 1] = msg[1]
  BY <1>1, <1>2 DEF Queue
<1>3. msg # <<>> => msg[1] \in Events /\ on[msg[1]] = "sent"
  BY <1>2 DEF Queue, Held
<1>4. ASSUME NEW e \in Range(eventChan) PROVE e \in Events /\ on[e] = "sent" /\ msg # <<e>>
  <2>1. PICK i \in 1 .. Len(eventChan) : eventChan[i] = e
    BY <1>4, RangeEquality DEF Queue
  <2> DEFINE place == Len(handled) + Len(msg) + i
  <2>2. place \in 1 .. Len(accepted)
    BY <1>1, <2>1
  <2>3. accepted[place] = e
    BY <2>1 DEF Queue
  <2>4. e \in Events /\ on[e] = "sent"
    BY <2>1, <2>2, <2>3 DEF Queue
  <2>5. ASSUME msg = <<e>> PROVE FALSE
    <3>1. Len(handled) + 1 \in 1 .. Len(accepted) /\ accepted[Len(handled) + 1] = e
      BY <1>2, <2>5
    <3>2. place # Len(handled) + 1
      BY <1>1, <2>5
    <3>3. \A p, q \in 1 .. Len(accepted) : accepted[p] = accepted[q] => p = q
      BY DEF Queue
    <3> HIDE DEF place
    <3> QED  BY <2>2, <2>3, <3>1, <3>2, <3>3
  <2> QED  BY <2>4, <2>5
<1> QED  BY <1>3, <1>4

\* Counts are kept by a step that leaves the counters and what they count alone.
LEMMA SameCounts ==
    ASSUME Counts, counter' = counter, \A e \in Events : OnTheWay(e)' <=> OnTheWay(e)
    PROVE  Counts'
<1>1. \A c : Pending(c)' = Pending(c)
  BY DEF Pending
<1> QED  BY <1>1 DEF Counts

\* One event more that is counted,
LEMMA OneCounted ==
    ASSUME Counts, NEW e \in Events, ~OnTheWay(e),
           counter' = [counter EXCEPT ![CmdOf[e]] = @ + 1],
           \A x \in Events : OnTheWay(x)' <=> OnTheWay(x) \/ x = e
    PROVE  Counts'
<1>1. CmdOf[e] \in Commands
  BY AgentAssumption
<1>2. ASSUME NEW c \in Commands
      PROVE  IsFiniteSet(Pending(c)') /\ counter'[c] = Cardinality(Pending(c)')
  <2>1. IsFiniteSet(Pending(c)) /\ counter[c] = Cardinality(Pending(c)) /\ counter[c] \in Int
    BY DEF Counts
  <2>2. CASE c = CmdOf[e]
    <3>1. Pending(c)' = Pending(c) \union {e} /\ e \notin Pending(c)
      BY <2>2 DEF Pending
    <3>2. counter'[c] = counter[c] + 1
      BY <1>1, <2>2 DEF Counts
    <3>3. /\ IsFiniteSet(Pending(c) \union {e})
          /\ Cardinality(Pending(c) \union {e}) = Cardinality(Pending(c)) + 1
      BY <2>1, <3>1, FS_AddElement
    <3> QED  BY <2>1, <3>1, <3>2, <3>3
  <2>3. CASE c # CmdOf[e]
    <3>1. Pending(c)' = Pending(c)
      BY <2>3 DEF Pending
    <3>2. counter'[c] = counter[c]
      BY <2>3 DEF Counts
    <3> QED  BY <2>1, <3>1, <3>2
  <2> QED  BY <2>2, <2>3
<1>3. counter' \in [Commands -> Int]
  BY <1>1 DEF Counts
<1> QED  BY <1>2, <1>3 DEF Counts

\* and one less.
LEMMA OneUncounted ==
    ASSUME Counts, NEW e \in Events, OnTheWay(e),
           counter' = [counter EXCEPT ![CmdOf[e]] = @ - 1],
           \A x \in Events : OnTheWay(x)' <=> OnTheWay(x) /\ x # e
    PROVE  Counts'
<1>1. CmdOf[e] \in Commands
  BY AgentAssumption
<1>2. ASSUME NEW c \in Commands
      PROVE  IsFiniteSet(Pending(c)') /\ counter'[c] = Cardinality(Pending(c)')
  <2>1. IsFiniteSet(Pending(c)) /\ counter[c] = Cardinality(Pending(c)) /\ counter[c] \in Int
    BY DEF Counts
  <2>2. CASE c = CmdOf[e]
    <3>1. Pending(c)' = Pending(c) \ {e} /\ e \in Pending(c)
      BY <2>2 DEF Pending
    <3>2. counter'[c] = counter[c] - 1
      BY <1>1, <2>2 DEF Counts
    <3>3. /\ IsFiniteSet(Pending(c) \ {e})
          /\ Cardinality(Pending(c) \ {e}) = Cardinality(Pending(c)) - 1
      BY <2>1, <3>1, FS_RemoveElement
    <3> QED  BY <2>1, <3>1, <3>2, <3>3
  <2>3. CASE c # CmdOf[e]
    <3>1. Pending(c)' = Pending(c)
      BY <2>3 DEF Pending
    <3>2. counter'[c] = counter[c]
      BY <2>3 DEF Counts
    <3> QED  BY <2>1, <3>1, <3>2
  <2> QED  BY <2>2, <2>3
<1>3. counter' \in [Commands -> Int]
  BY <1>1 DEF Counts
<1> QED  BY <1>2, <1>3 DEF Counts

\* The elements of a channel when one is sent,
LEMMA RangeSend ==
    ASSUME NEW S, NEW s \in Seq(S), NEW e \in S
    PROVE  Range(Append(s, e)) = Range(s) \union {e}
<1>1. /\ Append(s, e) \in Seq(S) /\ Len(Append(s, e)) = Len(s) + 1
      /\ \A i \in 1 .. Len(s) : Append(s, e)[i] = s[i]
      /\ Append(s, e)[Len(s) + 1] = e
  BY AppendProperties
<1>2. Range(s) = {s[i] : i \in 1 .. Len(s)}
  BY RangeEquality
<1>3. Range(Append(s, e)) = {Append(s, e)[i] : i \in 1 .. Len(s) + 1}
  BY <1>1, RangeEquality
<1>4. Len(s) \in Nat
  OBVIOUS
<1> QED  BY <1>1, <1>2, <1>3, <1>4

\* and when one is received.
LEMMA RangeReceive ==
    ASSUME NEW S, NEW s \in Seq(S), s # <<>>
    PROVE  Range(s) = Range(Tail(s)) \union {Head(s)}
<1>1. /\ Len(s) \in Nat /\ Len(s) > 0
      /\ Tail(s) \in Seq(S) /\ Len(Tail(s)) = Len(s) - 1
      /\ \A i \in 1 .. Len(s) - 1 : Tail(s)[i] = s[i + 1]
      /\ Head(s) = s[1]
  BY HeadTailProperties
<1>2. Range(s) = {s[i] : i \in 1 .. Len(s)}
  BY RangeEquality
<1>3. Range(Tail(s)) = {Tail(s)[i] : i \in 1 .. Len(s) - 1}
  BY <1>1, RangeEquality
<1>4. ASSUME NEW x \in Range(s) PROVE x \in Range(Tail(s)) \union {Head(s)}
  <2>1. PICK i \in 1 .. Len(s) : s[i] = x
    BY <1>2
  <2>2. CASE i = 1
    BY <1>1, <2>1, <2>2
  <2>3. CASE i # 1
    <3>1. i - 1 \in 1 .. Len(s) - 1 /\ Tail(s)[i - 1] = x
      BY <1>1, <2>1, <2>3
    <3> QED  BY <1>3, <3>1
  <2> QED  BY <2>2, <2>3
<1>5. ASSUME NEW x \in Range(Tail(s)) PROVE x \in Range(s)
  <2>1. PICK i \in 1 .. Len(s) - 1 : Tail(s)[i] = x
    BY <1>3
  <2>2. i + 1 \in 1 .. Len(s) /\ s[i + 1] = x
    BY <1>1, <2>1
  <2> QED  BY <1>2, <2>2
<1>6. Head(s) \in Range(s)
  <2>1. 1 \in 1 .. Len(s)
    BY <1>1
  <2> QED  BY <1>1, <1>2, <2>1
<1> QED  BY <1>4, <1>5, <1>6

\* Every step keeps the counts: a call of On adds its event, the handler takes its
\* event away, and the others move them between places that count.
LEMMA CountsKept == Counts /\ Queue /\ Held /\ [Next]_vars => Counts'
<1> SUFFICES ASSUME Counts, Queue, Held, [Next]_vars PROVE Counts'
  OBVIOUS
<1>1. on \in [Events -> {"none", "counted", "sent"}] /\ eventChan \in Seq(Events)
  BY DEF Queue
<1>2. ASSUME NEW e \in Events, CountEvent(e) PROVE Counts'
  <2>1. /\ on[e] = "none" /\ on' = [on EXCEPT ![e] = "counted"]
        /\ counter' = [counter EXCEPT ![CmdOf[e]] = @ + 1]
        /\ UNCHANGED <<eventChan, handler, msg>>
    BY <1>2 DEF CountEvent, handlerVars
  <2>2. ~OnTheWay(e)
    <3>1. e \notin Range(eventChan)
      BY <2>1, WaitingIsSent
    <3>2. ~(handler = "count" /\ msg = <<e>>)
      BY <2>1, WaitingIsSent
    <3> QED  BY <2>1, <3>1, <3>2 DEF OnTheWay
  <2>3. \A x \in Events : OnTheWay(x)' <=> OnTheWay(x) \/ x = e
    BY <1>1, <2>1 DEF OnTheWay
  <2> QED  BY <2>1, <2>2, <2>3, OneCounted
<1>3. ASSUME NEW e \in Events, SendEvent(e) PROVE Counts'
  <2>1. /\ on[e] = "counted" /\ on' = [on EXCEPT ![e] = "sent"]
        /\ eventChan' = Append(eventChan, e)
        /\ UNCHANGED <<counter, handler, msg>>
    BY <1>3 DEF SendEvent, handlerVars
  <2>2. Range(eventChan') = Range(eventChan) \union {e}
    BY <1>1, <2>1, RangeSend
  <2>3. \A x \in Events : OnTheWay(x)' <=> OnTheWay(x)
    BY <1>1, <2>1, <2>2 DEF OnTheWay
  <2> QED  BY <2>1, <2>3, SameCounts
<1>4. CASE Receive
  <2>1. /\ eventChan # <<>> /\ handler = "select" /\ handler' = "count"
        /\ msg' = <<Head(eventChan)>> /\ eventChan' = Tail(eventChan)
        /\ UNCHANGED <<on, counter>>
    BY <1>4 DEF Receive, HandlerTo
  <2>2. Range(eventChan) = Range(eventChan') \union {Head(eventChan)}
    BY <1>1, <2>1, RangeReceive
  <2>3. \A x : msg' = <<x>> <=> x = Head(eventChan)
    BY <2>1
  <2>4. \A x \in Events : OnTheWay(x)' <=> OnTheWay(x)
    BY <2>1, <2>2, <2>3 DEF OnTheWay
  <2> QED  BY <2>1, <2>4, SameCounts
<1>5. CASE Uncount
  <2>1. /\ handler = "count" /\ handler' = "push"
        /\ counter' = [counter EXCEPT ![CmdOf[msg[1]]] = @ - 1]
        /\ UNCHANGED <<on, eventChan, msg>>
    BY <1>5 DEF Uncount, HandlerTo, handlerVars
  <2>2. PICK e \in Events : msg = <<e>>
    BY <2>1 DEF Held
  <2>3. msg[1] = e /\ \A x : msg = <<x>> <=> x = e
    BY <2>2
  <2>4. on[e] = "sent" /\ e \notin Range(eventChan)
    BY <2>2, <2>3, WaitingIsSent
  <2>5. OnTheWay(e)
    BY <2>1, <2>2 DEF OnTheWay
  <2>6. \A x \in Events : OnTheWay(x)' <=> OnTheWay(x) /\ x # e
    BY <2>1, <2>3, <2>4 DEF OnTheWay
  <2> QED  BY <2>1, <2>3, <2>5, <2>6, OneUncounted
<1>6. CASE PushMeta \/ PublishEvent
  <2>1. handler = "push" /\ handler' # "count" /\ UNCHANGED <<on, eventChan, counter>>
    BY <1>6 DEF PushMeta, PublishEvent, HandlerTo, channelVars
  <2>2. \A x \in Events : OnTheWay(x)' <=> OnTheWay(x)
    BY <2>1 DEF OnTheWay
  <2> QED  BY <2>1, <2>2, SameCounts
<1>7. CASE WorkerStep
  <2>1. /\ UNCHANGED <<on, eventChan, counter, msg>>
        /\ handler' = "count" <=> handler = "count"
    BY <1>7, WorkersLeaveData DEF Idle, channelVars, handlerVars
  <2>2. \A x \in Events : OnTheWay(x)' <=> OnTheWay(x)
    BY <2>1 DEF OnTheWay
  <2> QED  BY <2>1, <2>2, SameCounts
<1>8. CASE UNCHANGED <<channelVars, handler, handlerVars>>
  <2>1. UNCHANGED <<on, eventChan, counter, handler, msg>>
    BY <1>8 DEF channelVars, handlerVars
  <2>2. \A x \in Events : OnTheWay(x)' <=> OnTheWay(x)
    BY <2>1 DEF OnTheWay
  <2> QED  BY <2>1, <2>2, SameCounts
<1> QED
  BY <1>2, <1>3, <1>4, <1>5, <1>6, <1>7, <1>8, StepKinds, IndexerLeaves, LibraryLeaves
     DEF Handler, vars

-------------------------------------------------------------------------------
(* The metas and the caches.                                                 *)

\* A meta is sent on the channel it names.
LEMMA MetaOfItsKind ==
    ASSUME NEW meta \in Metas
    PROVE  /\ meta.chan \in Channels
           /\ meta.chan = "user" => meta \in UserMetas
           /\ meta.chan = "medal" => meta \in MedalMetas
BY DEF Metas, UserMetas, MedalMetas, Channels

\* So a send of the handler leaves the channels apart,
LEMMA PushKeepsMetas == ASSUME MetasApart, Held, PushMeta PROVE MetasApart'
<1>1. PICK e \in Events : msg = <<e>>
  BY DEF PushMeta, HandlerTo, Held
<1> DEFINE meta == MetasOf[e][pushed + 1]
<1>2. /\ pushed < Len(MetasOf[e])
      /\ metaChan' = [metaChan EXCEPT ![meta.chan] = Append(@, meta)]
  BY <1>1 DEF PushMeta
<1>3. meta \in Metas
  <2>1. MetasOf[e] \in Seq(Metas) /\ pushed \in Nat
    BY AgentAssumption DEF Held
  <2> QED  BY <1>2, <2>1
<1> HIDE DEF meta
<1>4. /\ meta.chan \in Channels
      /\ meta.chan = "user" => meta \in UserMetas
      /\ meta.chan = "medal" => meta \in MedalMetas
  BY <1>3, MetaOfItsKind
<1>5. metaChan' \in [Channels -> Seq(Metas)]
  BY <1>2, <1>3, <1>4 DEF MetasApart
<1>6. metaChan'["user"] \in Seq(UserMetas)
  BY <1>2, <1>4 DEF MetasApart, Channels
<1>7. metaChan'["medal"] \in Seq(MedalMetas)
  BY <1>2, <1>4 DEF MetasApart, Channels
<1> QED  BY <1>5, <1>6, <1>7 DEF MetasApart

\* and so does every step.
LEMMA MetasKept == MetasApart /\ Held /\ [Next]_vars => MetasApart'
<1> SUFFICES ASSUME MetasApart, Held, [Next]_vars PROVE MetasApart'
  OBVIOUS
<1>1. ASSUME NEW chan \in Channels, TakeMeta(chan) PROVE MetasApart'
  <2>1. metaChan[chan] # <<>> /\ metaChan' = [metaChan EXCEPT ![chan] = Tail(@)]
    BY <1>1 DEF TakeMeta
  <2>2. metaChan' \in [Channels -> Seq(Metas)]
    BY <2>1 DEF MetasApart
  <2>3. metaChan'["user"] \in Seq(UserMetas)
    BY <2>1 DEF MetasApart, Channels
  <2>4. metaChan'["medal"] \in Seq(MedalMetas)
    BY <2>1 DEF MetasApart, Channels
  <2> QED  BY <2>2, <2>3, <2>4 DEF MetasApart
<1>2. CASE Indexer
  BY <1>1, <1>2 DEF Indexer, IndexUser, IndexMedal, Channels
<1>3. CASE UNCHANGED metaChan
  BY <1>3 DEF MetasApart
<1>4. ASSUME Receive \/ Uncount \/ PublishEvent PROVE UNCHANGED metaChan
  BY <1>4 DEF Receive, Uncount, PublishEvent
<1> QED
  BY <1>2, <1>3, <1>4, PushKeepsMetas, StepKinds, LibraryLeaves, WorkersLeaveData
     DEF Handler, Idle, vars

\* With one info more, the latest word is what that info tells, and for the fields
\* it does not tell what was the latest word before.
LEMMA LatestOfNext ==
    ASSUME NEW said \in Seq(Infos), NEW info \in Infos, HasLatest(said)
    PROVE  /\ HasLatest(Append(said, info))
           /\ Latest(Append(said, info)) = Merge(info, Latest(said))
<1> DEFINE next == Append(said, info)
           n == Len(said) + 1
<1>1. /\ next \in Seq(Infos) /\ Len(said) \in Nat /\ DOMAIN next = 1 .. n
      /\ DOMAIN said = 1 .. Len(said)
      /\ \A i \in 1 .. Len(said) : next[i] = said[i]
      /\ next[n] = info
  BY AppendProperties
<1> HIDE DEF next
<1>2. ASSUME NEW f \in Fields, info[f] # Nil
      PROVE  /\ n \in Knows(next, f) /\ \A i \in Knows(next, f) : n >= i
             /\ Max(Knows(next, f)) = n
  <2>1. n \in Knows(next, f) /\ \A i \in Knows(next, f) : n >= i
    BY <1>1, <1>2 DEF Knows
  <2>2. Knows(next, f) \subseteq 1 .. n
    BY <1>1 DEF Knows
  <2>3. \A m \in Knows(next, f) : (\A i \in Knows(next, f) : m >= i) => m = n
    BY <1>1, <2>1, <2>2
  <2>4. Max(Knows(next, f)) = n
    BY <2>1, <2>3 DEF Max
  <2> QED  BY <2>1, <2>4
<1>3. ASSUME NEW f \in Fields, info[f] = Nil
      PROVE  /\ Knows(next, f) = Knows(said, f)
             /\ \A i \in Knows(said, f) : next[i] = said[i]
  BY <1>1, <1>3 DEF Knows
<1>4. ASSUME NEW f \in Fields, Knows(said, f) # {}
      PROVE  Max(Knows(said, f)) \in Knows(said, f)
  <2>1. \E m \in Knows(said, f) : \A i \in Knows(said, f) : m >= i
    BY <1>4 DEF HasLatest
  <2> QED  BY <2>1 DEF Max
<1>5. HasLatest(next)
  BY <1>2, <1>3 DEF HasLatest
<1>6. ASSUME NEW f \in Fields PROVE Latest(next)[f] = Merge(info, Latest(said))[f]
  <2>1. CASE info[f] # Nil
    <3>1. Latest(next)[f] = info[f]
      BY <1>1, <1>2, <2>1 DEF Latest
    <3> QED  BY <2>1, <3>1 DEF Merge
  <2>2. CASE info[f] = Nil
    <3>1. Latest(next)[f] = Latest(said)[f]
      BY <1>3, <1>4, <2>2 DEF Latest
    <3> QED  BY <2>2, <3>1 DEF Merge
  <2> QED  BY <2>1, <2>2
<1>7. Latest(next) = Merge(info, Latest(said))
  BY <1>6 DEF Latest, Merge
<1> QED  BY <1>5, <1>7 DEF next

\* The first info is the latest word, the same info again changes nothing, and a
\* merge of infos is one.
LEMMA Merging ==
    /\ \A info \in Infos : /\ Merge(info, Latest(<<>>)) = info
                           /\ Merge(info, info) = info
    /\ \A info, other \in Infos : Merge(info, other) \in Infos
    /\ HasLatest(<<>>)
<1>1. \A f \in Fields : Knows(<<>>, f) = {}
  BY DEF Knows
<1>2. ASSUME NEW info \in Infos PROVE Merge(info, Latest(<<>>)) = info
  <2>1. \A f \in Fields : Merge(info, Latest(<<>>))[f] = info[f]
    BY <1>1 DEF Merge, Latest
  <2> QED  BY <2>1 DEF Merge, Infos
<1>3. \A info \in Infos : Merge(info, info) = info
  BY DEF Merge, Infos
<1>4. \A info, other \in Infos : Merge(info, other) \in Infos
  BY DEF Merge, Infos
<1>5. HasLatest(<<>>)
  BY <1>1 DEF HasLatest
<1> QED  BY <1>2, <1>3, <1>4, <1>5

\* What was told last of a user, and of a medal.
LEMMA LatestToldIs ==
    ASSUME NEW k \in Keys
    PROVE  /\ k \notin Medals => LatestTold(k) = Latest(told[k])
           /\ k \notin Medals => LatestTold(k)' = Latest(told'[k])
           /\ k \in Medals => LatestTold(k) = told[k][Len(told[k])]
           /\ k \in Medals => LatestTold(k)' = told'[k][Len(told'[k])]
BY DEF LatestTold, Latest, Knows

\* A key that nothing is told of.
LEMMA KeyUntouched ==
    ASSUME NEW k \in Keys, CacheLatest(k),
           told'[k] = told[k], cache'[k] = cache[k], published'[k] = published[k]
    PROVE  CacheLatest(k)'
<1>1. LatestTold(k)' = LatestTold(k)
  BY LatestToldIs
<1> QED  BY <1>1 DEF CacheLatest

\* A key that info is told of, when latest becomes, or is, what the cache has and
\* what was published last.
LEMMA KeyTold ==
    ASSUME Caches, NEW k \in Keys, NEW info \in Infos, NEW latest \in Infos,
           told' = [told EXCEPT ![k] = Append(@, info)],
           LatestTold(k)' = latest,
           \/ /\ cache' = [cache EXCEPT ![k] = <<latest>>]
              /\ published' = [published EXCEPT ![k] = <<latest>>]
           \/ /\ UNCHANGED <<cache, published>>
              /\ cache[k] = <<latest>>,
           evictions' = evictions,
           subject' \in [Keys -> {"none", "userInfo", "userInfoMeta", "fansMedal"}]
    PROVE  Caches'
<1>1. told[k] \in Seq(Infos) /\ cache[k] \in Seq(Infos) /\ CacheLatest(k)
  BY DEF Caches
<1>2. /\ told'[k] = Append(told[k], info) /\ told'[k] # <<>>
      /\ told' \in [Keys -> Seq(Infos)]
  <2>1. told'[k] = Append(told[k], info) /\ told' \in [Keys -> Seq(Infos)]
    BY DEF Caches
  <2>2. Append(told[k], info) # <<>>
    BY <1>1, AppendProperties
  <2> QED  BY <2>1, <2>2
<1>3. cache'[k] = <<latest>> /\ published'[k] = <<latest>>
  <2>1. CASE UNCHANGED <<cache, published>> /\ cache[k] = <<latest>>
    <3>1. told[k] # <<>>
      BY <1>1, <2>1 DEF CacheLatest
    <3> QED  BY <1>1, <2>1, <3>1 DEF CacheLatest
  <2>2. CASE /\ cache' = [cache EXCEPT ![k] = <<latest>>]
             /\ published' = [published EXCEPT ![k] = <<latest>>]
    BY <2>2 DEF Caches
  <2> QED  BY <2>1, <2>2
<1>4. /\ cache' \in [Keys -> Seq(Infos)] /\ published' \in [Keys -> Seq(Infos)]
      /\ evictions' \in 0 .. MaxEvictions
  <2>1. <<latest>> \in Seq(Infos)
    OBVIOUS
  <2> DEFINE Words == Seq(Infos)
  <2>2. /\ cache \in [Keys -> Words] /\ published \in [Keys -> Words] /\ <<latest>> \in Words
        /\ evictions \in 0 .. MaxEvictions
    BY <2>1 DEF Caches
  <2> HIDE DEF Words
  <2>3. cache' \in [Keys -> Words] /\ published' \in [Keys -> Words]
    BY <2>2
  <2> QED  BY <2>2, <2>3 DEF Words
<1>5. HasLatest(told[k])
  BY <1>1 DEF CacheLatest
<1>6. HasLatest(told'[k])
  BY <1>1, <1>2, <1>5, LatestOfNext
<1>7. CacheLatest(k)'
  BY <1>2, <1>3, <1>6 DEF CacheLatest
<1>8. ASSUME NEW j \in Keys, j # k PROVE CacheLatest(j)'
  <2>1. told'[j] = told[j] /\ cache'[j] = cache[j] /\ published'[j] = published[j]
    BY <1>8 DEF Caches
  <2> QED  BY <2>1, KeyUntouched DEF Caches
<1> QED  BY <1>2, <1>4, <1>7, <1>8 DEF Caches

\* A user: what the meta does not tell is taken from the cache, so what is cached
\* and published is the latest word on every field.
LEMMA UserKeepsCaches == ASSUME Caches, MetasApart, IndexUser PROVE Caches'
<1> DEFINE meta == Head(metaChan["user"])
<1>1. /\ metaChan["user"] # <<>> /\ evictions' = evictions
      /\ told' = [told EXCEPT ![meta.key] = Append(@, meta.info)]
  BY DEF IndexUser, TakeMeta, Tell
<1>2. /\ cache[meta.key] = <<>> => SyncMeta(meta.key, meta.info, "userInfo")
      /\ cache[meta.key] # <<>> =>
            \/ SyncMeta(meta.key, Merge(meta.info, cache[meta.key][1]), "userInfoMeta")
            \/ cache[meta.key] = <<meta.info>> /\ InSync
  BY DEF IndexUser
<1>3. meta.key \in Users /\ meta.info \in Infos
  <2>1. meta \in UserMetas
    BY <1>1, HeadTailProperties DEF MetasApart
  <2> HIDE DEF meta
  <2> QED  BY <2>1 DEF UserMetas
<1> HIDE DEF meta
<1>4. PICK k, info : k = meta.key /\ info = meta.info
  OBVIOUS
<1>5. k \in Keys /\ k \notin Medals /\ info \in Infos
  BY <1>3, <1>4, AgentAssumption DEF Keys
<1>6. told' = [told EXCEPT ![k] = Append(@, info)]
  BY <1>1, <1>4
<1>7. told[k] \in Seq(Infos) /\ CacheLatest(k) /\ told'[k] = Append(told[k], info)
  BY <1>5, <1>6 DEF Caches
<1>8. LatestTold(k)' = Merge(info, Latest(told[k]))
  BY <1>5, <1>7, LatestToldIs, LatestOfNext DEF CacheLatest
<1>9. LatestTold(k) = Latest(told[k])
  BY <1>5, LatestToldIs
<1>10. CASE cache[k] = <<>>
  <2>1. LatestTold(k)' = info
    BY <1>5, <1>7, <1>8, <1>10, Merging DEF CacheLatest
  <2>2. /\ cache' = [cache EXCEPT ![k] = <<info>>]
        /\ published' = [published EXCEPT ![k] = <<info>>]
        /\ subject' = [subject EXCEPT ![k] = "userInfo"]
    BY <1>2, <1>4, <1>10 DEF SyncMeta
  <2>3. subject' \in [Keys -> {"none", "userInfo", "userInfoMeta", "fansMedal"}]
    BY <2>2 DEF Caches
  <2> QED  BY <1>1, <1>5, <1>6, <2>1, <2>2, <2>3, KeyTold
<1>11. CASE cache[k] # <<>> /\ SyncMeta(k, Merge(info, cache[k][1]), "userInfoMeta")
  <2> DEFINE latest == Merge(info, cache[k][1])
  <2>1. cache[k] = <<Latest(told[k])>>
    BY <1>7, <1>9, <1>11 DEF CacheLatest
  <2>2. cache[k][1] = Latest(told[k]) /\ cache[k][1] \in Infos
    <3>1. cache[k] \in Seq(Infos)
      BY <1>5 DEF Caches
    <3> QED  BY <2>1, <3>1
  <2>3. LatestTold(k)' = latest /\ latest \in Infos
    BY <1>5, <1>8, <2>2, Merging
  <2>4. /\ cache' = [cache EXCEPT ![k] = <<latest>>]
        /\ published' = [published EXCEPT ![k] = <<latest>>]
        /\ subject' = [subject EXCEPT ![k] = "userInfoMeta"]
    BY <1>11 DEF SyncMeta
  <2>5. subject' \in [Keys -> {"none", "userInfo", "userInfoMeta", "fansMedal"}]
    BY <2>4 DEF Caches
  <2> HIDE DEF latest
  <2> QED  BY <1>1, <1>5, <1>6, <2>3, <2>4, <2>5, KeyTold
<1>12. CASE cache[k] = <<info>> /\ InSync
  <2>1. told[k] # <<>>
    BY <1>7, <1>12 DEF CacheLatest
  <2>2. <<info>> = <<Latest(told[k])>>
    BY <1>7, <1>9, <1>12, <2>1 DEF CacheLatest
  <2>3. info = Latest(told[k])
    BY <2>2
  <2>4. LatestTold(k)' = info
    BY <1>5, <1>8, <2>3, Merging
  <2>5. /\ UNCHANGED <<cache, published>>
        /\ subject' \in [Keys -> {"none", "userInfo", "userInfoMeta", "fansMedal"}]
    BY <1>12 DEF InSync, Caches
  <2> QED  BY <1>1, <1>5, <1>6, <1>12, <2>4, <2>5, KeyTold
<1> QED  BY <1>2, <1>4, <1>10, <1>11, <1>12

\* A medal tells all of its fields, an empty one nothing.
LEMMA MedalKeepsCaches == ASSUME Caches, MetasApart, IndexMedal PROVE Caches'
<1> DEFINE meta == Head(metaChan["medal"])
<1>1. metaChan["medal"] # <<>> /\ evictions' = evictions
  BY DEF IndexMedal, TakeMeta
<1>2. /\ meta.key = NoMedal => told' = told /\ InSync
      /\ meta.key # NoMedal =>
            /\ told' = [told EXCEPT ![meta.key] = Append(@, meta.info)]
            /\ \/ cache[meta.key] = <<meta.info>> /\ InSync
               \/ SyncMeta(meta.key, meta.info, "fansMedal")
  BY DEF IndexMedal, Tell
<1>3. meta.key \in Medals \union {NoMedal} /\ meta.info \in Infos
  <2>1. meta \in MedalMetas
    BY <1>1, HeadTailProperties DEF MetasApart
  <2> HIDE DEF meta
  <2> QED  BY <2>1 DEF MedalMetas
<1> HIDE DEF meta
<1>4. PICK k, info : k = meta.key /\ info = meta.info
  OBVIOUS
<1>5. CASE k = NoMedal
  <2>1. UNCHANGED <<told, cache, published, subject, evictions>>
    BY <1>1, <1>2, <1>4, <1>5 DEF InSync
  <2>2. \A j \in Keys : CacheLatest(j)'
    BY <2>1, KeyUntouched DEF Caches
  <2> QED  BY <2>1, <2>2 DEF Caches
<1>6. CASE k # NoMedal
  <2>1. k \in Keys /\ k \in Medals /\ info \in Infos
    BY <1>3, <1>4, <1>6 DEF Keys
  <2>2. told' = [told EXCEPT ![k] = Append(@, info)]
    BY <1>2, <1>4, <1>6
  <2>3. told[k] \in Seq(Infos) /\ told'[k] = Append(told[k], info)
    BY <2>1, <2>2 DEF Caches
  <2>4. LatestTold(k)' = info
    <3>1. Len(told'[k]) = Len(told[k]) + 1 /\ told'[k][Len(told[k]) + 1] = info
      BY <2>1, <2>3, AppendProperties
    <3> QED  BY <2>1, <3>1, LatestToldIs
  <2>5. /\ \/ /\ cache' = [cache EXCEPT ![k] = <<info>>]
              /\ published' = [published EXCEPT ![k] = <<info>>]
           \/ UNCHANGED <<cache, published>> /\ cache[k] = <<info>>
        /\ subject' \in [Keys -> {"none", "userInfo", "userInfoMeta", "fansMedal"}]
    BY <1>2, <1>4, <1>6 DEF InSync, SyncMeta, Caches
  <2> QED  BY <1>1, <2>1, <2>2, <2>4, <2>5, KeyTold
<1> QED  BY <1>5, <1>6

\* A forgotten entry takes along what was told; nobody else changes a cache.
LEMMA CachesKept == Caches /\ MetasApart /\ [Next]_vars => Caches'
<1> SUFFICES ASSUME Caches, MetasApart, [Next]_vars PROVE Caches'
  OBVIOUS
<1>1. ASSUME NEW k \in Keys, Evict(k) PROVE Caches'
  <2>1. /\ cache' = [cache EXCEPT ![k] = <<>>] /\ told' = [told EXCEPT ![k] = <<>>]
        /\ evictions < MaxEvictions /\ evictions' = evictions + 1
        /\ UNCHANGED <<published, subject>>
    BY <1>1 DEF Evict
  <2>2. cache' \in [Keys -> Seq(Infos)] /\ told' \in [Keys -> Seq(Infos)]
    BY <2>1 DEF Caches
  <2>3. evictions' \in 0 .. MaxEvictions
    BY <2>1, AgentAssumption DEF Caches
  <2>4. told'[k] = <<>> /\ cache'[k] = <<>>
    BY <2>1 DEF Caches
  <2>5. CacheLatest(k)'
    BY <2>4, Merging DEF CacheLatest
  <2>6. ASSUME NEW j \in Keys, j # k PROVE CacheLatest(j)'
    <3>1. told'[j] = told[j] /\ cache'[j] = cache[j] /\ published'[j] = published[j]
      BY <2>1, <2>6 DEF Caches
    <3> QED  BY <3>1, KeyUntouched DEF Caches
  <2> QED  BY <2>1, <2>2, <2>3, <2>5, <2>6 DEF Caches
<1>2. CASE UNCHANGED indexerVars
  <2>1. \A k \in Keys : CacheLatest(k)'
    BY <1>2, KeyUntouched DEF Caches, indexerVars
  <2> QED  BY <1>2, <2>1 DEF Caches, indexerVars
<1> QED
  BY <1>1, <1>2, UserKeepsCaches, MedalKeepsCaches, StepKinds, HandlerLeaves, LibraryLeaves,
     WorkersLeaveData DEF Indexer, Idle, vars

-------------------------------------------------------------------------------
(* The invariant holds.                                                      *)

\* Nothing has happened at the start.
LEMMA Initially == Init => IInv
<1> SUFFICES ASSUME Init PROVE IInv
  OBVIOUS
<1>1. Workers /\ StopOrder
  <2>1. /\ handler = "off" /\ indexer = "off" /\ controller = "off" /\ waiter = "waiting"
        /\ main = "waiting" /\ ctxDone = FALSE /\ wg = 1 /\ early = FALSE
    BY DEF Init
  <2>2. Members = 1
    BY <2>1 DEF Members, One, Working
  <2>3. Workers
    BY <2>1, <2>2 DEF Workers
  <2>4. StopOrder
    BY <2>1 DEF StopOrder
  <2> QED  BY <2>3, <2>4
<1> USE AgentAssumption DEF Init
<1>2. Held /\ Queue
  BY DEF Held, Queue
<1>3. Counts
  <2>1. \A c : Pending(c) = {}
    BY DEF Pending, OnTheWay, Range
  <2>2. \A c : IsFiniteSet(Pending(c)) /\ Cardinality(Pending(c)) = 0
    BY <2>1, FS_EmptySet
  <2>3. counter = [c \in Commands |-> 0]
    OBVIOUS
  <2> QED  BY <2>2, <2>3 DEF Counts
<1>4. MetasApart
  BY DEF MetasApart, Channels
<1>5. Caches
  BY Merging DEF Caches, CacheLatest
<1> QED  BY <1>1, <1>2, <1>3, <1>4, <1>5 DEF IInv

\* Every step keeps all parts,
LEMMA Inductive == IInv /\ [Next]_vars => IInv'
BY WorkersKept, HeldKept, QueueKept, CountsKept, MetasKept, CachesKept DEF IInv

\* so they always hold.
LEMMA Invariance == Spec => []IInv
BY Initially, Inductive, PTL DEF Spec

-------------------------------------------------------------------------------
(* The theorems.                                                             *)

\* Every variable keeps its type, for any events, metas and capacities; neither
\* the WaitGroup's counter nor those of the commands go below zero.
THEOREM TypeCorrect == Spec => []TypeOK
<1>1. ASSUME IInv PROVE TypeOK
  <2>1. wg \in Nat
    BY <1>1 DEF IInv, Workers, Members, One
  <2>2. counter \in [Commands -> Nat]
    <3>1. \A c \in Commands : counter[c] \in Nat
      BY <1>1, FS_CardinalityType DEF IInv, Counts
    <3> QED  BY <1>1, <3>1 DEF IInv, Counts
  <2>3. msg \in Seq(Events) /\ Len(msg) <= 1 /\ pushed \in Nat
    <3>1. (msg = <<>> \/ \E e \in Events : msg = <<e>>) /\ pushed \in Nat
      BY <1>1 DEF IInv, Held
    <3>2. CASE msg = <<>>
      <4>1. msg \in Seq(Events) /\ Len(msg) = 0
        BY <3>2
      <4> QED  BY <3>1, <4>1
    <3>3. ASSUME NEW e \in Events, msg = <<e>>
          PROVE  msg \in Seq(Events) /\ Len(msg) <= 1 /\ pushed \in Nat
      <4>1. msg \in Seq(Events) /\ Len(msg) = 1
        BY <3>3
      <4> QED  BY <3>1, <4>1
    <3> QED  BY <3>1, <3>2, <3>3
  <2>4. /\ handler \in {"off", "select", "count", "push", "stopped"}
        /\ indexer \in {"off", "select", "stopped"}
        /\ controller \in {"off", "select", "stopped"}
        /\ waiter \in {"waiting", "left", "returned"}
        /\ main \in {"waiting", "released", "exited"}
        /\ ctxDone \in BOOLEAN /\ early \in BOOLEAN
    BY <1>1 DEF IInv, Workers, Working
  <2>5. /\ on \in [Events -> {"none", "counted", "sent"}]
        /\ eventChan \in Seq(Events) /\ Len(eventChan) <= EventCap
        /\ accepted \in Seq(Events) /\ handled \in Seq(Events)
    BY <1>1 DEF IInv, Queue
  <2>6. metaChan \in [Channels -> Seq(Metas)]
    BY <1>1 DEF IInv, MetasApart
  <2>7. /\ cache \in [Keys -> Seq(Infos)] /\ told \in [Keys -> Seq(Infos)]
        /\ published \in [Keys -> Seq(Infos)]
        /\ subject \in [Keys -> {"none", "userInfo", "userInfoMeta", "fansMedal"}]
        /\ evictions \in 0 .. MaxEvictions
    BY <1>1 DEF IInv, Caches
  <2> QED  BY <2>1, <2>2, <2>3, <2>4, <2>5, <2>6, <2>7 DEF TypeOK
<1> QED  BY <1>1, Invariance, PTL

\* Main returns only when the handler has ended, and it ends between two events,
\* unless the signal came before the goroutines had joined the WaitGroup.
THEOREM ExitBetweenEvents == Spec => []NoEventCutOff
<1>1. IInv => NoEventCutOff
  BY DEF IInv, StopOrder, Held, NoEventCutOff
<1> QED  BY <1>1, Invariance, PTL

\* The counter of a command is the number of its events on their way.
THEOREM CountersTrue == Spec => []CountersExact
<1>1. ASSUME IInv PROVE CountersExact
  <2>1. \A c \in Commands : counter[c] = Cardinality(Pending(c))
    BY <1>1 DEF IInv, Counts
  <2> QED  BY <2>1 DEF CountersExact, Pending, OnTheWay
<1> QED  BY <1>1, Invariance, PTL

\* Readers of the metas know the latest word on every field of a user and on every
\* medal, for any sequence of events and evictions.
THEOREM LatestKnown == Spec => []ReadersKnowLatest
<1>1. IInv => ReadersKnowLatest
  BY DEF IInv, Caches, CacheLatest, ReadersKnowLatest
<1> QED  BY <1>1, Invariance, PTL

\* A send of an event is an acceptance, a publish a launch, every other step of the
\* agent leaves both sequences alone.
LEMMA StepRefines == IInv /\ [Next]_vars => [FL!Next]_(FL!vars)
<1> SUFFICES ASSUME IInv, [Next]_vars PROVE [FL!Next]_(FL!vars)
  OBVIOUS
<1>1. ASSUME NEW e \in Events, SendEvent(e) PROVE FL!Next
  <2>1. on[e] = "counted" /\ accepted' = Append(accepted, e) /\ handled' = handled
    BY <1>1 DEF SendEvent, handlerVars
  <2>2. e \notin Range(accepted)
    <3>1. accepted \in Seq(Events) /\ \A i \in 1 .. Len(accepted) : accepted[i] # e
      BY <2>1 DEF IInv, Queue
    <3> QED  BY <3>1, RangeEquality
  <2>3. FL!Accept(e)
    BY <2>1, <2>2 DEF FL!Accept, FL!Range, Range
  <2> QED  BY <2>3 DEF FL!Next
<1>2. CASE PublishEvent
  <2>1. /\ msg # <<>> /\ handled' = Append(handled, msg[1]) /\ accepted' = accepted
    BY <1>2 DEF PublishEvent, HandlerTo, IInv, Held, channelVars
  <2>2. accepted[Len(handled) + 1] = msg[1]
    BY <2>1 DEF IInv, Queue
  <2>3. Len(handled) < Len(accepted)
    <3>1. Len(msg) = 1
      BY <2>1 DEF IInv, Held
    <3>2. /\ Len(handled) \in Nat /\ Len(eventChan) \in Nat
          /\ Len(accepted) = Len(handled) + Len(msg) + Len(eventChan)
      BY DEF IInv, Queue
    <3> QED  BY <3>1, <3>2
  <2>4. FL!Launch
    BY <2>1, <2>2, <2>3 DEF FL!Launch
  <2> QED  BY <2>4 DEF FL!Next
<1>3. CASE UNCHANGED <<accepted, handled>>
  BY <1>3 DEF FL!vars
<1>4. ASSUME Receive \/ Uncount \/ PushMeta PROVE UNCHANGED <<accepted, handled>>
  BY <1>4 DEF Receive, Uncount, PushMeta, channelVars, handlerVars
<1>5. ASSUME NEW e \in Events, CountEvent(e) PROVE UNCHANGED <<accepted, handled>>
  BY <1>5 DEF CountEvent, handlerVars
<1>6. ASSUME Indexer \/ WorkerStep \/ UNCHANGED vars \/ \E k \in Keys : Evict(k)
      PROVE  UNCHANGED <<accepted, handled>>
  BY <1>6, IndexerLeaves, WorkersLeaveData, LibraryLeaves
     DEF Idle, channelVars, handlerVars, vars
<1> QED  BY <1>1, <1>2, <1>3, <1>4, <1>5, <1>6, StepKinds DEF Handler

\* Every event is handled once, in the order of the channel.
THEOREM Refinement == Spec => EventsInOrder
<1>1. Init => FL!Init
  BY DEF Init, FL!Init
<1> QED  BY <1>1, StepRefines, Invariance, PTL DEF Spec, EventsInOrder, FL!Spec

===============================================================================
