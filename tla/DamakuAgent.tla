------------------------------ MODULE DamakuAgent ------------------------------
(***************************************************************************)
(* io-bilive-damaku/agent: the event pipeline of a live-room agent.  The   *)
(* chat library calls On for every event, which counts it and puts it into *)
(* eventChan; eventHandler takes events out, sends what they say of users  *)
(* and fans medals to metaIndexer over two channels, and publishes the     *)
(* event; metaIndexer publishes what is new of a user or medal and keeps   *)
(* what it published in a cache that forgets.                              *)
(*                                                                         *)
(* Three goroutines are counted in the WaitGroup that main waits for, next *)
(* to the one that waits for the signal.  The library and NATS are         *)
(* external: each call of On is a goroutine of its own, and a message is   *)
(* published when mq.Publish is called, an error of which is only logged.  *)
(***************************************************************************)
EXTENDS Integers, Sequences, FiniteSets, FiniteSetsExt, Functions

CONSTANTS
    Events,       \* the events the library delivers
    Commands,     \* the commands with a handler
    CmdOf,        \* per event, its command
    MetasOf,      \* per event, the metas its handler sends, in order
    Users,        \* cache keys of users
    Medals,       \* cache keys of medals; NoMedal is the key of an empty one
    Values,       \* what a field of a meta may say
    EventCap,     \* capacity of eventChan (100 in the code)
    MetaCap,      \* capacity of userMetaChan and of medalMetaChan (32)
    MaxEvictions  \* bound of the model: entries the caches forget

\* The optional fields of a user meta; a field not told is Nil.
Fields == {"Face", "Level", "WealthLevel"}
Nil == "nil"
NoMedal == "no medal"

\* What a meta says: a value or Nil for each field.
Infos == [Fields -> Values \union {Nil}]

Channels == {"user", "medal"}
UserMetas == [chan : {"user"}, key : Users, info : Infos]
MedalMetas == [chan : {"medal"}, key : Medals \union {NoMedal}, info : Infos]
Metas == UserMetas \union MedalMetas
Keys == Users \union Medals

ASSUME AgentAssumption ==
    /\ CmdOf \in [Events -> Commands]
    /\ MetasOf \in [Events -> Seq(Metas)]
    /\ EventCap \in Nat \ {0} /\ MetaCap \in Nat \ {0} /\ MaxEvictions \in Nat
    /\ Users \intersect Medals = {} /\ NoMedal \notin Keys /\ Nil \notin Values

VARIABLES
    on,         \* per event, where its call of On stands
    eventChan,  \* the events in the channel
    counter,    \* eventCounter
    handler,    \* where eventHandler stands
    msg,        \* the event it works on, or none
    pushed,     \* how many metas of that event it has sent
    metaChan,   \* userMetaChan and medalMetaChan
    indexer,    \* where metaIndexer stands
    cache,      \* userMetaCache and medalMetaCache
    evictions,  \* how often a cache has forgotten an entry
    controller, \* where the controller goroutine stands
    waiter,     \* where the goroutine that waits for the signal stands
    main,       \* main is in worker.Wait, has been released, or has returned
    ctxDone,    \* the context is cancelled
    wg,         \* the counter of the WaitGroup worker
    accepted,   \* history: the events put into eventChan, in order
    handled,    \* history: the events whose handling has ended, in order
    told,       \* history: per key, what was indexed since it was last forgotten
    published,  \* history: per key, what was last published, or none
    subject,    \* history: per key, on which subject
    early       \* history: the signal came before all goroutines were counted

channelVars == <<on, eventChan, counter, accepted>>
handlerVars == <<msg, pushed, handled>>
indexerVars == <<cache, evictions, told, published, subject>>
workerVars == <<controller, waiter, main, ctxDone, wg, early>>
vars == <<channelVars, handler, handlerVars, metaChan, indexer, indexerVars, workerVars>>

Init ==
    /\ on = [e \in Events |-> "none"]
    /\ eventChan = <<>>
    /\ counter = [c \in Commands |-> 0]
    /\ handler = "off"
    /\ msg = <<>>
    /\ pushed = 0
    /\ metaChan = [c \in Channels |-> <<>>]
    /\ indexer = "off"
    /\ cache = [k \in Keys |-> <<>>]
    /\ evictions = 0
    /\ controller = "off"
    /\ waiter = "waiting"
    /\ main = "waiting"
    /\ ctxDone = FALSE
    /\ wg = 1
    /\ accepted = <<>>
    /\ handled = <<>>
    /\ told = [k \in Keys |-> <<>>]
    /\ published = [k \in Keys |-> <<>>]
    /\ subject = [k \in Keys |-> "none"]
    /\ early = FALSE

Alive == main # "exited"

-------------------------------------------------------------------------------
(* BLiveEventHandlerWrapper.On.                                              *)

CountEvent(e) ==
    /\ Alive
    /\ on[e] = "none"
    /\ on' = [on EXCEPT ![e] = "counted"]
    /\ counter' = [counter EXCEPT ![CmdOf[e]] = @ + 1]
    /\ UNCHANGED <<eventChan, accepted, handler, handlerVars, metaChan, indexer,
                   indexerVars, workerVars>>

SendEvent(e) ==
    /\ Alive
    /\ on[e] = "counted"
    /\ Len(eventChan) < EventCap
    /\ on' = [on EXCEPT ![e] = "sent"]
    /\ eventChan' = Append(eventChan, e)
    /\ accepted' = Append(accepted, e)
    /\ UNCHANGED <<counter, handler, handlerVars, metaChan, indexer, indexerVars, workerVars>>

-------------------------------------------------------------------------------
(* eventHandler.                                                             *)

HandlerTo(from, to) ==
    /\ Alive
    /\ handler = from
    /\ handler' = to

Receive ==
    /\ HandlerTo("select", "count")
    /\ eventChan # <<>>
    /\ msg' = <<Head(eventChan)>>
    /\ pushed' = 0
    /\ eventChan' = Tail(eventChan)
    /\ UNCHANGED <<on, counter, accepted, handled, metaChan, indexer, indexerVars, workerVars>>

\* Mutant of Uncount: the counter is not decremented.
Uncount_Forgotten ==
    /\ HandlerTo("count", "push")
    /\ UNCHANGED <<channelVars, handlerVars, metaChan, indexer, indexerVars, workerVars>>

Uncount ==
    /\ HandlerTo("count", "push")
    /\ counter' = [counter EXCEPT ![CmdOf[msg[1]]] = @ - 1]
    /\ UNCHANGED <<on, eventChan, accepted, handlerVars, metaChan, indexer, indexerVars, workerVars>>

\* The send of the next meta waits for room, with no look at the context.
PushMeta ==
    /\ HandlerTo("push", "push")
    /\ pushed < Len(MetasOf[msg[1]])
    /\ LET meta == MetasOf[msg[1]][pushed + 1] IN
         /\ Len(metaChan[meta.chan]) < MetaCap
         /\ metaChan' = [metaChan EXCEPT ![meta.chan] = Append(@, meta)]
    /\ pushed' = pushed + 1
    /\ UNCHANGED <<channelVars, msg, handled, indexer, indexerVars, workerVars>>

\* The event is published, or turned out not to parse.
PublishEvent ==
    /\ HandlerTo("push", "select")
    /\ pushed = Len(MetasOf[msg[1]])
    /\ handled' = Append(handled, msg[1])
    /\ msg' = <<>>
    /\ pushed' = 0
    /\ UNCHANGED <<channelVars, metaChan, indexer, indexerVars, workerVars>>

-------------------------------------------------------------------------------
(* metaIndexer.                                                              *)

TakeMeta(chan) ==
    /\ Alive
    /\ indexer = "select"
    /\ metaChan[chan] # <<>>
    /\ metaChan' = [metaChan EXCEPT ![chan] = Tail(@)]
    /\ UNCHANGED <<channelVars, handler, handlerVars, indexer, evictions, workerVars>>

\* syncMeta: publish, then cache.
SyncMeta(key, info, where) ==
    /\ published' = [published EXCEPT ![key] = <<info>>]
    /\ subject' = [subject EXCEPT ![key] = where]
    /\ cache' = [cache EXCEPT ![key] = <<info>>]

InSync == UNCHANGED <<published, subject, cache>>

Tell(meta) == told' = [told EXCEPT ![meta.key] = Append(@, meta.info)]

\* What a user meta does not tell is taken from the cached one.
Merge(info, cached) == [f \in Fields |-> IF info[f] = Nil THEN cached[f] ELSE info[f]]

\* Mutant of IndexUser: the merged meta is published, the bare one is cached.
IndexUser_CachesBare ==
    /\ TakeMeta("user")
    /\ LET meta == Head(metaChan["user"])
           known == cache[meta.key]
       IN  /\ Tell(meta)
           /\ cache' = [cache EXCEPT ![meta.key] = <<meta.info>>]
           /\ published' = [published EXCEPT ![meta.key] =
                              <<IF known = <<>> THEN meta.info ELSE Merge(meta.info, known[1])>>]
           /\ subject' = subject

\* When nothing differs, compare.Equal, which is handed pointers, may say so or
\* may not: then the same is published again.
IndexUser ==
    /\ TakeMeta("user")
    /\ LET meta == Head(metaChan["user"]) IN
         /\ Tell(meta)
         /\ IF cache[meta.key] = <<>>
              THEN SyncMeta(meta.key, meta.info, "userInfo")
              ELSE \/ SyncMeta(meta.key, Merge(meta.info, cache[meta.key][1]), "userInfoMeta")
                   \/ cache[meta.key] = <<meta.info>> /\ InSync

\* Mutant of IndexMedal: an empty medal is not taken out of the channel.
IndexMedal_EmptyStays ==
    /\ metaChan["medal"] # <<>> => Head(metaChan["medal"]).key # NoMedal
    /\ TakeMeta("medal")
    /\ LET meta == Head(metaChan["medal"]) IN
         Tell(meta) /\ SyncMeta(meta.key, meta.info, "fansMedal")

IndexMedal ==
    /\ TakeMeta("medal")
    /\ LET meta == Head(metaChan["medal"]) IN
         IF meta.key = NoMedal
           THEN told' = told /\ InSync
           ELSE /\ Tell(meta)
                /\ IF cache[meta.key] = <<meta.info>>
                     THEN InSync
                     ELSE SyncMeta(meta.key, meta.info, "fansMedal")

\* bigcache drops an entry whose life window has passed.
Evict(key) ==
    /\ Alive
    /\ evictions < MaxEvictions
    /\ cache[key] # <<>>
    /\ cache' = [cache EXCEPT ![key] = <<>>]
    /\ told' = [told EXCEPT ![key] = <<>>]
    /\ evictions' = evictions + 1
    /\ UNCHANGED <<channelVars, handler, handlerVars, metaChan, indexer, published, subject, workerVars>>

-------------------------------------------------------------------------------
(* The WaitGroup: goroutines, the signal, and main.                          *)

Idle == UNCHANGED <<channelVars, handlerVars, metaChan, indexerVars>>

\* worker.Add(1), the first step of each goroutine.
Join == wg' = wg + 1 /\ UNCHANGED <<waiter, main, ctxDone, early>>

\* worker.Done(); the one that brings the counter to zero releases main.
Leave ==
    /\ wg' = wg - 1
    /\ main' = IF wg = 1 /\ main = "waiting" THEN "released" ELSE main

\* Mutant of StartHandler: worker.Add(1) is forgotten.
StartHandler_NotCounted ==
    /\ HandlerTo("off", "select")
    /\ UNCHANGED <<wg, waiter, main, ctxDone, early, indexer, controller>> /\ Idle

StartHandler == HandlerTo("off", "select") /\ Join /\ UNCHANGED <<indexer, controller>> /\ Idle

StopHandler ==
    /\ ctxDone
    /\ HandlerTo("select", "stopped")
    /\ Leave
    /\ UNCHANGED <<indexer, controller, waiter, ctxDone, early>> /\ Idle

\* Mutant of StartIndexer: worker.Add(1) is forgotten.
StartIndexer_NotCounted ==
    /\ Alive /\ indexer = "off"
    /\ indexer' = "select"
    /\ UNCHANGED <<wg, waiter, main, ctxDone, early, handler, controller>> /\ Idle

StartIndexer ==
    /\ Alive /\ indexer = "off"
    /\ indexer' = "select"
    /\ Join
    /\ UNCHANGED <<handler, controller>> /\ Idle

StopIndexer ==
    /\ Alive /\ ctxDone /\ indexer = "select"
    /\ indexer' = "stopped"
    /\ Leave
    /\ UNCHANGED <<handler, controller, waiter, ctxDone, early>> /\ Idle

StartController ==
    /\ Alive /\ controller = "off"
    /\ controller' = "select"
    /\ Join
    /\ UNCHANGED <<handler, indexer>> /\ Idle

\* Mutant of StopController: worker.Done() is forgotten.
StopController_StillCounted ==
    /\ Alive /\ ctxDone /\ controller = "select"
    /\ controller' = "stopped"
    /\ UNCHANGED <<wg, main, handler, indexer, waiter, ctxDone, early>> /\ Idle

StopController ==
    /\ Alive /\ ctxDone /\ controller = "select"
    /\ controller' = "stopped"
    /\ Leave
    /\ UNCHANGED <<handler, indexer, waiter, ctxDone, early>> /\ Idle

\* The signal: waiter leaves the WaitGroup and cancels the context after that.
Signal ==
    /\ Alive /\ waiter = "waiting"
    /\ waiter' = "left"
    /\ Leave
    /\ early' = ("off" \in {handler, indexer, controller})
    /\ UNCHANGED <<handler, indexer, controller, ctxDone>> /\ Idle

CancelContext ==
    /\ Alive /\ waiter = "left"
    /\ waiter' = "returned"
    /\ ctxDone' = TRUE
    /\ UNCHANGED <<handler, indexer, controller, main, wg, early>> /\ Idle

Exit ==
    /\ main = "released"
    /\ main' = "exited"
    /\ UNCHANGED <<handler, indexer, controller, waiter, ctxDone, wg, early>> /\ Idle

Handler == Receive \/ Uncount \/ PushMeta \/ PublishEvent
Indexer == IndexUser \/ IndexMedal

Next ==
    \/ \E e \in Events : CountEvent(e) \/ SendEvent(e)
    \/ Handler
    \/ Indexer
    \/ \E k \in Keys : Evict(k)
    \/ StartHandler \/ StopHandler
    \/ StartIndexer \/ StopIndexer
    \/ StartController \/ StopController
    \/ Signal \/ CancelContext \/ Exit

Spec == Init /\ [][Next]_vars

\* Goroutines run; select takes either ready case, so it may take events for as
\* long as there are any.  Nobody has to deliver an event or to signal.
Fairness ==
    /\ \A e \in Events : WF_vars(SendEvent(e))
    /\ WF_vars(StartHandler) /\ WF_vars(StartIndexer) /\ WF_vars(StartController)
    /\ WF_vars(Handler \/ StopHandler) /\ WF_vars(Indexer \/ StopIndexer)
    /\ WF_vars(StopController) /\ WF_vars(CancelContext) /\ WF_vars(Exit)

FairSpec == Spec /\ Fairness

-------------------------------------------------------------------------------
(* Properties.                                                               *)

TypeOK ==
    /\ on \in [Events -> {"none", "counted", "sent"}]
    /\ eventChan \in Seq(Events) /\ Len(eventChan) <= EventCap
    /\ counter \in [Commands -> Nat]
    /\ handler \in {"off", "select", "count", "push", "stopped"}
    /\ msg \in Seq(Events) /\ Len(msg) <= 1
    /\ pushed \in Nat
    /\ metaChan \in [Channels -> Seq(Metas)]
    /\ indexer \in {"off", "select", "stopped"}
    /\ cache \in [Keys -> Seq(Infos)]
    /\ evictions \in 0 .. MaxEvictions
    /\ controller \in {"off", "select", "stopped"}
    /\ waiter \in {"waiting", "left", "returned"}
    /\ main \in {"waiting", "released", "exited"}
    /\ ctxDone \in BOOLEAN
    /\ wg \in Nat   \* a negative WaitGroup counter panics
    /\ accepted \in Seq(Events) /\ handled \in Seq(Events)
    /\ told \in [Keys -> Seq(Infos)]
    /\ published \in [Keys -> Seq(Infos)]
    /\ subject \in [Keys -> {"none", "userInfo", "userInfoMeta", "fansMedal"}]
    /\ early \in BOOLEAN

\* The count of a command that a status message reports (agent.go, controller)
\* is that of the events on their way: in a call of On, in the channel, or taken
\* out and about to be uncounted.  It never understates the channel.
CountersExact ==
    \A c \in Commands :
        counter[c] = Cardinality({e \in Events :
            /\ CmdOf[e] = c
            /\ \/ on[e] = "counted"
               \/ e \in Range(eventChan)
               \/ handler = "count" /\ msg = <<e>>})

\* The pipeline from On to the end of the handling is an unlimited FifoLaunch:
\* every event is handled once and in the order of the channel, over all rooms
\* and commands: an unlimited FifoLaunch.
FL == INSTANCE FifoLaunch WITH
    Tasks <- Events, Limited <- FALSE,
    launched <- handled, saved <- FALSE, taken <- FALSE

EventsInOrder == FL!Spec

\* Whoever reads the meta messages knows the latest word on everything the agent
\* was told since it last forgot the user or medal: an update repeats what it
\* does not change (agent.go metaIndexer, "diff compare").
LatestTold(key) ==
    LET said == told[key]
        known(f) == {i \in DOMAIN said : said[i][f] # Nil}
    IN  IF key \in Medals
          THEN said[Len(said)]
          ELSE [f \in Fields |-> IF known(f) = {} THEN Nil ELSE said[Max(known(f))][f]]

ReadersKnowLatest ==
    \A k \in Keys : told[k] # <<>> => published[k] = <<LatestTold(k)>>

\* main does not return in the middle of an event, unless the signal came
\* before the goroutines had joined the WaitGroup.
NoEventCutOff == main = "exited" /\ ~early => msg = <<>>

\* Every event in the channel is handled as long as nobody stops the agent.
QueuedEventHandled ==
    \A e \in Events : on[e] = "sent" ~> e \in Range(handled) \/ waiter # "waiting"

\* The handler waits for room in a channel that nobody empties any more.
HandlerStuck ==
    /\ handler = "push" /\ pushed < Len(MetasOf[msg[1]])
    /\ Len(metaChan[MetasOf[msg[1]][pushed + 1].chan]) = MetaCap
    /\ indexer = "stopped"

\* A signal ends the agent, and a full meta channel left by the indexer is the
\* only thing that can keep it: whatever the goroutines were doing, those that
\* can still run leave the WaitGroup and release main.
OnlyFullChannelHoldsStop == waiter # "waiting" ~> main = "exited" \/ HandlerStuck

\* A user meta is a message of one subject (agent.proto, UserInfoMeta: "bind to
\* request stream.userInfo").
UserMetaOnItsSubject == \A u \in Users : subject[u] \in {"none", "userInfo"}

===============================================================================
