--------------------------- MODULE DamakuController ---------------------------
(***************************************************************************)
(* io-bilive-damaku/controller.go: the centre's aggregate window.  NATS    *)
(* delivers what the agents publish into streamChan; the window takes one  *)
(* message after the other, parses it into an object from a pool, drops    *)
(* what it knows already and hands the rest over in eventChan.  Whoever    *)
(* reads eventChan gives the object back with RecycleEvent, and the        *)
(* recycler returns it to its pool.                                        *)
(*                                                                         *)
(* A message of kind "event" stands for damaku, gift, guard and superChat, *)
(* which the window treats alike, one of kind "online" for both rankings.  *)
(* The context of the centre is context.Background(), which is never done. *)
(***************************************************************************)
EXTENDS Integers, Sequences, FiniteSets, Functions

CONSTANTS
    Messages,     \* the messages the agents publish, each once
    Body,         \* per message: its kind, key, info and agent, and whether it is
                  \* fit: it parses and has the room it must have
    Keys,         \* keys of medals, of users, and of events for the filter
    Agents,       \* the agents that publish
    Registered,   \* those the agent manager knows: AgentMask is not nil
    Objects,      \* the objects the pools ever make: a bound of the model
    StreamCap,    \* capacity of streamChan (100 in the code)
    EventCap,     \* capacity of eventChan (200)
    RecycleCap,   \* capacity of recycleChan (200)
    MaxSent,      \* bound of the model: messages delivered
    MaxEvictions  \* bound of the model: entries the caches forget

\* The fields of a user meta, Level for both levels; one not told is Nil.
Optional == {"Face", "Level"}
Fields == {"UserName"} \union Optional
Nil == "nil"

ASSUME ControllerAssumption ==
    /\ StreamCap \in Nat \ {0} /\ EventCap \in Nat \ {0} /\ RecycleCap \in Nat \ {0}
    /\ MaxEvictions \in Nat
    /\ Registered \subseteq Agents
    /\ \A m \in Messages :
        /\ Body[m].kind \in {"fansMedal", "userInfoMeta", "event", "online"}
        /\ Body[m].key \in Keys /\ Body[m].agent \in Agents /\ Body[m].fit \in BOOLEAN
        /\ \A f \in Fields : Body[m].info[f] = Nil => Body[m].kind = "userInfoMeta"
                                                       /\ f \in Optional

VARIABLES
    sent,         \* the messages that have been published and delivered
    streamChan,   \* the messages in the channel
    window,       \* aggregateWindow: in its select, in a send, or panicked
    inHand,       \* the object it sends, or none
    content,      \* per object in use, the message and the info it is filled with
    pooled,       \* per object, how often it is in its pool, or still to be made
    eventChan,    \* the objects in the channel
    reader,       \* the object a reader works on, or none
    recycleChan,  \* the objects in the channel
    metaCache,    \* medalMetaCache and userMetaCache
    dupCache,     \* per key, the agents whose masks were appended
    hits,         \* HitStatus of the agents, over all categories
    evictions,    \* how often a cache has forgotten an entry
    told,         \* history: per key, the last two infos since it was forgotten
    heard,        \* history: per key, what a reader was last handed
    passed        \* history: the messages put into eventChan

streamVars == <<sent, streamChan>>
cacheVars == <<metaCache, dupCache, hits, evictions, told>>
readerVars == <<reader, recycleChan, heard>>
vars == <<streamVars, window, inHand, content, pooled, eventChan, readerVars,
          cacheVars, passed>>

Init ==
    /\ sent = {} /\ streamChan = <<>>
    /\ window = "select" /\ inHand = <<>>
    /\ content = [o \in Objects |-> <<>>]
    /\ pooled = [o \in Objects |-> 1]
    /\ eventChan = <<>>
    /\ reader = <<>> /\ recycleChan = <<>>
    /\ heard = [k \in Keys |-> <<>>]
    /\ metaCache = [k \in Keys |-> <<>>]
    /\ dupCache = [k \in Keys |-> <<>>]
    /\ hits = [a \in Agents |-> 0]
    /\ evictions = 0
    /\ told = [k \in Keys |-> <<>>]
    /\ passed = {}

\* A panic of one goroutine ends the process.
Alive == window # "panicked"

-------------------------------------------------------------------------------
(* The agents and NATS.  A message that finds the channel full is dropped:   *)
(* nothing here changes, as if it had not been published.                    *)

Publish(m) ==
    /\ Alive
    /\ m \notin sent /\ Cardinality(sent) < MaxSent
    /\ Len(streamChan) < StreamCap
    /\ sent' = sent \union {m}
    /\ streamChan' = Append(streamChan, m)
    /\ UNCHANGED <<window, inHand, content, pooled, eventChan, readerVars, cacheVars,
                   passed>>

-------------------------------------------------------------------------------
(* The window: a message is taken, then dropped or kept.                     *)

\* Pool.Get: any object that is in the pool, or a new one.  A sync.Pool promises no
\* more, and it may lose an object at any time: one it has lost, or has still to
\* make, counts as one that is in it.  The eight pools, one for each type, are one
\* here, which only leaves Get more to choose from.
Get(o) == pooled[o] > 0

Take(kind, m) ==
    /\ window = "select"
    /\ streamChan # <<>>
    /\ m = Head(streamChan)
    /\ Body[m].kind = kind
    /\ streamChan' = Tail(streamChan)
    /\ UNCHANGED <<sent, eventChan, readerVars, passed>>

\* The object goes back into its pool; what it was filled with does not matter.
Drop(m, o) ==
    /\ Get(o)
    /\ UNCHANGED <<window, inHand, content, pooled>>

\* Mutant of Keep: the object is put back into its pool although it is sent.
Keep_AndPut(m, o, info) ==
    /\ Get(o)
    /\ content' = [content EXCEPT ![o] = <<m, info>>]
    /\ pooled' = pooled
    /\ inHand' = <<o>>
    /\ window' = "send"

\* The object goes to eventChan next, with the given info.
Keep(m, o, info) ==
    /\ Get(o)
    /\ content' = [content EXCEPT ![o] = <<m, info>>]
    /\ pooled' = [pooled EXCEPT ![o] = @ - 1]
    /\ inHand' = <<o>>
    /\ window' = "send"

\* metaCache.Set(key, msg.Data): what is cached is the message as it came.
Remember(m) ==
    LET k == Body[m].key IN
    /\ metaCache' = [metaCache EXCEPT ![k] = <<Body[m].info>>]
    /\ told' = [told EXCEPT ![k] = IF @ = <<>> THEN <<Body[m].info>> ELSE <<Body[m].info, @[1]>>]
    /\ UNCHANGED <<dupCache, hits, evictions>>

\* The cache holds just what the message says.
Cached(m) == metaCache[Body[m].key] = <<Body[m].info>>

Medal(m, o) ==
    /\ Take("fansMedal", m)
    /\ IF ~Body[m].fit \/ Cached(m)
         THEN Drop(m, o) /\ UNCHANGED cacheVars
         ELSE Keep(m, o, Body[m].info) /\ Remember(m)

\* What the message does not tell, though it could, is taken from the cached one.
Merge(info, cached) ==
    [f \in Fields |-> IF f \in Optional /\ info[f] = Nil THEN cached[f] ELSE info[f]]

\* Mutant of Merged: the cached fields are not taken over.
Merged_Not(m) == Body[m].info

\* What is passed on of a user meta.
Merged(m) ==
    LET cached == metaCache[Body[m].key] IN
    IF cached = <<>> THEN Body[m].info ELSE Merge(Body[m].info, cached[1])

\* When nothing differs, compare.Equal, which is handed pointers, may say so or
\* may not: then the same is passed on again.
UserInfo(m, o) ==
    /\ Take("userInfoMeta", m)
    /\ \/ /\ ~Body[m].fit \/ Cached(m)
          /\ Drop(m, o)
          /\ UNCHANGED cacheVars
       \/ /\ Body[m].fit
          /\ Keep(m, o, Merged(m))
          /\ Remember(m)

\* The process dies in the middle of the handling.
Panic ==
    /\ window' = "panicked"
    /\ UNCHANGED <<inHand, content, pooled, cacheVars>>

\* Mutant of Known: the mask is not looked at.
Known_Any(m) == Body[m].fit

\* The message parses and its agent has a mask.
Known(m) == Body[m].fit /\ Body[m].agent \in Registered

\* A key that is not cached counts as filtered; for one that is, the error it
\* formats is nil.
msgDuplicateFilter(m, o) ==
    LET k == Body[m].key IN
    \/ /\ dupCache[k] = <<>>
       /\ Drop(m, o)
       /\ dupCache' = [dupCache EXCEPT ![k] = <<Body[m].agent>>]
       /\ UNCHANGED <<metaCache, hits, evictions, told>>
    \/ dupCache[k] # <<>> /\ Panic

Filter(m, o) ==
    /\ Take("event", m)
    /\ \/ ~Known(m) /\ Drop(m, o) /\ UNCHANGED cacheVars
       \/ Known(m) /\ msgDuplicateFilter(m, o)

\* MasterAgent reads the ID of the master it has just found to be nil.  (A
\* master is only chosen by a step of the manager that ends in a fatal error.)
Online(m, o) ==
    /\ Take("online", m)
    /\ IF Body[m].fit THEN Panic ELSE Drop(m, o) /\ UNCHANGED cacheVars

Push ==
    /\ window = "send"
    /\ Len(eventChan) < EventCap
    /\ eventChan' = eventChan \o inHand
    /\ inHand' = <<>>
    /\ window' = "select"
    /\ passed' = passed \union {content[inHand[1]][1]}
    /\ UNCHANGED <<streamVars, content, pooled, readerVars, cacheVars>>

Window ==
    \/ \E m \in Messages :
          /\ streamChan # <<>> /\ m = Head(streamChan)
          /\ \E o \in Objects :
                Medal(m, o) \/ UserInfo(m, o) \/ Filter(m, o) \/ Online(m, o)
    \/ Push

-------------------------------------------------------------------------------
(* The caches forget an entry whose life window has passed.                  *)

ForgetMeta(k) ==
    /\ Alive
    /\ evictions < MaxEvictions
    /\ metaCache[k] # <<>>
    /\ metaCache' = [metaCache EXCEPT ![k] = <<>>]
    /\ told' = [told EXCEPT ![k] = <<>>]
    /\ evictions' = evictions + 1
    /\ UNCHANGED <<streamVars, window, inHand, content, pooled, eventChan, readerVars,
                   dupCache, hits, passed>>

\* dupCacheRelease and AddAgentHitMask: one hit for every agent in the entry.
ForgetKey(k) ==
    /\ Alive
    /\ evictions < MaxEvictions
    /\ dupCache[k] # <<>>
    /\ hits' = [a \in Agents |-> IF a \in Range(dupCache[k]) THEN hits[a] + 1 ELSE hits[a]]
    /\ dupCache' = [dupCache EXCEPT ![k] = <<>>]
    /\ evictions' = evictions + 1
    /\ UNCHANGED <<streamVars, window, inHand, content, pooled, eventChan, readerVars,
                   metaCache, told, passed>>

-------------------------------------------------------------------------------
(* The reader of eventChan, which the centre does not have yet, and the      *)
(* recycler.                                                                 *)

Read ==
    /\ Alive
    /\ reader = <<>> /\ eventChan # <<>>
    /\ reader' = <<Head(eventChan)>>
    /\ eventChan' = Tail(eventChan)
    /\ LET event == content[Head(eventChan)] IN
         heard' = [heard EXCEPT ![Body[event[1]].key] = <<event[2]>>]
    /\ UNCHANGED <<streamVars, window, inHand, content, pooled, recycleChan,
                   cacheVars, passed>>

RecycleEvent ==
    /\ Alive
    /\ reader # <<>>
    /\ Len(recycleChan) < RecycleCap
    /\ recycleChan' = recycleChan \o reader
    /\ reader' = <<>>
    /\ UNCHANGED <<streamVars, window, inHand, content, pooled, eventChan, heard,
                   cacheVars, passed>>

\* Mutant of Recycle: a full channel is not emptied any more.
Recycle_NotWhenFull ==
    /\ Alive
    /\ recycleChan # <<>> /\ Len(recycleChan) < RecycleCap
    /\ pooled' = [pooled EXCEPT ![Head(recycleChan)] = @ + 1]
    /\ recycleChan' = Tail(recycleChan)
    /\ UNCHANGED <<streamVars, window, inHand, content, eventChan, reader, heard,
                   cacheVars, passed>>

\* What the object was filled with does not matter any more: Unmarshal resets it.
Recycle ==
    /\ Alive
    /\ recycleChan # <<>>
    /\ pooled' = [pooled EXCEPT ![Head(recycleChan)] = @ + 1]
    /\ content' = [content EXCEPT ![Head(recycleChan)] = <<>>]
    /\ recycleChan' = Tail(recycleChan)
    /\ UNCHANGED <<streamVars, window, inHand, eventChan, reader, heard,
                   cacheVars, passed>>

Next ==
    \/ \E m \in Messages : Publish(m)
    \/ Window
    \/ \E k \in Keys : ForgetMeta(k) \/ ForgetKey(k)
    \/ Read \/ RecycleEvent
    \/ Recycle

Spec == Init /\ [][Next]_vars

\* The goroutines run, and there is a reader that reads and gives back; nobody
\* has to publish.
Fairness ==
    /\ WF_vars(Window) /\ WF_vars(Recycle)
    /\ WF_vars(Read) /\ WF_vars(RecycleEvent)

FairSpec == Spec /\ Fairness

-------------------------------------------------------------------------------
(* Properties.                                                               *)

TypeOK ==
    /\ sent \subseteq Messages
    /\ streamChan \in Seq(Messages) /\ Len(streamChan) <= StreamCap
    /\ window \in {"select", "send", "panicked"}
    /\ inHand \in Seq(Objects) /\ (window = "send" <=> inHand # <<>>)
    /\ DOMAIN content = Objects
    /\ pooled \in [Objects -> Nat]
    /\ eventChan \in Seq(Objects) /\ Len(eventChan) <= EventCap
    /\ reader \in Seq(Objects)
    /\ recycleChan \in Seq(Objects) /\ Len(recycleChan) <= RecycleCap
    /\ DOMAIN metaCache = Keys /\ DOMAIN told = Keys /\ DOMAIN heard = Keys
    /\ dupCache \in [Keys -> Seq(Registered)]
    /\ hits \in [Agents -> Nat]
    /\ evictions \in 0 .. MaxEvictions
    /\ passed \subseteq sent

\* An object is in one place at a time: in its pool, in the window's hand, in a
\* channel or with the reader.  So nobody's object is filled with another
\* message while it is used (controller.go, the pools and RecycleEvent).
Places(o) ==
    pooled[o] + Cardinality({i \in DOMAIN inHand : inHand[i] = o})
              + Cardinality({i \in DOMAIN eventChan : eventChan[i] = o})
              + Cardinality({i \in DOMAIN reader : reader[i] = o})
              + Cardinality({i \in DOMAIN recycleChan : recycleChan[i] = o})

OneOwner == \A o \in Objects : Places(o) <= 1

\* For a reader the controller is a MessageLine: the words of the objects that
\* have been kept wait in the order in which they were parsed, and neither the
\* window, which fills objects from the pools, nor the recycler, which puts them
\* back, ever lets one be filled anew that waits or is read (controller.go:134-245,
\* 357-389).
Chain == eventChan \o inHand
Waiting == Len(Chain)
Words == [i \in 1 .. Waiting |-> content[Chain[i]]]
Reading == IF reader = <<>> THEN <<>> ELSE <<content[reader[1]]>>

ML == INSTANCE MessageLine WITH line <- Words, reading <- Reading

ReadersSeeOneLine == ML!Spec

\* A reader that has caught up knows of every medal what the last message said,
\* and of every user each field that one of the last two messages told: the
\* older of them is in the cache as it came, so what only earlier ones told
\* may be forgotten (controller.go:241; the agent's own index forgets nothing).
LastTold(k, f) ==
    IF told[k][1][f] = Nil /\ Len(told[k]) = 2 THEN told[k][2][f] ELSE told[k][1][f]

CaughtUp == window = "select" /\ eventChan = <<>>

ReadersKnowLastTwo ==
    CaughtUp => \A k \in Keys : told[k] # <<>> =>
        \A f \in Fields : LastTold(k, f) # Nil => heard[k][1][f] = LastTold(k, f)

\* With a reader that gives every object back, the window, the reader and the
\* recycler never wait for each other for ever: unless the process panics, the
\* window catches up again and again (as the messages are bounded: it ends up
\* having handled them all).
Idle == streamChan = <<>> /\ window = "select"

WindowCatchesUp == []<>(Idle \/ ~Alive)

\* The filter hands on the first copy of an event (controller.go:395, "cache
\* miss, add it and push").
FirstCopyPasses ==
    window = "select" =>
        \A k \in Keys : dupCache[k] # <<>> => \E m \in passed : Body[m].key = k

===============================================================================
