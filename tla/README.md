# FocotServices in TLA+

FocotServices is a set of small Go services around NATS: an HTTP proxy whose
edge nodes make requests on behalf of others, a TCP reachability prober, agents
and a centre that collect live-room events, an exporter for live recorders, and
a few HTTP front ends. This directory holds TLA+ models of the parts whose
correctness depends on the order in which goroutines and messages meet, the TLC
configurations that check them, and TLAPS proofs of the results that should
hold for any number of tasks, requests and hosts.

`PROJECT.json` is the index: components, runs, mutants, the map from every
definition to source lines, findings, hazards and theorems.

## 1. Inventory

| Part (source) | State it keeps | Operations | Talks to |
| --- | --- | --- | --- |
| task scheduler (`client-http-proxy/task.go`) | buffered channel `taskQueue`, ticker, WaitGroup | `AddTask`, `Start` with two loops and two last runs, `Stop` | called by the node's request handler, runs its jobs |
| proxy node (`client-http-proxy/client.go`, `main.go`) | NATS connection, subscriptions, context, WaitGroup; per request a status published on its subject | `requestHandle`, `doRequest`, `heartbeat`, start and stop in `main` | requesters over NATS, the scheduler |
| request and packing helpers (`client-http-proxy/api`), `api-http-proxy` | none | build, send, pack, unpack | the node |
| checker (`io-net-check/checker.go`) | `running` flag; per round `sem`, WaitGroup | `Start`, `Trigger`, `runRound`, `probeOnce` | resolver, dialer, metrics |
| probe metrics (`io-net-check/metrics.go`) | totals, the success window and last value per host | `Record...`, `Collect` | the scraper |
| live-room agent (`io-bilive-damaku/agent`) | `eventChan`, counters, two meta channels, two caches, watched rooms | registration, control, `On`, `eventHandler`, `metaIndexer` | chat library, centre |
| centre: agent manager (`io-bilive-damaku/agent.go`) | agents with condition bits, masks, hit counters, watched rooms | `initAgent`, `syncAgent`, `agentStatus`, `control` | agents over NATS |
| centre: controller (`io-bilive-damaku/controller.go`) | stream and event channels, duplicate cache, meta caches, object pools | `aggregateWindow`, `msgDuplicateFilter`, `recycler`, the caches' evictions | agents, agent manager, a reader of its events |
| centre: providers (`io-bilive-damaku/providers.go`), configuration, `main` | none | send the configured rooms to the manager, which does not read them | agent manager |
| wash (`io-bilive-damaku/cmd`, `agent/parse`) | maps of users and medals while a file is read | selection of updates | files |
| recorder syncer, exporter, CDN updater (`io-bilive-recorder`) | per server task status; room versions and labels; region table | `doSync`, `doRequest`, `updateMetrics`, `BCdnUpdater` | recorders, JetStream, proxy node, scraper |
| door service (`api-one-action/zdy-doors`) | token, community | `doRequest` with refresh and retry | a remote API |

Directories without code of their own (`api-bff-layer`,
`api-certificate-manager`, `api-minecraft-data`, `io-ys-vid-downloader`, `docs`)
and generated protobuf code are listed in `PROJECT.json` as not modelled.

What is hard in these parts, and what makes each correct:

* **Scheduler and node.** Five kinds of goroutines share one WaitGroup and one
  context. Correct means: tasks start in order at the pace of the limit, also
  across the switch from the loop to the last run; a task queued before the stop
  is not lost; `worker.Wait` neither returns early nor hangs; a requester who
  follows a task's status is told the truth, in order; and a host that hangs
  holds up its own request only, since requests have no time limit.
* **Checker.** Rounds must not overlap although ticks, cancellations and the
  last probe of a round meet in any order; the number of simultaneous dials is
  bounded; every outcome counts in exactly one scrape window.
* **Agent.** Events and what they say of users travel through three bounded
  channels; counters are touched by several goroutines; a cache that forgets
  decides what readers are told; and a stop must end it all.
* **Centre.** Copies of a message sent by several agents must pass once; an
  object of a pool has one owner on its way through window, reader and
  recycler, and these three must not wait for each other; a meta that lacks a
  field must not make readers forget it. The manager and the agents must agree
  on who is initialised, through timeouts, late answers and restarts.
* **Recorder.** The requests of one server share its trace and should not
  overlap, but a flag raised too late is all that keeps them apart; the
  exporter's series must follow the updates and leave no old label behind; a stop
  must end what waits for the exporter.
* **Doors.** Handlers share a token without a lock and retry after refreshing
  it: the door is opened once, and retries that nothing counts must come to an end
  when the service lets them.

`PROJECT.json` lists the hazards at their lines, with the properties that cover
them or a note.

## 2. Modules

| Module | Models | Composes or extends |
| --- | --- | --- |
| `FifoLaunch` | what a launcher promises: accepted work is started once each, in order, with a rate limit on a tick of its own | |
| `MessageLine` | what a reader of the centre's events sees: words that wait in one line and stay as they were told, however the objects behind them are used again | |
| `TaskScheduler` | `task.go` | implements `FifoLaunch` |
| `HttpProxyNode` | `client.go`, `main.go` | extends `TaskScheduler`, which is shown to run unchanged inside it |
| `NetCheck`, `MCNetCheck` | `checker.go`, `metrics.go` | |
| `DamakuAgent`, `MCDamakuAgent` | `agent/agent.go` (pipeline), `utils.go`, `realTimeClient.go` | implements `FifoLaunch` for events |
| `DamakuController`, `MCDamakuController` | `controller.go` of the centre, and the masks and hits it keeps in the manager | implements `MessageLine` for the objects in its channels |
| `AgentManager` | `agent.go` of the centre and the registration and control of the agents (`agent/agent.go`) | both sides and NATS between them in one module |
| `RecorderSync`, `MCRecorderSync` | `dataSync.go`, `metrics.go`, `bcdn.go` and the stop in `main.go` of the recorder | the syncer, updater and exporter share channel, table and WaitGroup |
| `ZdyDoors` | `zdy.go` and `actions.go` of the door service's front end | handlers and the remote service |
| `TaskScheduler_proofs`, `HttpProxyNode_proofs`, `NetCheck_proofs`, `DamakuAgent_proofs`, `DamakuController_proofs`, `AgentManager_proofs`, `RecorderSync_proofs`, `ZdyDoors_proofs` | theorems | extend the modules they are about |

In every module a goroutine is a program counter, a channel a sequence with a
capacity, a WaitGroup an integer, `select` a choice between the ready cases.
A step of a model is what a goroutine does between two points at which others
can see or change something it uses. Variables marked *history* are not in the
code; they record what happened for the properties.

Operators named `<Definition>_<What>` (`HeartbeatStart_NotCounted`, ...) are mutants: the
definition with a plausible bug. They are not used by the specifications; each
property is known to fail when its mutant takes the definition's place.

### TaskScheduler
`pc` is the place of the goroutine in `scheduler()`; `hand` is the local `task`;
`token` is the one-place channel of `time.Ticker`. A send on `taskQueue` before
`Start` has assigned it is a send on a nil channel and never ends (`"stuck"`).
Jobs started with `go` run beside the scheduler; jobs of the last runs are
awaited. QoS is stored and never read by the code, so it is left out.

### HttpProxyNode
Each subscription has one goroutine (`serving`), each launched request another
(`step`), beside scheduler, heartbeat and `main`. NATS is external: open, lost
by the library, or closed by `main`; a publish or answer succeeds only while it
is open, and an answer may also fail for its size. That a publish never fails
while the connection is open is an assumption about NATS: `client.go` only logs
such an error, and a status that is lost that way is not made up for. What a
message's `Nak`, `Term` and `InProgress` publish to its reply subject
(`client.go:180`, `:195`, `:198`) is left out: it changes no state of the node, and
the properties speak of statuses. What it means for a requester, see the end of
section 3.
The steps of `doRequest` that wait for the host (`HostStep`) are apart from the
others (`OwnStep`), because only a cancelled context makes them end. Requests
delivered to a node that cannot parse them (`Malformed`) or whose response cannot
be packed (`Unpackable`) are constants, so that the properties can name them.

### NetCheck
A probe is named by round, place of its target and address. `RecordSuccess` is
two steps, the total and the window, as in the code; `Collect` takes the lock
and is one step; the ratio it reports is data and left out. Only timeouts count
as failures; a refused or cancelled dial leaves no sample.

### DamakuAgent
The six commands of `eventHandler` differ, for what is checked, only in the
metas they send, so an event carries its sequence of metas. A field of a user
meta is a value or `Nil`. `compare.Equal` is handed pointers by the code; the
model allows both answers when the contents are equal. An entry may be dropped
from a cache at any time (`Evict`), which readers must survive.

### DamakuController
`window` is the place of `aggregateWindow`: in its `select`, in its send on
`eventChan`, or in a panic, which ends the process. One action per case of its
switch takes a message and either drops it or fills an object for it; the send
(`Push`) is a step of its own, since it may wait. The eight pools are one
here, which only leaves `Get` more to choose from. `pooled` counts how often an
object is in it, so that one put back twice would show. `Get` returns any object
that is in the pool. `sync.Pool` may always make a new one, and may lose one it
has: an object that the pool has still to make, or has lost, counts as one that
is in it, since its name stands for its identity only, and no property speaks of
how many there are. The run has one more than can be in use, so that there is
always one to get. The caches are maps from
keys, and `ForgetMeta` and `ForgetKey` are their evictions; the second also
counts a hit for every agent of the entry. What a message carries is its kind,
its key, the fields of a user meta and whether it parses. One that finds the
stream channel full is dropped by NATS, which is as if it had not been published. The user's name is the
field that is not optional: it is never missing and never merged. The
code caches a user meta as it came, but hands on the merged one; both are
modelled as they are. `msgDuplicateFilter` is the code's: a key that is not
cached is filtered, one that is makes it call `Error` of a nil error.
`MasterAgent` reads the ID of the master it has just found to be nil, so a
ranking that parses is a panic, too (`Online`).

`main` calls only `Init` of the controller; neither `Start` of the controller
nor that of the manager is called by any code in the repository, and nothing
reads `eventChan`. The modules model both from the call of `Start` on, and
`Read` and `RecycleEvent` are the reader the comments ask for. The centre's
context is `context.Background()`, which is never done, so the branches that
wait for it are left out.

### AgentManager
An agent is `registering` until an init request reaches it, `subscribed` once it
has subscribed to its actions and before the answer has gone out, then
`running`. A request to an agent that is off, or whose channel is full, is
dropped, and its sender waits until the timeout; a request whose sender has gone
is `orphaned`, in the channel or in the agent's hand, and is still answered, to
nobody. The condition bits are bits: `initialised` says nothing of which life of
an agent it is about, as the code's does not, so that the answer of a life that
is gone counts for the one that has started since. Lives are counted for the
bounds and the history `listened` only. `UpdateTime` younger than three seconds
is `fresh`.

The receiver `agentStatus` returns from its goroutine where it has registered an
agent (and where it does not know one), and the next tick of `syncAgent`
dereferences the status which the new agent has not sent yet, a panic
(`SyncTick`). So the code that handles an agent with a status is not reached:
`agentStatus` lines 268-286, 313-320 and 332-339 and `syncAgent` from line 183
on. They are not modelled, and `NobodyKnownIsHeard` is the invariant that shows
why. The room actions, which only that part of `syncAgent` would send, come from
anyone (`SendAction`), as they do in the agent's tests.

### RecorderSync
A server has two goroutines at most (`Slots`), so that an overlap can be seen; a
new one has the first free number, as their names mean nothing.
`Tick` is the turn of one server in a tick of `doSync`: it starts a goroutine
when `padding` is not set. The flag is set by that goroutine and not by the
loop, and a `time.Ticker` keeps one tick for a loop that comes late; so the next
turn may come before the goroutine has run at all, and requests may overlap.
The flag is read and written without a lock; a read that misses a write that has
been made is such a turn too. `late` remembers that it happened
until the server is without a goroutine again. What requests
that overlap do to each other is in the model: one ends the trace and sets it to
nil under another, and both write the maps of room states; `Panic` is where the
process may die of it. Without an overlap it never does. A failed request hands
an update without rooms to the exporter, as the code does. `updateMetrics` is one
step: one goroutine does it, and nobody else reads what it writes but the
scraper. `info` holds the series that are registered, `roomLabels` what the
exporter remembers of them.

### ZdyDoors
A handler is between the points where it talks to the service or reads or
writes the shared token. `doRequest` calls itself after a refresh; the model
goes back to `begin`, and `resume` is where `refreshToken` returns to.
`token` and `community` are stored one after the other, as in the code. The
service may take as long as it likes, give any token to a login, and answer any
request in any way: it need not be consistent with itself, so tokens that expire
or that a later login ends are among what it may do. One thing is assumed: what
it answers with code 2 it has not carried out, and what it answers with success
it has. `latest` is the token of the last login.

## 3. Runs

| Run | Question | Bounds |
| --- | --- | --- |
| `TaskSchedulerLimited` | order, pace, nothing lost at the stop, it stops | 3 tasks, channel of 2: the channel fills, and tasks wait in hand, channel and caller at once |
| `TaskSchedulerUnlimitedStop` | *violated*: the unlimited scheduler stops | the same |
| `HttpProxyNodeLimited` | exit, order of statuses, what a request that is over was told, settling beside hosts that hang, the stop, the scheduler inside | 2 requests, 1 subject, channel of 1: one request hangs while another waits |
| `HttpProxyNodeUnlimited` | settling of fit requests beside unfit ones, without a limit | 3 requests (one malformed, one unpackable), 2 subjects |
| `MCNetCheck` | rounds do not overlap and end, dial bound, one window per outcome | 2 rounds, 1 target of up to 2 addresses, 1 slot, 1 scrape: a probe waits for the slot, a tick or scrape meets every step of a probe |
| `MCDamakuAgent` | counters, what readers know, what a stop cuts off and what can hold it | 3 events, 6 metas, channels of 2 and 1, 1 eviction |
| `MCDamakuAgentSubject` | *violated*: user metas are on one subject | the same |
| `MCDamakuController` | what a reader sees (`MessageLine`) and knows of the metas; the window catches up | 4 messages delivered of 9, channels of 1, 4 objects, 1 eviction: all three channels fill up, and a field told twice ago meets an eviction between |
| `MCDamakuControllerFilter` | *violated*: the first copy of an event passes | as `MCDamakuController` |
| `AgentManager` | what the Init bit stands for, whom the receiver knows, lost agents, what a registration does to the centre | 2 agents with 2 lives, 2 starts of the centre, 1 room action, channels of 2 and 1: an answer of an earlier life meets a request of this one |
| `MCRecorderSync` | when a request is alone and has a trace, series and updates, what the exit waits for, the stop completes | 3 requests of a server with 2 rooms, 2 at a time (they meet in the channel as those of two servers would), update channel of 1, trace of 2, 1 table version: a request waits for the exporter while another one ends the trace |
| `ZdyDoors` | the door opens once, no request goes out without a token, when retries end | 2 handlers without end, 2 tokens, any number of logins |

Bounds that are not in the code: `MaxRounds`, `MaxScrapes`, `MaxEvictions`,
`MaxSent`, `MaxLives`, `MaxStarts`, `MaxActions`, `MaxRequests`,
and the sets of tasks, requests, events and messages, each of which is used
once. Capacities stand for those of the code (8192, 200, 100, 32, 16): what
matters is that they are reached, and the proofs hold for any.

Deadlock is not checked where the program may stop or be idle; liveness
properties say what must not hang.

### Fairness
Weak fairness of every goroutine that can run (the Go scheduler is preemptive),
of the ticker while it exists, and of what has a time limit: the lookups and
dials of the checker, and the requests of the recorder (`MaxRequestTime`).
The requests of the proxy node (`client.go:157`) and of the door service
(`zdy.go:75`) have none, neither in their options nor in `http.DefaultClient`,
and nothing is assumed of them: a request of the node ends only when the stop
cancels its context (`ctxDone /\ HostStep` is fair, `HostStep` is not), and one to
the door service may never end. So `QueuedRequestSettles` says of a request that
its own host does not leave hanging that it settles, while the hosts of all
others may hang; and `LoneRequestEnds` has what it needs in its premises: that the
service answers, that it does not for ever refuse the token of the last login,
and that the other handlers are through. It does not hold without any one of them.
Never assumed: that somebody sends a request, scrapes,
signals, that the connection stays, that an event comes. `select` with several
ready cases chooses at random; fairness is on the whole `select`, so a property
does not rest on a case being chosen in the end. What bounds the work is that
there are finitely many tasks. The exception is `StopUpdater` of `RecorderSync`:
the updater's ticker goes on after the context is done, and it leaves its
`select` only because the choice among ready cases is random, which is strong
fairness of that case. In `DamakuController` fairness of `Read` and
`RecycleEvent` is that of the reader the centre still has to get:
`WindowCatchesUp` says that three bounded channels in a loop do not block one
another *if* somebody reads and gives back. In `AgentManager` nothing is assumed
of the agents, in `ZdyDoors` nothing of the callers and the service.

### What the violated runs show
1. Without a rate limit `LastRun` ranges over a channel that is never closed;
   the scheduler and `worker.Wait` hang.
2. The first meta of a user goes to `userInfo`, updates to `userInfoMeta`; the
   centre listens to the second only.
3. The duplicate filter tests `err == nil` for `err != nil`: the first copy of
   an event is dropped, and a second one makes the centre panic.

### What the passing runs show besides
Some passing properties state the limits of the code, and are worth reading as
such. `OnlyFullChannelHoldsStop`: the agent can hang at a stop, but only with a
meta channel that is full and left by the indexer. `ReadersKnowLastTwo`: a field
that only older messages told may be forgotten. `LostStaysLost` and
`NobodyStaysRegistered`: an agent that runs does not register again with a
centre that restarts, and the first registration ends the centre.
`InitialisedHasListened`: the Init bit of an agent that has been restarted stands
for the life that is gone. `TraceOpen`: the padding flag is raised by
the request and not by the loop that starts it (`dataSync.go:64`, `:90`), so a tick
that comes first starts a second request of the same server beside it, and both
share the trace; nothing else makes requests overlap, and when those are through
the next ones are apart again. `LoneRequestEnds`: two requests that are not alone may overwrite each
other's tokens for as long as they like, and a service that refuses them all
keeps one going for ever, as nothing counts the retries (`zdy.go:88`).

Not stated as properties, since they are single steps that no interleaving
hides, but part of the models: an `AddTask` before `Start` has made the channel
never returns (`TaskScheduler`); `main` of the node closes NATS before the last
run, whose tasks then fail at their first publish (`QueuedRequestSettles` excuses
them); a status of an agent that is not registered ends the centre's receiver
(`agent.go:330`), although the comment says that it is ignored
(`StatusOfUnknown`); requests that overlap may end the recorder's process
(`Panic` of `RecorderSync`).

Not in the models: the acknowledgements to a request's reply subject. A requester
takes the first message on it. After a failure that is an acknowledgement, which
`SendRequest` cannot decode. And `waitingRequest` is called without `go`, so the
`select` of `doRequest` begins when the result is there; a request that took more
than a second finds a tick as well, and `select` may take that first: then
`InProgress` reaches the requester ahead of the response, which it never reads.

## 4. Proofs

All proofs are checked by TLAPS without unproved steps.

* **`TaskScheduler_proofs`** (any tasks, capacity, mode). `TypeOK` is inductive
  once it says that `hand` holds at most one task. `NoEarlyTaskLost` is not:
  that the scheduler may stop only with nothing left depends on where tasks are.
  `IInv` adds that the scheduler counts in the WaitGroup exactly while it runs
  (`Membership`), that a task whose caller is not done is nowhere in `started`,
  `hand` or `queue` (`Fresh`), that `hand` is full exactly between receive and
  launch (`HandHeld`), that the mode fits the place (`Mode`), that early tasks
  are still there (`EarlyKept`) and that nothing is queued before `Start`
  (`NotStarted`). From `IInv`:
  `TypeCorrect`, `EarlyTasksKept`, and `Refinement`, the implementation of
  `FifoLaunch` step by step: a received tick is taken until the launch, while
  the ticker's channel may already save the next one, so two launches can follow
  one another at once after an idle period, never three.
* **`HttpProxyNode_proofs`** (any requests and subjects). `SchedulerRefined`:
  every step of the node is a step of the scheduler or leaves it alone when the
  other members of the WaitGroup are subtracted from its counter. So the
  scheduler's theorems hold inside the node (`RequestsInOrder` says it of
  `FifoLaunch`), and `ExitSafe` follows with the invariant that the counter is
  the number of live counted goroutines. `NodeInv` adds what the statuses rest
  on. `Announced`: a request is handed to the scheduler only when ON_PROCESS has
  been published, and is launched only when it has been queued. `Told` says at
  each point of `doRequest`, its failure paths included, whether the response has
  gone out and which status was the last. Neither is inductive without the
  scheduler's own `IInv`, which says that a task is launched once. Hence
  `StatusTrue`, `Settled` and, as a step property, `StatusInOrder`; with
  `OwnTypes` also `TypeCorrect`.
* **`NetCheck_proofs`** (any targets, addresses, slots, rounds, scrapes).
  `IInv` ties the counters to the probes they count: a round's taken slots are
  its probes that have not released theirs (`SlotsHeld`), its WaitGroup counts
  its living probes (`GroupCounts`). `OneRound` says that only the newest round
  can be active and then holds the flag, `RoundOfLiving` that probes live only
  in a round that still waits for them, which `Wait` keeps because the counter
  is zero only without living probes. `NotYetStarted` is what makes a dispatch
  start a fresh probe, so that the counts go up by one. From these follow
  `TypeCorrect`, `RoundsApart`, and `DialBound`: each round has slots of its
  own, and that their number bounds the dials of all rounds together holds only
  because rounds do not overlap. `Recorded` is the balance of totals and
  windows, with the outcomes between the two halves of recording counted apart;
  it gives `OneWindow`.

* **`DamakuAgent_proofs`** (any events, metas, capacities and evictions; all
  safety properties of the module). `IInv` has a part for each question.
  `Workers` (the WaitGroup counts its members) and `StopOrder` (signal, context,
  goroutines, main) need each other: main is let go only by the last member, and
  a handler that has joined can leave only after the context. With `Held`, that
  the handler has an event in hand just between receive and publish, they give
  `ExitBetweenEvents`. `Queue` says that the accepted events are those handled,
  in hand and in the channel, in this order and without repetition; from it
  follows `Refinement`, and, since an event that is uncounted is not in the
  channel any more, that `Counts` is inductive (`CountersTrue`). `CacheLatest`
  says that a cache entry is the latest word since the key was last forgotten.
  Its step is `LatestOfNext`: the latest word of a longer sequence is the merge of
  its last info with the latest word before. That the maximum in it exists is
  kept as part of the invariant (`HasLatest`), which saves an induction.
* **`DamakuController_proofs`** (any messages, objects, capacities; all safety
  properties of the module but the violated one). `OnePlace` counts an object
  over the pool, the window, both channels and the reader; the sum is one. Each
  action moves one object from one place to another; the lemmas `CountSend` and
  `CountReceive` say what a channel's count becomes. `Types` adds that the window
  has an object in hand just when it sends. From these, `OwnersApart`. What waits
  for a reader is `Words`, the contents of the objects in the channel and the
  hand. `NotInLine` and `NotWithReader`, both from `OnePlace`, say that an object
  that is filled or put back is none of those that wait or are read, so `Words`
  changes only as the lemmas `KeepWords`, `PushWords`, `ReadWords` and
  `OtherWords` say. On them rest `LineRefined`, the implementation of `MessageLine`
  step by step, and `TypeCorrect`, which needs that what waits was sent
  (`Filled`). `LastTwoKnown` needs two more parts: `CacheInv`, that the cache
  holds the younger of the last two infos, so that what is merged tells both,
  and `LastInv`, that of a key the last word that waits, or what was heard if
  none waits, is what those two infos tell.
* **`AgentManager_proofs`** (any agents, rooms, capacities, lives). `Alone` says
  that the receiver runs only with nobody registered, which `NobodyKnown` needs.
  `Awaited` ties each mark of a request that is waited for to the one that is
  open, so that a late answer finds its mark `orphaned`. `Listening` is about the
  bit, the answer on its way to it and the agent that is about to give one: each
  stands for a subscription of some life of the agent, and `Lives` says that it is
  one that has been and not the present one while that is still registering. Hence
  `InitialisedHasSubscribed`, for whichever life the bit is of. `LostForGood` is a step property, proved action by action: only a message of the agent that
  waits to be received could make it known again, and one that runs sends none.
* **`RecorderSync_proofs`** (any servers, goroutines, rooms, labels, tables).
  `OneRequest` says, of a server for which no tick has come too early, that its
  goroutine is alone, and that past its first statements it has raised the flag
  and has the trace; it gives `TraceStaysOpen`, under the same condition. It is
  true again of a server whose requests are all through. `Remembered`
  ties the series of a room to the labels the exporter remembers of it, and those
  to the last update, so that the old series it removes is the one there is;
  it gives `SeriesFollow`. `StopInv` counts: the WaitGroup is the number of the
  loop, the updater and the requests that have got past their `wg.Add`
  (`Counted`), so that a Wait that returns has seen none of them
  (`NothingLeft`); it gives `ExitSafe` and the types (`TypeCorrect`).
* **`ZdyDoors_proofs`** (any handlers and tokens, any answers). `NothingRepeated`: a
  request has not been carried out while it is under way, nor when it was answered
  with code 2, so the retry of such a one does not repeat it. Hence `DoorOpensOnce`.
  `Ready` says that a handler past its login has a token, that one that has stored
  it and one about to send find one set, and that the community is set after the
  token. Hence `GoesOutReady`.

Assumptions: those named `...Assumption` in the modules, as weak as the code:
capacities and `MaxConcurrency` are positive, sets of requests and addresses are
finite, what stands for nothing is no token and no table. TLC evaluates them in every run.

Every safety property of a passing run, the action properties and refinements
included, is a theorem. Some theorems state what no run repeats: the
implementation of `FifoLaunch` by the agent's events (the order of a Go channel, on
which the proof of the counters rests), the type invariants of `TaskScheduler`
(whose `TypeOK` is part of `NodeTypeOK`), `NetCheck` and `RecorderSync`,
`StatusTellsTheTruth`, of which `OverIsSettled` is the case that matters, and
`OneOwner`, on which `ReadersSeeOneLine` rests. Only model-checked: liveness, as
TLAPS does not reason about fairness and ENABLED (`EarlyTaskLaunched`,
`StopsWhenCancelled`, `QueuedRequestSettles`, `StopEnds`, `RoundEnds`,
`QueuedEventHandled`, `OnlyFullChannelHoldsStop`, `WindowCatchesUp`,
`NobodyStaysRegistered`, `StopCompletes`, `LoneRequestEnds`). The properties of
the three violated runs are what TLC refutes.

## 5. Plan

Done: all components that keep state and have more than one goroutine, and the
proofs above. What is left, in this order:

1. Abstract specifications for the components that have none yet, as `FifoLaunch`
   and `MessageLine` are for the others: rounds one after another for `NetCheck`,
   what a scraper sees of the updates for `RecorderSync`.
2. A composition of `DamakuAgent` with `DamakuController`, so that what a reader
   at the centre knows of a user is checked from the agent's event on. Until
   then the controller is checked against any order of messages, which includes
   what an agent sends.

## 6. Not modelled

* `main` and the configuration of the services, and the wiring of routes: set-up
  that ends before the goroutines start, except where it decides an order (the
  node's `main`, the recorder's, and the agent's are in their modules).
* The room providers: `StaticConfigProvider` sends each room on an unbuffered
  channel that nobody reads, so `main` of the centre hangs in `Init` when a room
  is configured; a single blocking step, listed among the hazards.
* `wash`: reads one file and writes another, in one goroutine, and keeps nothing.
* `api-http-proxy`: one handler that calls `SendRequest`, which `HttpProxyNode`
  has.
* The chat library, NATS, JetStream, the region service and the door service are
  external; the modules take of them what the code relies on.
* Generated protobuf code and directories without code.
