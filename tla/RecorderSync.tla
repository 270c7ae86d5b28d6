----------------------------- MODULE RecorderSync -----------------------------
(***************************************************************************)
(* io-bilive-recorder: the data syncer asks every recorder server for its  *)
(* rooms at each tick (dataSync.go), looks their stream hosts up in the    *)
(* region table that the BiliCDN updater fetches (bcdn.go), hands the      *)
(* result over to the metrics exporter (metrics.go) and publishes it.      *)
(* main cancels the context on a signal and waits for all but the          *)
(* exporter.  What is published on JetStream is data; a publish only takes *)
(* its time.                                                               *)
(***************************************************************************)
EXTENDS Integers, Sequences, FiniteSets

CONSTANTS
    Servers,      \* the names of the recorder servers
    Rooms,        \* the rooms
    RoomsOf,      \* per server, the rooms it may have
    Infos,        \* what a room says of itself in its labels
    Slots,        \* the numbers of the goroutines a server may have at a time
    Versions,     \* the versions of the BiliCDN data
    UpdateCap,    \* capacity of UpdateChan (16 in the code)
    TraceLength,  \* requests that share a trace (100)
    MaxRequests   \* bound of the model: requests started

\* The region table before the first fetch.
NoTable == 0

ASSUME RecorderAssumption ==
    /\ UpdateCap \in Nat \ {0} /\ TraceLength \in Nat \ {0} /\ MaxRequests \in Nat
    /\ NoTable \notin Versions
    /\ RoomsOf \in [Servers -> SUBSET Rooms]

VARIABLES
    ctx,          \* "open" or "done"
    main,         \* "running", "waiting", "exited" or "panicked"
    wg,           \* the counter of the WaitGroup
    loop,         \* doSync: "new", "running" or "ended"
    updater,      \* BCdnUpdater: "new", "first" fetch, "retry", "ticking",
                  \* "fetching" or "ended"
    table,        \* the version of the region table
    requests,     \* how many requests were started
    padding,      \* per server, the flag a request raises and lowers
    counter,      \* per server, the requests under its trace
    tracer,       \* per server, whether a trace is open
    doRequest,    \* per server and slot, where the goroutine is and its result
    updateChan,   \* the updates on their way to the exporter
    gauges,       \* per server, the rooms with room metrics
    info,         \* per server, the room info series: a room with its labels
    roomLabels,   \* per server, the labels last set of a room
    shown,        \* history: per server, the rooms of the last update handled
    late          \* history: per server, whether, since it last was without any, a
                  \* request was started before the goroutine of another had run

stopVars == <<ctx, main>>
exporterVars == <<gauges, info, roomLabels, shown>>
statusVars == <<padding, counter, tracer>>
vars == <<stopVars, wg, loop, updater, table, requests, statusVars, doRequest, updateChan,
          exporterVars, late>>

\* No rooms: what a failed request hands over.
NoRooms == [r \in {} |-> NoTable]
Idle == [pc |-> "idle", rooms |-> NoRooms]

Init ==
    /\ ctx = "open" /\ main = "running" /\ wg = 0
    /\ loop = "new" /\ updater = "new" /\ table = NoTable
    /\ requests = 0
    /\ padding = [s \in Servers |-> FALSE]
    /\ counter = [s \in Servers |-> 0]
    /\ tracer = [s \in Servers |-> FALSE]
    /\ doRequest = [s \in Servers |-> [k \in Slots |-> Idle]]
    /\ updateChan = <<>>
    /\ gauges = [s \in Servers |-> {}]
    /\ info = [s \in Servers |-> {}]
    /\ roomLabels = [s \in Servers |-> NoRooms]
    /\ shown = [s \in Servers |-> NoRooms]
    /\ late = [s \in Servers |-> FALSE]

\* A panic of one goroutine ends the process.
Alive == main \notin {"exited", "panicked"}

-------------------------------------------------------------------------------
(* main.                                                                     *)

Signal ==
    /\ main = "running"
    /\ ctx' = "done" /\ main' = "waiting"
    /\ UNCHANGED <<wg, loop, updater, table, requests, statusVars, doRequest, updateChan,
                   exporterVars, late>>

Exit ==
    /\ main = "waiting" /\ wg = 0
    /\ main' = "exited"
    /\ UNCHANGED <<ctx, wg, loop, updater, table, requests, statusVars, doRequest,
                   updateChan, exporterVars, late>>

-------------------------------------------------------------------------------
(* doSync: a tick starts a request of every server that is not padding.      *)

StartSync ==
    /\ Alive /\ loop = "new"
    /\ loop' = "running" /\ wg' = wg + 1
    /\ UNCHANGED <<stopVars, updater, table, requests, statusVars, doRequest, updateChan,
                   exporterVars, late>>

\* Mutant of MayStart: the padding flag is not looked at.
MayStart_Always(s) == TRUE

MayStart(s) == ~padding[s]

\* The turn of one server in a tick.  The goroutine, and not the loop, raises the
\* padding flag, and a ticker keeps a tick for a loop that comes late: the next turn
\* may find the flag down although a request has been started.  A new goroutine has
\* the first number that is free.
Tick(s) ==
    /\ Alive /\ loop = "running"
    /\ MayStart(s) /\ requests < MaxRequests
    /\ \E k \in Slots :
          /\ doRequest[s][k].pc = "idle"
          /\ \A j \in Slots : doRequest[s][j].pc = "idle" => k <= j
          /\ doRequest' = [doRequest EXCEPT ![s][k].pc = "spawned"]
    /\ requests' = requests + 1
    /\ late' = [late EXCEPT ![s] = @ \/ \E k \in Slots : doRequest[s][k].pc = "spawned"]
    /\ UNCHANGED <<stopVars, wg, loop, updater, table, statusVars, updateChan, exporterVars>>

StopSync ==
    /\ Alive /\ loop = "running" /\ ctx = "done"
    /\ loop' = "ended" /\ wg' = wg - 1
    /\ UNCHANGED <<stopVars, updater, table, requests, statusVars, doRequest, updateChan,
                   exporterVars, late>>

-------------------------------------------------------------------------------
(* doRequest, a goroutine.                                                   *)

At(s, k, pc) == Alive /\ doRequest[s][k].pc = pc

\* Mutant of Begin: wg.Add(1) is forgotten.
Begin_NotCounted(s, k) ==
    /\ At(s, k, "spawned")
    /\ doRequest' = [doRequest EXCEPT ![s][k].pc = "asking"]
    /\ padding' = [padding EXCEPT ![s] = TRUE]
    /\ tracer' = [tracer EXCEPT ![s] = TRUE]
    /\ UNCHANGED <<stopVars, wg, loop, updater, table, requests, counter, updateChan,
                   exporterVars, late>>

Begin(s, k) ==
    /\ At(s, k, "spawned")
    /\ doRequest' = [doRequest EXCEPT ![s][k].pc = "asking"]
    /\ wg' = wg + 1
    /\ padding' = [padding EXCEPT ![s] = TRUE]
    /\ tracer' = [tracer EXCEPT ![s] = TRUE]
    /\ UNCHANGED <<stopVars, loop, updater, table, requests, counter, updateChan,
                   exporterVars, late>>

\* The rooms of an answer with their labels; the region is that of the table of
\* now, the same for all of them.
Looked(rooms) == [r \in DOMAIN rooms |-> <<rooms[r], table>>]

\* The server answers, or the request fails, as it does when the context is done.
Answered(s, k) ==
    /\ At(s, k, "asking")
    /\ \E rooms \in UNION {[R -> Infos] : R \in SUBSET RoomsOf[s]} :
          doRequest' = [doRequest EXCEPT ![s][k] = [pc |-> "update", rooms |-> Looked(rooms)]]
    /\ UNCHANGED <<stopVars, wg, loop, updater, table, requests, statusVars, updateChan,
                   exporterVars, late>>

Failed(s, k) ==
    /\ At(s, k, "asking")
    /\ doRequest' = [doRequest EXCEPT ![s][k] = [pc |-> "fail", rooms |-> NoRooms]]
    /\ UNCHANGED <<stopVars, wg, loop, updater, table, requests, statusVars, updateChan,
                   exporterVars, late>>

\* UpdateChan <- &metrics; what comes next after a success is the JetStream.
Update(s, k) ==
    /\ At(s, k, "update") \/ At(s, k, "fail")
    /\ Len(updateChan) < UpdateCap
    /\ updateChan' = Append(updateChan, [node |-> s, rooms |-> doRequest[s][k].rooms])
    /\ doRequest' = [doRequest EXCEPT ![s][k] =
          [pc |-> IF @.pc = "update" THEN "publish" ELSE "finish", rooms |-> NoRooms]]
    /\ UNCHANGED <<stopVars, wg, loop, updater, table, requests, statusVars, exporterVars, late>>

Publish(s, k) ==
    /\ At(s, k, "publish")
    /\ doRequest' = [doRequest EXCEPT ![s][k].pc = "finish"]
    /\ UNCHANGED <<stopVars, wg, loop, updater, table, requests, statusVars, updateChan,
                   exporterVars, late>>

\* The request is the last one under its trace.
LastOne(s) == counter[s] + 1 >= TraceLength

\* The deferred functions.
Finish(s, k) ==
    /\ At(s, k, "finish")
    /\ LastOne(s) => tracer[s]
    /\ counter' = [counter EXCEPT ![s] = IF LastOne(s) THEN 0 ELSE @ + 1]
    /\ tracer' = [tracer EXCEPT ![s] = @ /\ ~LastOne(s)]
    /\ padding' = [padding EXCEPT ![s] = FALSE]
    /\ wg' = wg - 1
    /\ doRequest' = [doRequest EXCEPT ![s][k] = Idle]
    /\ late' = [late EXCEPT ![s] = @ /\ \E j \in Slots \ {k} : doRequest[s][j].pc # "idle"]
    /\ UNCHANGED <<stopVars, loop, updater, table, requests, updateChan, exporterVars>>

\* Where requests of a server overlap the process may die: of a trace that another
\* has set to nil, when the server had been lost before, or (with as many of them as
\* share a trace) when it is to be ended again; and of the maps of room states, which
\* all of them write.
Panic(s, k) ==
    /\ \/ /\ At(s, k, "publish")
          /\ ~tracer[s] \/ \E j \in Slots \ {k} : doRequest[s][j].pc = "publish"
       \/ At(s, k, "finish") /\ LastOne(s) /\ ~tracer[s]
    /\ main' = "panicked"
    /\ UNCHANGED <<ctx, wg, loop, updater, table, requests, statusVars, doRequest, updateChan,
                   exporterVars, late>>

Request(s, k) ==
    \/ Begin(s, k) \/ Answered(s, k) \/ Failed(s, k)
    \/ Update(s, k) \/ Publish(s, k) \/ Finish(s, k)
    \/ Panic(s, k)

-------------------------------------------------------------------------------
(* BCdnUpdater.                                                              *)

UpdaterTo(pc) ==
    /\ updater' = pc
    /\ UNCHANGED <<stopVars, loop, requests, statusVars, doRequest, updateChan, exporterVars, late>>

StartUpdater ==
    /\ Alive /\ updater = "new"
    /\ UpdaterTo("first") /\ wg' = wg + 1 /\ UNCHANGED table

\* updateBCdn: a table of another version replaces the one it has.
Fetched ==
    /\ Alive /\ updater \in {"first", "fetching"}
    /\ table' \in Versions
    /\ UpdaterTo("ticking") /\ UNCHANGED wg

FetchFailed ==
    /\ Alive /\ updater \in {"first", "fetching"}
    /\ UpdaterTo(IF updater = "first" THEN "retry" ELSE "ticking") /\ UNCHANGED <<wg, table>>

Retry ==
    /\ Alive /\ updater = "retry"
    /\ UpdaterTo("first") /\ UNCHANGED <<wg, table>>

UpdaterTick ==
    /\ Alive /\ updater = "ticking"
    /\ UpdaterTo("fetching") /\ UNCHANGED <<wg, table>>

StopUpdater ==
    /\ Alive /\ updater \in {"retry", "ticking"} /\ ctx = "done"
    /\ UpdaterTo("ended") /\ wg' = wg - 1 /\ UNCHANGED table

-------------------------------------------------------------------------------
(* updateMetrics, which runs until the process ends.                         *)

\* Mutant of OldSeries: the series with the old labels stays.
OldSeries_Stay(s, rooms) == {}

\* The series of the server that the update deletes: those whose labels have
\* changed, and when the update has no rooms all that are recorded.
OldSeries(s, rooms) ==
    {<<r, roomLabels[s][r]>> : r \in
        {r \in DOMAIN roomLabels[s] :
            rooms = NoRooms \/ (r \in DOMAIN rooms /\ rooms[r] # roomLabels[s][r])}}

\* The series it sets: of the rooms whose labels are new or have changed.
NewSeries(s, rooms) ==
    {<<r, rooms[r]>> : r \in
        {r \in DOMAIN rooms : r \in DOMAIN roomLabels[s] => rooms[r] # roomLabels[s][r]}}

\* The labels recorded of the rooms, after those of an update.
Recorded(old, rooms) ==
    [r \in DOMAIN old \union DOMAIN rooms |-> IF r \in DOMAIN rooms THEN rooms[r] ELSE old[r]]

\* Mutant of ExporterRuns: it stops with the context.
ExporterRuns_WithContext == Alive /\ ctx = "open"

\* The exporter runs as long as the process does.
ExporterRuns == Alive

UpdateMetrics ==
    /\ ExporterRuns /\ updateChan # <<>>
    /\ LET s == Head(updateChan).node
           rooms == Head(updateChan).rooms IN
         /\ info' = [info EXCEPT ![s] = (@ \ OldSeries(s, rooms)) \union NewSeries(s, rooms)]
         /\ roomLabels' = [roomLabels EXCEPT ![s] = Recorded(@, rooms)]
         /\ gauges' = [gauges EXCEPT ![s] = DOMAIN rooms]
         /\ shown' = [shown EXCEPT ![s] = rooms]
    /\ updateChan' = Tail(updateChan)
    /\ UNCHANGED <<stopVars, wg, loop, updater, table, requests, statusVars, doRequest, late>>

-------------------------------------------------------------------------------

Sync == StartSync \/ StopSync \/ \E s \in Servers : Tick(s)

Updater ==
    \/ StartUpdater \/ Fetched \/ FetchFailed
    \/ Retry \/ UpdaterTick \/ StopUpdater

Next ==
    \/ Signal \/ Exit
    \/ Sync \/ Updater \/ UpdateMetrics
    \/ \E s \in Servers, k \in Slots : Request(s, k)

\* The goroutines run and every request ends, at the latest by its timeout.  A
\* select whose context is done takes that branch some time.
Fairness ==
    /\ WF_vars(Exit) /\ WF_vars(StopSync) /\ SF_vars(StopUpdater)
    /\ WF_vars(Updater) /\ WF_vars(UpdateMetrics)
    /\ \A s \in Servers : WF_vars(\E k \in Slots : Request(s, k))

Spec == Init /\ [][Next]_vars /\ Fairness

-------------------------------------------------------------------------------
(* Properties.                                                               *)

Labels == Infos \X (Versions \union {NoTable})
RoomsWithLabels == UNION {[R -> Labels] : R \in SUBSET Rooms}

TypeOK ==
    /\ ctx \in {"open", "done"} /\ main \in {"running", "waiting", "exited", "panicked"}
    /\ loop \in {"new", "running", "ended"}
    /\ updater \in {"new", "first", "retry", "ticking", "fetching", "ended"}
    /\ table \in Versions \union {NoTable}
    /\ requests \in 0 .. MaxRequests
    /\ padding \in [Servers -> BOOLEAN] /\ tracer \in [Servers -> BOOLEAN]
    /\ late \in [Servers -> BOOLEAN]
    /\ counter \in [Servers -> 0 .. TraceLength - 1]
    /\ \A s \in Servers, k \in Slots :
          /\ doRequest[s][k].pc \in {"idle", "spawned", "asking", "update", "fail",
                                     "publish", "finish"}
          /\ doRequest[s][k].rooms \in RoomsWithLabels
    /\ Len(updateChan) <= UpdateCap
    /\ \A i \in DOMAIN updateChan :
          updateChan[i].node \in Servers /\ updateChan[i].rooms \in RoomsWithLabels
    /\ gauges \in [Servers -> SUBSET Rooms]
    /\ info \in [Servers -> SUBSET (Rooms \X Labels)]
    /\ \A s \in Servers : {roomLabels[s], shown[s]} \subseteq RoomsWithLabels
    /\ wg = Cardinality({p \in Servers \X Slots :
                            doRequest[p[1]][p[2]].pc \notin {"idle", "spawned"}})
             + (IF loop = "running" THEN 1 ELSE 0)
             + (IF updater \in {"new", "ended"} THEN 0 ELSE 1)

\* Only a tick that starts a request before the goroutine of another has run at all
\* makes requests of a server overlap, and only until the last of them is through:
\* otherwise a request that has raised the flag is alone, and has the trace to work
\* with, which another one would end and set to nil under it (dataSync.go:64, :90,
\* :94-96, :116).
TraceOpen ==
    \A s \in Servers, k \in Slots :
        ~late[s] /\ doRequest[s][k].pc \notin {"idle", "spawned"} =>
            /\ tracer[s]
            /\ \A j \in Slots \ {k} : doRequest[s][j].pc = "idle"

\* The exporter shows the room metrics of the rooms in the last update of a
\* server and no others; of no room two info series; and never an info series
\* with labels that a room of that update does not have any more.  It may show
\* none: a room that returns unchanged after its server had expired
\* (metrics.go:138, :182), and it keeps that of a room which is gone while
\* others remain.
SeriesFollowUpdates ==
    \A s \in Servers :
        /\ gauges[s] = DOMAIN shown[s]
        /\ \A x, y \in info[s] : x[1] = y[1] => x = y
        /\ \A x \in info[s] : x[1] \in DOMAIN shown[s] => x[2] = shown[s][x[1]]

\* main returns from its Wait when the loop, the updater and every request that
\* has got past its wg.Add are through, their deferred functions included
\* (main.go:123).  A request that has just been started is not counted yet.
ExitWaitsForCounted ==
    main = "exited" =>
        /\ loop # "running" /\ updater \in {"new", "ended"}
        /\ \A s \in Servers, k \in Slots : doRequest[s][k].pc \in {"idle", "spawned"}

\* After a signal the requests, the loop and the updater come to an end, also
\* when they are waiting for the exporter, and main exits (main.go:120-124), unless
\* requests that overlap have ended the process before.
StopCompletes == ctx = "done" ~> ~Alive

===============================================================================
