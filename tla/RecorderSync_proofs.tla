-------------------------- MODULE RecorderSync_proofs --------------------------
(***************************************************************************)
(* Theorems about the recorder, for any servers, rooms, labels, tables and *)
(* capacities: requests of a server that have not been started too early   *)
(* do not overlap, and the exporter's series follow the updates.           *)
(***************************************************************************)
EXTENDS RecorderSync, FiniteSetTheorems, SequenceTheorems, TLAPS

PCs == {"idle", "spawned", "asking", "update", "fail", "publish", "finish"}

Types ==
    /\ table \in Versions \union {NoTable}
    /\ padding \in [Servers -> BOOLEAN] /\ tracer \in [Servers -> BOOLEAN]
    /\ late \in [Servers -> BOOLEAN]
    /\ doRequest \in [Servers -> [Slots -> [pc : PCs, rooms : RoomsWithLabels]]]
    /\ updateChan \in Seq([node : Servers, rooms : RoomsWithLabels])
    /\ gauges \in [Servers -> SUBSET Rooms]
    /\ info \in [Servers -> SUBSET (Rooms \X Labels)]
    /\ roomLabels \in [Servers -> RoomsWithLabels]
    /\ shown \in [Servers -> RoomsWithLabels]

\* Unless requests of its server may overlap, a goroutine past its first
\* statements has raised the padding flag and has a trace, and is the only one.
OneRequest ==
    \A s \in Servers, k \in Slots : ~late[s] =>
        /\ doRequest[s][k].pc \notin {"idle", "spawned"} => padding[s] /\ tracer[s]
        /\ \A j \in Slots :
              doRequest[s][k].pc # "idle" /\ doRequest[s][j].pc # "idle" => j = k

\* Each series has the labels the exporter remembers of its room, and those are
\* what the last update said of the rooms in it.
Remembered ==
    \A s \in Servers :
        /\ gauges[s] = DOMAIN shown[s]
        /\ \A x \in info[s] :
              x[1] \in DOMAIN roomLabels[s] /\ x[2] = roomLabels[s][x[1]]
        /\ \A r \in DOMAIN shown[s] :
              r \in DOMAIN roomLabels[s] /\ roomLabels[s][r] = shown[s][r]

IInv == Types /\ OneRequest /\ Remembered

\* No rooms is a case of rooms with labels.
LEMMA NoRoomsTyped == NoRooms \in RoomsWithLabels
BY DEF NoRooms, RoomsWithLabels

\* Looking up the region of each room keeps that type.
LEMMA LookedTyped ==
    ASSUME Types, NEW s \in Servers, NEW rooms \in UNION {[R -> Infos] : R \in SUBSET RoomsOf[s]}
    PROVE  Looked(rooms) \in RoomsWithLabels
<1>1. PICK R \in SUBSET RoomsOf[s] : rooms \in [R -> Infos]
  OBVIOUS
<1>2. R \in SUBSET Rooms /\ DOMAIN rooms = R
  BY <1>1, RecorderAssumption
<1>3. Looked(rooms) \in [R -> Labels]
  BY <1>1, <1>2 DEF Looked, Labels, Types
<1> QED  BY <1>2, <1>3 DEF RoomsWithLabels

\* The labels of the later update hold.
LEMMA LabelsTyped ==
    ASSUME NEW f \in RoomsWithLabels, NEW g \in RoomsWithLabels
    PROVE  /\ Recorded(g, f) \in RoomsWithLabels
           /\ DOMAIN (Recorded(g, f)) = DOMAIN f \union DOMAIN g
           /\ \A r \in DOMAIN f : (Recorded(g, f))[r] = f[r]
           /\ \A r \in DOMAIN g \ DOMAIN f : (Recorded(g, f))[r] = g[r]
<1>1. PICK F \in SUBSET Rooms : f \in [F -> Labels]
  BY DEF RoomsWithLabels
<1>2. PICK G \in SUBSET Rooms : g \in [G -> Labels]
  BY DEF RoomsWithLabels
<1>3. Recorded(g, f) \in [F \union G -> Labels] /\ F \union G \in SUBSET Rooms
  BY <1>1, <1>2 DEF Recorded
<1>4. Recorded(g, f) \in RoomsWithLabels
  BY <1>3 DEF RoomsWithLabels
<1> QED  BY <1>1, <1>2, <1>3, <1>4 DEF Recorded

\* The invariant holds at the start.
LEMMA Initially == Init => IInv
<1> SUFFICES ASSUME Init PROVE IInv
  OBVIOUS
<1>1. Types
  BY NoRoomsTyped DEF Init, Types, Idle, PCs
<1>2. OneRequest
  BY DEF Init, OneRequest, Idle
<1>3. Remembered
  BY DEF Init, Remembered, NoRooms
<1> QED  BY <1>1, <1>2, <1>3 DEF IInv

\* A goroutine that moves on keeps its type.
LEMMA MoveTyped ==
    ASSUME Types, NEW s \in Servers, NEW k \in Slots, NEW pc \in PCs,
           doRequest' = [doRequest EXCEPT ![s][k].pc = pc]
    PROVE  doRequest' \in [Servers -> [Slots -> [pc : PCs, rooms : RoomsWithLabels]]]
<1> DEFINE moved == [doRequest[s][k] EXCEPT !.pc = pc]
<1>1. doRequest[s][k] \in [pc : PCs, rooms : RoomsWithLabels]
  BY DEF Types
<1>2. moved \in [pc : PCs, rooms : RoomsWithLabels]
  BY <1>1
<1>3. doRequest' = [doRequest EXCEPT ![s][k] = moved]
  OBVIOUS
<1>4. doRequest \in [Servers -> [Slots -> [pc : PCs, rooms : RoomsWithLabels]]]
  BY DEF Types
<1> HIDE DEF moved
<1> QED  BY <1>2, <1>3, <1>4

\* Types are kept by the requests.
LEMMA RequestKeepsTypes ==
    ASSUME Types, NEW s \in Servers, NEW k \in Slots, Request(s, k)
    PROVE  Types'
<1> USE DEF Types, PCs, At, statusVars, exporterVars
<1>0. CASE Panic(s, k)
  BY <1>0 DEF Panic
<1>1. CASE Begin(s, k)
  <2>1. doRequest' \in [Servers -> [Slots -> [pc : PCs, rooms : RoomsWithLabels]]]
    BY <1>1, MoveTyped DEF Begin
  <2>2. padding' \in [Servers -> BOOLEAN] /\ tracer' \in [Servers -> BOOLEAN]
    BY <1>1 DEF Begin
  <2> QED  BY <1>1, <2>1, <2>2 DEF Begin
<1>2. CASE Answered(s, k)
  <2>1. PICK rooms \in UNION {[R -> Infos] : R \in SUBSET RoomsOf[s]} :
          doRequest' = [doRequest EXCEPT ![s][k] = [pc |-> "update", rooms |-> Looked(rooms)]]
    BY <1>2 DEF Answered
  <2>2. Looked(rooms) \in RoomsWithLabels
    BY LookedTyped
  <2> QED  BY <1>2, <2>1, <2>2 DEF Answered
<1>3. CASE Failed(s, k)
  BY <1>3, NoRoomsTyped DEF Failed
<1>4. CASE Update(s, k)
  <2>1. doRequest[s][k] \in [pc : PCs, rooms : RoomsWithLabels]
    OBVIOUS
  <2>2. [node |-> s, rooms |-> doRequest[s][k].rooms] \in [node : Servers, rooms : RoomsWithLabels]
    BY <2>1
  <2>3. updateChan' \in Seq([node : Servers, rooms : RoomsWithLabels])
    BY <1>4, <2>2 DEF Update
  <2>4. PICK pc \in PCs :
          doRequest' = [doRequest EXCEPT ![s][k] = [pc |-> pc, rooms |-> NoRooms]]
    BY <1>4 DEF Update
  <2>5. doRequest' \in [Servers -> [Slots -> [pc : PCs, rooms : RoomsWithLabels]]]
    BY <2>4, NoRoomsTyped
  <2> QED  BY <1>4, <2>3, <2>5 DEF Update
<1>5. CASE Publish(s, k)
  <2>1. doRequest' \in [Servers -> [Slots -> [pc : PCs, rooms : RoomsWithLabels]]]
    BY <1>5, MoveTyped DEF Publish
  <2> QED  BY <1>5, <2>1 DEF Publish
<1>6. CASE Finish(s, k)
  BY <1>6, NoRoomsTyped DEF Finish, Idle
<1> QED  BY <1>0, <1>1, <1>2, <1>3, <1>4, <1>5, <1>6 DEF Request

\* A request raises the flag before it is past its start, and lowers it at the end.
LEMMA RequestKeepsOne ==
    ASSUME Types, OneRequest, NEW s \in Servers, NEW k \in Slots, Request(s, k)
    PROVE  OneRequest'
<1> USE DEF Types, PCs, OneRequest, At, statusVars
<1>0. CASE Panic(s, k)
  BY <1>0 DEF Panic
<1>1. CASE Begin(s, k)
  BY <1>1 DEF Begin
<1>2. CASE Answered(s, k)
  BY <1>2 DEF Answered
<1>3. CASE Failed(s, k)
  BY <1>3 DEF Failed
<1>4. CASE Update(s, k)
  BY <1>4 DEF Update
<1>5. CASE Publish(s, k)
  BY <1>5 DEF Publish
<1>6. CASE Finish(s, k)
  BY <1>6 DEF Finish, Idle
<1> QED  BY <1>0, <1>1, <1>2, <1>3, <1>4, <1>5, <1>6 DEF Request

\* The exporter takes the update of one server over.
LEMMA UpdateKeeps ==
    ASSUME Types, Remembered, UpdateMetrics
    PROVE  Types' /\ Remembered'
<1> DEFINE s == Head(updateChan).node
           rooms == Head(updateChan).rooms
<1>1. /\ s \in Servers /\ rooms \in RoomsWithLabels
      /\ updateChan' \in Seq([node : Servers, rooms : RoomsWithLabels])
  <2>1. updateChan # <<>> /\ updateChan' = Tail(updateChan)
    BY DEF UpdateMetrics
  <2>2. /\ Head(updateChan) \in [node : Servers, rooms : RoomsWithLabels]
        /\ Tail(updateChan) \in Seq([node : Servers, rooms : RoomsWithLabels])
    BY <2>1, HeadTailProperties DEF Types
  <2> QED  BY <2>1, <2>2
<1>2. /\ info' = [info EXCEPT ![s] = (@ \ OldSeries(s, rooms)) \union NewSeries(s, rooms)]
      /\ roomLabels' = [roomLabels EXCEPT ![s] = Recorded(@, rooms)]
      /\ gauges' = [gauges EXCEPT ![s] = DOMAIN rooms]
      /\ shown' = [shown EXCEPT ![s] = rooms]
      /\ UNCHANGED <<table, padding, tracer, late, doRequest>>
  BY DEF UpdateMetrics, statusVars
<1> HIDE DEF s, rooms
<1>3. /\ DOMAIN rooms \subseteq Rooms
      /\ \A r \in DOMAIN rooms : rooms[r] \in Labels
  BY <1>1 DEF RoomsWithLabels
<1>4. LET labels == Recorded(roomLabels[s], rooms) IN
      /\ labels \in RoomsWithLabels
      /\ DOMAIN labels = DOMAIN rooms \union DOMAIN roomLabels[s]
      /\ \A r \in DOMAIN rooms : labels[r] = rooms[r]
      /\ \A r \in DOMAIN roomLabels[s] \ DOMAIN rooms : labels[r] = roomLabels[s][r]
  <2>1. roomLabels[s] \in RoomsWithLabels /\ rooms \in RoomsWithLabels
    BY <1>1 DEF Types
  <2> HIDE DEF rooms
  <2> QED  BY <2>1, LabelsTyped
<1>5. NewSeries(s, rooms) \subseteq Rooms \X Labels
  BY <1>3 DEF NewSeries
<1>6. Types'
  BY <1>1, <1>2, <1>3, <1>4, <1>5 DEF Types
<1>7. ASSUME NEW x \in info'[s]
      PROVE  x[1] \in DOMAIN roomLabels'[s] /\ x[2] = roomLabels'[s][x[1]]
  <2>1. CASE x \in NewSeries(s, rooms)
    BY <1>1, <1>2, <1>4, <2>1 DEF NewSeries, Types
  <2>2. CASE x \in info[s] /\ x \notin OldSeries(s, rooms)
    <3>1. /\ x = <<x[1], roomLabels[s][x[1]]>>
          /\ x[1] \in DOMAIN roomLabels[s] /\ x[2] = roomLabels[s][x[1]]
      BY <1>1, <2>2 DEF Types, Remembered
    <3>2. x[1] \in DOMAIN rooms => rooms[x[1]] = roomLabels[s][x[1]]
      BY <2>2, <3>1 DEF OldSeries
    <3> QED  BY <1>1, <1>2, <1>4, <3>1, <3>2 DEF Types
  <2> QED  BY <1>1, <1>2, <1>7, <2>1, <2>2 DEF Types
<1>8. Remembered'
  BY <1>1, <1>2, <1>4, <1>7 DEF Types, Remembered
<1> QED  BY <1>6, <1>8

\* Every step keeps the invariant.
LEMMA Inductive == IInv /\ [Next]_vars => IInv'
<1> SUFFICES ASSUME IInv, [Next]_vars PROVE IInv'
  OBVIOUS
<1> DEFINE Rest == <<updateChan, gauges, info, roomLabels, shown>>
<1>1. ASSUME UNCHANGED <<padding, tracer, late, doRequest, updateChan, exporterVars>>,
             table' \in Versions \union {NoTable}
      PROVE  IInv'
  BY <1>1 DEF IInv, Types, OneRequest, Remembered, exporterVars
<1>2. CASE Signal
  BY <1>1, <1>2 DEF Signal, IInv, Types, statusVars
<1>3. CASE Exit
  BY <1>1, <1>3 DEF Exit, IInv, Types, statusVars
<1>4. CASE StartSync
  BY <1>1, <1>4 DEF StartSync, IInv, Types, statusVars
<1>5. CASE StopSync
  BY <1>1, <1>5 DEF StopSync, IInv, Types, statusVars
<1>6. CASE StartUpdater
  BY <1>1, <1>6 DEF StartUpdater, UpdaterTo, IInv, Types, statusVars
<1>7. CASE Fetched
  BY <1>1, <1>7 DEF Fetched, UpdaterTo, IInv, Types, statusVars
<1>8. CASE FetchFailed
  BY <1>1, <1>8 DEF FetchFailed, UpdaterTo, IInv, Types, statusVars
<1>9. CASE Retry
  BY <1>1, <1>9 DEF Retry, UpdaterTo, IInv, Types, statusVars
<1>10. CASE UpdaterTick
  BY <1>1, <1>10 DEF UpdaterTick, UpdaterTo, IInv, Types, statusVars
<1>11. CASE StopUpdater
  BY <1>1, <1>11 DEF StopUpdater, UpdaterTo, IInv, Types, statusVars
<1>12. ASSUME NEW s \in Servers, Tick(s) PROVE IInv'
  <2>1. PICK k \in Slots : /\ doRequest[s][k].pc = "idle"
                          /\ doRequest' = [doRequest EXCEPT ![s][k].pc = "spawned"]
    BY <1>12 DEF Tick
  <2>2. UNCHANGED <<table, padding, tracer, updateChan, gauges, info, roomLabels, shown>>
    BY <1>12 DEF Tick, statusVars, exporterVars
  <2>3. /\ late' \in [Servers -> BOOLEAN]
        /\ \A t \in Servers \ {s} : late'[t] = late[t]
        /\ late'[s] = (late[s] \/ \E j \in Slots : doRequest[s][j].pc = "spawned")
    BY <1>12 DEF Tick, IInv, Types
  <2>7. ~late'[s] => \A j \in Slots : doRequest[s][j].pc = "idle"
    BY <1>12, <2>3 DEF Tick, MayStart, IInv, Types, PCs, OneRequest
  <2>4. Types'
    <3>1. doRequest' \in [Servers -> [Slots -> [pc : PCs, rooms : RoomsWithLabels]]]
      BY <2>1, MoveTyped DEF IInv, PCs
    <3> QED  BY <2>2, <2>3, <3>1 DEF IInv, Types
  <2>5. OneRequest'
    BY <2>1, <2>2, <2>3, <2>7 DEF IInv, Types, PCs, OneRequest
  <2>6. Remembered'
    BY <2>2 DEF IInv, Remembered
  <2> QED  BY <2>4, <2>5, <2>6 DEF IInv
<1>13. ASSUME NEW s \in Servers, NEW k \in Slots, Request(s, k) PROVE IInv'
  <2>1. UNCHANGED exporterVars
    BY <1>13 DEF Request, Begin, Answered, Failed, Update, Publish, Finish, Panic
  <2>2. Remembered'
    BY <2>1 DEF IInv, Remembered, exporterVars
  <2> QED  BY <1>13, <2>2, RequestKeepsTypes, RequestKeepsOne DEF IInv
<1>14. CASE UpdateMetrics
  <2>1. OneRequest'
    BY <1>14 DEF UpdateMetrics, IInv, OneRequest, statusVars
  <2> QED  BY <1>14, <2>1, UpdateKeeps DEF IInv
<1>15. CASE UNCHANGED vars
  BY <1>1, <1>15 DEF vars, IInv, Types, statusVars
<1> QED
  BY <1>2, <1>3, <1>4, <1>5, <1>6, <1>7, <1>8, <1>9, <1>10, <1>11, <1>12, <1>13, <1>14, <1>15 DEF Next, Sync, Updater

\* So the invariant always holds.
LEMMA Invariance == Spec => []IInv
<1>1. Init => IInv  BY Initially
<1>2. IInv /\ [Next]_vars => IInv'  BY Inductive
<1> QED  BY <1>1, <1>2, PTL DEF Spec

\* Since a server last was without requests no tick has come too early for it: then
\* a request that is under way is its only one and has the trace to work with, which
\* another would end.  The padding flag alone is not enough for that.
THEOREM TraceStaysOpen == Spec => []TraceOpen
<1>1. IInv => TraceOpen
  BY DEF IInv, OneRequest, TraceOpen
<1> QED  BY <1>1, Invariance, PTL

\* The exporter shows the rooms of the last update, at most one info series of
\* a room, and no series with labels its room does not have any more.
THEOREM SeriesFollow == Spec => []SeriesFollowUpdates
<1>1. ASSUME IInv PROVE SeriesFollowUpdates
  <2>1. ASSUME NEW s \in Servers, NEW x \in info[s], NEW y \in info[s], x[1] = y[1]
        PROVE  x = y
    BY <1>1, <2>1 DEF IInv, Types, Remembered
  <2>2. ASSUME NEW s \in Servers, NEW x \in info[s], x[1] \in DOMAIN shown[s]
        PROVE  x[2] = shown[s][x[1]]
    BY <1>1, <2>2 DEF IInv, Remembered
  <2> QED  BY <1>1, <2>1, <2>2 DEF IInv, Remembered, SeriesFollowUpdates
<1> QED  BY <1>1, Invariance, PTL

-------------------------------------------------------------------------------
(* The WaitGroup counts the loop, the updater and the requests past their    *)
(* first statement.  The set of those is finite since each step adds one at  *)
(* most: that the slots are finite need not be assumed.                      *)

Uncounted == {"idle", "spawned"}
Active == {p \in Servers \X Slots : doRequest[p[1]][p[2]].pc \notin Uncounted}

\* The share of the loop and the updater.
Share == (IF loop = "running" THEN 1 ELSE 0) + (IF updater \in {"new", "ended"} THEN 0 ELSE 1)

StopTypes ==
    /\ ctx \in {"open", "done"} /\ main \in {"running", "waiting", "exited", "panicked"}
    /\ loop \in {"new", "running", "ended"}
    /\ updater \in {"new", "first", "retry", "ticking", "fetching", "ended"}
    /\ requests \in 0 .. MaxRequests
    /\ counter \in [Servers -> 0 .. TraceLength - 1]
    /\ Len(updateChan) <= UpdateCap

Counted == IsFiniteSet(Active) /\ wg = Cardinality(Active) + Share

\* Nothing counted is left when main has exited, and nothing joins any more.
NothingLeft == main = "exited" => wg = 0

StopInv == StopTypes /\ Counted /\ NothingLeft

LEMMA ShareType == Share \in Nat /\ (Share = 0 => loop # "running" /\ updater \in {"new", "ended"})
BY DEF Share

\* A step of one goroutine changes its own membership alone.
LEMMA ActiveMoves ==
    ASSUME Types, Types', IsFiniteSet(Active), NEW s \in Servers, NEW k \in Slots,
           \A t \in Servers, j \in Slots :
               t # s \/ j # k => doRequest'[t][j].pc = doRequest[t][j].pc
    PROVE  /\ IsFiniteSet(Active')
           /\ (doRequest[s][k].pc \in Uncounted <=> doRequest'[s][k].pc \in Uncounted)
                 => Cardinality(Active') = Cardinality(Active)
           /\ doRequest[s][k].pc \in Uncounted /\ doRequest'[s][k].pc \notin Uncounted
                 => Cardinality(Active') = Cardinality(Active) + 1
           /\ doRequest[s][k].pc \notin Uncounted /\ doRequest'[s][k].pc \in Uncounted
                 => Cardinality(Active') = Cardinality(Active) - 1
<1> DEFINE me == <<s, k>>
<1>1. me \in Servers \X Slots /\ me[1] = s /\ me[2] = k
  OBVIOUS
<1>2. ASSUME NEW p \in Servers \X Slots, p # me
      PROVE  p \in Active' <=> p \in Active
  <2>1. p[1] \in Servers /\ p[2] \in Slots /\ (p[1] # s \/ p[2] # k)
    BY <1>2
  <2> QED  BY <2>1 DEF Active
<1>3. /\ me \in Active <=> doRequest[s][k].pc \notin Uncounted
      /\ me \in Active' <=> doRequest'[s][k].pc \notin Uncounted
      /\ Active \subseteq Servers \X Slots /\ Active' \subseteq Servers \X Slots
  BY <1>1 DEF Active
<1> HIDE DEF me
<1>4. CASE me \in Active <=> me \in Active'
  <2>1. \A p \in Servers \X Slots : p \in Active' <=> p \in Active
    BY <1>2, <1>4
  <2>2. Active' = Active
    BY <1>3, <2>1
  <2> QED  BY <1>3, <1>4, <2>2
<1>5. CASE me \notin Active /\ me \in Active'
  <2>1. Active' = Active \union {me}
    BY <1>2, <1>3, <1>5
  <2> QED  BY <1>3, <1>5, <2>1, FS_AddElement
<1>6. CASE me \in Active /\ me \notin Active'
  <2>1. Active' = Active \ {me}
    BY <1>2, <1>3, <1>6
  <2> QED  BY <1>3, <1>6, <2>1, FS_RemoveElement
<1> QED  BY <1>4, <1>5, <1>6

LEMMA InitStop == Init => StopInv
<1> SUFFICES ASSUME Init PROVE StopInv
  OBVIOUS
<1>1. Active = {} /\ Share = 0
  BY DEF Init, Active, Uncounted, Share, Idle
<1>2. StopTypes
  BY RecorderAssumption DEF Init, StopTypes
<1> QED  BY <1>1, <1>2, FS_EmptySet DEF Init, StopInv, Counted, NothingLeft

\* A request joins the group at its start and leaves it at its end.
LEMMA RequestStop ==
    ASSUME Types, Types', StopInv, NEW s \in Servers, NEW k \in Slots, Request(s, k)
    PROVE  StopInv'
<1> USE DEF statusVars, exporterVars, stopVars
<1>1. /\ Alive /\ UNCHANGED <<ctx, loop, updater, requests>>
      /\ main' = main \/ main' = "panicked"
  BY DEF Request, Begin, Answered, Failed, Update, Publish, Finish, Panic, At
<1>2. /\ doRequest \in [Servers -> [Slots -> [pc : PCs, rooms : RoomsWithLabels]]]
      /\ IsFiniteSet(Active) /\ Cardinality(Active) \in Nat /\ Share \in Nat
      /\ wg = Cardinality(Active) + Share
  BY ShareType, FS_CardinalityType DEF Types, StopInv, Counted
<1>3. StopTypes'
  <2>1. counter' \in [Servers -> 0 .. TraceLength - 1]
    <3>1. CASE Finish(s, k)
      <4> DEFINE next == IF counter[s] + 1 >= TraceLength THEN 0 ELSE counter[s] + 1
      <4>1. counter \in [Servers -> 0 .. TraceLength - 1] /\ TraceLength \in Nat \ {0}
        BY RecorderAssumption DEF StopInv, StopTypes
      <4>2. next \in 0 .. TraceLength - 1
        BY <4>1
      <4>3. counter' = [counter EXCEPT ![s] = next]
        BY <3>1 DEF Finish, LastOne
      <4> HIDE DEF next
      <4> QED  BY <4>1, <4>2, <4>3
    <3>2. CASE UNCHANGED counter
      BY <3>2 DEF StopInv, StopTypes
    <3> QED
      BY <3>1, <3>2 DEF Request, Begin, Answered, Failed, Update, Publish, Panic
  <2>2. Len(updateChan') <= UpdateCap
    <3>1. CASE Update(s, k)
      <4> DEFINE item == [node |-> s, rooms |-> doRequest[s][k].rooms]
      <4>1. /\ updateChan' = Append(updateChan, item) /\ Len(updateChan) < UpdateCap
        BY <3>1 DEF Update
      <4>2. Len(updateChan') = Len(updateChan) + 1 /\ Len(updateChan) \in Nat /\ UpdateCap \in Nat
        BY <4>1, RecorderAssumption DEF Types
      <4> QED  BY <4>1, <4>2
    <3>2. CASE UNCHANGED updateChan
      BY <3>2 DEF StopInv, StopTypes
    <3> QED
      BY <3>1, <3>2 DEF Request, Begin, Answered, Failed, Publish, Finish, Panic
  <2> QED  BY <1>1, <2>1, <2>2 DEF StopInv, StopTypes
<1>4. \A t \in Servers, j \in Slots :
         t # s \/ j # k => doRequest'[t][j].pc = doRequest[t][j].pc
  BY <1>2 DEF Request, Begin, Answered, Failed, Update, Publish, Finish, Panic
<1>5. Counted'
  <2>1. Share' = Share
    BY <1>1 DEF Share
  <2>2. CASE Begin(s, k)
    <3>1. doRequest[s][k].pc \in Uncounted /\ doRequest'[s][k].pc \notin Uncounted /\ wg' = wg + 1
      BY <1>2, <2>2 DEF Begin, At, Uncounted
    <3> QED  BY <1>2, <1>4, <2>1, <3>1, ActiveMoves DEF Counted
  <2>3. CASE Answered(s, k) \/ Failed(s, k) \/ Update(s, k) \/ Publish(s, k)
    <3>1. doRequest[s][k].pc \notin Uncounted /\ doRequest'[s][k].pc \notin Uncounted /\ wg' = wg
      BY <1>2, <2>3 DEF Answered, Failed, Update, Publish, At, Uncounted
    <3> QED  BY <1>2, <1>4, <2>1, <3>1, ActiveMoves DEF Counted
  <2>4. CASE Finish(s, k)
    <3>1. doRequest[s][k].pc \notin Uncounted /\ doRequest'[s][k].pc \in Uncounted /\ wg' = wg - 1
      BY <1>2, <2>4 DEF Finish, At, Uncounted, Idle
    <3> QED  BY <1>2, <1>4, <2>1, <3>1, ActiveMoves DEF Counted
  <2>5. CASE Panic(s, k)
    <3>1. UNCHANGED <<wg, doRequest>>
      BY <2>5 DEF Panic
    <3>2. UNCHANGED Active
      BY <3>1 DEF Active
    <3> QED  BY <1>2, <2>1, <3>1, <3>2 DEF Counted
  <2> QED  BY <2>2, <2>3, <2>4, <2>5 DEF Request
<1> QED  BY <1>1, <1>3, <1>5 DEF StopInv, NothingLeft, Alive

\* So do the loop and the updater; main leaves when nobody is in it.
LEMMA ControlStop ==
    ASSUME Types, StopInv, Signal \/ Exit \/ StartSync \/ StopSync \/ Updater
    PROVE  StopInv'
<1> USE DEF statusVars, exporterVars, stopVars
<1>1. UNCHANGED <<requests, counter, updateChan, doRequest>>
  BY DEF Signal, Exit, StartSync, StopSync, Updater, StartUpdater, Fetched, FetchFailed,
         Retry, UpdaterTick, StopUpdater, UpdaterTo
<1>2. StopTypes'
  BY <1>1 DEF StopInv, StopTypes, Signal, Exit, StartSync, StopSync, Updater, StartUpdater,
              Fetched, FetchFailed, Retry, UpdaterTick, StopUpdater, UpdaterTo
<1>3. Active' = Active /\ IsFiniteSet(Active) /\ Cardinality(Active) \in Nat
  BY <1>1, FS_CardinalityType DEF Active, StopInv, Counted
<1>4. wg' - Share' = wg - Share
  <2>1. wg \in Nat /\ Share \in Nat
    BY <1>3, ShareType DEF StopInv, Counted
  <2> QED
    BY <2>1 DEF StopInv, StopTypes, Share, Signal, Exit, StartSync, StopSync, Updater,
         StartUpdater, Fetched, FetchFailed, Retry, UpdaterTick, StopUpdater, UpdaterTo
<1>5. wg' = Cardinality(Active) + Share'
  <2>1. wg \in Nat /\ Share \in Nat /\ Share' \in Nat /\ wg' \in Int /\ wg = Cardinality(Active) + Share
    BY <1>3, ShareType DEF StopInv, Counted, Share, Signal, Exit, StartSync, StopSync, Updater,
         StartUpdater, Fetched, FetchFailed, Retry, UpdaterTick, StopUpdater, UpdaterTo
  <2> QED  BY <1>3, <1>4, <2>1
<1>6. NothingLeft'
  BY DEF StopInv, NothingLeft, Alive, Signal, Exit, StartSync, StopSync, Updater,
         StartUpdater, Fetched, FetchFailed, Retry, UpdaterTick, StopUpdater, UpdaterTo
<1> QED  BY <1>2, <1>3, <1>5, <1>6 DEF StopInv, Counted

LEMMA NextStop == IInv /\ IInv' /\ StopInv /\ [Next]_vars => StopInv'
<1> SUFFICES ASSUME IInv, IInv', StopInv, [Next]_vars PROVE StopInv'
  OBVIOUS
<1>0. Types /\ Types'
  BY DEF IInv
<1>1. CASE Signal \/ Exit \/ StartSync \/ StopSync \/ Updater
  BY <1>0, <1>1, ControlStop
<1>2. ASSUME NEW s \in Servers, NEW k \in Slots, Request(s, k) PROVE StopInv'
  BY <1>0, <1>2, RequestStop
<1>3. ASSUME NEW s \in Servers, Tick(s) PROVE StopInv'
  <2>1. PICK k \in Slots : /\ doRequest[s][k].pc = "idle"
                          /\ doRequest' = [doRequest EXCEPT ![s][k].pc = "spawned"]
    BY <1>3 DEF Tick
  <2>2. /\ UNCHANGED <<ctx, main, wg, loop, updater, counter, updateChan>>
        /\ requests' = requests + 1 /\ requests < MaxRequests
    BY <1>3 DEF Tick, stopVars, statusVars
  <2>3. StopTypes'
    BY <2>2, RecorderAssumption DEF StopInv, StopTypes
  <2>4. /\ \A t \in Servers, j \in Slots :
              t # s \/ j # k => doRequest'[t][j].pc = doRequest[t][j].pc
        /\ doRequest[s][k].pc \in Uncounted /\ doRequest'[s][k].pc \in Uncounted
    BY <1>0, <2>1 DEF Types, Uncounted
  <2>5. IsFiniteSet(Active') /\ Cardinality(Active') = Cardinality(Active)
    BY <1>0, <2>4, ActiveMoves DEF StopInv, Counted
  <2> QED  BY <2>2, <2>3, <2>5 DEF StopInv, Counted, Share, NothingLeft
<1>4. CASE UpdateMetrics
  <2>1. /\ updateChan # <<>> /\ updateChan' = Tail(updateChan)
        /\ UNCHANGED <<ctx, main, wg, loop, updater, requests, counter, doRequest>>
    BY <1>4 DEF UpdateMetrics, stopVars, statusVars
  <2>2. Len(updateChan') <= UpdateCap
    <3>1. Len(updateChan') = Len(updateChan) - 1 /\ Len(updateChan) \in Nat /\ UpdateCap \in Nat
      BY <1>0, <2>1, HeadTailProperties, RecorderAssumption DEF Types
    <3> QED  BY <3>1 DEF StopInv, StopTypes
  <2> QED  BY <2>1, <2>2 DEF StopInv, StopTypes, Counted, Active, Share, NothingLeft
<1>5. CASE UNCHANGED vars
  BY <1>5 DEF vars, stopVars, statusVars, StopInv, StopTypes, Counted, Active, Share, NothingLeft
<1> QED  BY <1>1, <1>2, <1>3, <1>4, <1>5 DEF Next, Sync

LEMMA StopInvariance == Spec => []StopInv
<1>1. Init => StopInv  BY InitStop
<1>2. IInv /\ IInv' /\ StopInv /\ [Next]_vars => StopInv'  BY NextStop
<1> QED  BY <1>1, <1>2, Invariance, PTL DEF Spec

\* The recorder's variables keep their types, and the WaitGroup counts just what
\* runs: the loop, the updater and the requests past their first statement.
THEOREM TypeCorrect == Spec => []TypeOK
<1>1. ASSUME IInv, StopInv PROVE TypeOK
  <2>1. wg = Cardinality({p \in Servers \X Slots :
                            doRequest[p[1]][p[2]].pc \notin {"idle", "spawned"}})
             + (IF loop = "running" THEN 1 ELSE 0)
             + (IF updater \in {"new", "ended"} THEN 0 ELSE 1)
    <3>1. Cardinality(Active) \in Nat /\ wg = Cardinality(Active) + Share
      BY <1>1, FS_CardinalityType DEF StopInv, Counted
    <3>2. Share = (IF loop = "running" THEN 1 ELSE 0)
                  + (IF updater \in {"new", "ended"} THEN 0 ELSE 1)
      BY DEF Share
    <3>3. Active = {p \in Servers \X Slots : doRequest[p[1]][p[2]].pc \notin {"idle", "spawned"}}
      BY DEF Active, Uncounted
    <3>4. wg = Cardinality(Active) + (IF loop = "running" THEN 1 ELSE 0)
               + (IF updater \in {"new", "ended"} THEN 0 ELSE 1)
      <4> DEFINE n == Cardinality(Active)
      <4>1. n \in Nat /\ wg = n + Share
        BY <3>1
      <4> HIDE DEF n
      <4>2. wg = n + (IF loop = "running" THEN 1 ELSE 0)
                 + (IF updater \in {"new", "ended"} THEN 0 ELSE 1)
        BY <3>2, <4>1
      <4> QED  BY <4>2 DEF n
    <3> QED  BY <3>3, <3>4
  <2>2. ASSUME NEW s \in Servers, NEW k \in Slots
        PROVE  doRequest[s][k].pc \in PCs /\ doRequest[s][k].rooms \in RoomsWithLabels
    <3>1. doRequest[s][k] \in [pc : PCs, rooms : RoomsWithLabels]
      BY <1>1 DEF IInv, Types
    <3> QED  BY <3>1
  <2>3. ASSUME NEW i \in DOMAIN updateChan
        PROVE  updateChan[i].node \in Servers /\ updateChan[i].rooms \in RoomsWithLabels
    <3>1. updateChan \in Seq([node : Servers, rooms : RoomsWithLabels])
      BY <1>1 DEF IInv, Types
    <3>2. updateChan[i] \in [node : Servers, rooms : RoomsWithLabels]
      BY <3>1, LenProperties, ElementOfSeq
    <3> QED  BY <3>2
  <2>4. \A s \in Servers : {roomLabels[s], shown[s]} \subseteq RoomsWithLabels
    BY <1>1 DEF IInv, Types
  <2> QED  BY <1>1, <2>1, <2>2, <2>3, <2>4 DEF IInv, Types, PCs, StopInv, StopTypes, TypeOK
<1> QED  BY <1>1, Invariance, StopInvariance, PTL

\* main does not exit over a request, the loop or the updater.
THEOREM ExitSafe == Spec => []ExitWaitsForCounted
<1>1. ASSUME IInv, StopInv, main = "exited"
      PROVE  /\ loop # "running" /\ updater \in {"new", "ended"}
             /\ \A s \in Servers, k \in Slots : doRequest[s][k].pc \in {"idle", "spawned"}
  <2>1. Cardinality(Active) \in Nat /\ Share \in Nat /\ 0 = Cardinality(Active) + Share
    BY <1>1, ShareType, FS_CardinalityType DEF StopInv, Counted, NothingLeft
  <2>2. Active = {} /\ Share = 0
    BY <1>1, <2>1, FS_EmptySet DEF StopInv, Counted
  <2>3. ASSUME NEW s \in Servers, NEW k \in Slots
        PROVE  doRequest[s][k].pc \in {"idle", "spawned"}
    <3>1. <<s, k>> \in Servers \X Slots /\ <<s, k>> \notin Active
      BY <2>2
    <3> QED  BY <3>1 DEF Active, Uncounted
  <2> QED  BY <2>2, <2>3, ShareType
<1>2. IInv /\ StopInv => ExitWaitsForCounted
  BY <1>1 DEF ExitWaitsForCounted
<1> QED  BY <1>2, Invariance, StopInvariance, PTL

===============================================================================
