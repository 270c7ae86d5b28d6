------------------------- MODULE HttpProxyNode_proofs -------------------------
(***************************************************************************)
(* Theorems about the proxy node, for any requests, subjects and capacity: *)
(* the scheduler inside it is the one of TaskScheduler, so that what is    *)
(* proved of that one holds of it, and main waits for all the work that    *)
(* the WaitGroup counts.                                                   *)
(***************************************************************************)
EXTENDS HttpProxyNode, FiniteSetTheorems, TLAPS

\* TaskScheduler and what is proved about it, for this node's scheduler.
P == INSTANCE TaskScheduler_proofs WITH wg <- wg - Others

-------------------------------------------------------------------------------
(* The share of the WaitGroup that is not the scheduler's.                   *)

Members == {r \in Tasks : step[r] \in Counted}

\* The types the arithmetic of the WaitGroup rests on.
NodeTypes ==
    /\ wg \in Int
    /\ step \in [Tasks -> Steps]
    /\ serving \in [Subjects -> Seq(Tasks)]
    /\ inbox \in [Subjects -> Seq(Tasks)]

\* Others counts the heartbeat and the jobs of the group.
LEMMA OthersIsNat ==
    /\ IsFiniteSet(Members)
    /\ Others \in Nat
    /\ Others = 0 => heartbeat # "alive" /\ Members = {}
<1>1. IsFiniteSet(Members) /\ Cardinality(Members) \in Nat
  BY NodeAssumption, FS_Subset, FS_CardinalityType DEF Members
<1>2. Cardinality(Members) = 0 => Members = {}
  BY <1>1, FS_EmptySet
<1> QED  BY <1>1, <1>2 DEF Others, Members

\* Nothing joins or leaves the group while no step and no heartbeat changes.
LEMMA SameOthers ==
    ASSUME UNCHANGED <<step, heartbeat>>
    PROVE  Others' = Others /\ Members' = Members
BY DEF Others, Members

\* A step of one request changes its membership alone.
LEMMA MoveOthers ==
    ASSUME NodeTypes, NEW r \in Tasks, NEW from, NEW to, Move(r, from, to),
           to \in Steps, UNCHANGED heartbeat
    PROVE  /\ (from \in Counted <=> to \in Counted) => Others' = Others
           /\ from \notin Counted /\ to \in Counted => Others' = Others + 1
           /\ from \in Counted /\ to \notin Counted => Others' = Others - 1
<1>1. /\ step[r] = from
      /\ step' = [step EXCEPT ![r] = to]
      /\ step \in [Tasks -> Steps]
  BY DEF Move, NodeTypes
<1>2. IsFiniteSet(Members) /\ Cardinality(Members) \in Nat
  BY OthersIsNat, FS_CardinalityType
<1>3. CASE from \in Counted <=> to \in Counted
  <2>1. Members' = Members
    BY <1>1, <1>3 DEF Members
  <2> QED  BY <1>3, <2>1 DEF Others, Members
<1>4. CASE from \notin Counted /\ to \in Counted
  <2>1. Members' = Members \union {r} /\ r \notin Members
    BY <1>1, <1>4 DEF Members
  <2>2. Cardinality(Members') = Cardinality(Members) + 1
    BY <1>2, <2>1, FS_AddElement
  <2> QED  BY <1>2, <1>4, <2>2 DEF Others, Members
<1>5. CASE from \in Counted /\ to \notin Counted
  <2>1. Members' = Members \ {r} /\ r \in Members
    BY <1>1, <1>5 DEF Members
  <2>2. Cardinality(Members') = Cardinality(Members) - 1
    BY <1>2, <2>1, FS_RemoveElement
  <2> QED  BY <1>2, <1>5, <2>2 DEF Others, Members
<1> QED  BY <1>3, <1>4, <1>5

-------------------------------------------------------------------------------
(* The types are kept.                                                       *)

LEMMA InitTypes == Init => NodeTypes
BY DEF Init, SchedInit, NodeTypes, Steps

LEMMA SubjectTypes ==
    ASSUME NodeTypes, NEW s \in Subjects,
           \/ \E r \in Tasks : SendRequest(r, s)
           \/ Handle(s) \/ Drop(s) \/ PublishOnProcess(s)
           \/ CallAddTask(s) \/ HandlerReturns(s)
    PROVE  NodeTypes'
<1>1. CASE \E r \in Tasks : SendRequest(r, s)
  <2>1. PICK r \in Tasks : SendRequest(r, s)
    BY <1>1
  <2>2. Append(inbox[s], r) \in Seq(Tasks)
    BY DEF NodeTypes
  <2> QED  BY <2>1, <2>2 DEF NodeTypes, SendRequest, schedVars
<1>2. CASE Handle(s)
  <2>1. inbox[s] \in Seq(Tasks) /\ inbox[s] # <<>>
    BY <1>2 DEF Handle, NodeTypes
  <2>2. <<Head(inbox[s])>> \in Seq(Tasks) /\ Tail(inbox[s]) \in Seq(Tasks)
    BY <2>1
  <2> QED  BY <1>2, <2>2 DEF NodeTypes, Handle, schedVars
<1>3. CASE Drop(s) \/ PublishOnProcess(s)
  <2>1. <<>> \in Seq(Tasks)
    OBVIOUS
  <2> QED  BY <1>3, <2>1 DEF NodeTypes, Drop, PublishOnProcess, schedVars
<1>4. CASE CallAddTask(s)
  BY <1>4 DEF NodeTypes, CallAddTask, AddTask, nodeVars
<1>5. CASE HandlerReturns(s)
  BY <1>5 DEF NodeTypes, HandlerReturns, Enqueue
<1> QED  BY <1>1, <1>2, <1>3, <1>4, <1>5

LEMMA RequestTypes ==
    ASSUME NodeTypes, NEW r \in Tasks, DoRequest(r)
    PROVE  NodeTypes'
<1>1. UNCHANGED <<serving, inbox>>
  BY DEF DoRequest, OwnStep, HostStep, ReportUnsent,
         PublishScheduled, EnterGroup, BeginRequest, EndRequest,
         ReportFailure, PackResponse, PackError, Respond, RespondError,
         ReportFinished, LeaveGroup, Quiet
<1>2. step' \in [Tasks -> Steps]
  BY DEF DoRequest, OwnStep, HostStep, ReportUnsent,
         PublishScheduled, EnterGroup, BeginRequest, EndRequest,
         ReportFailure, PackResponse, PackError, Respond, RespondError,
         ReportFinished, LeaveGroup, Move, NodeTypes, Steps, Counted
<1>3. wg' \in Int
  BY DEF DoRequest, OwnStep, HostStep, ReportUnsent,
         PublishScheduled, EnterGroup, BeginRequest, EndRequest,
         ReportFailure, PackResponse, PackError, Respond, RespondError,
         ReportFinished, LeaveGroup, JobReturn, NodeTypes, schedVars
<1> QED  BY <1>1, <1>2, <1>3 DEF NodeTypes

LEMMA NextTypes == NodeTypes /\ [Next]_vars => NodeTypes'
<1> SUFFICES ASSUME NodeTypes, [Next]_vars PROVE NodeTypes'
  OBVIOUS
<1>1. CASE \E r \in Tasks : DoRequest(r)
  BY <1>1, RequestTypes
<1>2. CASE \E s \in Subjects :
             \/ \E r \in Tasks : SendRequest(r, s)
             \/ Handle(s) \/ Drop(s) \/ PublishOnProcess(s)
             \/ CallAddTask(s) \/ HandlerReturns(s)
  BY <1>2, SubjectTypes
<1>3. CASE Spawn \/ Online \/ CancelContext \/ CloseNats \/ Exit \/ LoseNats
           \/ HeartbeatStart \/ HeartbeatEnd
  BY <1>3 DEF NodeTypes, Spawn, Online, CancelContext, Cancel, CloseNats, Exit,
              LoseNats, HeartbeatStart, HeartbeatEnd, NoTask, schedVars
<1>4. CASE StartScheduler \/ TickScheduler \/ RunScheduler
  BY <1>4 DEF NodeTypes, nodeVars, StartScheduler, Start, TickScheduler, Tick,
              RunScheduler, SchedulerStep, Loop, Launch,
              SeeDone, LastRunTick, LastRun, Stop, Receive, AwaitTick,
              AwaitReturn, DrainEmpty
<1>5. CASE UNCHANGED vars
  BY <1>5 DEF NodeTypes, vars, schedVars, nodeVars
<1> QED  BY <1>1, <1>2, <1>3, <1>4, <1>5 DEF Next

-------------------------------------------------------------------------------
(* Every step is a step of the scheduler alone, or none.                     *)

LEMMA InitScheduler == Init => P!SchedInit
<1> SUFFICES ASSUME Init PROVE P!SchedInit
  OBVIOUS
<1>1. Members = {} /\ heartbeat = "off"
  BY DEF Init, Members, Counted
<1>2. Others = 0
  BY <1>1, FS_EmptySet DEF Others, Members
<1> QED  BY <1>2 DEF Init, SchedInit, P!SchedInit

\* The requests' own steps, in and out of the group included.
LEMMA RequestScheduler ==
    ASSUME NodeTypes, NEW r \in Tasks, DoRequest(r)
    PROVE  P!JobReturn(r) \/ UNCHANGED P!schedVars
<1>1. UNCHANGED heartbeat /\ Others \in Nat /\ wg \in Int
  BY OthersIsNat
     DEF NodeTypes, DoRequest, OwnStep, HostStep, ReportUnsent,
         PublishScheduled, EnterGroup, BeginRequest,
         EndRequest, ReportFailure, PackResponse, PackError, Respond,
         RespondError, ReportFinished, LeaveGroup, Quiet
<1>2. CASE PublishScheduled(r)
  <2>1. \/ Move(r, "none", "scheduled") /\ UNCHANGED schedVars
        \/ Move(r, "none", "over") /\ JobReturn(r)
    BY <1>2 DEF PublishScheduled
  <2>2. Others' = Others
    BY <1>1, <2>1, MoveOthers DEF Counted, Steps
  <2> QED  BY <2>1, <2>2 DEF schedVars, P!schedVars, JobReturn, P!JobReturn
<1>3. CASE EnterGroup(r)
  <2>1. Others' = Others + 1
    BY <1>1, <1>3, MoveOthers DEF EnterGroup, Counted, Steps
  <2>2. wg' - Others' = wg - Others
    BY <1>1, <1>3, <2>1 DEF EnterGroup
  <2> QED  BY <1>3, <2>2 DEF EnterGroup, P!schedVars
<1>4. CASE LeaveGroup(r)
  <2>1. Others' = Others - 1
    BY <1>1, <1>4, MoveOthers DEF LeaveGroup, Counted, Steps
  <2>2. wg' - Others' = wg - Others
    BY <1>1, <1>4, <2>1 DEF LeaveGroup
  <2> QED  BY <1>4, <2>2 DEF LeaveGroup, Move, P!JobReturn
<1>5. CASE BeginRequest(r) \/ EndRequest(r) \/ ReportFailure(r)
           \/ PackResponse(r) \/ PackError(r) \/ Respond(r)
           \/ RespondError(r) \/ ReportUnsent(r) \/ ReportFinished(r)
  <2>1. /\ UNCHANGED schedVars
        /\ \E from, to \in Counted : Move(r, from, to)
    BY <1>5 DEF BeginRequest, EndRequest, ReportFailure, ReportUnsent, PackResponse,
                PackError, Respond, RespondError, ReportFinished, Counted
  <2>2. Others' = Others
    BY <1>1, <2>1, MoveOthers DEF Steps
  <2> QED  BY <2>1, <2>2 DEF schedVars, P!schedVars
<1> QED  BY <1>2, <1>3, <1>4, <1>5 DEF DoRequest, OwnStep, HostStep

LEMMA SubjectScheduler ==
    ASSUME NodeTypes, NEW s \in Subjects,
           \/ \E r \in Tasks : SendRequest(r, s)
           \/ Handle(s) \/ Drop(s) \/ PublishOnProcess(s)
           \/ CallAddTask(s) \/ HandlerReturns(s)
    PROVE  P!SchedNext \/ UNCHANGED P!schedVars
<1>1. Others' = Others
  BY SameOthers DEF SendRequest, Handle, Drop, PublishOnProcess, CallAddTask,
                    HandlerReturns, nodeVars
<1>2. serving[s] # <<>> => serving[s][1] \in Tasks
  BY DEF NodeTypes
<1>3. CASE CallAddTask(s)
  <2>1. P!AddTask(serving[s][1])
    BY <1>1, <1>3 DEF CallAddTask, AddTask, P!AddTask
  <2> QED  BY <1>2, <1>3, <2>1 DEF CallAddTask, P!SchedNext
<1>4. CASE HandlerReturns(s)
  <2>1. P!Enqueue(serving[s][1])
    BY <1>1, <1>4 DEF HandlerReturns, Enqueue, P!Enqueue
  <2> QED  BY <1>2, <1>4, <2>1 DEF HandlerReturns, P!SchedNext
<1>5. CASE \/ \E r \in Tasks : SendRequest(r, s)
           \/ Handle(s) \/ Drop(s) \/ PublishOnProcess(s)
  BY <1>1, <1>5 DEF SendRequest, Handle, Drop, PublishOnProcess, schedVars, P!schedVars
<1> QED  BY <1>3, <1>4, <1>5

LEMMA MainScheduler ==
    ASSUME NodeTypes,
           \/ Spawn \/ Online \/ CancelContext \/ CloseNats \/ Exit \/ LoseNats
           \/ HeartbeatStart \/ HeartbeatEnd
    PROVE  P!SchedNext \/ UNCHANGED P!schedVars
<1>1. UNCHANGED step /\ Members' = Members
  BY DEF Spawn, Online, CancelContext, CloseNats, Exit, LoseNats,
         HeartbeatStart, HeartbeatEnd, NoTask, Members
<1>2. Cardinality(Members) \in Nat /\ wg \in Int
  BY OthersIsNat, FS_CardinalityType DEF NodeTypes
<1>3. CASE Spawn \/ Online \/ CloseNats \/ Exit \/ LoseNats
  <2>1. UNCHANGED schedVars /\ UNCHANGED heartbeat
    BY <1>3 DEF Spawn, Online, CloseNats, Exit, LoseNats
  <2> QED  BY <1>1, <2>1, SameOthers DEF schedVars, P!schedVars
<1>4. CASE CancelContext
  <2>1. Others' = Others
    BY <1>1, <1>4, SameOthers DEF CancelContext
  <2>2. P!Cancel
    BY <1>4, <2>1 DEF CancelContext, Cancel, P!Cancel
  <2> QED  BY <2>2 DEF P!SchedNext
<1>5. CASE HeartbeatStart
  <2>1. Others' = Others + 1
    BY <1>1, <1>2, <1>5 DEF HeartbeatStart, Others, Members
  <2>2. wg' - Others' = wg - Others
    BY <1>2, <1>5, <2>1, OthersIsNat DEF HeartbeatStart
  <2> QED  BY <1>5, <2>2 DEF HeartbeatStart, P!schedVars
<1>6. CASE HeartbeatEnd
  <2>1. Others' = Others - 1
    BY <1>1, <1>2, <1>6 DEF HeartbeatEnd, Others, Members
  <2>2. wg' - Others' = wg - Others
    BY <1>2, <1>6, <2>1, OthersIsNat DEF HeartbeatEnd
  <2> QED  BY <1>6, <2>2 DEF HeartbeatEnd, P!schedVars
<1> QED  BY <1>3, <1>4, <1>5, <1>6

LEMMA OwnScheduler ==
    ASSUME NodeTypes, StartScheduler \/ TickScheduler \/ RunScheduler
    PROVE  P!SchedNext
<1>1. Others' = Others /\ Others \in Nat /\ wg \in Int
  BY SameOthers, OthersIsNat
     DEF StartScheduler, TickScheduler, RunScheduler, nodeVars, NodeTypes
<1>2. CASE StartScheduler
  <2>1. P!Start
    BY <1>1, <1>2 DEF StartScheduler, Start, P!Start
  <2> QED  BY <2>1 DEF P!SchedNext
<1>3. CASE TickScheduler
  <2>1. P!Tick
    BY <1>1, <1>3 DEF TickScheduler, Tick, P!Tick
  <2> QED  BY <2>1 DEF P!SchedNext
<1>4. CASE RunScheduler
  <2>1. \A from, to : Receive(from, to) => P!Receive(from, to)
    BY <1>1 DEF Receive, P!Receive
  <2>2. \A from, to : AwaitTick(from, to) => P!AwaitTick(from, to)
    BY <1>1 DEF AwaitTick, P!AwaitTick
  <2>3. \A from, to : Launch(from, to) => P!Launch(from, to)
    BY <1>1 DEF Launch, P!Launch
  <2>4. \A from, to : AwaitReturn(from, to) => P!AwaitReturn(from, to)
    BY <1>1 DEF AwaitReturn, P!AwaitReturn
  <2>5. SeeDone => P!SeeDone
    BY <1>1 DEF SeeDone, P!SeeDone
  <2>6. DrainEmpty => P!DrainEmpty
    BY <1>1 DEF DrainEmpty, P!DrainEmpty
  <2>7. Stop => P!Stop
    BY <1>1 DEF Stop, P!Stop
  <2>8. SchedulerStep
    BY <1>4 DEF RunScheduler
  <2>9. P!SchedulerStep
    BY <2>1, <2>2, <2>3, <2>4, <2>5, <2>6, <2>7, <2>8
       DEF SchedulerStep, Loop, LastRunTick, LastRun,
           P!SchedulerStep, P!Loop, P!LastRunTick, P!LastRun
  <2> QED  BY <2>9 DEF P!SchedNext
<1> QED  BY <1>2, <1>3, <1>4

LEMMA NextScheduler == NodeTypes /\ [Next]_vars => [P!SchedNext]_(P!schedVars)
<1> SUFFICES ASSUME NodeTypes, [Next]_vars PROVE [P!SchedNext]_(P!schedVars)
  OBVIOUS
<1>1. CASE \E r \in Tasks : DoRequest(r)
  BY <1>1, RequestScheduler DEF P!SchedNext
<1>2. CASE \E s \in Subjects :
             \/ \E r \in Tasks : SendRequest(r, s)
             \/ Handle(s) \/ Drop(s) \/ PublishOnProcess(s)
             \/ CallAddTask(s) \/ HandlerReturns(s)
  BY <1>2, SubjectScheduler
<1>3. CASE Spawn \/ Online \/ CancelContext \/ CloseNats \/ Exit \/ LoseNats
           \/ HeartbeatStart \/ HeartbeatEnd
  BY <1>3, MainScheduler
<1>4. CASE StartScheduler \/ TickScheduler \/ RunScheduler
  BY <1>4, OwnScheduler
<1>5. CASE UNCHANGED vars
  <2>1. UNCHANGED schedVars /\ Others' = Others
    BY <1>5, SameOthers DEF vars, nodeVars
  <2> QED  BY <2>1 DEF schedVars, P!schedVars
<1> QED  BY <1>1, <1>2, <1>3, <1>4, <1>5 DEF Next

LEMMA Types == Spec => []NodeTypes
  BY InitTypes, NextTypes, PTL DEF Spec

LEMMA Scheduler == Spec => P!SchedSpec
  BY InitScheduler, NextScheduler, Types, PTL DEF Spec, P!SchedSpec

-------------------------------------------------------------------------------
(* Results.                                                                  *)

\* The definitions of the two instances of TaskScheduler are the same.
LEMMA InstancesAgree ==
    /\ P!SchedInit => TS!SchedInit
    /\ [P!SchedNext]_(P!schedVars) => [TS!SchedNext]_(TS!schedVars)
<1>1. P!SchedInit => TS!SchedInit
  BY DEF P!SchedInit, TS!SchedInit
<1>2. P!schedVars = TS!schedVars /\ (P!schedVars)' = (TS!schedVars)'
  BY DEF P!schedVars, TS!schedVars
<1>3. \A t \in Tasks :
        /\ P!AddTask(t) => TS!AddTask(t)
        /\ P!Enqueue(t) => TS!Enqueue(t)
        /\ P!JobReturn(t) => TS!JobReturn(t)
  BY DEF P!AddTask, TS!AddTask, P!Enqueue, TS!Enqueue, P!JobReturn, TS!JobReturn
<1>4. P!Start \/ P!Tick \/ P!Cancel => TS!Start \/ TS!Tick \/ TS!Cancel
  BY DEF P!Start, TS!Start, P!Tick, TS!Tick, P!Cancel, TS!Cancel
<1>5. P!SchedulerStep => TS!SchedulerStep
  <2>1. \A from, to : P!Receive(from, to) => TS!Receive(from, to)
    BY DEF P!Receive, TS!Receive
  <2>2. \A from, to : P!AwaitTick(from, to) => TS!AwaitTick(from, to)
    BY DEF P!AwaitTick, TS!AwaitTick
  <2>3. \A from, to : P!Launch(from, to) => TS!Launch(from, to)
    BY DEF P!Launch, TS!Launch
  <2>4. \A from, to : P!AwaitReturn(from, to) => TS!AwaitReturn(from, to)
    BY DEF P!AwaitReturn, TS!AwaitReturn
  <2>5. P!SeeDone => TS!SeeDone
    BY DEF P!SeeDone, TS!SeeDone
  <2>6. P!DrainEmpty \/ P!Stop => TS!DrainEmpty \/ TS!Stop
    BY DEF P!DrainEmpty, TS!DrainEmpty, P!Stop, TS!Stop
  <2> QED
    BY <2>1, <2>2, <2>3, <2>4, <2>5, <2>6
       DEF P!SchedulerStep, P!Loop, P!LastRunTick, P!LastRun,
           TS!SchedulerStep, TS!Loop, TS!LastRunTick, TS!LastRun
<1>6. P!SchedNext => TS!SchedNext
  BY <1>3, <1>4, <1>5 DEF P!SchedNext, TS!SchedNext
<1> QED  BY <1>1, <1>2, <1>6

\* The node drives its scheduler as TaskScheduler says, whatever the requests,
\* the heartbeat and main add to the shared WaitGroup.
THEOREM SchedulerRefined == Spec => SchedulerInside
  BY Scheduler, InstancesAgree, PTL DEF P!SchedSpec, TS!SchedSpec, SchedulerInside

\* Hence its invariant holds of the scheduler's share of the WaitGroup.
LEMMA SchedulerInvariant == Spec => []P!IInv
<1>1. P!SchedulerAssumption
  BY SchedulerAssumption DEF P!SchedulerAssumption
<1>2. P!SchedSpec => []P!IInv
  BY <1>1, P!Invariance
<1> QED  BY <1>2, Scheduler, PTL

\* Once main has left, nothing in the process moves any more.
LEMMA ExitIsFinal ==
    ASSUME main = "exited", [Next]_vars
    PROVE  UNCHANGED <<pc, early, started, step, heartbeat, main>>
<1>1. ~Alive
  BY DEF Alive
<1>2. CASE \E r \in Tasks : DoRequest(r)
  BY <1>1, <1>2 DEF DoRequest, OwnStep, HostStep, ReportUnsent,
         PublishScheduled, EnterGroup, BeginRequest,
       EndRequest, ReportFailure, PackResponse, PackError, Respond,
       RespondError, ReportFinished, LeaveGroup, Move
<1>3. CASE \E s \in Subjects : \E r \in Tasks : SendRequest(r, s)
  BY <1>3 DEF SendRequest, schedVars
<1>4. CASE \/ \E s \in Subjects :
                 \/ Handle(s) \/ Drop(s) \/ PublishOnProcess(s)
                 \/ CallAddTask(s) \/ HandlerReturns(s)
           \/ StartScheduler \/ TickScheduler \/ RunScheduler
           \/ HeartbeatStart \/ HeartbeatEnd \/ LoseNats
  BY <1>1, <1>4 DEF Handle, Drop, PublishOnProcess, CallAddTask, HandlerReturns,
       StartScheduler, TickScheduler, RunScheduler, HeartbeatStart, HeartbeatEnd,
       LoseNats
<1>5. CASE Spawn \/ Online \/ CancelContext \/ CloseNats \/ Exit
  BY <1>5 DEF Spawn, Online, CancelContext, CloseNats, Exit
<1>6. CASE UNCHANGED vars
  BY <1>6 DEF vars, schedVars, nodeVars
<1> QED  BY <1>2, <1>3, <1>4, <1>5, <1>6 DEF Next

\* A zero counter means an empty group: no share of it can hide another.
LEMMA WaitReturns ==
    ASSUME NodeTypes, P!IInv, wg = 0
    PROVE  /\ \A r \in Tasks : step[r] \notin Counted
           /\ heartbeat # "alive"
           /\ pc \in {"off", "stopped"}
           /\ early \subseteq Range(started)
<1>1. Others \in Nat /\ (Others = 0 => heartbeat # "alive" /\ Members = {})
  BY OthersIsNat
<1>2. wg - Others = IF pc \in {"off", "stopped"} THEN 0 ELSE 1
  BY DEF P!IInv, P!Membership
<1>3. Others = 0 /\ pc \in {"off", "stopped"}
  BY <1>1, <1>2
<1>4. early \subseteq Range(started)
  BY <1>3 DEF P!IInv, P!NotStarted, P!EarlyKept, P!Range, Range
<1> QED  BY <1>1, <1>3, <1>4 DEF Members

\* main does not return from its Wait over work in progress: no request that
\* joined the group, no heartbeat, no scheduler and no early task is cut off.
THEOREM ExitSafe == Spec => []ExitWaitsForWork
<1>1. Init => ExitWaitsForWork
  BY DEF Init, ExitWaitsForWork
<1>2. NodeTypes /\ P!IInv /\ ExitWaitsForWork /\ [Next]_vars => ExitWaitsForWork'
  <2> SUFFICES ASSUME NodeTypes, P!IInv, ExitWaitsForWork, [Next]_vars, main' = "exited"
               PROVE  ExitWaitsForWork'
    BY DEF ExitWaitsForWork
  <2>1. CASE main = "exited"
    BY <2>1, ExitIsFinal DEF ExitWaitsForWork
  <2>2. CASE main # "exited"
    <3>1. Exit
      BY <2>2 DEF Next, vars, nodeVars, DoRequest, OwnStep, HostStep,
           ReportUnsent,
         PublishScheduled, EnterGroup,
           BeginRequest, EndRequest, ReportFailure, PackResponse, PackError,
           Respond, RespondError, ReportFinished, LeaveGroup, Quiet,
           SendRequest, Handle, Drop, PublishOnProcess, CallAddTask,
           HandlerReturns, StartScheduler, TickScheduler, RunScheduler,
           HeartbeatStart, HeartbeatEnd, LoseNats, Spawn, Online,
           CancelContext, CloseNats
    <3>2. wg = 0 /\ UNCHANGED <<pc, early, started, step, heartbeat>>
      BY <3>1 DEF Exit, NoTask, schedVars
    <3> QED  BY <3>2, WaitReturns DEF ExitWaitsForWork
  <2> QED  BY <2>1, <2>2
<1> QED  BY <1>1, <1>2, Types, SchedulerInvariant, PTL DEF Spec

-------------------------------------------------------------------------------
(* What a request is told.                                                   *)

Statuses == {"none", "ON_PROCESS", "SCHEDULED", "FINISHED", "FAILED"}

\* The types of what is not the scheduler's.
OwnTypes ==
    /\ main \in {"subscribed", "spawned", "serving", "cancelled", "closed", "exited", "aborted"}
    /\ nats \in {"open", "lost", "closed"}
    /\ heartbeat \in {"off", "alive", "ended"}
    /\ status \in [Tasks -> Statuses]
    /\ reply \in [Tasks -> BOOLEAN]
    /\ sent \subseteq Tasks

\* A request gets to the scheduler after its first status, and is launched
\* after the scheduler has taken it.
Announced ==
    \A r \in Tasks :
        /\ caller[r] # "idle" => status[r] # "none"
        /\ job[r] # "none" => caller[r] = "added"

\* Final tells the outcome of a request whose doRequest publishes no more.
Final(r) == status[r] = IF reply[r] THEN "FINISHED" ELSE "FAILED"

\* What has been published and sent when doRequest stands at a step.
ToldAt(r) ==
    /\ step[r] = "none" => status[r] \in {"none", "ON_PROCESS"} /\ ~reply[r]
    /\ step[r] \in {"scheduled", "active", "asking", "got", "packed", "failed", "unsent"} =>
           status[r] = "SCHEDULED" /\ ~reply[r]
    /\ step[r] = "answered" => status[r] = "SCHEDULED" /\ reply[r]
    /\ step[r] \in {"returning", "over"} =>
           /\ status[r] # "none"
           /\ status[r] \in {"FINISHED", "FAILED"} => Final(r)
           /\ nats = "open" /\ r \notin Unpackable => Final(r)

Told == \A r \in Tasks : ToldAt(r)

NodeInv == NodeTypes /\ P!IInv /\ OwnTypes /\ Announced /\ Told

LEMMA InitTold == Init => OwnTypes /\ Announced /\ Told
BY DEF Init, SchedInit, OwnTypes, Statuses, Announced, Told, ToldAt

\* A step of one request leaves what is said of the others.
LEMMA OthersUntouched ==
    ASSUME Told, NEW r \in Tasks, ToldAt(r)', UNCHANGED nats,
           \A q \in Tasks \ {r} : /\ step'[q] = step[q]
                                  /\ status'[q] = status[q]
                                  /\ reply'[q] = reply[q]
    PROVE  Told'
BY DEF Told, ToldAt, Final

\* doRequest of a request that runs: each publish follows the one before it.
LEMMA RequestTold ==
    ASSUME NodeInv, NEW r \in Tasks, DoRequest(r)
    PROVE  OwnTypes' /\ Announced' /\ Told'
<1>1. /\ step \in [Tasks -> Steps] /\ status \in [Tasks -> Statuses]
      /\ reply \in [Tasks -> BOOLEAN] /\ job \in [Tasks -> {"none", "running", "done"}]
      /\ Told /\ Announced /\ ToldAt(r)
  BY DEF NodeInv, NodeTypes, OwnTypes, Told, P!IInv, P!TypeOK
<1>2. /\ job[r] = "running" /\ UNCHANGED <<main, nats, heartbeat, sent, caller>>
      /\ \A q \in Tasks : job'[q] # "none" => job[q] # "none"
  BY <1>1 DEF DoRequest, OwnStep, HostStep, ReportUnsent,
         PublishScheduled, EnterGroup, BeginRequest, EndRequest,
         ReportFailure, PackResponse, PackError, Respond, RespondError,
         ReportFinished, LeaveGroup, Move, Quiet, JobReturn, schedVars
<1>3. status[r] # "none"
  BY <1>1, <1>2 DEF Announced
<1>4. PICK from, to : Move(r, from, to)
  BY DEF DoRequest, OwnStep, HostStep, ReportUnsent,
         PublishScheduled, EnterGroup, BeginRequest, EndRequest,
         ReportFailure, PackResponse, PackError, Respond, RespondError,
         ReportFinished, LeaveGroup
<1>5. \E new \in Statuses \ {"none"} : status' \in {status, [status EXCEPT ![r] = new]}
  BY DEF DoRequest, OwnStep, HostStep, ReportUnsent,
         PublishScheduled, EnterGroup, BeginRequest, EndRequest,
         ReportFailure, PackResponse, PackError, Respond, RespondError,
         ReportFinished, LeaveGroup, Publish, Statuses
<1>6. reply' \in {reply, [reply EXCEPT ![r] = TRUE]}
  BY DEF DoRequest, OwnStep, HostStep, ReportUnsent,
         PublishScheduled, EnterGroup, BeginRequest, EndRequest,
         ReportFailure, PackResponse, PackError, Respond, RespondError,
         ReportFinished, LeaveGroup
<1>8. /\ OwnTypes'
      /\ Announced'
      /\ \A q \in Tasks \ {r} : /\ step'[q] = step[q]
                                /\ status'[q] = status[q]
                                /\ reply'[q] = reply[q]
  <2>1. \A q \in Tasks \ {r} : step'[q] = step[q]
    BY <1>1, <1>4 DEF Move
  <2>2. status' \in [Tasks -> Statuses] /\ reply' \in [Tasks -> BOOLEAN]
    BY <1>1, <1>5, <1>6
  <2>3. \A q \in Tasks \ {r} : status'[q] = status[q] /\ reply'[q] = reply[q]
    BY <1>1, <1>5, <1>6
  <2>4. \A q \in Tasks : status[q] # "none" => status'[q] # "none"
    BY <1>1, <1>5
  <2> QED  BY <1>1, <1>2, <2>1, <2>2, <2>3, <2>4 DEF NodeInv, OwnTypes, Announced
<1>9. ToldAt(r)'
  <2>1. CASE PublishScheduled(r)
    BY <1>1, <1>3, <2>1 DEF PublishScheduled, Publish, Move, ToldAt, Final, Quiet
  <2>2. CASE EnterGroup(r) \/ BeginRequest(r) \/ EndRequest(r)
    BY <1>1, <2>2 DEF EnterGroup, BeginRequest, EndRequest, Move, ToldAt, Final, Quiet
  <2>3. CASE ReportFailure(r) \/ ReportUnsent(r)
    BY <1>1, <2>3 DEF ReportFailure, ReportUnsent, Publish, Move, ToldAt, Final, Quiet
  <2>4. CASE PackResponse(r) \/ PackError(r)
    BY <1>1, <2>4 DEF PackResponse, PackError, Move, ToldAt, Final, Quiet
  <2>5. CASE Respond(r) \/ RespondError(r)
    BY <1>1, <2>5 DEF Respond, RespondError, Move, ToldAt, Final, Quiet
  <2>6. CASE ReportFinished(r)
    BY <1>1, <2>6 DEF ReportFinished, Publish, Move, ToldAt, Final, Quiet
  <2>7. CASE LeaveGroup(r)
    BY <1>1, <2>7 DEF LeaveGroup, Move, ToldAt, Final, Quiet
  <2> QED  BY <2>1, <2>2, <2>3, <2>4, <2>5, <2>6, <2>7 DEF DoRequest, OwnStep, HostStep
<1> QED  BY <1>1, <1>2, <1>8, <1>9, OthersUntouched

\* A handler publishes the first status, then hands the request over.
LEMMA SubjectTold ==
    ASSUME NodeInv, NEW s \in Subjects,
           \/ \E r \in Tasks : SendRequest(r, s)
           \/ Handle(s) \/ Drop(s) \/ PublishOnProcess(s)
           \/ CallAddTask(s) \/ HandlerReturns(s)
    PROVE  OwnTypes' /\ Announced' /\ Told'
<1>1. /\ step \in [Tasks -> Steps] /\ status \in [Tasks -> Statuses]
      /\ reply \in [Tasks -> BOOLEAN]
      /\ caller \in [Tasks -> {"idle", "stuck", "sending", "added"}]
      /\ serving[s] # <<>> => serving[s][1] \in Tasks
      /\ OwnTypes /\ Told /\ Announced
  BY DEF NodeInv, NodeTypes, OwnTypes, P!IInv, P!TypeOK
<1>2. CASE (\E r \in Tasks : SendRequest(r, s)) \/ Handle(s) \/ Drop(s)
  <2>1. UNCHANGED <<main, nats, heartbeat, step, status, reply, caller, job>>
    BY <1>2 DEF SendRequest, Handle, Drop, schedVars
  <2>2. sent' \subseteq Tasks
    BY <1>1, <1>2 DEF SendRequest, Handle, Drop, OwnTypes
  <2> QED  BY <1>1, <2>1, <2>2 DEF OwnTypes, Announced, Told, ToldAt, Final
<1>3. CASE PublishOnProcess(s)
  <2>1. PICK r \in Tasks :
           /\ status[r] = "none" /\ nats = "open"
           /\ status' = [status EXCEPT ![r] = "ON_PROCESS"]
           /\ UNCHANGED <<main, nats, heartbeat, step, reply, sent, caller, job>>
    BY <1>1, <1>3 DEF PublishOnProcess, Publish, schedVars
  <2>2. step[r] = "none" /\ ~reply[r]
    BY <1>1, <2>1 DEF Told, ToldAt, Steps, Counted
  <2>3. ToldAt(r)'
    BY <1>1, <2>1, <2>2 DEF ToldAt
  <2>4. Told'
    BY <1>1, <2>1, <2>3, OthersUntouched
  <2>5. OwnTypes' /\ Announced'
    BY <1>1, <2>1 DEF OwnTypes, Statuses, Announced
  <2> QED  BY <2>4, <2>5
<1>4. CASE CallAddTask(s) \/ HandlerReturns(s)
  <2>1. PICK r \in Tasks :
           /\ status[r] # "none" /\ \E new : caller' = [caller EXCEPT ![r] = new]
           /\ job[r] # "none" => caller[r] = caller'[r]
    BY <1>1, <1>4 DEF CallAddTask, AddTask, HandlerReturns, Enqueue, Announced
  <2>2. UNCHANGED <<main, nats, heartbeat, step, status, reply, sent, job>>
    BY <1>4 DEF CallAddTask, AddTask, HandlerReturns, Enqueue, nodeVars
  <2> QED  BY <1>1, <2>1, <2>2 DEF OwnTypes, Announced, Told, ToldAt, Final
<1> QED  BY <1>2, <1>3, <1>4

\* main, the heartbeat and the library change no request, and a connection that
\* is given up does not come back.
LEMMA MainTold ==
    ASSUME NodeInv,
           \/ Spawn \/ Online \/ CancelContext \/ CloseNats \/ Exit \/ LoseNats
           \/ HeartbeatStart \/ HeartbeatEnd
    PROVE  OwnTypes' /\ Announced' /\ Told'
<1>1. UNCHANGED <<step, status, reply, sent, caller, job>> /\ (nats' = "open" => nats = "open")
  BY DEF Spawn, Online, CancelContext, Cancel, CloseNats, Exit, LoseNats,
         HeartbeatStart, HeartbeatEnd, NoTask, schedVars
<1>2. OwnTypes'
  BY <1>1 DEF NodeInv, OwnTypes, Spawn, Online, CancelContext, CloseNats, Exit, LoseNats,
              HeartbeatStart, HeartbeatEnd
<1> QED  BY <1>1, <1>2 DEF NodeInv, Announced, Told, ToldAt, Final

\* The scheduler launches what was handed over to it.
LEMMA OwnTold ==
    ASSUME NodeInv, StartScheduler \/ TickScheduler \/ RunScheduler
    PROVE  OwnTypes' /\ Announced' /\ Told'
<1>1. UNCHANGED <<main, nats, heartbeat, step, status, reply, sent, caller>>
  BY DEF nodeVars, StartScheduler, Start, TickScheduler, Tick, RunScheduler, SchedulerStep,
         Loop, LastRunTick, LastRun, Launch, SeeDone, Stop, Receive, AwaitTick,
         AwaitReturn, DrainEmpty
<1>2. OwnTypes' /\ Told'
  BY <1>1 DEF NodeInv, OwnTypes, Told, ToldAt, Final
<1>3. UNCHANGED job \/ \E from \in Holding : \E to : Launch(from, to)
  BY DEF StartScheduler, Start, TickScheduler, Tick, RunScheduler, SchedulerStep,
         Loop, LastRunTick, LastRun, SeeDone, Stop, Receive, AwaitTick,
         AwaitReturn, DrainEmpty, Holding
<1>4. CASE UNCHANGED job
  BY <1>1, <1>2, <1>4 DEF NodeInv, Announced
<1>5. CASE \E from \in Holding : \E to : Launch(from, to)
  <2>1. hand # <<>> /\ hand \in Seq(Tasks) /\ P!Fresh
    BY <1>5 DEF NodeInv, P!IInv, P!TypeOK, P!HandHeld, P!Holding, Holding, Launch
  <2>2. hand[1] \in Tasks /\ hand[1] \in P!Present
    BY <2>1 DEF P!Present, P!Range
  <2>3. caller[hand[1]] = "added" /\ job' = [job EXCEPT ![hand[1]] = "running"]
    BY <1>5, <2>1, <2>2 DEF P!Fresh, Launch
  <2> QED  BY <1>1, <1>2, <2>2, <2>3 DEF NodeInv, P!IInv, P!TypeOK, Announced
<1> QED  BY <1>2, <1>3, <1>4, <1>5

LEMMA NextTold == NodeInv /\ [Next]_vars => OwnTypes' /\ Announced' /\ Told'
<1> SUFFICES ASSUME NodeInv, [Next]_vars PROVE OwnTypes' /\ Announced' /\ Told'
  OBVIOUS
<1>1. CASE \E r \in Tasks : DoRequest(r)
  BY <1>1, RequestTold
<1>2. CASE \E s \in Subjects :
             \/ \E r \in Tasks : SendRequest(r, s)
             \/ Handle(s) \/ Drop(s) \/ PublishOnProcess(s)
             \/ CallAddTask(s) \/ HandlerReturns(s)
  BY <1>2, SubjectTold
<1>3. CASE Spawn \/ Online \/ CancelContext \/ CloseNats \/ Exit \/ LoseNats
           \/ HeartbeatStart \/ HeartbeatEnd
  BY <1>3, MainTold
<1>4. CASE StartScheduler \/ TickScheduler \/ RunScheduler
  BY <1>4, OwnTold
<1>5. CASE UNCHANGED vars
  <2>1. UNCHANGED <<main, nats, heartbeat, step, status, reply, sent, caller, job>>
    BY <1>5 DEF vars, schedVars, nodeVars
  <2> QED  BY <2>1 DEF NodeInv, OwnTypes, Announced, Told, ToldAt, Final
<1> QED  BY <1>1, <1>2, <1>3, <1>4, <1>5 DEF Next

LEMMA NodeInvariant == Spec => []NodeInv
<1>1. NodeTypes /\ P!IInv /\ OwnTypes /\ Announced /\ Told <=> NodeInv
  BY DEF NodeInv
<1> QED  BY <1>1, InitTold, NextTold, Types, SchedulerInvariant, PTL DEF Spec

\* The node's variables keep their types, and the WaitGroup it shares with its
\* scheduler, its heartbeat and its requests never goes below zero.
THEOREM TypeCorrect == Spec => []NodeTypeOK
<1>1. ASSUME NodeInv PROVE NodeTypeOK
  <2>1. /\ Others \in Nat /\ wg \in Int
        /\ wg - Others = IF pc \in {"off", "stopped"} THEN 0 ELSE 1
    BY <1>1, OthersIsNat DEF NodeInv, NodeTypes, P!IInv, P!Membership
  <2>2. wg \in Nat
    BY <2>1
  <2>3. TypeOK
    BY <1>1, <2>2 DEF NodeInv, P!IInv, P!TypeOK, P!PCs, TypeOK, PCs
  <2> QED  BY <1>1, <2>3 DEF NodeInv, NodeTypes, OwnTypes, Statuses, NodeTypeOK
<1> QED  BY <1>1, NodeInvariant, PTL

\* Whatever fails on the way, FINISHED is said of a request whose response went
\* out, and FAILED of one whose response did not.
THEOREM StatusTrue == Spec => []StatusTellsTheTruth
<1>1. ASSUME NodeInv PROVE StatusTellsTheTruth
  <2>1. ASSUME NEW r \in Tasks
        PROVE  /\ status[r] = "FINISHED" => reply[r]
               /\ status[r] = "FAILED" => ~reply[r]
    <3>1. step[r] \in Steps /\ ToldAt(r)
      BY <1>1 DEF NodeInv, NodeTypes, Told
    <3> QED  BY <3>1 DEF ToldAt, Final, Steps, Counted
  <2> QED  BY <2>1 DEF StatusTellsTheTruth
<1> QED  BY <1>1, NodeInvariant, PTL

\* A request that is over has been told its outcome while the connection stands.
THEOREM Settled == Spec => []OverIsSettled
<1>1. ASSUME NodeInv PROVE OverIsSettled
  BY <1>1 DEF NodeInv, Told, ToldAt, Final, OverIsSettled
<1> QED  BY <1>1, NodeInvariant, PTL

\* Whoever follows a request sees its statuses in their order, none twice,
\* however many goroutines publish them.
THEOREM StatusInOrder == Spec => StatusMovesForward
<1> DEFINE Forward ==
      \A r \in Tasks :
         status'[r] # status[r] =>
            <<status[r], status'[r]>> \in
                {<<"none", "ON_PROCESS">>, <<"ON_PROCESS", "SCHEDULED">>,
                 <<"SCHEDULED", "FINISHED">>, <<"SCHEDULED", "FAILED">>}
<1>1. ASSUME NodeInv, [Next]_vars PROVE Forward
  <2> USE DEF Publish
  <2>1. /\ status \in [Tasks -> Statuses] /\ step \in [Tasks -> Steps]
        /\ Told /\ Announced
    BY <1>1 DEF NodeInv, NodeTypes, OwnTypes
  <2>2. ASSUME NEW r \in Tasks, PublishScheduled(r) PROVE Forward
    <3>1. job[r] = "running" /\ step[r] = "none"
      BY <2>2 DEF PublishScheduled, Move
    <3>2. status[r] = "ON_PROCESS"
      BY <2>1, <3>1 DEF Told, ToldAt, Announced
    <3> QED  BY <2>1, <2>2, <3>2 DEF PublishScheduled
  <2>3. ASSUME NEW r \in Tasks, ReportFailure(r) \/ ReportUnsent(r) \/ ReportFinished(r)
        PROVE  Forward
    <3>1. step[r] \in {"failed", "unsent", "answered"}
      BY <2>3 DEF ReportFailure, ReportUnsent, ReportFinished, Move
    <3>2. status[r] = "SCHEDULED"
      BY <2>1, <3>1 DEF Told, ToldAt
    <3> QED  BY <2>1, <2>3, <3>2 DEF ReportFailure, ReportUnsent, ReportFinished
  <2>4. ASSUME NEW s \in Subjects, PublishOnProcess(s) PROVE Forward
    BY <2>1, <2>4 DEF PublishOnProcess
  <2>5. CASE UNCHANGED status
    BY <2>5
  <2>6. \/ \E r \in Tasks : \/ PublishScheduled(r) \/ ReportFailure(r)
                           \/ ReportUnsent(r) \/ ReportFinished(r)
        \/ \E s \in Subjects : PublishOnProcess(s)
        \/ UNCHANGED status
    <3>1. ASSUME NEW r \in Tasks, DoRequest(r)
          PROVE  \/ PublishScheduled(r) \/ ReportFailure(r) \/ ReportUnsent(r)
                 \/ ReportFinished(r) \/ UNCHANGED status
      BY <3>1 DEF DoRequest, OwnStep, HostStep, EnterGroup, BeginRequest,
           EndRequest, PackResponse,
           PackError, Respond, RespondError, LeaveGroup
    <3>2. ASSUME NEW s \in Subjects,
                 \/ \E r \in Tasks : SendRequest(r, s)
                 \/ Handle(s) \/ Drop(s) \/ CallAddTask(s) \/ HandlerReturns(s)
          PROVE  UNCHANGED status
      BY <3>2 DEF SendRequest, Handle, Drop, CallAddTask, HandlerReturns, nodeVars
    <3>3. CASE Spawn \/ Online \/ CancelContext \/ CloseNats \/ Exit \/ LoseNats
               \/ HeartbeatStart \/ HeartbeatEnd
      BY <3>3 DEF Spawn, Online, CancelContext, CloseNats, Exit, LoseNats,
           HeartbeatStart, HeartbeatEnd, NoTask
    <3>4. CASE StartScheduler \/ TickScheduler \/ RunScheduler \/ UNCHANGED vars
      BY <3>4 DEF StartScheduler, TickScheduler, RunScheduler, nodeVars, vars
    <3> QED  BY <1>1, <3>1, <3>2, <3>3, <3>4 DEF Next
  <2> QED  BY <2>2, <2>3, <2>4, <2>5, <2>6
<1>2. NodeInv /\ [Next]_vars => [Forward]_vars
  BY <1>1
<1> QED  BY <1>2, NodeInvariant, PTL DEF Spec, StatusMovesForward

\* What is proved of the scheduler holds of the node's: requests are launched
\* in the order in which they were queued, none twice and none skipped, at the
\* ticker's pace.
THEOREM RequestsInOrder == Spec => P!FifoLaunchSpec
<1>1. P!SchedulerAssumption
  BY SchedulerAssumption DEF P!SchedulerAssumption
<1>2. P!SchedSpec => P!FifoLaunchSpec
  BY <1>1, P!Refinement
<1> QED  BY <1>2, Scheduler, PTL

===============================================================================
