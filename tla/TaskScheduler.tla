---------------------------- MODULE TaskScheduler ----------------------------
(***************************************************************************)
(* client-http-proxy/task.go: the TaskScheduler, a goroutine that takes    *)
(* tasks from a buffered channel and starts them, one per tick of a        *)
(* time.Ticker when a rate limit is set.  When the worker context is       *)
(* cancelled it leaves its loop and runs what is left in the channel.      *)
(*                                                                         *)
(* Every caller of AddTask is a goroutine of its own, named by the task it *)
(* hands over.  A job is abstract here: it runs until it returns.          *)
(***************************************************************************)
EXTENDS Integers, Sequences, Functions

CONSTANTS
    Tasks,     \* the tasks handed to AddTask, one call each
    Limited,   \* TRUE: Start got a limit, FALSE: "request will be unlimited"
    QueueCap   \* capacity of taskQueue (8192 in the code)

ASSUME SchedulerAssumption ==
    /\ Limited \in BOOLEAN
    /\ QueueCap \in Nat \ {0}

VARIABLES
    pc,        \* where the scheduler goroutine stands
    queue,     \* taskQueue
    hand,      \* the local variable task: empty, or the one task received
    token,     \* whether ticker.C, a channel of capacity one, holds a tick
    caller,    \* per task, where its AddTask call stands
    job,       \* per task, whether its JobFunc runs
    ctxDone,   \* cfg.worker.Ctx is cancelled
    wg,        \* the counter of the WaitGroup cfg.worker
    started,   \* history: the tasks launched, in order
    early      \* history: the tasks queued before the cancellation

schedVars == <<pc, queue, hand, token, caller, job, ctxDone, wg, started, early>>

PCs == {"off", "select", "await", "go",
        "drain", "drainTick", "drainRun", "drainBusy",
        "range", "rangeRun", "rangeBusy", "stopping", "stopped"}

\* Between the receive of a task and its launch.
Holding == {"await", "go", "drainTick", "drainRun", "rangeRun"}

SchedInit ==
    /\ pc = "off"
    /\ queue = <<>>
    /\ hand = <<>>
    /\ token = FALSE
    /\ caller = [t \in Tasks |-> "idle"]
    /\ job = [t \in Tasks |-> "none"]
    /\ ctxDone = FALSE
    /\ wg = 0
    /\ started = <<>>
    /\ early = {}

-------------------------------------------------------------------------------
(* The callers.  The send statement reads the field taskQueue once: while    *)
(* Start has not run the channel is nil, and a send on a nil channel blocks  *)
(* for ever, whatever is assigned to the field afterwards.                   *)

AddTask(t) ==
    /\ caller[t] = "idle"
    /\ caller' = [caller EXCEPT ![t] = IF pc = "off" THEN "stuck" ELSE "sending"]
    /\ UNCHANGED <<pc, queue, hand, token, job, ctxDone, wg, started, early>>

Enqueue(t) ==
    /\ caller[t] = "sending"
    /\ Len(queue) < QueueCap
    /\ queue' = Append(queue, t)
    /\ caller' = [caller EXCEPT ![t] = "added"]
    /\ early' = IF ctxDone THEN early ELSE early \union {t}
    /\ UNCHANGED <<pc, hand, token, job, ctxDone, wg, started>>

-------------------------------------------------------------------------------
(* The scheduler goroutine.                                                  *)

Start ==
    /\ pc = "off"
    /\ pc' = "select"
    /\ wg' = wg + 1
    /\ UNCHANGED <<queue, hand, token, caller, job, ctxDone, started, early>>

\* Mutant of Tick: the ticker is stopped as soon as the context is cancelled.
Tick_UntilCancelled ==
    /\ Limited
    /\ pc \notin {"off", "stopped"}
    /\ ~ctxDone
    /\ ~token
    /\ token' = TRUE
    /\ UNCHANGED <<pc, queue, hand, caller, job, ctxDone, wg, started, early>>

\* A tick that finds the ticker's channel full is dropped: a step that
\* changes nothing.
Tick ==
    /\ Limited
    /\ pc \notin {"off", "stopped"}
    /\ ~token
    /\ token' = TRUE
    /\ UNCHANGED <<pc, queue, hand, caller, job, ctxDone, wg, started, early>>

\* A receive on taskQueue: the scheduler takes the oldest task.
Receive(from, to) ==
    /\ pc = from
    /\ queue # <<>>
    /\ hand' = <<Head(queue)>>
    /\ queue' = Tail(queue)
    /\ pc' = to
    /\ UNCHANGED <<token, caller, job, ctxDone, wg, started, early>>

\* Mutant of AwaitTick: the last run does not keep the pace of the ticker.
AwaitTick_NotInDrain(from, to) ==
    /\ pc = from
    /\ token \/ from = "drainTick"
    /\ token' = FALSE
    /\ pc' = to
    /\ UNCHANGED <<queue, hand, caller, job, ctxDone, wg, started, early>>

AwaitTick(from, to) ==
    /\ pc = from
    /\ token
    /\ token' = FALSE
    /\ pc' = to
    /\ UNCHANGED <<queue, hand, caller, job, ctxDone, wg, started, early>>

Launch(from, to) ==
    /\ pc = from
    /\ job' = [job EXCEPT ![hand[1]] = "running"]
    /\ started' = Append(started, hand[1])
    /\ hand' = <<>>
    /\ pc' = to
    /\ UNCHANGED <<queue, token, caller, ctxDone, wg, early>>

\* JobFunc called without go: the scheduler goes on when it returns.
AwaitReturn(from, to) ==
    /\ pc = from
    /\ job[started[Len(started)]] = "done"
    /\ pc' = to
    /\ UNCHANGED <<queue, hand, token, caller, job, ctxDone, wg, started, early>>

\* Mutant of SeeDone: no last run, the loop is left for Stop.
SeeDone_NoLastRun ==
    /\ pc = "select"
    /\ ctxDone
    /\ pc' = "stopping"
    /\ UNCHANGED <<queue, hand, token, caller, job, ctxDone, wg, started, early>>

\* select takes either ready case, so a cancelled context may be seen late.
SeeDone ==
    /\ pc = "select"
    /\ ctxDone
    /\ pc' = IF Limited THEN "drain" ELSE "range"
    /\ UNCHANGED <<queue, hand, token, caller, job, ctxDone, wg, started, early>>

\* Mutant of DrainEmpty: getTaskNow has no default case and waits for a task.
DrainEmpty_Blocks ==
    /\ pc = "drain"
    /\ FALSE
    /\ UNCHANGED schedVars

\* getTaskNow found no task.
DrainEmpty ==
    /\ pc = "drain"
    /\ queue = <<>>
    /\ pc' = "stopping"
    /\ UNCHANGED <<queue, hand, token, caller, job, ctxDone, wg, started, early>>

Stop ==
    /\ pc = "stopping"
    /\ pc' = "stopped"
    /\ wg' = wg - 1
    /\ UNCHANGED <<queue, hand, token, caller, job, ctxDone, started, early>>

\* The two loops: with a limit a task waits in hand for the next tick.
Loop ==
    \/ Receive("select", IF Limited THEN "await" ELSE "go")
    \/ AwaitTick("await", "go")

LastRunTick ==
    \/ Receive("drain", "drainTick")
    \/ AwaitTick("drainTick", "drainRun")
    \/ Launch("drainRun", "drainBusy")
    \/ AwaitReturn("drainBusy", "drain")
    \/ DrainEmpty

\* for task := range t.taskQueue: nobody closes the channel.
LastRun ==
    \/ Receive("range", "rangeRun")
    \/ Launch("rangeRun", "rangeBusy")
    \/ AwaitReturn("rangeBusy", "range")

SchedulerStep ==
    \/ Loop
    \/ Launch("go", "select")
    \/ SeeDone
    \/ LastRunTick
    \/ LastRun
    \/ Stop

-------------------------------------------------------------------------------
(* The environment: the process is told to stop, jobs return.                *)

Cancel ==
    /\ ~ctxDone
    /\ ctxDone' = TRUE
    /\ UNCHANGED <<pc, queue, hand, token, caller, job, wg, started, early>>

JobReturn(t) ==
    /\ job[t] = "running"
    /\ job' = [job EXCEPT ![t] = "done"]
    /\ UNCHANGED <<pc, queue, hand, token, caller, ctxDone, wg, started, early>>

SchedNext ==
    \/ \E t \in Tasks : AddTask(t) \/ Enqueue(t) \/ JobReturn(t)
    \/ Start
    \/ Tick
    \/ SchedulerStep
    \/ Cancel

SchedSpec == SchedInit /\ [][SchedNext]_schedVars

\* The Go runtime runs every goroutine that can run, the ticker keeps ticking
\* until Stop, and the cancelled context ends every job.  Before that a job may
\* run for ever: an HTTP request has no time limit.  Nobody has to call AddTask
\* or to stop the process.
SchedFairness ==
    /\ WF_schedVars(Start)
    /\ WF_schedVars(Tick)
    /\ WF_schedVars(SchedulerStep)
    /\ \A t \in Tasks : WF_schedVars(Enqueue(t)) /\ WF_schedVars(ctxDone /\ JobReturn(t))

FairSchedSpec == SchedSpec /\ SchedFairness

-------------------------------------------------------------------------------
(* Properties.                                                               *)

TypeOK ==
    /\ pc \in PCs
    /\ queue \in Seq(Tasks)
    /\ hand \in Seq(Tasks) /\ Len(hand) <= 1
    /\ token \in BOOLEAN
    /\ caller \in [Tasks -> {"idle", "stuck", "sending", "added"}]
    /\ job \in [Tasks -> {"none", "running", "done"}]
    /\ ctxDone \in BOOLEAN
    /\ wg \in Nat   \* a negative WaitGroup counter panics
    /\ started \in Seq(Tasks)
    /\ early \in SUBSET Tasks

\* No task that was in the queue before the cancellation is left behind: when
\* the scheduler stops (task.go LastRunTick), it has launched all of them.
NoEarlyTaskLost ==
    pc \in {"stopping", "stopped"} => early \subseteq Range(started)

\* Every task queued while the service is running is launched in the end,
\* even when the service is stopped while the task waits.
EarlyTaskLaunched ==
    \A t \in Tasks : t \in early ~> t \in Range(started)

\* A cancelled context makes the scheduler call Stop (task.go, comment on
\* Stop: "Stop Will call by ctx, not defer needed").
StopsWhenCancelled == ctxDone ~> pc = "stopped"

\* The scheduler keeps the promise of FifoLaunch: accepted tasks are those
\* launched, in hand and queued; the ticker's channel saves one tick, and a
\* tick received from it is taken until the task in hand is launched.
Taken == Limited /\ pc \in {"go", "drainRun"}

FL == INSTANCE FifoLaunch WITH
    accepted <- started \o hand \o queue,
    launched <- started,
    saved <- token,
    taken <- Taken

FifoLaunchSpec == FL!Spec

===============================================================================
