---------------------------- MODULE HttpProxyNode ----------------------------
(***************************************************************************)
(* client-http-proxy: an edge node that answers HTTP requests sent to it   *)
(* over NATS (client.go, main.go), around the task scheduler (task.go).    *)
(*                                                                         *)
(* A task of the scheduler is a request here: the requester sends it on a  *)
(* subject, the goroutine of that subscription runs requestHandle, which   *)
(* hands doRequest to the scheduler, which runs it in a goroutine of its   *)
(* own.  main cancels the context, closes the NATS connection, waits for   *)
(* the WaitGroup and leaves: the process and all its goroutines are gone.  *)
(*                                                                         *)
(* NATS is external: a request is delivered or finds no responder, a       *)
(* publish succeeds while the connection is open and fails afterwards, and *)
(* the client library may give the connection up.  The host that a request *)
(* is for is external too, and need not answer.                            *)
(*                                                                         *)
(* Left out is what a message's Nak, Term and InProgress publish to its    *)
(* reply subject (client.go:180, :195, :198): they change no state of the  *)
(* node, and the properties speak of the statuses.  A requester takes the  *)
(* first message on that subject, so for it a failure is an acknowledge-   *)
(* ment that does not decode; and as waitingRequest is called without go,  *)
(* the select begins when the result is there, finds a tick as well after  *)
(* more than a second, and may acknowledge progress ahead of the response. *)
(***************************************************************************)
EXTENDS TaskScheduler, FiniteSets

CONSTANTS
    Subjects,   \* the subjects subscribed to: "groups.<g>.request", "<node>.request"
    Malformed,  \* the requests whose JSON does not parse
    Unpackable  \* the requests whose response PackResponse rejects

ASSUME NodeAssumption ==
    /\ Malformed \subseteq Tasks /\ Unpackable \subseteq Tasks
    /\ IsFiniteSet(Tasks)

VARIABLES
    main,       \* where main stands
    nats,       \* the node's connection: "open", "lost" by the library, "closed" by main
    heartbeat,  \* the heartbeat goroutine
    inbox,      \* per subject, the requests delivered and not yet handled
    serving,    \* per subject, the request its goroutine handles, or none
    step,       \* per request, where its doRequest stands
    status,     \* per request, the last status published on its task subject
    reply,      \* per request, whether its response was sent
    sent        \* the requests sent to the node

nodeVars == <<main, nats, heartbeat, inbox, serving, step, status, reply, sent>>
vars == <<schedVars, nodeVars>>

\* doRequest between worker.Add(1) and its deferred worker.Done().
Counted == {"active", "asking", "got", "packed", "failed", "unsent", "answered", "returning"}

Steps == {"none", "scheduled", "over"} \union Counted

Init ==
    /\ SchedInit
    /\ main = "subscribed"
    /\ nats = "open"
    /\ heartbeat = "off"
    /\ inbox = [s \in Subjects |-> <<>>]
    /\ serving = [s \in Subjects |-> <<>>]
    /\ step = [r \in Tasks |-> "none"]
    /\ status = [r \in Tasks |-> "none"]
    /\ reply = [r \in Tasks |-> FALSE]
    /\ sent = {}

\* The process exists: what its goroutines do, they do before main returns.
Alive == main \notin {"exited", "aborted"}

-------------------------------------------------------------------------------
(* A requester: SendRequest on one of the node's subjects.  Without the      *)
(* node's subscription it has no responder.  It takes the first message on   *)
(* its reply subject; giving up after the timeout is its own business.       *)

SendRequest(r, s) ==
    /\ r \notin sent
    /\ nats = "open"
    /\ sent' = sent \union {r}
    /\ inbox' = [inbox EXCEPT ![s] = Append(@, r)]
    /\ UNCHANGED <<schedVars, main, nats, heartbeat, serving, step, status, reply>>

-------------------------------------------------------------------------------
(* requestHandle, in the goroutine of its subscription.                      *)

\* updateTaskStatus succeeds while the connection is open.
Publish(r, new) == status' = IF nats = "open" THEN [status EXCEPT ![r] = new] ELSE status

\* The connection's read loop and the subscription end with the connection.
Handle(s) ==
    /\ Alive
    /\ nats = "open"
    /\ serving[s] = <<>>
    /\ inbox[s] # <<>>
    /\ serving' = [serving EXCEPT ![s] = <<Head(inbox[s])>>]
    /\ inbox' = [inbox EXCEPT ![s] = Tail(@)]
    /\ UNCHANGED <<schedVars, main, nats, heartbeat, step, status, reply, sent>>

\* A request that does not parse, or whose first status cannot be published,
\* is dropped without an answer.
Drop(s) ==
    /\ Alive
    /\ serving[s] # <<>>
    /\ status[serving[s][1]] = "none"
    /\ serving[s][1] \in Malformed \/ nats # "open"
    /\ serving' = [serving EXCEPT ![s] = <<>>]
    /\ UNCHANGED <<schedVars, main, nats, heartbeat, inbox, step, status, reply, sent>>

PublishOnProcess(s) ==
    /\ Alive
    /\ serving[s] # <<>>
    /\ status[serving[s][1]] = "none"
    /\ serving[s][1] \notin Malformed
    /\ nats = "open"
    /\ Publish(serving[s][1], "ON_PROCESS")
    /\ UNCHANGED <<schedVars, main, nats, heartbeat, inbox, serving, step, reply, sent>>

\* Mutant of CallAddTask: the task is scheduled before its first status is out.
CallAddTask_BeforeStatus(s) ==
    /\ Alive
    /\ serving[s] # <<>>
    /\ serving[s][1] \notin Malformed
    /\ AddTask(serving[s][1])
    /\ UNCHANGED nodeVars

\* scheduler.AddTask, called by the handler and not yet returned.
CallAddTask(s) ==
    /\ Alive
    /\ serving[s] # <<>>
    /\ status[serving[s][1]] = "ON_PROCESS"
    /\ AddTask(serving[s][1])
    /\ UNCHANGED nodeVars

\* The send goes through and the handler returns.
HandlerReturns(s) ==
    /\ Alive
    /\ serving[s] # <<>>
    /\ Enqueue(serving[s][1])
    /\ serving' = [serving EXCEPT ![s] = <<>>]
    /\ UNCHANGED <<main, nats, heartbeat, inbox, step, status, reply, sent>>

-------------------------------------------------------------------------------
(* doRequest, from the launch of the task to its return.                     *)

\* A step of doRequest that stays inside the process.
Move(r, from, to) ==
    /\ Alive
    /\ job[r] = "running"
    /\ step[r] = from
    /\ step' = [step EXCEPT ![r] = to]

Quiet == UNCHANGED <<main, nats, heartbeat, inbox, serving, sent>>

\* The first publish; when it fails the task is silently over.
PublishScheduled(r) ==
    /\ Publish(r, "SCHEDULED")
    /\ IF nats = "open"
         THEN Move(r, "none", "scheduled") /\ UNCHANGED schedVars
         ELSE Move(r, "none", "over") /\ JobReturn(r)
    /\ UNCHANGED <<reply>>
    /\ Quiet

\* Mutant of EnterGroup: worker.Add(1) is forgotten.
EnterGroup_NotCounted(r) ==
    /\ Move(r, "scheduled", "active")
    /\ UNCHANGED <<schedVars, status, reply>>
    /\ Quiet

\* worker.Add(1), a step after the publish.
EnterGroup(r) ==
    /\ Move(r, "scheduled", "active")
    /\ wg' = wg + 1
    /\ UNCHANGED <<pc, queue, hand, token, caller, job, ctxDone, started, early>>
    /\ UNCHANGED <<status, reply>>
    /\ Quiet

\* grequests.Req under the worker's context: a cancelled one ends it at once.
BeginRequest(r) ==
    /\ Move(r, "active", IF ctxDone THEN "failed" ELSE "asking")
    /\ UNCHANGED <<schedVars, status, reply>>
    /\ Quiet

\* The host answered, or the request failed; a tick of progress may be taken
\* before the result, which changes nothing here.  Nothing limits the time: neither
\* the options nor http.DefaultClient have a timeout.  A cancelled context ends
\* the request.
EndRequest(r) ==
    /\ Move(r, "asking", "got") \/ Move(r, "asking", "failed")
    /\ UNCHANGED <<schedVars, status, reply>>
    /\ Quiet

\* Mutant of ReportFailure: the failure is logged and not published.
ReportFailure_Silent(r) ==
    /\ Move(r, "failed", "returning")
    /\ UNCHANGED <<schedVars, status, reply>>
    /\ Quiet

\* Response or error: both publish TASK_FAILED, and by Nak or Term an
\* acknowledgement to the reply subject, see below; errors of either are ignored.
ReportFailure(r) ==
    /\ Move(r, "failed", "returning")
    /\ Publish(r, "FAILED")
    /\ UNCHANGED <<schedVars, reply>>
    /\ Quiet

\* Reads the response's body, which may hang like the request itself.
PackResponse(r) ==
    /\ r \notin Unpackable
    /\ Move(r, "got", "packed")
    /\ UNCHANGED <<schedVars, status, reply>>
    /\ Quiet

\* An error of PackResponse is recorded in the trace and nowhere else.
PackError(r) ==
    /\ r \in Unpackable
    /\ Move(r, "got", "returning")
    /\ UNCHANGED <<schedVars, status, reply>>
    /\ Quiet

\* msg.Respond also fails when the message is larger than the server allows.
Respond(r) ==
    /\ nats = "open"
    /\ Move(r, "packed", "answered")
    /\ reply' = [reply EXCEPT ![r] = TRUE]
    /\ UNCHANGED <<schedVars, status>>
    /\ Quiet

RespondError(r) ==
    /\ Move(r, "packed", "unsent")
    /\ UNCHANGED <<schedVars, status, reply>>
    /\ Quiet

ReportUnsent(r) ==
    /\ Move(r, "unsent", "returning")
    /\ Publish(r, "FAILED")
    /\ UNCHANGED <<schedVars, reply>>
    /\ Quiet

ReportFinished(r) ==
    /\ Move(r, "answered", "returning")
    /\ Publish(r, "FINISHED")
    /\ UNCHANGED <<schedVars, reply>>
    /\ Quiet

\* Mutant of LeaveGroup: a return without worker.Done().
LeaveGroup_StillCounted(r) ==
    /\ Move(r, "returning", "over")
    /\ job' = [job EXCEPT ![r] = "done"]
    /\ UNCHANGED <<pc, queue, hand, token, caller, ctxDone, wg, started, early>>
    /\ UNCHANGED <<status, reply>>
    /\ Quiet

\* The deferred worker.Done().
LeaveGroup(r) ==
    /\ Move(r, "returning", "over")
    /\ job' = [job EXCEPT ![r] = "done"]
    /\ wg' = wg - 1
    /\ UNCHANGED <<pc, queue, hand, token, caller, ctxDone, started, early>>
    /\ UNCHANGED <<status, reply>>
    /\ Quiet

\* The steps that wait for the host, and those that wait for nobody.
HostStep(r) == EndRequest(r) \/ PackResponse(r) \/ PackError(r)

OwnStep(r) ==
    \/ PublishScheduled(r) \/ EnterGroup(r) \/ BeginRequest(r)
    \/ ReportFailure(r)
    \/ Respond(r) \/ RespondError(r) \/ ReportUnsent(r) \/ ReportFinished(r)
    \/ LeaveGroup(r)

DoRequest(r) == OwnStep(r) \/ HostStep(r)

-------------------------------------------------------------------------------
(* main and the heartbeat goroutine.                                         *)

NoTask == UNCHANGED <<inbox, serving, step, status, reply, sent>>

\* The go statements for heartbeat and scheduler.Start.
Spawn ==
    /\ main = "subscribed"
    /\ main' = "spawned"
    /\ UNCHANGED <<schedVars, nats, heartbeat>> /\ NoTask

Online ==
    /\ main = "spawned"
    /\ IF nats = "open" THEN main' = "serving" ELSE main' = "aborted"
    /\ UNCHANGED <<schedVars, nats, heartbeat>> /\ NoTask

CancelContext ==
    /\ main = "serving"
    /\ Cancel
    /\ main' = "cancelled"
    /\ UNCHANGED <<nats, heartbeat>> /\ NoTask

\* The offline hook and mq.Close(): its error is only logged.
CloseNats ==
    /\ main = "cancelled"
    /\ main' = "closed"
    /\ nats' = "closed"
    /\ UNCHANGED <<schedVars, heartbeat>> /\ NoTask

\* worker.Wait() and the return of main.
Exit ==
    /\ main = "closed"
    /\ wg = 0
    /\ main' = "exited"
    /\ UNCHANGED <<schedVars, nats, heartbeat>> /\ NoTask

\* Mutant of HeartbeatStart: worker.Add(1) is forgotten.
HeartbeatStart_NotCounted ==
    /\ Alive /\ main # "subscribed"
    /\ heartbeat = "off"
    /\ heartbeat' = "alive"
    /\ UNCHANGED <<schedVars, main, nats>> /\ NoTask

HeartbeatStart ==
    /\ Alive /\ main # "subscribed"
    /\ heartbeat = "off"
    /\ heartbeat' = "alive"
    /\ wg' = wg + 1
    /\ UNCHANGED <<pc, queue, hand, token, caller, job, ctxDone, started, early>>
    /\ UNCHANGED <<main, nats>> /\ NoTask

\* A heartbeat that cannot be published is logged: no step of the model.
HeartbeatEnd ==
    /\ Alive
    /\ heartbeat = "alive"
    /\ ctxDone
    /\ heartbeat' = "ended"
    /\ wg' = wg - 1
    /\ UNCHANGED <<pc, queue, hand, token, caller, job, ctxDone, started, early>>
    /\ UNCHANGED <<main, nats>> /\ NoTask

\* The scheduler's own goroutine and its ticker.
StartScheduler == Alive /\ main # "subscribed" /\ Start /\ UNCHANGED nodeVars
TickScheduler == Alive /\ Tick /\ UNCHANGED nodeVars
RunScheduler == Alive /\ SchedulerStep /\ UNCHANGED nodeVars

\* The library gives the connection up for good.
LoseNats ==
    /\ Alive
    /\ nats = "open"
    /\ nats' = "lost"
    /\ UNCHANGED <<schedVars, main, heartbeat>> /\ NoTask

Next ==
    \/ \E r \in Tasks :
         \/ \E s \in Subjects : SendRequest(r, s)
         \/ DoRequest(r)
    \/ \E s \in Subjects : Handle(s) \/ Drop(s) \/ PublishOnProcess(s)
                          \/ CallAddTask(s) \/ HandlerReturns(s)
    \/ Spawn \/ Online \/ CancelContext \/ CloseNats \/ Exit
    \/ HeartbeatStart \/ HeartbeatEnd
    \/ StartScheduler \/ TickScheduler \/ RunScheduler
    \/ LoseNats

Spec == Init /\ [][Next]_vars

\* Goroutines run, the ticker ticks, and a cancelled context ends an HTTP
\* request (client.go:158).  Until then a host may leave its request hanging
\* for ever.  The user need not stop the process, the requester need not send,
\* and the library need not lose the connection.
Fairness ==
    /\ \A r \in Tasks : WF_vars(OwnStep(r)) /\ WF_vars(ctxDone /\ HostStep(r))
    /\ \A s \in Subjects :
         /\ WF_vars(Handle(s)) /\ WF_vars(Drop(s) \/ PublishOnProcess(s))
         /\ WF_vars(CallAddTask(s)) /\ WF_vars(HandlerReturns(s))
    /\ WF_vars(Spawn) /\ WF_vars(Online) /\ WF_vars(CloseNats) /\ WF_vars(Exit)
    /\ WF_vars(HeartbeatStart) /\ WF_vars(HeartbeatEnd)
    /\ WF_vars(StartScheduler) /\ WF_vars(TickScheduler) /\ WF_vars(RunScheduler)

FairSpec == Spec /\ Fairness

-------------------------------------------------------------------------------
(* Properties.                                                               *)

NodeTypeOK ==
    /\ TypeOK
    /\ main \in {"subscribed", "spawned", "serving", "cancelled", "closed", "exited", "aborted"}
    /\ nats \in {"open", "lost", "closed"}
    /\ heartbeat \in {"off", "alive", "ended"}
    /\ inbox \in [Subjects -> Seq(Tasks)]
    /\ serving \in [Subjects -> Seq(Tasks)]
    /\ step \in [Tasks -> Steps]
    /\ status \in [Tasks -> {"none", "ON_PROCESS", "SCHEDULED", "FINISHED", "FAILED"}]
    /\ reply \in [Tasks -> BOOLEAN]
    /\ sent \subseteq Tasks

\* When main returns after worker.Wait(), no goroutine of the WaitGroup is cut
\* off, and every request queued before the cancellation has been launched:
\* the wait for the scheduler is a wait for its last run.
ExitWaitsForWork ==
    main = "exited" =>
        /\ \A r \in Tasks : step[r] \notin Counted
        /\ heartbeat # "alive"
        /\ pc \in {"off", "stopped"}
        /\ early \subseteq Range(started)

\* What the task subject says agrees with what the requester was sent: FINISHED
\* only after the response went out, FAILED only if it did not.
StatusTellsTheTruth ==
    \A r \in Tasks :
        /\ status[r] = "FINISHED" => reply[r]
        /\ status[r] = "FAILED" => ~reply[r]

\* Whoever follows a task's subject sees its statuses in order, none twice.
StatusMovesForward ==
    [][\A r \in Tasks :
         status'[r] # status[r] =>
            <<status[r], status'[r]>> \in
                {<<"none", "ON_PROCESS">>, <<"ON_PROCESS", "SCHEDULED">>,
                 <<"SCHEDULED", "FINISHED">>, <<"SCHEDULED", "FAILED">>}]_vars

\* A request that doRequest is done with has been told how it ended, and told
\* what is true, while the connection stands: no step that failed on the way,
\* the response's own included, leaves its followers waiting (client.go:173,
\* :219, :227).  One whose response cannot be packed stays SCHEDULED.
OverIsSettled ==
    nats = "open" =>
        \A r \in Tasks \ Unpackable :
            step[r] = "over" => status[r] = IF reply[r] THEN "FINISHED" ELSE "FAILED"

\* A request queued while the node serves gets a final status, unless its own
\* host leaves it hanging, the connection is gone or its response cannot be
\* packed.  The hosts of the others may hang for ever: neither the pace of the
\* ticker nor a full channel nor a stop makes one request wait for another's
\* host (task.go:40, :64).
QueuedRequestSettles ==
    \A r \in Tasks \ Unpackable :
        []<>(step[r] \notin {"asking", "got"}) =>
            (r \in early ~> status[r] \in {"FINISHED", "FAILED"} \/ nats # "open")

\* A rate-limited node that is told to stop leaves its main in the end: the
\* stop ends the requests under way, whatever their hosts do.
StopEnds == main = "cancelled" ~> main = "exited"

\* The scheduler inside the node is the one of TaskScheduler: the rest of the
\* node adds to its WaitGroup and leaves its other variables to it.
Others == (IF heartbeat = "alive" THEN 1 ELSE 0)
            + Cardinality({r \in Tasks : step[r] \in Counted})

TS == INSTANCE TaskScheduler WITH wg <- wg - Others

SchedulerInside == TS!SchedSpec

===============================================================================
