------------------------- MODULE TaskScheduler_proofs -------------------------
(***************************************************************************)
(* Theorems about the task scheduler, for any set of tasks, any capacity   *)
(* of the channel and both modes: its types, that a stopped scheduler has  *)
(* lost no early task, and that it implements FifoLaunch.                  *)
(***************************************************************************)
EXTENDS TaskScheduler, SequenceTheorems, TLAPS

-------------------------------------------------------------------------------
(* The inductive invariant.                                                  *)

\* The scheduler is a member of the WaitGroup exactly while it runs.
Membership == wg = IF pc \in {"off", "stopped"} THEN 0 ELSE 1

\* The local variable task is set between a receive and the launch.
HandHeld == hand # <<>> <=> pc \in Holding

\* Each loop belongs to one mode; the last runs follow the cancellation.
Mode ==
    /\ Limited => pc \notin {"range", "rangeRun", "rangeBusy"}
    /\ ~Limited => pc \in {"off", "select", "go", "range", "rangeRun", "rangeBusy"}
    /\ pc \notin {"off", "select", "await", "go"} => ctxDone

Accepted == started \o hand \o queue

Present == Range(started) \union Range(hand) \union Range(queue)

\* A task whose AddTask call has not gone through is nowhere in the scheduler.
Fresh == \A t \in Tasks : caller[t] # "added" => t \notin Present

\* An early task is queued, in hand or launched, and at the end launched.
EarlyKept ==
    /\ early \subseteq Present
    /\ pc \in {"stopping", "stopped"} => early \subseteq Range(started)

\* Before Start no caller gets a task in.
NotStarted ==
    pc = "off" => early = {} /\ \A t \in Tasks : caller[t] \in {"idle", "stuck"}

IInv ==
    /\ TypeOK
    /\ Membership
    /\ HandHeld
    /\ Mode
    /\ Fresh
    /\ EarlyKept
    /\ NotStarted

-------------------------------------------------------------------------------
(* Sequences: their elements under the operations the actions use.           *)

\* Whatever is in two sequences is in the one that joins them.
LEMMA JoinRange ==
    ASSUME NEW S, NEW s \in Seq(S), NEW t \in Seq(S)
    PROVE  Range(s \o t) = Range(s) \union Range(t)
<1>1. /\ Len(s) \in Nat /\ Len(t) \in Nat
      /\ DOMAIN s = 1 .. Len(s) /\ DOMAIN t = 1 .. Len(t)
      /\ DOMAIN (s \o t) = 1 .. Len(s) + Len(t)
      /\ \A i \in 1 .. Len(s) : (s \o t)[i] = s[i]
      /\ \A i \in 1 .. Len(t) : (s \o t)[Len(s) + i] = t[i]
  OBVIOUS
<1>2. ASSUME NEW i \in DOMAIN (s \o t) PROVE (s \o t)[i] \in Range(s) \union Range(t)
  <2>1. CASE i <= Len(s)
    BY <1>1, <2>1 DEF Range
  <2>2. CASE i > Len(s)
    <3>1. i - Len(s) \in 1 .. Len(t) /\ i = Len(s) + (i - Len(s))
      BY <1>1, <2>2
    <3>2. (s \o t)[i] = t[i - Len(s)]
      BY <1>1, <3>1
    <3> QED  BY <1>1, <3>1, <3>2 DEF Range
  <2> QED  BY <1>1, <2>1, <2>2
<1>3. ASSUME NEW i \in DOMAIN s PROVE s[i] \in Range(s \o t)
  BY <1>1 DEF Range
<1>4. ASSUME NEW i \in DOMAIN t PROVE t[i] \in Range(s \o t)
  <2>1. Len(s) + i \in DOMAIN (s \o t) /\ (s \o t)[Len(s) + i] = t[i]
    BY <1>1
  <2> QED  BY <2>1 DEF Range
<1> QED  BY <1>2, <1>3, <1>4 DEF Range

\* Nothing is an element of the empty sequence, one element of a singleton.
LEMMA ShortRange ==
    /\ Range(<<>>) = {}
    /\ \A e : Range(<<e>>) = {e}
BY DEF Range

\* Append adds its argument to the elements.
LEMMA AppendRange ==
    ASSUME NEW S, NEW s \in Seq(S), NEW e \in S
    PROVE  Range(Append(s, e)) = Range(s) \union {e}
<1>1. <<e>> \in Seq(S)
  OBVIOUS
<1>2. Append(s, e) = s \o <<e>>
  BY AppendIsConcat
<1>3. Range(s \o <<e>>) = Range(s) \union Range(<<e>>)
  BY <1>1, JoinRange
<1> QED  BY <1>2, <1>3, ShortRange

\* A sequence that is not empty is its head followed by its tail.
LEMMA HeadThenTail ==
    ASSUME NEW S, NEW s \in Seq(S), s # <<>>
    PROVE  /\ Head(s) \in S
           /\ Tail(s) \in Seq(S)
           /\ <<Head(s)>> \o Tail(s) = s
           /\ Range(s) = {Head(s)} \union Range(Tail(s))
<1>1. Head(s) \in S /\ Tail(s) \in Seq(S)
  BY HeadTailProperties
<1>2. <<Head(s)>> \in Seq(S)
  BY <1>1
<1>3. <<Head(s)>> \o Tail(s) = s
  BY <1>1, <1>2
<1>4. Range(<<Head(s)>> \o Tail(s)) = Range(<<Head(s)>>) \union Range(Tail(s))
  <2> DEFINE h == <<Head(s)>>
             t == Tail(s)
  <2>1. h \in Seq(S) /\ t \in Seq(S)
    BY <1>1, <1>2
  <2> HIDE DEF h, t
  <2>2. Range(h \o t) = Range(h) \union Range(t)
    BY <2>1, JoinRange
  <2> QED  BY <2>2 DEF h, t
<1> QED  BY <1>1, <1>3, <1>4, ShortRange

\* A sequence of at most one element, when it is not empty.
LEMMA OneElement ==
    ASSUME NEW S, NEW s \in Seq(S), Len(s) <= 1, s # <<>>
    PROVE  s[1] \in S /\ s = <<s[1]>> /\ Range(s) = {s[1]}
<1>1. Len(s) = 1
  <2> DEFINE n == Len(s)
  <2>1. n \in Nat \ {0} /\ n <= 1
    BY EmptySeq
  <2> HIDE DEF n
  <2>2. n = 1
    BY <2>1
  <2> QED  BY <2>2 DEF n
<1>2. s[1] \in S
  BY <1>1, ElementOfSeq
<1>3. <<s[1]>> \in Seq(S) /\ Len(<<s[1]>>) = 1
  BY <1>2
<1>4. s = <<s[1]>>
  BY <1>1, <1>3, SeqEqual
<1>5. Range(<<s[1]>>) = {s[1]}
  BY ShortRange
<1> QED  BY <1>2, <1>4, <1>5

-------------------------------------------------------------------------------
(* How the steps of the scheduler move tasks between its places.             *)

\* A receive moves the head of the queue into the hand.
LEMMA ReceiveMoves ==
    ASSUME IInv, NEW from, NEW to, Receive(from, to), hand = <<>>
    PROVE  /\ hand' = <<Head(queue)>>
           /\ Head(queue) \in Tasks
           /\ Tail(queue) \in Seq(Tasks)
           /\ Present' = Present
           /\ Accepted' = Accepted
<1>1. queue \in Seq(Tasks) /\ queue # <<>> /\ started \in Seq(Tasks)
  BY DEF IInv, TypeOK, Receive
<1>2. /\ Head(queue) \in Tasks
      /\ Tail(queue) \in Seq(Tasks)
      /\ <<Head(queue)>> \o Tail(queue) = queue
      /\ Range(queue) = {Head(queue)} \union Range(Tail(queue))
  BY <1>1, HeadThenTail
<1>3. Present' = Present
  BY <1>2, ShortRange DEF Present, Receive
<1>4. Accepted' = Accepted
  <2>1. Accepted = started \o queue
    BY <1>1, ConcatEmptySeq DEF Accepted
  <2>2. Accepted' = (started \o <<Head(queue)>>) \o Tail(queue)
    BY DEF Accepted, Receive
  <2>3. <<Head(queue)>> \in Seq(Tasks)
    BY <1>2
  <2>4. (started \o <<Head(queue)>>) \o Tail(queue) = started \o (<<Head(queue)>> \o Tail(queue))
    <3> DEFINE h == <<Head(queue)>>
               t == Tail(queue)
    <3>1. h \in Seq(Tasks) /\ t \in Seq(Tasks)
      BY <1>2, <2>3
    <3> HIDE DEF h, t
    <3>2. (started \o h) \o t = started \o (h \o t)
      BY <1>1, <3>1, ConcatAssociative
    <3> QED  BY <3>2 DEF h, t
  <2> QED  BY <1>2, <2>1, <2>2, <2>4
<1> QED  BY <1>2, <1>3, <1>4 DEF Receive

\* A launch moves the task in hand to the end of the launched ones.
LEMMA LaunchMoves ==
    ASSUME IInv, NEW from, NEW to, Launch(from, to), from \in Holding
    PROVE  /\ hand[1] \in Tasks
           /\ hand = <<hand[1]>>
           /\ started' \in Seq(Tasks)
           /\ Range(started') = Range(started) \union Range(hand)
           /\ Present' = Present
           /\ Accepted' = Accepted
<1>1. /\ started \in Seq(Tasks) /\ queue \in Seq(Tasks)
      /\ hand \in Seq(Tasks) /\ Len(hand) <= 1 /\ hand # <<>>
  BY DEF IInv, TypeOK, HandHeld, Launch
<1>2. hand[1] \in Tasks /\ hand = <<hand[1]>> /\ Range(hand) = {hand[1]}
  BY <1>1, OneElement
<1>3. /\ started' = started \o hand
      /\ started' \in Seq(Tasks)
      /\ Range(started') = Range(started) \union Range(hand)
  BY <1>1, <1>2, AppendIsConcat, AppendProperties, AppendRange DEF Launch
<1>4. Present' = Present
  BY <1>3, ShortRange DEF Present, Launch
<1>5. Accepted' = Accepted
  <2>1. Accepted' = ((started \o hand) \o <<>>) \o queue
    BY <1>3 DEF Accepted, Launch
  <2>2. started \o hand \in Seq(Tasks)
    BY <1>3
  <2> QED  BY <1>1, <2>1, <2>2, ConcatEmptySeq DEF Accepted
<1> QED  BY <1>2, <1>3, <1>4, <1>5

\* A send puts the task at the end of the accepted ones.
LEMMA EnqueueMoves ==
    ASSUME IInv, NEW t \in Tasks, Enqueue(t)
    PROVE  /\ queue' \in Seq(Tasks)
           /\ Present' = Present \union {t}
           /\ Accepted' = Append(Accepted, t)
<1>1. started \in Seq(Tasks) /\ hand \in Seq(Tasks) /\ queue \in Seq(Tasks)
  BY DEF IInv, TypeOK
<1>2. /\ queue' = queue \o <<t>>
      /\ queue' \in Seq(Tasks)
      /\ Range(queue') = Range(queue) \union {t}
  BY <1>1, AppendIsConcat, AppendProperties, AppendRange DEF Enqueue
<1>3. Present' = Present \union {t}
  BY <1>2 DEF Present, Enqueue
<1>4. Accepted' = Append(Accepted, t)
  <2>1. started \o hand \in Seq(Tasks) /\ <<t>> \in Seq(Tasks)
    BY <1>1, ConcatProperties
  <2>2. Accepted \in Seq(Tasks)
    BY <1>1, <2>1, ConcatProperties DEF Accepted
  <2>3. Append(Accepted, t) = ((started \o hand) \o queue) \o <<t>>
    BY <2>2, AppendIsConcat DEF Accepted
  <2>4. @ = (started \o hand) \o (queue \o <<t>>)
    BY <1>1, <2>1, ConcatAssociative
  <2> QED  BY <1>2, <2>3, <2>4 DEF Accepted, Enqueue
<1> QED  BY <1>2, <1>3, <1>4

\* The accepted tasks, as a set.
LEMMA AcceptedPresent ==
    ASSUME TypeOK
    PROVE  Accepted \in Seq(Tasks) /\ Range(Accepted) = Present
<1>1. started \in Seq(Tasks) /\ hand \in Seq(Tasks) /\ queue \in Seq(Tasks)
  BY DEF TypeOK
<1>2. started \o hand \in Seq(Tasks)
  BY <1>1, ConcatProperties
<1>3. Accepted \in Seq(Tasks)
  BY <1>1, <1>2, ConcatProperties DEF Accepted
<1>4. Range(Accepted) = Range(started \o hand) \union Range(queue)
  <2> DEFINE front == started \o hand
  <2>1. front \in Seq(Tasks) /\ Accepted = front \o queue
    BY <1>2 DEF Accepted
  <2> HIDE DEF front
  <2>2. Range(front \o queue) = Range(front) \union Range(queue)
    BY <1>1, <2>1, JoinRange
  <2> QED  BY <2>1, <2>2 DEF front
<1>5. Range(started \o hand) = Range(started) \union Range(hand)
  BY <1>1, JoinRange
<1> QED  BY <1>3, <1>4, <1>5 DEF Present

-------------------------------------------------------------------------------
(* IInv is an invariant: one lemma per action.                               *)

LEMMA InitIInv == SchedInit => IInv
<1> SUFFICES ASSUME SchedInit PROVE IInv
  OBVIOUS
<1>1. <<>> \in Seq(Tasks) /\ Len(<<>>) = 0
  OBVIOUS
<1>2. TypeOK
  <2>1. caller \in [Tasks -> {"idle", "stuck", "sending", "added"}]
    BY DEF SchedInit
  <2>2. job \in [Tasks -> {"none", "running", "done"}]
    BY DEF SchedInit
  <2>3. pc \in PCs /\ wg \in Nat /\ early \in SUBSET Tasks
    BY DEF SchedInit, PCs
  <2>4. token \in BOOLEAN /\ ctxDone \in BOOLEAN
    BY DEF SchedInit
  <2> QED  BY <1>1, <2>1, <2>2, <2>3, <2>4 DEF SchedInit, TypeOK
<1>3. Membership /\ HandHeld /\ Mode
  BY SchedulerAssumption DEF SchedInit, Membership, HandHeld, Mode, Holding
<1>4. Fresh /\ EarlyKept /\ NotStarted
  BY ShortRange DEF SchedInit, Fresh, EarlyKept, NotStarted, Present
<1> QED  BY <1>2, <1>3, <1>4 DEF IInv

LEMMA ReceiveIInv ==
    ASSUME IInv, NEW from, NEW to, Receive(from, to),
           \/ from = "select" /\ to = "await" /\ Limited
           \/ from = "select" /\ to = "go" /\ ~Limited
           \/ from = "drain" /\ to = "drainTick"
           \/ from = "range" /\ to = "rangeRun"
    PROVE  IInv'
<1>1. hand = <<>> /\ pc = from /\ pc' = to
  BY DEF IInv, HandHeld, Holding, Receive
<1>2. /\ hand' = <<Head(queue)>> /\ Head(queue) \in Tasks
      /\ Tail(queue) \in Seq(Tasks)
      /\ Present' = Present
  BY <1>1, ReceiveMoves
<1>3. TypeOK'
  <2>1. hand' \in Seq(Tasks) /\ Len(hand') <= 1
    BY <1>2
  <2>2. queue' \in Seq(Tasks) /\ pc' \in PCs
    BY <1>1, <1>2 DEF Receive, PCs
  <2> QED  BY <2>1, <2>2 DEF IInv, TypeOK, Receive
<1>4. Membership' /\ Mode'
  BY <1>1, SchedulerAssumption DEF IInv, Membership, Mode, Receive
<1>5. HandHeld'
  BY <1>1, <1>2 DEF HandHeld, Holding
<1>6. Fresh' /\ EarlyKept' /\ NotStarted'
  BY <1>1, <1>2 DEF IInv, Fresh, EarlyKept, NotStarted, Receive
<1> QED  BY <1>3, <1>4, <1>5, <1>6 DEF IInv

LEMMA LaunchIInv ==
    ASSUME IInv, NEW from, NEW to, Launch(from, to),
           \/ from = "go" /\ to = "select"
           \/ from = "drainRun" /\ to = "drainBusy"
           \/ from = "rangeRun" /\ to = "rangeBusy"
    PROVE  IInv'
<1>1. pc = from /\ pc' = to /\ from \in Holding /\ to \notin Holding
  BY DEF Launch, Holding
<1>2. /\ hand[1] \in Tasks
      /\ started' \in Seq(Tasks)
      /\ Present' = Present
  BY <1>1, LaunchMoves
<1>3. TypeOK'
  <2>1. hand' \in Seq(Tasks) /\ Len(hand') <= 1
    BY DEF Launch
  <2>2. pc' \in PCs /\ job' \in [Tasks -> {"none", "running", "done"}]
    BY <1>1, <1>2 DEF Launch, PCs, IInv, TypeOK
  <2> QED  BY <1>2, <2>1, <2>2 DEF IInv, TypeOK, Launch
<1>4. Membership' /\ Mode'
  BY <1>1, SchedulerAssumption DEF IInv, Membership, Mode, Launch
<1>5. HandHeld'
  BY <1>1 DEF HandHeld, Launch
<1>6. Fresh' /\ EarlyKept' /\ NotStarted'
  BY <1>1, <1>2 DEF IInv, Fresh, EarlyKept, NotStarted, Launch
<1> QED  BY <1>3, <1>4, <1>5, <1>6 DEF IInv

LEMMA EnqueueIInv ==
    ASSUME IInv, NEW t \in Tasks, Enqueue(t)
    PROVE  IInv'
<1>1. queue' \in Seq(Tasks) /\ Present' = Present \union {t}
  BY EnqueueMoves
<1>2. TypeOK'
  BY <1>1 DEF IInv, TypeOK, Enqueue
<1>3. Membership' /\ Mode' /\ HandHeld'
  BY DEF IInv, Membership, Mode, HandHeld, Enqueue
<1>4. Fresh'
  BY <1>1 DEF IInv, TypeOK, Fresh, Enqueue
<1>5. EarlyKept'
  <2>1. pc \in {"stopping", "stopped"} => ctxDone
    BY DEF IInv, Mode
  <2> QED  BY <1>1, <2>1 DEF IInv, EarlyKept, Enqueue
<1>6. NotStarted'
  BY DEF IInv, NotStarted, Enqueue
<1> QED  BY <1>2, <1>3, <1>4, <1>5, <1>6 DEF IInv

\* The other steps leave the tasks where they are.
LEMMA ControlIInv ==
    ASSUME IInv,
           \/ \E t \in Tasks : AddTask(t) \/ JobReturn(t)
           \/ Start \/ Tick \/ SeeDone \/ DrainEmpty \/ Stop \/ Cancel
           \/ AwaitTick("await", "go")
           \/ AwaitTick("drainTick", "drainRun")
           \/ AwaitReturn("drainBusy", "drain")
           \/ AwaitReturn("rangeBusy", "range")
           \/ UNCHANGED schedVars
    PROVE  IInv'
<1>1. TypeOK'
  <2>1. CASE \E t \in Tasks : AddTask(t) \/ JobReturn(t)
    BY <2>1 DEF IInv, TypeOK, AddTask, JobReturn
  <2>2. CASE Start
    BY <2>2 DEF IInv, TypeOK, PCs, Start
  <2>3. CASE Tick
    BY <2>3 DEF IInv, TypeOK, Tick
  <2>4. CASE SeeDone
    <3>1. pc' \in PCs
      BY <2>4 DEF SeeDone, PCs
    <3> QED  BY <2>4, <3>1 DEF IInv, TypeOK, SeeDone
  <2>5. CASE DrainEmpty
    BY <2>5 DEF IInv, TypeOK, PCs, DrainEmpty
  <2>6. CASE Stop
    BY <2>6 DEF IInv, TypeOK, PCs, Membership, Stop
  <2>7. CASE Cancel
    <3>1. ctxDone' \in BOOLEAN
      BY <2>7 DEF Cancel
    <3> QED  BY <2>7, <3>1 DEF IInv, TypeOK, Cancel
  <2>8. CASE \/ AwaitTick("await", "go")
             \/ AwaitTick("drainTick", "drainRun")
             \/ AwaitReturn("drainBusy", "drain")
             \/ AwaitReturn("rangeBusy", "range")
             \/ UNCHANGED schedVars
    BY <2>8 DEF IInv, TypeOK, PCs, AwaitTick, AwaitReturn, schedVars
  <2> QED  BY <2>1, <2>2, <2>3, <2>4, <2>5, <2>6, <2>7, <2>8
<1>2. Membership'
  BY DEF IInv, TypeOK, Membership, AddTask, JobReturn, Start, Tick, SeeDone,
         DrainEmpty, Stop, Cancel, AwaitTick, AwaitReturn, schedVars
<1>3. HandHeld'
  BY DEF IInv, HandHeld, Holding, AddTask, JobReturn, Start, Tick, SeeDone,
         DrainEmpty, Stop, Cancel, AwaitTick, AwaitReturn, schedVars
<1>4. Mode'
  BY SchedulerAssumption
     DEF IInv, Mode, AddTask, JobReturn, Start, Tick, SeeDone,
         DrainEmpty, Stop, Cancel, AwaitTick, AwaitReturn, schedVars
<1>5. UNCHANGED <<queue, hand, started, early>> /\ Present' = Present
  BY DEF Present, AddTask, JobReturn, Start, Tick, SeeDone,
         DrainEmpty, Stop, Cancel, AwaitTick, AwaitReturn, schedVars
<1>6. Fresh'
  <2>1. \A t \in Tasks : caller[t] = "added" => caller'[t] = "added"
    BY DEF IInv, TypeOK, AddTask, JobReturn, Start, Tick, SeeDone,
           DrainEmpty, Stop, Cancel, AwaitTick, AwaitReturn, schedVars
  <2> QED  BY <1>5, <2>1 DEF IInv, Fresh
<1>7. EarlyKept'
  <2>1. CASE DrainEmpty
    <3>1. hand = <<>> /\ queue = <<>>
      BY <2>1 DEF IInv, HandHeld, Holding, DrainEmpty
    <3>2. Present = Range(started)
      BY <3>1, ShortRange DEF Present
    <3> QED  BY <1>5, <3>2 DEF IInv, EarlyKept
  <2>2. CASE ~DrainEmpty
    <3>1. pc' \in {"stopping", "stopped"} => pc \in {"stopping", "stopped"}
      BY <2>2 DEF AddTask, JobReturn, Start, Tick, SeeDone,
                  Stop, Cancel, AwaitTick, AwaitReturn, schedVars
    <3> QED  BY <1>5, <3>1 DEF IInv, EarlyKept
  <2> QED  BY <2>1, <2>2
<1>8. NotStarted'
  BY DEF IInv, TypeOK, NotStarted, AddTask, JobReturn, Start, Tick, SeeDone,
         DrainEmpty, Stop, Cancel, AwaitTick, AwaitReturn, schedVars
<1> QED  BY <1>1, <1>2, <1>3, <1>4, <1>6, <1>7, <1>8 DEF IInv

LEMMA NextIInv == IInv /\ [SchedNext]_schedVars => IInv'
<1> SUFFICES ASSUME IInv, [SchedNext]_schedVars PROVE IInv'
  OBVIOUS
<1>1. CASE \E t \in Tasks : Enqueue(t)
  BY <1>1, EnqueueIInv
<1>2. CASE \/ Limited /\ Receive("select", "await")
           \/ ~Limited /\ Receive("select", "go")
           \/ Receive("drain", "drainTick")
           \/ Receive("range", "rangeRun")
  BY <1>2, ReceiveIInv
<1>3. CASE \/ Launch("go", "select")
           \/ Launch("drainRun", "drainBusy")
           \/ Launch("rangeRun", "rangeBusy")
  BY <1>3, LaunchIInv
<1>4. CASE \/ \E t \in Tasks : AddTask(t) \/ JobReturn(t)
           \/ Start \/ Tick \/ SeeDone \/ DrainEmpty \/ Stop \/ Cancel
           \/ AwaitTick("await", "go")
           \/ AwaitTick("drainTick", "drainRun")
           \/ AwaitReturn("drainBusy", "drain")
           \/ AwaitReturn("rangeBusy", "range")
           \/ UNCHANGED schedVars
  BY <1>4, ControlIInv
<1> QED
  BY <1>1, <1>2, <1>3, <1>4
     DEF SchedNext, SchedulerStep, Loop, LastRunTick, LastRun

LEMMA Invariance == SchedSpec => []IInv
  BY InitIInv, NextIInv, PTL DEF SchedSpec

-------------------------------------------------------------------------------
(* Results.                                                                  *)

\* The variables keep their types; in particular the scheduler never brings
\* the WaitGroup's counter below zero.
THEOREM TypeCorrect == SchedSpec => []TypeOK
<1>1. IInv => TypeOK
  BY DEF IInv
<1> QED  BY <1>1, Invariance, PTL

\* A task queued before the cancellation has been launched when the scheduler
\* stops, whatever the number of tasks and the capacity of the channel.
THEOREM EarlyTasksKept == SchedSpec => []NoEarlyTaskLost
<1>1. IInv => NoEarlyTaskLost
  BY DEF IInv, EarlyKept, NoEarlyTaskLost
<1> QED  BY <1>1, Invariance, PTL

-------------------------------------------------------------------------------
(* The scheduler implements FifoLaunch.                                      *)

LEMMA InitRefines == SchedInit => FL!Init
<1> SUFFICES ASSUME SchedInit PROVE FL!Init
  OBVIOUS
<1>1. <<>> \in Seq(Tasks) /\ started \o hand \o queue = <<>>
  BY ConcatEmptySeq DEF SchedInit
<1>2. Taken = FALSE
  BY DEF SchedInit, Taken
<1> QED  BY <1>1, <1>2 DEF SchedInit, FL!Init

LEMMA EnqueueRefines ==
    ASSUME IInv, NEW t \in Tasks, Enqueue(t)
    PROVE  FL!Accept(t)
<1>1. t \notin Present
  BY DEF IInv, Fresh, Enqueue
<1>2. t \notin Range(Accepted)
  BY <1>1, AcceptedPresent DEF IInv
<1>3. Accepted' = Append(Accepted, t)
  BY EnqueueMoves
<1>4. UNCHANGED <<started, token, Taken>>
  BY DEF Enqueue, Taken
<1>5. t \notin FL!Range(Accepted)
  BY <1>2 DEF Range, FL!Range
<1> QED  BY <1>3, <1>4, <1>5 DEF FL!Accept, Accepted

LEMMA TickRefines ==
    ASSUME Tick
    PROVE  FL!Earn
<1>1. UNCHANGED <<Accepted, started, Taken>>
  BY DEF Tick, Accepted, Taken
<1> QED  BY <1>1 DEF Tick, FL!Earn, Accepted

LEMMA AwaitTickRefines ==
    ASSUME IInv, NEW from, NEW to, AwaitTick(from, to),
           \/ from = "await" /\ to = "go"
           \/ from = "drainTick" /\ to = "drainRun"
    PROVE  FL!Take
<1>1. Limited
  BY SchedulerAssumption DEF IInv, Mode, AwaitTick
<1>2. ~Taken /\ Taken' = TRUE
  BY <1>1 DEF Taken, AwaitTick
<1>3. UNCHANGED <<Accepted, started>>
  BY DEF AwaitTick, Accepted
<1> QED  BY <1>2, <1>3 DEF AwaitTick, FL!Take, Accepted

\* The task in hand is the first of the accepted ones not launched yet.
LEMMA LaunchRefines ==
    ASSUME IInv, NEW from, NEW to, Launch(from, to),
           \/ from = "go" /\ to = "select"
           \/ from = "drainRun" /\ to = "drainBusy"
           \/ from = "rangeRun" /\ to = "rangeBusy"
    PROVE  FL!Launch
<1>1. from \in Holding /\ pc = from /\ pc' = to
  BY DEF Launch, Holding
<1>2. /\ hand[1] \in Tasks /\ hand = <<hand[1]>>
      /\ Accepted' = Accepted
  BY <1>1, LaunchMoves
<1>3. Len(started) < Len(Accepted) /\ hand[1] = Accepted[Len(started) + 1]
  <2>1. started \in Seq(Tasks) /\ hand \in Seq(Tasks) /\ queue \in Seq(Tasks)
    BY DEF IInv, TypeOK
  <2>2. /\ Len(started) \in Nat /\ Len(queue) \in Nat
        /\ Len(hand) = 1
    BY <1>2, <2>1
  <2>3. /\ started \o hand \in Seq(Tasks)
        /\ Len(started \o hand) = Len(started) + 1
        /\ (started \o hand)[Len(started) + 1] = hand[1]
    <3>1. /\ started \o hand \in Seq(Tasks)
          /\ Len(started \o hand) = Len(started) + Len(hand)
          /\ \A k \in 1 .. Len(started) + Len(hand) :
                (started \o hand)[k] = IF k <= Len(started) THEN started[k]
                                       ELSE hand[k - Len(started)]
      BY <2>1, ConcatProperties
    <3> QED  BY <2>2, <3>1
  <2>4. /\ Len(Accepted) = Len(started \o hand) + Len(queue)
        /\ \A i \in 1 .. Len(started \o hand) + Len(queue) :
              Accepted[i] = IF i <= Len(started \o hand) THEN (started \o hand)[i]
                            ELSE queue[i - Len(started \o hand)]
    BY <2>1, <2>3, ConcatProperties DEF Accepted
  <2> QED  BY <2>2, <2>3, <2>4
<1>4. started' = Append(started, Accepted[Len(started) + 1])
  BY <1>3 DEF Launch
<1>5. Limited => Taken
  BY <1>1 DEF IInv, Mode, Taken
<1>6. Taken' = FALSE
  BY <1>1 DEF Taken
<1>7. token' = token
  BY DEF Launch
<1> QED  BY <1>2, <1>3, <1>4, <1>5, <1>6, <1>7 DEF FL!Launch, Accepted

\* Receiving a task and the bookkeeping steps change nothing that FifoLaunch sees.
LEMMA ReceiveStutters ==
    ASSUME IInv, NEW from, NEW to, Receive(from, to),
           \/ from = "select" /\ to = "await" /\ Limited
           \/ from = "select" /\ to = "go" /\ ~Limited
           \/ from = "drain" /\ to = "drainTick"
           \/ from = "range" /\ to = "rangeRun"
    PROVE  UNCHANGED <<Accepted, started, token, Taken>>
<1>1. hand = <<>> /\ pc = from /\ pc' = to
  BY DEF IInv, HandHeld, Holding, Receive
<1>2. Accepted' = Accepted
  BY <1>1, ReceiveMoves
<1>3. Taken' = Taken
  BY <1>1, SchedulerAssumption DEF Taken, Receive
<1> QED  BY <1>2, <1>3 DEF Receive

LEMMA ControlStutters ==
    ASSUME IInv,
           \/ \E t \in Tasks : AddTask(t) \/ JobReturn(t)
           \/ Start \/ SeeDone \/ DrainEmpty \/ Stop \/ Cancel
           \/ AwaitReturn("drainBusy", "drain")
           \/ AwaitReturn("rangeBusy", "range")
           \/ UNCHANGED schedVars
    PROVE  UNCHANGED <<Accepted, started, token, Taken>>
<1>1. UNCHANGED <<started, hand, queue, token>>
  BY DEF AddTask, JobReturn, Start, SeeDone, DrainEmpty, Stop, Cancel,
         AwaitReturn, schedVars
<1>2. Taken' = Taken
  BY DEF Taken, AddTask, JobReturn, Start, SeeDone, DrainEmpty, Stop,
         Cancel, AwaitReturn, schedVars
<1> QED  BY <1>1, <1>2 DEF Accepted

LEMMA NextRefines == IInv /\ [SchedNext]_schedVars => [FL!Next]_(FL!vars)
<1> SUFFICES ASSUME IInv, [SchedNext]_schedVars PROVE [FL!Next]_(FL!vars)
  OBVIOUS
<1> DEFINE Stutter == UNCHANGED <<Accepted, started, token, Taken>>
<1>1. CASE \E t \in Tasks : Enqueue(t)
  BY <1>1, EnqueueRefines DEF FL!Next
<1>2. CASE Tick
  BY <1>2, TickRefines DEF FL!Next
<1>3. CASE \/ Launch("go", "select")
           \/ Launch("drainRun", "drainBusy")
           \/ Launch("rangeRun", "rangeBusy")
  BY <1>3, LaunchRefines DEF FL!Next
<1>4. CASE \/ Limited /\ Receive("select", "await")
           \/ ~Limited /\ Receive("select", "go")
           \/ Receive("drain", "drainTick")
           \/ Receive("range", "rangeRun")
  <2>1. Stutter
    BY <1>4, ReceiveStutters
  <2> QED  BY <2>1 DEF FL!vars, Accepted
<1>5. CASE \/ \E t \in Tasks : AddTask(t) \/ JobReturn(t)
           \/ Start \/ SeeDone \/ DrainEmpty \/ Stop \/ Cancel
           \/ AwaitReturn("drainBusy", "drain")
           \/ AwaitReturn("rangeBusy", "range")
           \/ UNCHANGED schedVars
  <2>1. Stutter
    BY <1>5, ControlStutters
  <2> QED  BY <2>1 DEF FL!vars, Accepted
<1>6. CASE \/ AwaitTick("await", "go")
           \/ AwaitTick("drainTick", "drainRun")
  BY <1>6, AwaitTickRefines DEF FL!Next
<1> QED
  BY <1>1, <1>2, <1>3, <1>4, <1>5, <1>6
     DEF SchedNext, SchedulerStep, Loop, LastRunTick, LastRun

\* The scheduler launches tasks in the order in which they were accepted, none
\* twice and none skipped, and with a rate limit every launch spends a tick of
\* its own, in the loop and in the last run alike.
THEOREM Refinement == SchedSpec => FifoLaunchSpec
<1>1. SchedInit => FL!Init
  BY InitRefines
<1>2. IInv /\ [SchedNext]_schedVars => [FL!Next]_(FL!vars)
  BY NextRefines
<1> QED  BY <1>1, <1>2, Invariance, PTL DEF SchedSpec, FifoLaunchSpec, FL!Spec

===============================================================================
