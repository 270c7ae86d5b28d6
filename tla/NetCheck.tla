------------------------------- MODULE NetCheck -------------------------------
(***************************************************************************)
(* io-net-check: the Checker (checker.go) probes the addresses of its      *)
(* targets in rounds, a bounded number of dials at a time, and records the *)
(* outcomes in ProbeMetrics (metrics.go), whose success ratio is over the  *)
(* window between two scrapes.                                             *)
(*                                                                         *)
(* A probe is named by its round, its target's place in the list and the   *)
(* address.  The resolver and the network are external: a lookup fails or  *)
(* gives some addresses, a dial ends in one of the ways probeOnce tells    *)
(* apart.                                                                  *)
(***************************************************************************)
EXTENDS Integers, Sequences, FiniteSets

CONSTANTS
    Targets,         \* the list of targets, each given by its host
    Addresses,       \* what the resolver may answer for a host
    MaxConcurrency,  \* capacity of the channel sem
    MaxRounds,       \* bound of the model: rounds started
    MaxScrapes       \* bound of the model: scrapes of the metrics

ASSUME NetCheckAssumption ==
    /\ Targets \in Seq({Targets[i] : i \in DOMAIN Targets})
    /\ IsFiniteSet(Addresses)
    /\ MaxConcurrency \in Nat \ {0}   \* Validate refuses anything else
    /\ MaxRounds \in Nat
    /\ MaxScrapes \in Nat

Hosts == {Targets[i] : i \in DOMAIN Targets}
Rounds == 1 .. MaxRounds
Probes == Rounds \X (DOMAIN Targets) \X Addresses
HostOf(p) == Targets[p[2]]

VARIABLES
    loop,       \* the goroutine of Start: "select" or "returned"
    tick,       \* whether ticker.C holds a tick
    ctxDone,    \* the context is cancelled
    running,    \* Checker.running
    rounds,     \* how many rounds were started
    at,         \* per round, where its runRound stands
    next,       \* per round, the place of the target it is at
    ipAddrs,    \* per round, the addresses of that target not yet handed out
    sem,        \* per round, how many slots of sem are taken
    wg,         \* per round, the counter of its WaitGroup
    stage,      \* per probe, where its goroutine stands
    total,      \* per host, successTotal, failureTotal and the samples of duration
    window,     \* per host, successes and failures since the last scrape
    scrapes,    \* how many scrapes there were
    collected   \* history: per host, what the windows of all scrapes held

checkerVars == <<loop, tick, ctxDone, running, rounds, at, next, ipAddrs, sem, wg, stage>>
metricVars == <<total, window, scrapes, collected>>
vars == <<checkerVars, metricVars>>

NoSamples == [success |-> 0, failure |-> 0]

Init ==
    /\ loop = "select"
    /\ tick = FALSE
    /\ ctxDone = FALSE
    /\ running = FALSE
    /\ rounds = 0
    /\ at = [i \in Rounds |-> "idle"]
    /\ next = [i \in Rounds |-> 1]
    /\ ipAddrs = [i \in Rounds |-> {}]
    /\ sem = [i \in Rounds |-> 0]
    /\ wg = [i \in Rounds |-> 0]
    /\ stage = [p \in Probes |-> "none"]
    /\ total = [h \in Hosts |-> [success |-> 0, failure |-> 0, duration |-> 0]]
    /\ window = [h \in Hosts |-> NoSamples]
    /\ scrapes = 0
    /\ collected = [h \in Hosts |-> NoSamples]

-------------------------------------------------------------------------------
(* Start and Trigger.                                                        *)

StartVars == <<loop, tick, ctxDone, running, rounds>>
RoundVars == <<at, next, ipAddrs, sem, wg, stage>>

Cancel ==
    /\ ~ctxDone
    /\ ctxDone' = TRUE
    /\ UNCHANGED <<loop, tick, running, rounds, RoundVars, metricVars>>

Tick ==
    /\ loop = "select"
    /\ ~tick
    /\ tick' = TRUE
    /\ UNCHANGED <<loop, ctxDone, running, rounds, RoundVars, metricVars>>

SeeDone ==
    /\ loop = "select"
    /\ ctxDone
    /\ loop' = "returned"
    /\ UNCHANGED <<tick, ctxDone, running, rounds, RoundVars, metricVars>>

TakeTick ==
    /\ loop = "select"
    /\ tick
    /\ tick' = FALSE
    /\ UNCHANGED <<loop, ctxDone, next, ipAddrs, sem, wg, stage, metricVars>>

StartRound ==
    /\ rounds < MaxRounds
    /\ rounds' = rounds + 1
    /\ running' = TRUE
    /\ at' = [at EXCEPT ![rounds + 1] = "lookup"]

\* Mutant of Trigger: the flag is set without being looked at.
Trigger_Overlapping == TakeTick /\ StartRound

\* The compare-and-swap on running decides; a tick during a round is skipped.
Trigger ==
    /\ TakeTick
    /\ IF running THEN UNCHANGED <<running, rounds, at>> ELSE StartRound

-------------------------------------------------------------------------------
(* runRound.                                                                 *)

RoundTo(i, from, to) ==
    /\ at[i] = from
    /\ at' = [at EXCEPT ![i] = to]

\* The resolver's answer: with addresses they are handed out next.
Resolved(i, answer) ==
    /\ answer # {}
    /\ RoundTo(i, "lookup", "dispatch")
    /\ next[i] <= Len(Targets)
    /\ ipAddrs' = [ipAddrs EXCEPT ![i] = answer]
    /\ UNCHANGED <<StartVars, next, sem, wg, stage, metricVars>>

\* An error, or an answer without addresses: on to the next target.
Skip(i) ==
    /\ at[i] = "lookup"
    /\ next[i] <= Len(Targets)
    /\ next' = [next EXCEPT ![i] = @ + 1]
    /\ UNCHANGED <<StartVars, at, ipAddrs, sem, wg, stage, metricVars>>

\* The goroutine of a probe is started; after the last address the round turns
\* to the next target.
Launch(i, a) ==
    /\ at[i] = "dispatch"
    /\ a \in ipAddrs[i]
    /\ stage' = [stage EXCEPT ![<<i, next[i], a>>] = "dialing"]
    /\ ipAddrs' = [ipAddrs EXCEPT ![i] = @ \ {a}]
    /\ IF ipAddrs[i] = {a}
         THEN next' = [next EXCEPT ![i] = @ + 1] /\ at' = [at EXCEPT ![i] = "lookup"]
         ELSE UNCHANGED <<next, at>>
    /\ UNCHANGED <<StartVars, metricVars>>

\* A slot of sem is free.
Dispatch(i, a) ==
    /\ sem[i] < MaxConcurrency
    /\ sem' = [sem EXCEPT ![i] = @ + 1]
    /\ wg' = [wg EXCEPT ![i] = @ + 1]
    /\ Launch(i, a)

Still == UNCHANGED <<loop, tick, ctxDone, rounds, next, ipAddrs, sem, wg, stage, metricVars>>

\* Mutant of Abort: the round returns without waiting for its probes.
Abort_NoWait(i) == ctxDone /\ RoundTo(i, "dispatch", "store") /\ Still /\ running' = running

\* The cancelled context seen while waiting for a slot; with a slot free as
\* well, select takes either case.
Abort(i) == ctxDone /\ RoundTo(i, "dispatch", "wait") /\ Still /\ running' = running

AllDispatched(i) ==
    next[i] > Len(Targets) /\ RoundTo(i, "lookup", "wait") /\ Still /\ running' = running

Wait(i) == wg[i] = 0 /\ RoundTo(i, "wait", "store") /\ Still /\ running' = running

\* The deferred running.Store(false).
StoreFalse(i) == RoundTo(i, "store", "over") /\ Still /\ running' = FALSE

-------------------------------------------------------------------------------
(* probeOnce and the deferred calls around it.                               *)

To(p, from, to) ==
    /\ stage[p] = from
    /\ stage' = [stage EXCEPT ![p] = to]

Unrecorded == UNCHANGED <<window, scrapes, collected>>
InRound == UNCHANGED <<StartVars, at, next, ipAddrs>>

\* The dial ends and its duration is observed.  A refused connection is only
\* logged, a dial cancelled with the context is not even that.
Dial(p) ==
    /\ \/ To(p, "dialing", "succeeded")
       \/ To(p, "dialing", "timedout")
       \/ To(p, "dialing", "leaving")
    /\ total' = [total EXCEPT ![HostOf(p)].duration = @ + 1]
    /\ UNCHANGED <<sem, wg>> /\ Unrecorded /\ InRound

\* RecordSuccess and RecordTimeoutFailure: the counter, then the window.
Count(p, from, outcome) ==
    /\ To(p, from, outcome)
    /\ total' = [total EXCEPT ![HostOf(p)][outcome] = @ + 1]
    /\ UNCHANGED <<sem, wg>> /\ Unrecorded /\ InRound

Record(p, outcome) ==
    /\ To(p, outcome, "leaving")
    /\ window' = [window EXCEPT ![HostOf(p)][outcome] = @ + 1]
    /\ UNCHANGED <<sem, wg, total, scrapes, collected>> /\ InRound

\* Mutant of Release: a probe returns without giving its slot back.
Release_KeepsSlot(p) ==
    /\ To(p, "leaving", "released")
    /\ UNCHANGED <<sem, wg, total>> /\ Unrecorded /\ InRound

\* func() { <-sem }(), then wg.Done().
Release(p) ==
    /\ To(p, "leaving", "released")
    /\ sem' = [sem EXCEPT ![p[1]] = @ - 1]
    /\ UNCHANGED <<wg, total>> /\ Unrecorded /\ InRound

Done(p) ==
    /\ To(p, "released", "over")
    /\ wg' = [wg EXCEPT ![p[1]] = @ - 1]
    /\ UNCHANGED <<sem, total>> /\ Unrecorded /\ InRound

ProbeStep(p) ==
    \/ Dial(p)
    \/ Count(p, "succeeded", "success") \/ Count(p, "timedout", "failure")
    \/ Record(p, "success") \/ Record(p, "failure")
    \/ Release(p) \/ Done(p)

-------------------------------------------------------------------------------
(* A scrape: Collect, under the collector's lock.                            *)

\* What the window holds is reported as a ratio, which is data.
Expose ==
    /\ scrapes < MaxScrapes
    /\ scrapes' = scrapes + 1
    /\ collected' = [h \in Hosts |->
                       [success |-> collected[h].success + window[h].success,
                        failure |-> collected[h].failure + window[h].failure]]
    /\ UNCHANGED <<checkerVars, total>>

\* Mutant of Collect: the failures of the window are not reset.
Collect_KeepsFailures ==
    /\ Expose
    /\ window' = [h \in Hosts |-> [window[h] EXCEPT !.success = 0]]

Collect == Expose /\ window' = [h \in Hosts |-> NoSamples]

RoundStep(i) ==
    \/ \E answer \in SUBSET Addresses : Resolved(i, answer)
    \/ Skip(i)
    \/ \E a \in Addresses : Dispatch(i, a)
    \/ Abort(i)
    \/ AllDispatched(i)
    \/ Wait(i)
    \/ StoreFalse(i)

Next ==
    \/ Cancel \/ Tick \/ SeeDone \/ Trigger
    \/ \E i \in Rounds : RoundStep(i)
    \/ \E p \in Probes : ProbeStep(p)
    \/ Collect

Spec == Init /\ [][Next]_vars

\* A lookup answers, a dial ends within DialTimeout, goroutines run.  Nobody
\* has to scrape or to stop the program.
Fairness ==
    /\ WF_vars(SeeDone) /\ WF_vars(Tick) /\ WF_vars(Trigger)
    /\ \A i \in Rounds : WF_vars(RoundStep(i))
    /\ \A p \in Probes : WF_vars(ProbeStep(p))

FairSpec == Spec /\ Fairness

-------------------------------------------------------------------------------
(* Properties.                                                               *)

Stages == {"none", "dialing", "succeeded", "success", "timedout", "failure",
           "leaving", "released", "over"}

Samples == [success : Nat, failure : Nat]

TypeOK ==
    /\ loop \in {"select", "returned"}
    /\ tick \in BOOLEAN /\ ctxDone \in BOOLEAN /\ running \in BOOLEAN
    /\ rounds \in 0 .. MaxRounds
    /\ at \in [Rounds -> {"idle", "lookup", "dispatch", "wait", "store", "over"}]
    /\ next \in [Rounds -> 1 .. Len(Targets) + 1]
    /\ ipAddrs \in [Rounds -> SUBSET Addresses]
    /\ sem \in [Rounds -> Nat]
    /\ wg \in [Rounds -> Nat]
    /\ stage \in [Probes -> Stages]
    /\ total \in [Hosts -> [success : Nat, failure : Nat, duration : Nat]]
    /\ window \in [Hosts -> Samples]
    /\ scrapes \in 0 .. MaxScrapes
    /\ collected \in [Hosts -> Samples]

\* A probe whose goroutine has not ended.
Live(p) == stage[p] \notin {"none", "over"}

\* At any time at most MaxConcurrency connections are being opened, over all
\* rounds together and not only within each.
DialsBounded == Cardinality({p \in Probes : stage[p] = "dialing"}) <= MaxConcurrency

\* While a goroutine of a round lives, that round is the one that holds the
\* running flag: no tick can start another one beside it.
ProbesWithinRunningRound ==
    \A p \in Probes :
        Live(p) => running /\ at[p[1]] \in {"lookup", "dispatch", "wait"}

\* Every outcome counted by the totals is in exactly one scrape's window, or in
\* the window being filled, or about to enter it: a scrape between the two
\* halves of RecordSuccess neither loses it nor counts it twice.
EachOutcomeInOneWindow ==
    \A h \in Hosts :
        LET pending(s) == Cardinality({p \in Probes : HostOf(p) = h /\ stage[p] = s}) IN
        /\ total[h].success = collected[h].success + window[h].success + pending("success")
        /\ total[h].failure = collected[h].failure + window[h].failure + pending("failure")

\* A round comes to its end, so that a later tick can start the next one, even
\* when the lookups fail or the program is stopped meanwhile.
RoundEnds == \A i \in Rounds : at[i] # "idle" ~> at[i] = "over"

===============================================================================
