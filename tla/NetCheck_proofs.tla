---------------------------- MODULE NetCheck_proofs ----------------------------
(***************************************************************************)
(* Theorems about the checker and its metrics, for any targets, addresses, *)
(* number of slots, rounds and scrapes: types, the bound on simultaneous   *)
(* dials, that rounds do not overlap, and that every outcome is in exactly *)
(* one window.                                                             *)
(***************************************************************************)
EXTENDS NetCheck, FiniteSetTheorems, TLAPS

-------------------------------------------------------------------------------
(* Counting probes by the stage they are in.                                 *)

OfRound(i) == {p \in Probes : p[1] = i}
OfHost(h) == {p \in Probes : HostOf(p) = h}

\* The probes of B that are in one of the stages C.
InStages(B, C) == {p \in B : stage[p] \in C}

LEMMA TargetsFinite ==
    /\ Len(Targets) \in Nat
    /\ DOMAIN Targets = 1 .. Len(Targets)
    /\ IsFiniteSet(DOMAIN Targets)
<1>1. Len(Targets) \in Nat /\ DOMAIN Targets = 1 .. Len(Targets)
  BY NetCheckAssumption
<1>2. IsFiniteSet(1 .. Len(Targets))
  BY <1>1, FS_Interval
<1> QED  BY <1>1, <1>2

\* A probe is a triple: that there are finitely many is seen through pairs.
LEMMA ProbesFinite == IsFiniteSet(Probes)
<1>1. IsFiniteSet(Rounds)
  BY NetCheckAssumption, FS_Interval DEF Rounds
<1>2. IsFiniteSet((Rounds \X DOMAIN Targets) \X Addresses)
  BY <1>1, TargetsFinite, NetCheckAssumption, FS_Product
<1> DEFINE Pairs == (Rounds \X DOMAIN Targets) \X Addresses
           flat == [q \in Pairs |-> <<q[1][1], q[1][2], q[2]>>]
<1>3. flat \in Surjection(Pairs, Probes)
  <2>1. flat \in [Pairs -> Probes]
    BY DEF Probes
  <2>2. ASSUME NEW p \in Probes
        PROVE  \E q \in Pairs : flat[q] = p
    <3>1. <<<<p[1], p[2]>>, p[3]>> \in Pairs /\ p = <<p[1], p[2], p[3]>>
      BY DEF Probes
    <3>2. flat[<<<<p[1], p[2]>>, p[3]>>] = p
      BY <3>1
    <3> QED  BY <3>1, <3>2
  <2> QED  BY <2>1, <2>2 DEF Surjection
<1> QED  BY <1>2, <1>3, FS_Surjection

LEMMA StagesFinite ==
    ASSUME NEW B \in SUBSET Probes, NEW C
    PROVE  IsFiniteSet(InStages(B, C)) /\ Cardinality(InStages(B, C)) \in Nat
<1>1. InStages(B, C) \in SUBSET Probes
  BY DEF InStages
<1> QED  BY <1>1, ProbesFinite, FS_Subset, FS_CardinalityType

\* One probe changes its stage: it enters C, leaves it, or neither.
LEMMA StageMoves ==
    ASSUME NEW B \in SUBSET Probes, NEW C, NEW p \in Probes, NEW to,
           stage \in [Probes -> Stages],
           stage' = [stage EXCEPT ![p] = to]
    PROVE  /\ p \notin B \/ (stage[p] \in C <=> to \in C) =>
                InStages(B, C)' = InStages(B, C)
           /\ p \in B /\ stage[p] \notin C /\ to \in C =>
                Cardinality(InStages(B, C)') = Cardinality(InStages(B, C)) + 1
           /\ p \in B /\ stage[p] \in C /\ to \notin C =>
                /\ Cardinality(InStages(B, C)') = Cardinality(InStages(B, C)) - 1
                /\ Cardinality(InStages(B, C)) > 0
<1>1. \A q \in B : q # p => stage'[q] = stage[q]
  OBVIOUS
<1>2. stage'[p] = to
  OBVIOUS
<1>3. IsFiniteSet(InStages(B, C)) /\ Cardinality(InStages(B, C)) \in Nat
  BY StagesFinite
<1>4. CASE p \notin B \/ (stage[p] \in C <=> to \in C)
  BY <1>1, <1>2, <1>4 DEF InStages
<1>5. CASE p \in B /\ stage[p] \notin C /\ to \in C
  <2>1. InStages(B, C)' = InStages(B, C) \union {p} /\ p \notin InStages(B, C)
    BY <1>1, <1>2, <1>5 DEF InStages
  <2>2. Cardinality(InStages(B, C)') = Cardinality(InStages(B, C)) + 1
    BY <1>3, <2>1, FS_AddElement
  <2> QED  BY <1>5, <2>2
<1>6. CASE p \in B /\ stage[p] \in C /\ to \notin C
  <2>1. InStages(B, C)' = InStages(B, C) \ {p} /\ p \in InStages(B, C)
    BY <1>1, <1>2, <1>6 DEF InStages
  <2>2. Cardinality(InStages(B, C)') = Cardinality(InStages(B, C)) - 1
    <3>1. Cardinality(InStages(B, C) \ {p}) = Cardinality(InStages(B, C)) - 1
      BY <1>3, <2>1, FS_RemoveElement, Zenon
    <3> QED  BY <2>1, <3>1, Zenon
  <2>3. Cardinality(InStages(B, C)) # 0
    BY <1>3, <2>1, FS_EmptySet
  <2> QED  BY <1>3, <1>6, <2>2, <2>3
<1> QED  BY <1>4, <1>5, <1>6
-------------------------------------------------------------------------------
(* The inductive invariant.                                                  *)

Holding == {"dialing", "succeeded", "success", "timedout", "failure", "leaving"}
Living == Holding \union {"released"}
Active == {"lookup", "dispatch", "wait", "store"}

\* Every slot taken belongs to a probe that has not given it back.
SlotsHeld ==
    \A i \in Rounds :
        /\ sem[i] = Cardinality(InStages(OfRound(i), Holding))
        /\ sem[i] <= MaxConcurrency

\* A round's WaitGroup counts its living probes.
GroupCounts ==
    \A i \in Rounds : wg[i] = Cardinality(InStages(OfRound(i), Living))

\* Only the newest round can be active, and then it holds the flag.
OneRound ==
    \A i \in Rounds :
        /\ at[i] \in Active => running /\ i = rounds
        /\ i > rounds => at[i] = "idle"
        /\ at[i] = "dispatch" => next[i] <= Len(Targets)

\* Probes live only in a round that has not finished waiting for them.
RoundOfLiving ==
    \A p \in Probes : stage[p] \in Living => at[p[1]] \in {"lookup", "dispatch", "wait"}

\* A probe is started once: those of the targets to come, and of the addresses
\* not yet handed out, have not been.
NotYetStarted ==
    \A p \in Probes :
        stage[p] # "none" =>
            \/ p[2] < next[p[1]]
            \/ p[2] = next[p[1]] /\ at[p[1]] \notin {"idle", "lookup"} /\ p[3] \notin ipAddrs[p[1]]

\* EachOutcomeInOneWindow, with the probes between the two halves of recording.
Succeeding == {"success"}
Failing == {"failure"}
Pending(h, C) == Cardinality(InStages(OfHost(h), C))

Recorded ==
    \A h \in Hosts :
        /\ total[h].success = collected[h].success + window[h].success + Pending(h, Succeeding)
        /\ total[h].failure = collected[h].failure + window[h].failure + Pending(h, Failing)

IInv == TypeOK /\ SlotsHeld /\ GroupCounts /\ OneRound /\ RoundOfLiving /\ NotYetStarted /\ Recorded

LEMMA InitIInv == Init => IInv
<1> SUFFICES ASSUME Init PROVE IInv
  OBVIOUS
<1> USE DEF Init
<1>1. TypeOK
  <2>1. /\ loop \in {"select", "returned"}
        /\ tick \in BOOLEAN /\ ctxDone \in BOOLEAN /\ running \in BOOLEAN
    OBVIOUS
  <2>2. /\ rounds \in 0 .. MaxRounds
        /\ at \in [Rounds -> {"idle", "lookup", "dispatch", "wait", "store", "over"}]
        /\ next \in [Rounds -> 1 .. Len(Targets) + 1]
        /\ ipAddrs \in [Rounds -> SUBSET Addresses]
        /\ sem \in [Rounds -> Nat] /\ wg \in [Rounds -> Nat]
    BY NetCheckAssumption, TargetsFinite
  <2>3. stage \in [Probes -> Stages]
    BY DEF Stages
  <2>4. /\ total \in [Hosts -> [success : Nat, failure : Nat, duration : Nat]]
        /\ window \in [Hosts -> Samples] /\ collected \in [Hosts -> Samples]
    BY DEF Samples, NoSamples
  <2>5. scrapes \in 0 .. MaxScrapes
    BY NetCheckAssumption
  <2> QED  BY <2>1, <2>2, <2>3, <2>4, <2>5 DEF TypeOK
<1>2. \A B, C : B \in SUBSET Probes /\ "none" \notin C => InStages(B, C) = {}
  BY DEF InStages
<1>3. Cardinality({}) = 0
  BY FS_EmptySet
<1>4. ASSUME NEW i \in Rounds
      PROVE  /\ Cardinality(InStages(OfRound(i), Holding)) = 0
             /\ Cardinality(InStages(OfRound(i), Living)) = 0
  <2>1. InStages(OfRound(i), Holding) = {} /\ InStages(OfRound(i), Living) = {}
    BY <1>2 DEF OfRound, Holding, Living
  <2> QED  BY <1>3, <2>1
<1>5. SlotsHeld /\ GroupCounts
  BY <1>4, NetCheckAssumption DEF SlotsHeld, GroupCounts
<1>6. Recorded
  <2> SUFFICES ASSUME NEW h \in Hosts
               PROVE  /\ total[h].success = collected[h].success + window[h].success + Pending(h, Succeeding)
                      /\ total[h].failure = collected[h].failure + window[h].failure + Pending(h, Failing)
    BY DEF Recorded
  <2>1. InStages(OfHost(h), Succeeding) = {} /\ InStages(OfHost(h), Failing) = {}
    BY <1>2 DEF OfHost, Succeeding, Failing
  <2>2. Pending(h, Succeeding) = 0 /\ Pending(h, Failing) = 0
    BY <1>3, <2>1 DEF Pending
  <2>3. total[h].success = 0 /\ total[h].failure = 0
    OBVIOUS
  <2>4. window[h] = NoSamples /\ collected[h] = NoSamples
    OBVIOUS
  <2> QED  BY <2>2, <2>3, <2>4 DEF NoSamples
<1>7. OneRound /\ RoundOfLiving /\ NotYetStarted
  BY DEF OneRound, RoundOfLiving, NotYetStarted, Active, Living, Holding
<1> QED  BY <1>1, <1>5, <1>6, <1>7 DEF IInv

-------------------------------------------------------------------------------
(* The steps of a probe.                                                     *)

\* What any step of a probe does: it moves on, gives its slot back when it
\* leaves and its place in the WaitGroup when it ends.
LEMMA ProbeMoves ==
    ASSUME NEW p \in Probes, ProbeStep(p)
    PROVE  \E from \in Living, to \in Stages \ {"none"} :
              /\ To(p, from, to)
              /\ sem' = IF from = "leaving" THEN [sem EXCEPT ![p[1]] = @ - 1] ELSE sem
              /\ wg' = IF from = "released" THEN [wg EXCEPT ![p[1]] = @ - 1] ELSE wg
              /\ to = "released" <=> from = "leaving"
              /\ to = "over" <=> from = "released"
              /\ UNCHANGED <<loop, tick, ctxDone, running, rounds, at, next, ipAddrs>>
<1> USE DEF InRound, StartVars, Living, Holding, Stages
<1>1. CASE Dial(p)
  BY <1>1 DEF Dial
<1>2. CASE Count(p, "succeeded", "success")
  BY <1>2 DEF Count
<1>3. CASE Count(p, "timedout", "failure")
  BY <1>3 DEF Count
<1>4. CASE Record(p, "success")
  BY <1>4 DEF Record
<1>5. CASE Record(p, "failure")
  BY <1>5 DEF Record
<1>6. CASE Release(p)
  BY <1>6 DEF Release
<1>7. CASE Done(p)
  BY <1>7 DEF Done
<1> QED  BY <1>1, <1>2, <1>3, <1>4, <1>5, <1>6, <1>7 DEF ProbeStep

\* The checker's part of the invariant through such a step.
LEMMA ProbeKeepsChecker ==
    ASSUME IInv, NEW p \in Probes, ProbeStep(p)
    PROVE  /\ SlotsHeld' /\ GroupCounts' /\ OneRound' /\ RoundOfLiving' /\ NotYetStarted'
           /\ sem' \in [Rounds -> Nat] /\ wg' \in [Rounds -> Nat]
           /\ stage' \in [Probes -> Stages]
<1>1. PICK from \in Living, to \in Stages \ {"none"} :
          /\ To(p, from, to)
          /\ sem' = IF from = "leaving" THEN [sem EXCEPT ![p[1]] = @ - 1] ELSE sem
          /\ wg' = IF from = "released" THEN [wg EXCEPT ![p[1]] = @ - 1] ELSE wg
          /\ to = "released" <=> from = "leaving"
          /\ to = "over" <=> from = "released"
          /\ UNCHANGED <<loop, tick, ctxDone, running, rounds, at, next, ipAddrs>>
  BY ProbeMoves
<1>2. /\ stage \in [Probes -> Stages] /\ sem \in [Rounds -> Nat] /\ wg \in [Rounds -> Nat]
      /\ p[1] \in Rounds /\ MaxConcurrency \in Nat
  BY NetCheckAssumption DEF IInv, TypeOK, Probes
<1>3. stage[p] = from /\ stage' = [stage EXCEPT ![p] = to]
  BY <1>1 DEF To
<1>4. \A i \in Rounds : OfRound(i) \in SUBSET Probes /\ (p \in OfRound(i) <=> p[1] = i)
  BY DEF OfRound
<1>5. ASSUME NEW i \in Rounds
      PROVE  /\ sem'[i] = Cardinality(InStages(OfRound(i), Holding)')
             /\ sem'[i] \in Nat /\ sem'[i] <= MaxConcurrency
  <2>1. sem[i] = Cardinality(InStages(OfRound(i), Holding)) /\ sem[i] <= MaxConcurrency
    BY DEF IInv, SlotsHeld
  <2>2. CASE from = "leaving" /\ p[1] = i
    <3>1. from \in Holding /\ to \notin Holding
      BY <1>1, <2>2 DEF Holding
    <3>2. /\ Cardinality(InStages(OfRound(i), Holding)') = Cardinality(InStages(OfRound(i), Holding)) - 1
          /\ Cardinality(InStages(OfRound(i), Holding)) > 0
      BY <1>2, <1>3, <1>4, <2>2, <3>1, StageMoves
    <3>3. sem'[i] = sem[i] - 1
      BY <1>1, <1>2, <2>2
    <3> QED  BY <1>2, <2>1, <3>2, <3>3
  <2>3. CASE ~(from = "leaving" /\ p[1] = i)
    <3>1. p \notin OfRound(i) \/ (from \in Holding <=> to \in Holding)
      BY <1>1, <1>4, <2>3 DEF Holding, Living, Stages
    <3>2. InStages(OfRound(i), Holding)' = InStages(OfRound(i), Holding)
      BY <1>2, <1>3, <1>4, <3>1, StageMoves
    <3>3. sem'[i] = sem[i]
      BY <1>1, <1>2, <2>3
    <3> QED  BY <1>2, <2>1, <3>2, <3>3
  <2> QED  BY <2>2, <2>3
<1>6. ASSUME NEW i \in Rounds
      PROVE  /\ wg'[i] = Cardinality(InStages(OfRound(i), Living)')
             /\ wg'[i] \in Nat
  <2>1. wg[i] = Cardinality(InStages(OfRound(i), Living))
    BY DEF IInv, GroupCounts
  <2>2. CASE from = "released" /\ p[1] = i
    <3>1. from \in Living /\ to \notin Living
      BY <1>1, <2>2 DEF Living, Holding
    <3>2. /\ Cardinality(InStages(OfRound(i), Living)') = Cardinality(InStages(OfRound(i), Living)) - 1
          /\ Cardinality(InStages(OfRound(i), Living)) > 0
      BY <1>2, <1>3, <1>4, <2>2, <3>1, StageMoves
    <3>3. wg'[i] = wg[i] - 1
      BY <1>1, <1>2, <2>2
    <3> QED  BY <1>2, <2>1, <3>2, <3>3
  <2>3. CASE ~(from = "released" /\ p[1] = i)
    <3>1. p \notin OfRound(i) \/ (from \in Living <=> to \in Living)
      BY <1>1, <1>4, <2>3 DEF Holding, Living, Stages
    <3>2. InStages(OfRound(i), Living)' = InStages(OfRound(i), Living)
      BY <1>2, <1>3, <1>4, <3>1, StageMoves
    <3>3. wg'[i] = wg[i]
      BY <1>1, <1>2, <2>3
    <3> QED  BY <1>2, <2>1, <3>2, <3>3
  <2> QED  BY <2>2, <2>3
<1>7. sem' \in [Rounds -> Nat] /\ wg' \in [Rounds -> Nat] /\ stage' \in [Probes -> Stages]
  <2>1. sem' = [i \in Rounds |-> sem'[i]] /\ wg' = [i \in Rounds |-> wg'[i]]
    BY <1>1, <1>2
  <2> QED  BY <1>1, <1>2, <1>3, <1>5, <1>6, <2>1
<1>8. SlotsHeld' /\ GroupCounts'
  BY <1>5, <1>6 DEF SlotsHeld, GroupCounts
<1>9. OneRound'
  BY <1>1 DEF IInv, OneRound
<1>10. RoundOfLiving' /\ NotYetStarted'
  <2>1. \A q \in Probes : q # p => stage'[q] = stage[q]
    BY <1>2, <1>3
  <2>2. stage[p] \in Living /\ stage[p] # "none"
    BY <1>3 DEF Living, Holding
  <2> QED  BY <1>1, <2>1, <2>2 DEF IInv, RoundOfLiving, NotYetStarted
<1> QED  BY <1>7, <1>8, <1>9, <1>10

-------------------------------------------------------------------------------
(* The steps of Start, Trigger and runRound.                                 *)

CheckerTypes ==
    /\ loop \in {"select", "returned"}
    /\ tick \in BOOLEAN /\ ctxDone \in BOOLEAN /\ running \in BOOLEAN
    /\ rounds \in 0 .. MaxRounds
    /\ at \in [Rounds -> {"idle", "lookup", "dispatch", "wait", "store", "over"}]
    /\ next \in [Rounds -> 1 .. Len(Targets) + 1]
    /\ ipAddrs \in [Rounds -> SUBSET Addresses]
    /\ sem \in [Rounds -> Nat]
    /\ wg \in [Rounds -> Nat]
    /\ stage \in [Probes -> Stages]

MetricTypes ==
    /\ total \in [Hosts -> [success : Nat, failure : Nat, duration : Nat]]
    /\ window \in [Hosts -> Samples]
    /\ scrapes \in 0 .. MaxScrapes
    /\ collected \in [Hosts -> Samples]

Checker == CheckerTypes /\ SlotsHeld /\ GroupCounts /\ OneRound /\ RoundOfLiving /\ NotYetStarted
Metrics == MetricTypes /\ Recorded

LEMMA Halves == IInv <=> Checker /\ Metrics
BY DEF IInv, TypeOK, Checker, CheckerTypes, Metrics, MetricTypes

\* While no probe moves, nothing changes in the counts of probes.
LEMMA SameStages ==
    ASSUME UNCHANGED <<stage, sem, wg>>
    PROVE  /\ SlotsHeld => SlotsHeld'
           /\ GroupCounts => GroupCounts'
           /\ UNCHANGED metricVars /\ Metrics => Metrics'
<1>1. \A B, C : InStages(B, C)' = InStages(B, C)
  BY DEF InStages
<1>2. SlotsHeld => SlotsHeld'
  BY <1>1 DEF SlotsHeld
<1>3. GroupCounts => GroupCounts'
  BY <1>1 DEF GroupCounts
<1>4. UNCHANGED metricVars /\ Metrics => Metrics'
  BY <1>1 DEF Metrics, MetricTypes, Recorded, Pending, metricVars
<1> QED  BY <1>2, <1>3, <1>4

LEMMA SelectSteps ==
    ASSUME Checker, Cancel \/ Tick \/ SeeDone \/ Trigger
    PROVE  Checker'
<1>1. UNCHANGED <<next, ipAddrs, sem, wg, stage>>
  BY DEF Cancel, Tick, SeeDone, Trigger, TakeTick, RoundVars
<1>2. SlotsHeld' /\ GroupCounts'
  BY <1>1, SameStages DEF Checker
<1>3. CASE UNCHANGED <<running, rounds, at>>
  <2>1. loop' \in {"select", "returned"}
    BY DEF Checker, CheckerTypes, Cancel, Tick, SeeDone, Trigger, TakeTick
  <2>2. tick' \in BOOLEAN /\ ctxDone' \in BOOLEAN
    BY DEF Checker, CheckerTypes, Cancel, Tick, SeeDone, Trigger, TakeTick
  <2>3. CheckerTypes'
    BY <1>1, <1>3, <2>1, <2>2 DEF Checker, CheckerTypes
  <2>4. OneRound' /\ RoundOfLiving' /\ NotYetStarted'
    BY <1>1, <1>3 DEF Checker, OneRound, RoundOfLiving, NotYetStarted
  <2> QED  BY <1>2, <2>3, <2>4 DEF Checker
<1>4. CASE Trigger /\ ~running /\ StartRound
  <2>1. /\ rounds \in 0 .. MaxRounds /\ rounds < MaxRounds /\ MaxRounds \in Nat
        /\ at \in [Rounds -> {"idle", "lookup", "dispatch", "wait", "store", "over"}]
        /\ rounds + 1 \in Rounds
    BY <1>4, NetCheckAssumption DEF Checker, CheckerTypes, StartRound, Rounds
  <2>2. at[rounds + 1] = "idle" /\ \A i \in Rounds : at[i] \notin Active
    BY <1>4, <2>1 DEF Checker, OneRound
  <2>3. /\ rounds' = rounds + 1 /\ running' = TRUE
        /\ at' = [at EXCEPT ![rounds + 1] = "lookup"]
        /\ UNCHANGED <<loop, ctxDone>> /\ tick' = FALSE
    BY <1>4 DEF StartRound, Trigger, TakeTick
  <2>4. tick' \in BOOLEAN /\ ctxDone' \in BOOLEAN /\ running' \in BOOLEAN
    BY <2>3 DEF Checker, CheckerTypes
  <2>5. CheckerTypes'
    BY <1>1, <2>1, <2>3, <2>4 DEF Checker, CheckerTypes
  <2>6. OneRound'
    BY <1>1, <2>1, <2>2, <2>3 DEF Checker, OneRound, Active, Rounds
  <2>7. RoundOfLiving'
    BY <1>1, <2>1, <2>2, <2>3 DEF Checker, RoundOfLiving, Probes
  <2>8. NotYetStarted'
    <3> SUFFICES ASSUME NEW p \in Probes, stage'[p] # "none"
                 PROVE  \/ p[2] < next'[p[1]]
                        \/ /\ p[2] = next'[p[1]] /\ at'[p[1]] \notin {"idle", "lookup"}
                           /\ p[3] \notin ipAddrs'[p[1]]
      BY DEF NotYetStarted
    <3>1. \/ p[2] < next[p[1]]
          \/ p[2] = next[p[1]] /\ at[p[1]] \notin {"idle", "lookup"} /\ p[3] \notin ipAddrs[p[1]]
      BY <1>1 DEF Checker, NotYetStarted
    <3>2. next'[p[1]] = next[p[1]] /\ ipAddrs'[p[1]] = ipAddrs[p[1]]
      BY <1>1
    <3>3. CASE p[1] = rounds + 1
      BY <2>2, <3>1, <3>2, <3>3
    <3>4. CASE p[1] # rounds + 1
      <4>1. at'[p[1]] = at[p[1]]
        BY <2>1, <2>3, <3>4 DEF Probes
      <4> QED  BY <3>1, <3>2, <4>1
    <3> QED  BY <3>3, <3>4
  <2> QED  BY <1>2, <2>5, <2>6, <2>7, <2>8 DEF Checker
<1>5. CASE Cancel \/ Tick \/ SeeDone
  BY <1>3, <1>5 DEF Cancel, Tick, SeeDone, RoundVars
<1>6. CASE Trigger
  BY <1>3, <1>4, <1>6 DEF Trigger
<1> QED  BY <1>5, <1>6

\* A step of the round that starts no probe.
LEMMA RoundKeeps ==
    ASSUME Checker, NEW i \in Rounds,
           \/ \E answer \in SUBSET Addresses : Resolved(i, answer)
           \/ Skip(i) \/ Abort(i) \/ AllDispatched(i) \/ Wait(i) \/ StoreFalse(i)
    PROVE  Checker'
<1>1. UNCHANGED <<loop, tick, ctxDone, rounds, sem, wg, stage>>
  BY DEF Resolved, Skip, Abort, AllDispatched, Wait, StoreFalse, Still, StartVars
<1>2. SlotsHeld' /\ GroupCounts'
  BY <1>1, SameStages DEF Checker
<1>3. /\ at \in [Rounds -> {"idle", "lookup", "dispatch", "wait", "store", "over"}]
      /\ next \in [Rounds -> 1 .. Len(Targets) + 1]
      /\ ipAddrs \in [Rounds -> SUBSET Addresses]
      /\ Len(Targets) \in Nat
  BY TargetsFinite DEF Checker, CheckerTypes
<1>4. \A p \in Probes : p[1] \in Rounds /\ p[2] \in 1 .. Len(Targets)
  BY TargetsFinite DEF Probes
<1> USE DEF RoundTo, Still, StartVars, Active
<1>5. CASE \E answer \in SUBSET Addresses : Resolved(i, answer)
  <2>1. PICK answer \in SUBSET Addresses : Resolved(i, answer)
    BY <1>5
  <2>2. /\ at[i] = "lookup" /\ at' = [at EXCEPT ![i] = "dispatch"] /\ next[i] <= Len(Targets)
        /\ ipAddrs' = [ipAddrs EXCEPT ![i] = answer] /\ UNCHANGED <<next, running>>
    BY <2>1 DEF Resolved
  <2>3. CheckerTypes'
    BY <1>1, <1>3, <2>2 DEF Checker, CheckerTypes
  <2>4. OneRound' /\ RoundOfLiving'
    BY <1>1, <1>3, <1>4, <2>2 DEF Checker, OneRound, RoundOfLiving
  <2>5. NotYetStarted'
    BY <1>1, <1>3, <1>4, <2>2 DEF Checker, NotYetStarted
  <2> QED  BY <1>2, <2>3, <2>4, <2>5 DEF Checker
<1>6. CASE Skip(i)
  <2>1. /\ at[i] = "lookup" /\ next[i] <= Len(Targets)
        /\ next' = [next EXCEPT ![i] = @ + 1] /\ UNCHANGED <<at, ipAddrs, running>>
    BY <1>6 DEF Skip
  <2>2. CheckerTypes'
    BY <1>1, <1>3, <2>1 DEF Checker, CheckerTypes
  <2>3. OneRound' /\ RoundOfLiving'
    BY <1>1, <1>3, <1>4, <2>1 DEF Checker, OneRound, RoundOfLiving
  <2>4. NotYetStarted'
    BY <1>1, <1>3, <1>4, <2>1 DEF Checker, NotYetStarted
  <2> QED  BY <1>2, <2>2, <2>3, <2>4 DEF Checker
<1>7. CASE Abort(i) \/ AllDispatched(i)
  <2>1. /\ at[i] \in {"lookup", "dispatch"} /\ at' = [at EXCEPT ![i] = "wait"]
        /\ at[i] = "lookup" => next[i] > Len(Targets)
        /\ UNCHANGED <<next, ipAddrs, running>>
    BY <1>7 DEF Abort, AllDispatched, RoundVars
  <2>2. CheckerTypes'
    BY <1>1, <1>3, <2>1 DEF Checker, CheckerTypes
  <2>3. OneRound' /\ RoundOfLiving'
    BY <1>1, <1>3, <1>4, <2>1 DEF Checker, OneRound, RoundOfLiving
  <2>4. NotYetStarted'
    BY <1>1, <1>3, <1>4, <2>1 DEF Checker, NotYetStarted
  <2> QED  BY <1>2, <2>2, <2>3, <2>4 DEF Checker
<1>8. CASE Wait(i)
  <2>1. /\ at[i] = "wait" /\ at' = [at EXCEPT ![i] = "store"] /\ wg[i] = 0
        /\ UNCHANGED <<next, ipAddrs, running>>
    BY <1>8 DEF Wait
  <2>2. InStages(OfRound(i), Living) = {}
    <3>1. OfRound(i) \in SUBSET Probes
      BY DEF OfRound
    <3>2. Cardinality(InStages(OfRound(i), Living)) = 0
      BY <2>1 DEF Checker, GroupCounts
    <3> QED  BY <3>1, <3>2, StagesFinite, FS_EmptySet
  <2>3. \A p \in Probes : p[1] = i => stage[p] \notin Living
    BY <2>2 DEF InStages, OfRound
  <2>4. CheckerTypes'
    BY <1>1, <1>3, <2>1 DEF Checker, CheckerTypes
  <2>5. OneRound' /\ RoundOfLiving'
    BY <1>1, <1>3, <1>4, <2>1, <2>3 DEF Checker, OneRound, RoundOfLiving
  <2>6. NotYetStarted'
    BY <1>1, <1>3, <1>4, <2>1 DEF Checker, NotYetStarted
  <2> QED  BY <1>2, <2>4, <2>5, <2>6 DEF Checker
<1>9. CASE StoreFalse(i)
  <2>1. /\ at[i] = "store" /\ at' = [at EXCEPT ![i] = "over"] /\ running' = FALSE
        /\ UNCHANGED <<next, ipAddrs>>
    BY <1>9 DEF StoreFalse
  <2>2. CheckerTypes'
    BY <1>1, <1>3, <2>1 DEF Checker, CheckerTypes
  <2>3. OneRound' /\ RoundOfLiving'
    BY <1>1, <1>3, <1>4, <2>1 DEF Checker, OneRound, RoundOfLiving
  <2>4. NotYetStarted'
    BY <1>1, <1>3, <1>4, <2>1 DEF Checker, NotYetStarted
  <2> QED  BY <1>2, <2>2, <2>3, <2>4 DEF Checker
<1> QED  BY <1>5, <1>6, <1>7, <1>8, <1>9

\* A step that starts a probe takes a slot and a place in the WaitGroup for it.
LEMMA DispatchKeeps ==
    ASSUME Checker, NEW i \in Rounds, NEW a \in Addresses, Dispatch(i, a)
    PROVE  /\ Checker'
           /\ <<i, next[i], a>> \in Probes
           /\ stage' = [stage EXCEPT ![<<i, next[i], a>>] = "dialing"]
           /\ stage[<<i, next[i], a>>] = "none"
<1> DEFINE p == <<i, next[i], a>>
<1>1. /\ at \in [Rounds -> {"idle", "lookup", "dispatch", "wait", "store", "over"}]
      /\ next \in [Rounds -> 1 .. Len(Targets) + 1]
      /\ ipAddrs \in [Rounds -> SUBSET Addresses]
      /\ sem \in [Rounds -> Nat] /\ wg \in [Rounds -> Nat]
      /\ stage \in [Probes -> Stages]
      /\ Len(Targets) \in Nat /\ MaxConcurrency \in Nat
  BY TargetsFinite, NetCheckAssumption DEF Checker, CheckerTypes
<1>2. /\ sem[i] < MaxConcurrency
      /\ sem' = [sem EXCEPT ![i] = @ + 1] /\ wg' = [wg EXCEPT ![i] = @ + 1]
      /\ at[i] = "dispatch" /\ a \in ipAddrs[i]
      /\ stage' = [stage EXCEPT ![p] = "dialing"]
      /\ ipAddrs' = [ipAddrs EXCEPT ![i] = @ \ {a}]
      /\ IF ipAddrs[i] = {a}
           THEN next' = [next EXCEPT ![i] = @ + 1] /\ at' = [at EXCEPT ![i] = "lookup"]
           ELSE UNCHANGED <<next, at>>
      /\ UNCHANGED <<loop, tick, ctxDone, running, rounds>>
  BY DEF Dispatch, Launch, StartVars
<1>3. next[i] <= Len(Targets)
  BY <1>2 DEF Checker, OneRound
<1>4. p \in Probes /\ p[1] = i /\ p[2] = next[i] /\ p[3] = a
  BY <1>1, <1>3, TargetsFinite DEF Probes
<1> HIDE DEF p
<1>5. stage[p] = "none"
  <2>1. ~(next[i] < next[i])
    BY <1>1
  <2> QED  BY <1>2, <1>4, <2>1 DEF Checker, NotYetStarted
<1>6. \A q \in Probes : q # p => stage'[q] = stage[q]
  BY <1>1, <1>2
<1>7. stage'[p] = "dialing"
  BY <1>1, <1>2, <1>4
<1>8. ASSUME NEW j \in Rounds
      PROVE  /\ OfRound(j) \in SUBSET Probes
             /\ p \in OfRound(j) <=> j = i
  BY <1>4 DEF OfRound
<1>9. SlotsHeld'
  <2> SUFFICES ASSUME NEW j \in Rounds
               PROVE  /\ sem'[j] = Cardinality(InStages(OfRound(j), Holding)')
                      /\ sem'[j] <= MaxConcurrency
    BY DEF SlotsHeld
  <2>1. /\ sem[j] = Cardinality(InStages(OfRound(j), Holding)) /\ sem[j] <= MaxConcurrency
        /\ "none" \notin Holding /\ "dialing" \in Holding
    BY DEF Checker, SlotsHeld, Holding
  <2>2. CASE j = i
    <3>1. /\ p \in Probes /\ p \in OfRound(j) /\ OfRound(j) \in SUBSET Probes
          /\ stage[p] \notin Holding
      BY <1>4, <1>5, <1>8, <2>1, <2>2
    <3>2. Cardinality(InStages(OfRound(j), Holding)') = Cardinality(InStages(OfRound(j), Holding)) + 1
      BY <1>1, <1>2, <2>1, <3>1, StageMoves
    <3> QED  BY <1>1, <1>2, <2>1, <2>2, <3>2
  <2>3. CASE j # i
    <3>1. InStages(OfRound(j), Holding)' = InStages(OfRound(j), Holding)
      BY <1>1, <1>2, <1>4, <1>8, <2>3, StageMoves
    <3> QED  BY <1>1, <1>2, <2>1, <2>3, <3>1
  <2> QED  BY <2>2, <2>3
<1>10. GroupCounts'
  <2> SUFFICES ASSUME NEW j \in Rounds
               PROVE  wg'[j] = Cardinality(InStages(OfRound(j), Living)')
    BY DEF GroupCounts
  <2>1. /\ wg[j] = Cardinality(InStages(OfRound(j), Living))
        /\ "none" \notin Living /\ "dialing" \in Living
    BY DEF Checker, GroupCounts, Living, Holding
  <2>2. CASE j = i
    <3>1. /\ p \in Probes /\ p \in OfRound(j) /\ OfRound(j) \in SUBSET Probes
          /\ stage[p] \notin Living
      BY <1>4, <1>5, <1>8, <2>1, <2>2
    <3>2. Cardinality(InStages(OfRound(j), Living)') = Cardinality(InStages(OfRound(j), Living)) + 1
      BY <1>1, <1>2, <2>1, <3>1, StageMoves
    <3> QED  BY <1>1, <1>2, <2>1, <2>2, <3>2
  <2>3. CASE j # i
    <3>1. InStages(OfRound(j), Living)' = InStages(OfRound(j), Living)
      BY <1>1, <1>2, <1>4, <1>8, <2>3, StageMoves
    <3> QED  BY <1>1, <1>2, <2>1, <2>3, <3>1
  <2> QED  BY <2>2, <2>3
<1>11. CheckerTypes'
  <2>1. stage' \in [Probes -> Stages]
    BY <1>1, <1>2 DEF Stages
  <2>2. /\ sem' \in [Rounds -> Nat] /\ wg' \in [Rounds -> Nat]
        /\ ipAddrs' \in [Rounds -> SUBSET Addresses]
    BY <1>1, <1>2
  <2>3. /\ next' \in [Rounds -> 1 .. Len(Targets) + 1]
        /\ at' \in [Rounds -> {"idle", "lookup", "dispatch", "wait", "store", "over"}]
    <3>1. CASE ipAddrs[i] = {a}
      <4>1. next' = [next EXCEPT ![i] = @ + 1] /\ at' = [at EXCEPT ![i] = "lookup"]
        BY <1>2, <3>1
      <4> QED  BY <1>1, <1>3, <4>1
    <3>2. CASE ipAddrs[i] # {a}
      BY <1>1, <1>2, <3>2
    <3> QED  BY <3>1, <3>2
  <2> QED  BY <1>2, <2>1, <2>2, <2>3 DEF Checker, CheckerTypes
<1>12. OneRound'
  BY <1>1, <1>2 DEF Checker, OneRound, Active
<1>13. RoundOfLiving'
  <2> SUFFICES ASSUME NEW q \in Probes, stage'[q] \in Living
               PROVE  at'[q[1]] \in {"lookup", "dispatch", "wait"}
    BY DEF RoundOfLiving
  <2>1. q[1] \in Rounds
    BY DEF Probes
  <2>2. at[q[1]] \in {"lookup", "dispatch", "wait"}
    BY <1>2, <1>4, <1>6 DEF Checker, RoundOfLiving
  <2> QED  BY <1>1, <1>2, <2>1, <2>2
<1>14. NotYetStarted'
  <2> SUFFICES ASSUME NEW q \in Probes, stage'[q] # "none"
               PROVE  \/ q[2] < next'[q[1]]
                      \/ /\ q[2] = next'[q[1]] /\ at'[q[1]] \notin {"idle", "lookup"}
                         /\ q[3] \notin ipAddrs'[q[1]]
    BY DEF NotYetStarted
  <2>1. q[1] \in Rounds /\ q[2] \in Nat
    BY <1>1, TargetsFinite DEF Probes
  <2>2. CASE q = p
    <3>1. q[1] = i /\ q[2] = next[i] /\ q[3] = a
      BY <1>4, <2>2
    <3>2. CASE ipAddrs[i] = {a}
      BY <1>1, <1>2, <3>1, <3>2
    <3>3. CASE ipAddrs[i] # {a}
      BY <1>1, <1>2, <3>1, <3>3
    <3> QED  BY <3>2, <3>3
  <2>3. CASE q # p
    <3>1. \/ q[2] < next[q[1]]
          \/ q[2] = next[q[1]] /\ at[q[1]] \notin {"idle", "lookup"} /\ q[3] \notin ipAddrs[q[1]]
      BY <1>6, <2>3 DEF Checker, NotYetStarted
    <3>2. CASE q[1] = i
      BY <1>1, <1>2, <2>1, <3>1, <3>2
    <3>3. CASE q[1] # i
      BY <1>1, <1>2, <2>1, <3>1, <3>3
    <3> QED  BY <3>2, <3>3
  <2> QED  BY <2>2, <2>3
<1> QED  BY <1>2, <1>4, <1>5, <1>9, <1>10, <1>11, <1>12, <1>13, <1>14 DEF Checker, p

-------------------------------------------------------------------------------
(* The metrics.                                                              *)

\* Outcomes about to enter a window are those of the probe that moves.
LEMMA PendingMoves ==
    ASSUME stage \in [Probes -> Stages], NEW p \in Probes, NEW from, NEW to,
           To(p, from, to), NEW h, NEW C
    PROVE  /\ HostOf(p) # h \/ (from \in C <=> to \in C) => Pending(h, C)' = Pending(h, C)
           /\ HostOf(p) = h /\ from \notin C /\ to \in C => Pending(h, C)' = Pending(h, C) + 1
           /\ HostOf(p) = h /\ from \in C /\ to \notin C => Pending(h, C)' = Pending(h, C) - 1
<1>0. stage[p] = from /\ stage' = [stage EXCEPT ![p] = to]
  BY DEF To
<1>1. OfHost(h) \in SUBSET Probes /\ (p \in OfHost(h) <=> HostOf(p) = h)
  BY DEF OfHost
<1>3. HostOf(p) # h \/ (from \in C <=> to \in C) => Pending(h, C)' = Pending(h, C)
  BY <1>0, <1>1, StageMoves DEF Pending
<1>4. HostOf(p) = h /\ from \notin C /\ to \in C => Pending(h, C)' = Pending(h, C) + 1
  BY <1>0, <1>1, StageMoves DEF Pending
<1>5. HostOf(p) = h /\ from \in C /\ to \notin C => Pending(h, C)' = Pending(h, C) - 1
  BY <1>0, <1>1, StageMoves DEF Pending
<1> QED  BY <1>3, <1>4, <1>5

\* A move between stages outside recording records nothing.
LEMMA MoveBeside ==
    ASSUME stage \in [Probes -> Stages], NEW p \in Probes, NEW from, NEW to,
           To(p, from, to), {from, to} \intersect {"success", "failure"} = {}
    PROVE  \A h : Pending(h, Succeeding)' = Pending(h, Succeeding) /\ Pending(h, Failing)' = Pending(h, Failing)
<1>1. from \notin Succeeding /\ to \notin Succeeding /\ from \notin Failing /\ to \notin Failing
  BY DEF Succeeding, Failing
<1> TAKE h
<1>2. Pending(h, Succeeding)' = Pending(h, Succeeding)
  BY <1>1, PendingMoves
<1>3. Pending(h, Failing)' = Pending(h, Failing)
  BY <1>1, PendingMoves
<1> QED  BY <1>2, <1>3

\* Starting a probe records nothing.
LEMMA DispatchMetrics ==
    ASSUME IInv, NEW i \in Rounds, NEW a \in Addresses, Dispatch(i, a)
    PROVE  Metrics'
<1>1. Checker /\ Metrics /\ stage \in [Probes -> Stages]
  BY Halves DEF Checker, CheckerTypes
<1>2. PICK p \in Probes : To(p, "none", "dialing")
  BY <1>1, DispatchKeeps DEF To
<1>3. UNCHANGED metricVars
  BY DEF Dispatch, Launch
<1>4. \A h : Pending(h, Succeeding)' = Pending(h, Succeeding) /\ Pending(h, Failing)' = Pending(h, Failing)
  BY <1>1, <1>2, MoveBeside
<1> QED  BY <1>1, <1>3, <1>4 DEF Metrics, MetricTypes, Recorded, metricVars

\* A step of a probe: the first half of recording an outcome makes it pending,
\* the second moves it into the window.
LEMMA ProbeMetrics ==
    ASSUME IInv, NEW p \in Probes, ProbeStep(p)
    PROVE  Metrics'
<1> DEFINE h == HostOf(p)
<1>1. /\ total \in [Hosts -> [success : Nat, failure : Nat, duration : Nat]]
      /\ window \in [Hosts -> [success : Nat, failure : Nat]]
      /\ collected \in [Hosts -> [success : Nat, failure : Nat]]
      /\ stage \in [Probes -> Stages]
      /\ Recorded /\ MetricTypes
  BY Halves DEF Checker, CheckerTypes, Metrics, MetricTypes, Samples
<1>2. h \in Hosts
  BY DEF Probes, HostOf, Hosts
<1>3. \A k \in Hosts : Pending(k, Succeeding) \in Nat /\ Pending(k, Failing) \in Nat
  BY StagesFinite DEF Pending, OfHost
<1> HIDE DEF h
<1>4. CASE Dial(p)
  <2>1. PICK to \in {"succeeded", "timedout", "leaving"} : To(p, "dialing", to)
    BY <1>4 DEF Dial
  <2>2. /\ total' = [total EXCEPT ![h].duration = @ + 1]
        /\ UNCHANGED <<window, scrapes, collected>>
    BY <1>4 DEF Dial, Unrecorded, h
  <2>3. \A k : Pending(k, Succeeding)' = Pending(k, Succeeding) /\ Pending(k, Failing)' = Pending(k, Failing)
    BY <1>1, <2>1, MoveBeside
  <2>4. /\ total' \in [Hosts -> [success : Nat, failure : Nat, duration : Nat]]
        /\ \A k \in Hosts : total'[k].success = total[k].success /\ total'[k].failure = total[k].failure
    BY <1>1, <1>2, <2>2
  <2> QED  BY <1>1, <2>2, <2>3, <2>4 DEF Metrics, MetricTypes, Recorded
<1>5. CASE Count(p, "succeeded", "success")
  <2>0. /\ "succeeded" \notin Succeeding /\ "success" \in Succeeding
        /\ "succeeded" \notin Failing /\ "success" \notin Failing
    BY DEF Succeeding, Failing
  <2>1. /\ To(p, "succeeded", "success")
        /\ total' = [total EXCEPT ![h].success = @ + 1]
        /\ UNCHANGED <<window, scrapes, collected>>
    BY <1>5 DEF Count, Unrecorded, h
  <2>2. ASSUME NEW k \in Hosts
        PROVE  /\ Pending(k, Succeeding)' = Pending(k, Succeeding) + (IF k = h THEN 1 ELSE 0)
               /\ Pending(k, Failing)' = Pending(k, Failing)
    <3>1. Pending(k, Failing)' = Pending(k, Failing)
      BY <1>1, <2>0, <2>1, PendingMoves
    <3>2. Pending(k, Succeeding)' = Pending(k, Succeeding) + (IF k = h THEN 1 ELSE 0)
      BY <1>1, <1>3, <2>0, <2>1, PendingMoves DEF h
    <3> QED  BY <3>1, <3>2
  <2>3. /\ total' \in [Hosts -> [success : Nat, failure : Nat, duration : Nat]]
        /\ \A k \in Hosts : /\ total'[k].success = total[k].success + (IF k = h THEN 1 ELSE 0)
                            /\ total'[k].failure = total[k].failure
    BY <1>1, <1>2, <2>1
  <2>4. \A k \in Hosts : collected[k].success \in Nat /\ window[k].success \in Nat
    BY <1>1
  <2>5. Recorded'
    BY <1>1, <1>3, <2>1, <2>2, <2>3, <2>4 DEF Recorded
  <2> QED  BY <1>1, <2>1, <2>3, <2>5 DEF Metrics, MetricTypes
<1>6. CASE Count(p, "timedout", "failure")
  <2>0. /\ "timedout" \notin Failing /\ "failure" \in Failing
        /\ "timedout" \notin Succeeding /\ "failure" \notin Succeeding
    BY DEF Succeeding, Failing
  <2>1. /\ To(p, "timedout", "failure")
        /\ total' = [total EXCEPT ![h].failure = @ + 1]
        /\ UNCHANGED <<window, scrapes, collected>>
    BY <1>6 DEF Count, Unrecorded, h
  <2>2. ASSUME NEW k \in Hosts
        PROVE  /\ Pending(k, Failing)' = Pending(k, Failing) + (IF k = h THEN 1 ELSE 0)
               /\ Pending(k, Succeeding)' = Pending(k, Succeeding)
    <3>1. Pending(k, Succeeding)' = Pending(k, Succeeding)
      BY <1>1, <2>0, <2>1, PendingMoves
    <3>2. Pending(k, Failing)' = Pending(k, Failing) + (IF k = h THEN 1 ELSE 0)
      BY <1>1, <1>3, <2>0, <2>1, PendingMoves DEF h
    <3> QED  BY <3>1, <3>2
  <2>3. /\ total' \in [Hosts -> [success : Nat, failure : Nat, duration : Nat]]
        /\ \A k \in Hosts : /\ total'[k].failure = total[k].failure + (IF k = h THEN 1 ELSE 0)
                            /\ total'[k].success = total[k].success
    BY <1>1, <1>2, <2>1
  <2>4. \A k \in Hosts : collected[k].failure \in Nat /\ window[k].failure \in Nat
    BY <1>1
  <2>5. Recorded'
    BY <1>1, <1>3, <2>1, <2>2, <2>3, <2>4 DEF Recorded
  <2> QED  BY <1>1, <2>1, <2>3, <2>5 DEF Metrics, MetricTypes
<1>7. CASE Record(p, "success")
  <2>0. /\ "success" \in Succeeding /\ "leaving" \notin Succeeding
        /\ "success" \notin Failing /\ "leaving" \notin Failing
    BY DEF Succeeding, Failing
  <2>1. /\ To(p, "success", "leaving")
        /\ window' = [window EXCEPT ![h].success = @ + 1]
        /\ UNCHANGED <<total, scrapes, collected>>
    BY <1>7 DEF Record, h
  <2>2. ASSUME NEW k \in Hosts
        PROVE  /\ Pending(k, Succeeding)' = Pending(k, Succeeding) - (IF k = h THEN 1 ELSE 0)
               /\ Pending(k, Failing)' = Pending(k, Failing)
    <3>1. Pending(k, Failing)' = Pending(k, Failing)
      BY <1>1, <2>0, <2>1, PendingMoves
    <3>2. Pending(k, Succeeding)' = Pending(k, Succeeding) - (IF k = h THEN 1 ELSE 0)
      BY <1>1, <1>3, <2>0, <2>1, PendingMoves DEF h
    <3> QED  BY <3>1, <3>2
  <2>3. /\ window' \in [Hosts -> [success : Nat, failure : Nat]]
        /\ \A k \in Hosts : /\ window'[k].success = window[k].success + (IF k = h THEN 1 ELSE 0)
                            /\ window'[k].failure = window[k].failure
    BY <1>1, <1>2, <2>1
  <2>4. \A k \in Hosts : collected[k].success \in Nat /\ window[k].success \in Nat
    BY <1>1
  <2>5. Recorded'
    BY <1>1, <1>3, <2>1, <2>2, <2>3, <2>4 DEF Recorded
  <2> QED  BY <1>1, <2>1, <2>3, <2>5 DEF Metrics, MetricTypes, Samples
<1>8. CASE Record(p, "failure")
  <2>0. /\ "failure" \in Failing /\ "leaving" \notin Failing
        /\ "failure" \notin Succeeding /\ "leaving" \notin Succeeding
    BY DEF Succeeding, Failing
  <2>1. /\ To(p, "failure", "leaving")
        /\ window' = [window EXCEPT ![h].failure = @ + 1]
        /\ UNCHANGED <<total, scrapes, collected>>
    BY <1>8 DEF Record, h
  <2>2. ASSUME NEW k \in Hosts
        PROVE  /\ Pending(k, Failing)' = Pending(k, Failing) - (IF k = h THEN 1 ELSE 0)
               /\ Pending(k, Succeeding)' = Pending(k, Succeeding)
    <3>1. Pending(k, Succeeding)' = Pending(k, Succeeding)
      BY <1>1, <2>0, <2>1, PendingMoves
    <3>2. Pending(k, Failing)' = Pending(k, Failing) - (IF k = h THEN 1 ELSE 0)
      BY <1>1, <1>3, <2>0, <2>1, PendingMoves DEF h
    <3> QED  BY <3>1, <3>2
  <2>3. /\ window' \in [Hosts -> [success : Nat, failure : Nat]]
        /\ \A k \in Hosts : /\ window'[k].failure = window[k].failure + (IF k = h THEN 1 ELSE 0)
                            /\ window'[k].success = window[k].success
    BY <1>1, <1>2, <2>1
  <2>4. \A k \in Hosts : collected[k].failure \in Nat /\ window[k].failure \in Nat
    BY <1>1
  <2>5. Recorded'
    BY <1>1, <1>3, <2>1, <2>2, <2>3, <2>4 DEF Recorded
  <2> QED  BY <1>1, <2>1, <2>3, <2>5 DEF Metrics, MetricTypes, Samples
<1>9. CASE Release(p) \/ Done(p)
  <2>1. To(p, "leaving", "released") \/ To(p, "released", "over")
    BY <1>9 DEF Release, Done
  <2>2. UNCHANGED metricVars
    BY <1>9 DEF Release, Done, Unrecorded, metricVars
  <2>3. \A k : Pending(k, Succeeding)' = Pending(k, Succeeding) /\ Pending(k, Failing)' = Pending(k, Failing)
    BY <1>1, <2>1, MoveBeside
  <2> QED  BY <1>1, <2>2, <2>3 DEF Metrics, MetricTypes, Recorded, metricVars
<1> QED  BY <1>4, <1>5, <1>6, <1>7, <1>8, <1>9 DEF ProbeStep

\* A scrape moves the whole window to what has been collected.
LEMMA CollectMetrics == ASSUME IInv, Collect PROVE Metrics'
<1>1. /\ window \in [Hosts -> [success : Nat, failure : Nat]]
      /\ collected \in [Hosts -> [success : Nat, failure : Nat]]
      /\ scrapes \in 0 .. MaxScrapes /\ MaxScrapes \in Nat
      /\ Recorded /\ MetricTypes
  BY Halves, NetCheckAssumption DEF Metrics, MetricTypes, Samples
<1>2. /\ scrapes < MaxScrapes /\ scrapes' = scrapes + 1
      /\ collected' = [h \in Hosts |->
                         [success |-> collected[h].success + window[h].success,
                          failure |-> collected[h].failure + window[h].failure]]
      /\ window' = [h \in Hosts |-> NoSamples]
      /\ UNCHANGED <<checkerVars, total>>
  BY DEF Collect, Expose
<1>3. \A h : Pending(h, Succeeding)' = Pending(h, Succeeding) /\ Pending(h, Failing)' = Pending(h, Failing)
  BY <1>2 DEF Pending, InStages, checkerVars
<1>4. \A h \in Hosts : Pending(h, Succeeding) \in Nat /\ Pending(h, Failing) \in Nat
  BY StagesFinite DEF Pending, OfHost
<1>5. MetricTypes'
  <2>1. window' \in [Hosts -> Samples]
    BY <1>2 DEF Samples, NoSamples
  <2>2. collected' \in [Hosts -> Samples]
    BY <1>1, <1>2 DEF Samples
  <2>3. scrapes' \in 0 .. MaxScrapes
    BY <1>1, <1>2
  <2> QED  BY <1>1, <1>2, <2>1, <2>2, <2>3 DEF MetricTypes
<1>6. Recorded'
  <2> SUFFICES ASSUME NEW h \in Hosts
               PROVE  /\ total'[h].success = collected'[h].success + window'[h].success + Pending(h, Succeeding)'
                      /\ total'[h].failure = collected'[h].failure + window'[h].failure + Pending(h, Failing)'
    BY DEF Recorded
  <2>1. /\ collected'[h].success = collected[h].success + window[h].success
        /\ collected'[h].failure = collected[h].failure + window[h].failure
        /\ window'[h].success = 0 /\ window'[h].failure = 0
        /\ total' = total
    BY <1>2 DEF NoSamples
  <2>2. /\ collected[h].success \in Nat /\ window[h].success \in Nat
        /\ collected[h].failure \in Nat /\ window[h].failure \in Nat
    BY <1>1
  <2> QED  BY <1>1, <1>3, <1>4, <2>1, <2>2 DEF Recorded
<1> QED  BY <1>5, <1>6 DEF Metrics

-------------------------------------------------------------------------------
(* Every step keeps the invariant.                                           *)

LEMMA NextIInv == IInv /\ [Next]_vars => IInv'
<1> SUFFICES ASSUME IInv, [Next]_vars PROVE Checker' /\ Metrics'
  BY DEF IInv, TypeOK, Checker, CheckerTypes, Metrics, MetricTypes
<1>1. Checker /\ Metrics
  BY Halves
<1>2. CASE Cancel \/ Tick \/ SeeDone \/ Trigger
  <2>1. UNCHANGED <<stage, sem, wg>> /\ UNCHANGED metricVars
    BY <1>2 DEF Cancel, Tick, SeeDone, Trigger, TakeTick, RoundVars
  <2> QED  BY <1>1, <1>2, <2>1, SelectSteps, SameStages
<1>3. ASSUME NEW i \in Rounds,
             \/ \E answer \in SUBSET Addresses : Resolved(i, answer)
             \/ Skip(i) \/ Abort(i) \/ AllDispatched(i) \/ Wait(i) \/ StoreFalse(i)
      PROVE  Checker' /\ Metrics'
  <2>1. UNCHANGED <<stage, sem, wg>> /\ UNCHANGED metricVars
    BY <1>3 DEF Resolved, Skip, Abort, AllDispatched, Wait, StoreFalse, Still
  <2> QED  BY <1>1, <1>3, <2>1, RoundKeeps, SameStages
<1>4. ASSUME NEW i \in Rounds, NEW a \in Addresses, Dispatch(i, a)
      PROVE  Checker' /\ Metrics'
  BY <1>1, <1>4, DispatchKeeps, DispatchMetrics
<1>5. ASSUME NEW p \in Probes, ProbeStep(p)
      PROVE  Checker' /\ Metrics'
  <2>1. UNCHANGED <<loop, tick, ctxDone, running, rounds, at, next, ipAddrs>>
    BY <1>5, ProbeMoves
  <2>2. /\ SlotsHeld' /\ GroupCounts' /\ OneRound' /\ RoundOfLiving' /\ NotYetStarted'
        /\ sem' \in [Rounds -> Nat] /\ wg' \in [Rounds -> Nat] /\ stage' \in [Probes -> Stages]
    BY <1>5, ProbeKeepsChecker
  <2>3. CheckerTypes'
    BY <1>1, <2>1, <2>2 DEF Checker, CheckerTypes
  <2>4. Checker'
    BY <2>2, <2>3 DEF Checker
  <2> QED  BY <1>5, <2>4, ProbeMetrics
<1>6. CASE Collect
  <2>1. UNCHANGED checkerVars
    BY <1>6 DEF Collect, Expose
  <2>2. Checker'
    <3>1. SlotsHeld' /\ GroupCounts'
      BY <1>1, <2>1, SameStages DEF Checker, checkerVars
    <3>2. CheckerTypes'
      BY <1>1, <2>1 DEF Checker, CheckerTypes, checkerVars
    <3>3. OneRound' /\ RoundOfLiving' /\ NotYetStarted'
      BY <1>1, <2>1 DEF Checker, OneRound, RoundOfLiving, NotYetStarted, checkerVars
    <3> QED  BY <3>1, <3>2, <3>3 DEF Checker
  <2> QED  BY <1>6, <2>2, CollectMetrics
<1>7. CASE UNCHANGED vars
  <2>1. UNCHANGED metricVars /\ UNCHANGED <<stage, sem, wg>>
    BY <1>7 DEF vars, checkerVars
  <2>2. SlotsHeld' /\ GroupCounts' /\ Metrics'
    BY <1>1, <2>1, SameStages DEF Checker
  <2>3. CheckerTypes'
    BY <1>1, <1>7 DEF Checker, CheckerTypes, vars, checkerVars
  <2>4. OneRound' /\ RoundOfLiving' /\ NotYetStarted'
    BY <1>1, <1>7 DEF Checker, OneRound, RoundOfLiving, NotYetStarted, vars, checkerVars
  <2> QED  BY <2>2, <2>3, <2>4 DEF Checker
<1> QED  BY <1>2, <1>3, <1>4, <1>5, <1>6, <1>7 DEF Next, RoundStep

LEMMA Invariance == Spec => []IInv
<1>1. Init => IInv
  BY InitIInv
<1>2. IInv /\ [Next]_vars => IInv'
  BY NextIInv
<1> QED  BY <1>1, <1>2, PTL DEF Spec

-------------------------------------------------------------------------------
(* The theorems.                                                             *)

\* Every variable of the checker and its metrics keeps its type; no WaitGroup
\* counter and no number of taken slots goes negative (checker.go, runRound).
THEOREM TypeCorrect == Spec => []TypeOK
<1>1. IInv => TypeOK
  BY DEF IInv
<1> QED  BY <1>1, Invariance, PTL

\* Rounds never overlap: a probe lives only while its round holds the running
\* flag (checker.go, Trigger), whatever ticks and cancellations come.
THEOREM RoundsApart == Spec => []ProbesWithinRunningRound
<1>1. IInv => ProbesWithinRunningRound
  <2> SUFFICES ASSUME IInv, NEW p \in Probes, Live(p)
               PROVE  running /\ at[p[1]] \in {"lookup", "dispatch", "wait"}
    BY DEF ProbesWithinRunningRound
  <2>1. stage[p] \in Living /\ p[1] \in Rounds
    BY DEF IInv, TypeOK, Live, Stages, Living, Holding, Probes
  <2>2. at[p[1]] \in {"lookup", "dispatch", "wait"}
    BY <2>1 DEF IInv, RoundOfLiving
  <2>3. running
    BY <2>1, <2>2 DEF IInv, OneRound, Active
  <2> QED  BY <2>2, <2>3
<1> QED  BY <1>1, Invariance, PTL

\* The slots of one round bound the dials of all rounds together (checker.go,
\* the channel sem of runRound), because all that dial belong to one round.
THEOREM DialBound == Spec => []DialsBounded
<1>1. IInv => DialsBounded
  <2> SUFFICES ASSUME IInv
               PROVE  Cardinality({p \in Probes : stage[p] = "dialing"}) <= MaxConcurrency
    BY DEF DialsBounded
  <2> DEFINE D == {p \in Probes : stage[p] = "dialing"}
  <2>1. MaxConcurrency \in Nat
    BY NetCheckAssumption
  <2>2. ASSUME NEW p \in D
        PROVE  p \in Probes /\ stage[p] \in Holding /\ p[1] \in Rounds /\ p[1] = rounds
    <3>1. p \in Probes /\ stage[p] \in Holding /\ stage[p] \in Living /\ p[1] \in Rounds
      BY DEF Holding, Living, Probes
    <3>2. at[p[1]] \in Active
      BY <3>1 DEF IInv, RoundOfLiving, Active
    <3> QED  BY <3>1, <3>2 DEF IInv, OneRound
  <2>3. CASE D = {}
    BY <2>1, <2>3, FS_EmptySet
  <2>4. CASE D # {}
    <3>1. rounds \in Rounds
      BY <2>2, <2>4
    <3>2. D \in SUBSET InStages(OfRound(rounds), Holding)
      BY <2>2 DEF InStages, OfRound
    <3>3. OfRound(rounds) \in SUBSET Probes
      BY DEF OfRound
    <3>4. /\ IsFiniteSet(InStages(OfRound(rounds), Holding))
          /\ Cardinality(InStages(OfRound(rounds), Holding)) \in Nat
      BY <3>3, StagesFinite
    <3>5. Cardinality(D) <= Cardinality(InStages(OfRound(rounds), Holding)) /\ IsFiniteSet(D)
      BY <3>2, <3>4, FS_Subset
    <3>6. Cardinality(D) \in Nat
      BY <3>5, FS_CardinalityType
    <3>7. Cardinality(InStages(OfRound(rounds), Holding)) <= MaxConcurrency
      BY <3>1 DEF IInv, SlotsHeld
    <3> QED  BY <2>1, <3>4, <3>5, <3>6, <3>7
  <2> QED  BY <2>3, <2>4
<1> QED  BY <1>1, Invariance, PTL

\* No outcome is lost or counted twice between the totals and the windows of
\* the scrapes (metrics.go, RecordSuccess and Collect).
THEOREM OneWindow == Spec => []EachOutcomeInOneWindow
<1>1. IInv => EachOutcomeInOneWindow
  <2> SUFFICES ASSUME IInv, NEW h \in Hosts
               PROVE  /\ total[h].success = collected[h].success + window[h].success
                            + Cardinality({p \in Probes : HostOf(p) = h /\ stage[p] = "success"})
                      /\ total[h].failure = collected[h].failure + window[h].failure
                            + Cardinality({p \in Probes : HostOf(p) = h /\ stage[p] = "failure"})
    BY DEF EachOutcomeInOneWindow
  <2>1. {p \in Probes : HostOf(p) = h /\ stage[p] = "success"} = InStages(OfHost(h), Succeeding)
    BY DEF InStages, OfHost, Succeeding
  <2>2. {p \in Probes : HostOf(p) = h /\ stage[p] = "failure"} = InStages(OfHost(h), Failing)
    BY DEF InStages, OfHost, Failing
  <2> QED  BY <2>1, <2>2 DEF IInv, Recorded, Pending
<1> QED  BY <1>1, Invariance, PTL

===============================================================================
