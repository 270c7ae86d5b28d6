------------------------ MODULE DamakuController_proofs ------------------------
(***************************************************************************)
(* Theorems about the centre's controller, for any messages, objects and   *)
(* capacities: an object of the pools has one owner at a time.             *)
(***************************************************************************)
EXTENDS DamakuController, FiniteSetTheorems, FunctionTheorems, SequenceTheorems,
        TLAPS

-------------------------------------------------------------------------------
(* How often an object is in a channel.                                      *)

At(s, o) == {i \in DOMAIN s : s[i] = o}
Count(s, o) == Cardinality(At(s, o))

\* Counts are numbers.
LEMMA CountType ==
    ASSUME NEW S, NEW s \in Seq(S), NEW o
    PROVE  IsFiniteSet(At(s, o)) /\ Count(s, o) \in Nat
<1>1. At(s, o) \in SUBSET (1 .. Len(s)) /\ IsFiniteSet(1 .. Len(s))
  BY FS_Interval DEF At
<1>2. IsFiniteSet(At(s, o))
  BY <1>1, FS_Subset
<1> QED  BY <1>2, FS_CardinalityType DEF Count

\* The empty channel and that of one object.
LEMMA CountSmall ==
    /\ \A o : Count(<<>>, o) = 0
    /\ \A x, o : Count(<<x>>, o) = IF x = o THEN 1 ELSE 0
<1>1. ASSUME NEW o PROVE Count(<<>>, o) = 0
  <2>1. At(<<>>, o) = {}
    BY DEF At
  <2> QED  BY <2>1, FS_EmptySet DEF Count
<1>2. ASSUME NEW x, NEW o PROVE Count(<<x>>, o) = IF x = o THEN 1 ELSE 0
  <2>1. At(<<x>>, o) = IF x = o THEN {1} ELSE {}
    BY DEF At
  <2> QED  BY <2>1, FS_EmptySet, FS_Singleton DEF Count
<1> QED  BY <1>1, <1>2

\* A send adds the object it sends.
LEMMA CountSend ==
    ASSUME NEW S, NEW s \in Seq(S), NEW x \in S, NEW o
    PROVE  Count(s \o <<x>>, o) = Count(s, o) + (IF x = o THEN 1 ELSE 0)
<1>1. /\ Len(s) \in Nat /\ Len(s \o <<x>>) = Len(s) + 1
      /\ s \o <<x>> \in Seq(S)
      /\ \A i \in 1 .. Len(s) : (s \o <<x>>)[i] = s[i]
      /\ (s \o <<x>>)[Len(s) + 1] = x
  OBVIOUS
<1>2. IsFiniteSet(At(s, o)) /\ Count(s, o) \in Nat
  BY CountType
<1>3. CASE x = o
  <2>1. At(s \o <<x>>, o) = At(s, o) \union {Len(s) + 1} /\ Len(s) + 1 \notin At(s, o)
    BY <1>1, <1>3 DEF At
  <2> QED  BY <1>2, <1>3, <2>1, FS_AddElement DEF Count
<1>4. CASE x # o
  <2>1. At(s \o <<x>>, o) = At(s, o)
    BY <1>1, <1>4 DEF At
  <2> QED  BY <1>2, <1>4, <2>1 DEF Count
<1> QED  BY <1>3, <1>4

\* A receive takes one, the first: the others move up by one place.
LEMMA CountReceive ==
    ASSUME NEW S, NEW s \in Seq(S), s # <<>>, NEW o
    PROVE  Count(s, o) = Count(Tail(s), o) + (IF Head(s) = o THEN 1 ELSE 0)
<1> DEFINE A == At(Tail(s), o)
           B == {i \in At(s, o) : i # 1}
           f == [i \in A |-> i + 1]
<1>1. /\ Len(s) \in Nat /\ Len(s) > 0 /\ DOMAIN s = 1 .. Len(s)
      /\ Tail(s) \in Seq(S) /\ Len(Tail(s)) = Len(s) - 1
      /\ \A i \in 1 .. Len(s) - 1 : Tail(s)[i] = s[i + 1]
      /\ Head(s) = s[1]
  BY HeadTailProperties
<1>2. IsFiniteSet(A) /\ Count(Tail(s), o) \in Nat
  BY <1>1, CountType
<1>3. f \in Bijection(A, B)
  <2>1. A \subseteq 1 .. Len(s) - 1 /\ \A i \in A : i + 1 \in B
    BY <1>1 DEF At
  <2>2. \A j \in B : j - 1 \in A /\ f[j - 1] = j
    BY <1>1 DEF At
  <2>3. f \in [A -> B] /\ \A i, j \in A : f[i] = f[j] => i = j
    BY <2>1
  <2> QED  BY <2>2, <2>3, Fun_IsBij
<1>4. IsFiniteSet(B) /\ Cardinality(B) = Count(Tail(s), o)
  BY <1>2, <1>3, FS_Bijection DEF ExistsBijection, Count
<1>5. CASE Head(s) = o
  <2>1. At(s, o) = B \union {1} /\ 1 \notin B
    BY <1>1, <1>5 DEF At
  <2> HIDE DEF A, B, f
  <2>2. Cardinality(B \union {1}) = Cardinality(B) + 1
    BY <1>4, <2>1, FS_AddElement
  <2>3. Count(s, o) = Cardinality(B) + 1
    BY <2>1, <2>2 DEF Count
  <2> QED  BY <1>4, <1>5, <2>3
<1>6. CASE Head(s) # o
  <2>1. At(s, o) = B
    BY <1>1, <1>6 DEF At
  <2> HIDE DEF A, B, f
  <2>2. Count(s, o) = Cardinality(B)
    BY <2>1 DEF Count
  <2> QED  BY <1>2, <1>4, <1>6, <2>2
<1> QED  BY <1>5, <1>6

-------------------------------------------------------------------------------
(* The inductive invariant.                                                  *)

Holdings == {<<>>} \union {<<o>> : o \in Objects}

\* The types of what concerns the objects.  The window has one in hand just
\* when it sends, filled with a message that was sent.
Types ==
    /\ window \in {"select", "send", "panicked"}
    /\ inHand \in Holdings /\ (window = "send" <=> inHand # <<>>)
    /\ reader \in Holdings
    /\ pooled \in [Objects -> Nat]
    /\ eventChan \in Seq(Objects) /\ recycleChan \in Seq(Objects)

\* Every object is in one place.
Total(o) ==
    pooled[o] + Count(inHand, o) + Count(eventChan, o) + Count(reader, o)
              + Count(recycleChan, o)

OnePlace == \A o \in Objects : Total(o) = 1

IInv == Types /\ OnePlace

\* What is in hand is a channel of one place.
LEMMA HoldingsTyped == Holdings \subseteq Seq(Objects)
<1>1. <<>> \in Seq(Objects)
  OBVIOUS
<1>2. \A o \in Objects : <<o>> \in Seq(Objects)
  OBVIOUS
<1> QED  BY <1>1, <1>2 DEF Holdings

\* The counts of the five places are numbers.
LEMMA PlacesTyped ==
    ASSUME Types, NEW o \in Objects
    PROVE  /\ pooled[o] \in Nat
           /\ Count(inHand, o) \in Nat /\ Count(eventChan, o) \in Nat
           /\ Count(reader, o) \in Nat /\ Count(recycleChan, o) \in Nat
BY CountType, HoldingsTyped DEF Types

\* So they are after a step that keeps the types.
LEMMA NextPlacesTyped ==
    ASSUME Types', NEW o \in Objects
    PROVE  /\ pooled'[o] \in Nat
           /\ Count(inHand', o) \in Nat /\ Count(eventChan', o) \in Nat
           /\ Count(reader', o) \in Nat /\ Count(recycleChan', o) \in Nat
BY CountType, HoldingsTyped DEF Types

\* The invariant holds at the start: all objects are in the pool.
LEMMA Initially == Init => IInv
<1> SUFFICES ASSUME Init PROVE IInv
  OBVIOUS
<1>1. Types
  BY ControllerAssumption DEF Init, Types, Holdings
<1>2. OnePlace
  BY CountSmall DEF Init, OnePlace, Total
<1> QED  BY <1>1, <1>2 DEF IInv

\* A step that moves an object from one place to another leaves it in one.
LEMMA MoveKeeps ==
    ASSUME IInv, Types', \A p \in Objects : Total(p)' = Total(p)
    PROVE  IInv'
BY DEF IInv, OnePlace

\* The window keeps an object it has got from the pool, with nothing in hand.
LEMMA KeepMoves ==
    ASSUME IInv, NEW m, NEW o \in Objects, NEW some, window = "select", Keep(m, o, some),
           UNCHANGED <<eventChan, reader, recycleChan>>
    PROVE  IInv'
<1>1. /\ inHand = <<>> /\ inHand' = <<o>> /\ window' = "send"
      /\ pooled[o] > 0 /\ pooled' = [pooled EXCEPT ![o] = @ - 1]
  BY DEF Keep, Get, IInv, Types
<1>2. Types'
  BY <1>1 DEF IInv, Types, Holdings
<1>3. ASSUME NEW p \in Objects
      PROVE  pooled'[p] + Count(inHand', p) = pooled[p] + Count(inHand, p)
  BY <1>1, CountSmall DEF IInv, Types
<1>4. ASSUME NEW p \in Objects
      PROVE  Total(p)' = Total(p)
  <2>1. /\ pooled[p] \in Nat
        /\ Count(inHand, p) \in Nat /\ Count(eventChan, p) \in Nat
        /\ Count(reader, p) \in Nat /\ Count(recycleChan, p) \in Nat
    BY PlacesTyped DEF IInv
  <2>2. pooled'[p] \in Nat /\ Count(inHand', p) \in Nat
    BY <1>2, NextPlacesTyped
  <2> QED  BY <1>3, <2>1, <2>2 DEF Total
<1> QED  BY <1>2, <1>4, MoveKeeps

\* Whatever else the window does with a message moves no object.
LEMMA StayKeeps ==
    ASSUME IInv, window = "select", window' \in {"select", "panicked"},
           UNCHANGED <<inHand, pooled, eventChan, reader, recycleChan>>
    PROVE  IInv'
BY DEF IInv, Types, OnePlace, Total

\* So the window's handling of a message keeps the invariant.
LEMMA WindowKeeps ==
    ASSUME IInv, NEW m \in Messages, NEW o \in Objects,
           Medal(m, o) \/ UserInfo(m, o) \/ Filter(m, o) \/ Online(m, o)
    PROVE  IInv'
<1>1. window = "select" /\ UNCHANGED <<eventChan, reader, recycleChan>>
  BY DEF Medal, UserInfo, Filter, Online, Take, readerVars
<1>2. \/ \E some : Keep(m, o, some)
      \/ Drop(m, o)
      \/ Panic
  BY DEF Medal, UserInfo, Filter, Online, msgDuplicateFilter
<1>3. CASE \E some : Keep(m, o, some)
  BY <1>1, <1>3, KeepMoves
<1>4. CASE Drop(m, o) \/ Panic
  BY <1>1, <1>4, StayKeeps DEF Drop, Panic
<1> QED  BY <1>2, <1>3, <1>4

\* The window's send moves its object into eventChan.
LEMMA PushKeeps == ASSUME IInv, Push PROVE IInv'
<1>1. PICK o \in Objects : inHand = <<o>>
  BY DEF IInv, Types, Holdings, Push
<1>2. /\ eventChan' = eventChan \o <<o>> /\ inHand' = <<>> /\ window' = "select"
      /\ UNCHANGED <<pooled, reader, recycleChan>>
  BY <1>1 DEF Push, readerVars
<1>3. Types'
  BY <1>2 DEF IInv, Types, Holdings
<1>4. ASSUME NEW p \in Objects
      PROVE  Count(inHand', p) + Count(eventChan', p) = Count(inHand, p) + Count(eventChan, p)
  <2>1. Count(eventChan', p) = Count(eventChan, p) + (IF o = p THEN 1 ELSE 0)
    BY <1>2, CountSend DEF IInv, Types
  <2> QED  BY <1>1, <1>2, <2>1, CountSmall, PlacesTyped DEF IInv
<1>5. ASSUME NEW p \in Objects
      PROVE  Total(p)' = Total(p)
  <2>1. /\ pooled[p] \in Nat
        /\ Count(inHand, p) \in Nat /\ Count(eventChan, p) \in Nat
        /\ Count(reader, p) \in Nat /\ Count(recycleChan, p) \in Nat
    BY PlacesTyped DEF IInv
  <2>2. /\ pooled'[p] \in Nat
        /\ Count(inHand', p) \in Nat /\ Count(eventChan', p) \in Nat
        /\ Count(reader', p) \in Nat /\ Count(recycleChan', p) \in Nat
    BY <1>3, NextPlacesTyped
  <2>3. /\ Count(reader', p) = Count(reader, p)
        /\ Count(recycleChan', p) = Count(recycleChan, p)
        /\ pooled'[p] = pooled[p]
    BY <1>2
  <2> QED  BY <1>4, <2>1, <2>2, <2>3 DEF Total
<1> QED  BY <1>3, <1>5, MoveKeeps

\* The reader takes the first object of eventChan,
LEMMA ReadKeeps == ASSUME IInv, Read PROVE IInv'
<1>1. /\ reader = <<>> /\ eventChan # <<>> /\ reader' = <<Head(eventChan)>>
      /\ eventChan' = Tail(eventChan)
      /\ UNCHANGED <<window, inHand, pooled, recycleChan>>
  BY DEF Read
<1>2. Head(eventChan) \in Objects /\ eventChan' \in Seq(Objects) /\ reader' \in Holdings
  BY <1>1, HeadTailProperties DEF IInv, Types, Holdings
<1>3. Types'
  BY <1>1, <1>2 DEF IInv, Types
<1>4. ASSUME NEW p \in Objects
      PROVE  Count(eventChan', p) + Count(reader', p) = Count(eventChan, p) + Count(reader, p)
  <2>1. Count(eventChan, p) = Count(eventChan', p) + (IF Head(eventChan) = p THEN 1 ELSE 0)
    BY <1>1, CountReceive DEF IInv, Types
  <2>2. Count(eventChan', p) \in Nat
    BY <1>2, CountType
  <2> QED  BY <1>1, <2>1, <2>2, CountSmall
<1>5. ASSUME NEW p \in Objects
      PROVE  Total(p)' = Total(p)
  <2>1. /\ pooled[p] \in Nat
        /\ Count(inHand, p) \in Nat /\ Count(eventChan, p) \in Nat
        /\ Count(reader, p) \in Nat /\ Count(recycleChan, p) \in Nat
    BY PlacesTyped DEF IInv
  <2>2. /\ pooled'[p] \in Nat
        /\ Count(inHand', p) \in Nat /\ Count(eventChan', p) \in Nat
        /\ Count(reader', p) \in Nat /\ Count(recycleChan', p) \in Nat
    BY <1>3, NextPlacesTyped
  <2>3. /\ Count(inHand', p) = Count(inHand, p)
        /\ Count(recycleChan', p) = Count(recycleChan, p)
        /\ pooled'[p] = pooled[p]
    BY <1>1
  <2> QED  BY <1>4, <2>1, <2>2, <2>3 DEF Total
<1> QED  BY <1>3, <1>5, MoveKeeps

\* gives it to the recycler,
LEMMA RecycleEventKeeps == ASSUME IInv, RecycleEvent PROVE IInv'
<1>1. PICK o \in Objects : reader = <<o>>
  BY DEF IInv, Types, Holdings, RecycleEvent
<1>2. /\ recycleChan' = recycleChan \o <<o>> /\ reader' = <<>>
      /\ UNCHANGED <<window, inHand, pooled, eventChan>>
  BY <1>1 DEF RecycleEvent
<1>3. Types'
  BY <1>2 DEF IInv, Types, Holdings
<1>4. ASSUME NEW p \in Objects
      PROVE  Count(reader', p) + Count(recycleChan', p) = Count(reader, p) + Count(recycleChan, p)
  <2>1. Count(recycleChan', p) = Count(recycleChan, p) + (IF o = p THEN 1 ELSE 0)
    BY <1>2, CountSend DEF IInv, Types
  <2> QED  BY <1>1, <1>2, <2>1, CountSmall, PlacesTyped DEF IInv
<1>5. ASSUME NEW p \in Objects
      PROVE  Total(p)' = Total(p)
  <2>1. /\ pooled[p] \in Nat
        /\ Count(inHand, p) \in Nat /\ Count(eventChan, p) \in Nat
        /\ Count(reader, p) \in Nat /\ Count(recycleChan, p) \in Nat
    BY PlacesTyped DEF IInv
  <2>2. /\ pooled'[p] \in Nat
        /\ Count(inHand', p) \in Nat /\ Count(eventChan', p) \in Nat
        /\ Count(reader', p) \in Nat /\ Count(recycleChan', p) \in Nat
    BY <1>3, NextPlacesTyped
  <2>3. /\ Count(inHand', p) = Count(inHand, p)
        /\ Count(eventChan', p) = Count(eventChan, p)
        /\ pooled'[p] = pooled[p]
    BY <1>2
  <2> QED  BY <1>4, <2>1, <2>2, <2>3 DEF Total
<1> QED  BY <1>3, <1>5, MoveKeeps

\* and that puts it back into the pool.
LEMMA RecycleKeeps == ASSUME IInv, Recycle PROVE IInv'
<1>1. /\ recycleChan # <<>> /\ recycleChan' = Tail(recycleChan)
      /\ pooled' = [pooled EXCEPT ![Head(recycleChan)] = @ + 1]
      /\ UNCHANGED <<window, inHand, eventChan, reader>>
  BY DEF Recycle
<1>2. Head(recycleChan) \in Objects /\ recycleChan' \in Seq(Objects)
  BY <1>1, HeadTailProperties DEF IInv, Types
<1>3. Types'
  <2> pooled \in [Objects -> Nat]
    BY DEF IInv, Types
  <2>1. pooled' \in [Objects -> Nat]
    BY <1>1, <1>2
  <2> QED  BY <1>1, <1>2, <2>1 DEF IInv, Types
<1>4. ASSUME NEW p \in Objects
      PROVE  pooled'[p] + Count(recycleChan', p) = pooled[p] + Count(recycleChan, p)
  <2>1. Count(recycleChan, p) = Count(recycleChan', p) + (IF Head(recycleChan) = p THEN 1 ELSE 0)
    BY <1>1, CountReceive DEF IInv, Types
  <2>2. Count(recycleChan', p) \in Nat
    BY <1>2, CountType
  <2>3. pooled[p] \in Nat /\ pooled'[p] = pooled[p] + (IF Head(recycleChan) = p THEN 1 ELSE 0)
    BY <1>1, <1>2 DEF IInv, Types
  <2> QED  BY <2>1, <2>2, <2>3
<1>5. ASSUME NEW p \in Objects
      PROVE  Total(p)' = Total(p)
  <2>1. /\ pooled[p] \in Nat
        /\ Count(inHand, p) \in Nat /\ Count(eventChan, p) \in Nat
        /\ Count(reader, p) \in Nat /\ Count(recycleChan, p) \in Nat
    BY PlacesTyped DEF IInv
  <2>2. /\ pooled'[p] \in Nat
        /\ Count(inHand', p) \in Nat /\ Count(eventChan', p) \in Nat
        /\ Count(reader', p) \in Nat /\ Count(recycleChan', p) \in Nat
    BY <1>3, NextPlacesTyped
  <2>3. /\ Count(inHand', p) = Count(inHand, p)
        /\ Count(eventChan', p) = Count(eventChan, p)
        /\ Count(reader', p) = Count(reader, p)
    BY <1>1
  <2> QED  BY <1>4, <2>1, <2>2, <2>3 DEF Total
<1> QED  BY <1>3, <1>5, MoveKeeps

\* Every step keeps the invariant.
LEMMA Inductive == IInv /\ [Next]_vars => IInv'
<1> SUFFICES ASSUME IInv, [Next]_vars PROVE IInv'
  OBVIOUS
<1>1. ASSUME UNCHANGED <<window, inHand, pooled, eventChan, reader, recycleChan>> PROVE IInv'
  BY <1>1 DEF IInv, Types, OnePlace, Total
<1>2. ASSUME NEW m \in Messages, Publish(m) PROVE IInv'
  BY <1>1, <1>2 DEF Publish, readerVars
<1>3. CASE Window
  BY <1>3, WindowKeeps, PushKeeps DEF Window
<1>4. ASSUME NEW k \in Keys, ForgetMeta(k) \/ ForgetKey(k) PROVE IInv'
  BY <1>1, <1>4 DEF ForgetMeta, ForgetKey, readerVars
<1>5. CASE Read \/ RecycleEvent \/ Recycle
  BY <1>5, ReadKeeps, RecycleEventKeeps, RecycleKeeps
<1>6. CASE UNCHANGED vars
  BY <1>1, <1>6 DEF vars, readerVars
<1> QED  BY <1>2, <1>3, <1>4, <1>5, <1>6 DEF Next

\* An object is never in two places, so nobody fills what another one reads,
\* whatever the messages, the number of objects and the capacities.
THEOREM OwnersApart == Spec => []OneOwner
<1>1. Init => IInv  BY Initially
<1>2. IInv /\ [Next]_vars => IInv'  BY Inductive
<1>3. IInv => OneOwner
  <2>1. \A o \in Objects : Places(o) = Total(o)
    BY DEF Places, Total, Count, At
  <2> QED  BY <2>1 DEF IInv, OnePlace, OneOwner
<1> QED  BY <1>1, <1>2, <1>3, PTL DEF Spec

-------------------------------------------------------------------------------
(* The line of the objects that have been kept and not been read: what they  *)
(* are filled with, in the order a reader will see it.                       *)

\* An object that is somewhere in a channel counts.
LEMMA CountPositive ==
    ASSUME NEW S, NEW s \in Seq(S), NEW i \in 1 .. Len(s)
    PROVE  Count(s, s[i]) >= 1
<1>1. IsFiniteSet(At(s, s[i])) /\ Count(s, s[i]) \in Nat
  BY CountType
<1>2. At(s, s[i]) # {}
  BY DEF At
<1>3. Count(s, s[i]) # 0
  BY <1>1, <1>2, FS_EmptySet DEF Count
<1> QED  BY <1>1, <1>3

\* The line is one of objects: those of eventChan, and last the one in hand.
LEMMA ChainTyped ==
    ASSUME Types
    PROVE  /\ Chain \in Seq(Objects) /\ Waiting \in Nat
           /\ Waiting = Len(eventChan) + Len(inHand)
           /\ \A i \in 1 .. Len(eventChan) : Chain[i] = eventChan[i]
           /\ inHand # <<>> => Chain[Waiting] = inHand[1] /\ Len(inHand) = 1
           /\ inHand = <<>> => Chain = eventChan
<1>1. eventChan \in Seq(Objects) /\ inHand \in Seq(Objects)
  BY HoldingsTyped DEF Types
<1>2. CASE inHand = <<>>
  BY <1>1, <1>2 DEF Chain, Waiting
<1>3. CASE inHand # <<>>
  <2>1. PICK o \in Objects : inHand = <<o>>
    BY <1>3 DEF Types, Holdings
  <2> QED  BY <1>1, <2>1 DEF Chain, Waiting
<1> QED  BY <1>2, <1>3

\* Five counts that add up to one are not positive in two places.
LEMMA NoRoomForTwo ==
    ASSUME NEW a \in Nat, NEW b \in Nat, NEW c \in Nat, NEW d \in Nat, NEW e \in Nat,
           a + b + c + d + e = 1, a + e >= 1, c + b >= 1
    PROVE  FALSE
OBVIOUS

\* An object in its pool or on the way back to it is not in the line.
LEMMA NotInLine ==
    ASSUME IInv, NEW o \in Objects,
           pooled[o] > 0 \/ \E j \in 1 .. Len(recycleChan) : recycleChan[j] = o
    PROVE  \A i \in 1 .. Waiting : Chain[i] # o
<1> SUFFICES ASSUME NEW i \in 1 .. Waiting, Chain[i] = o PROVE FALSE
  OBVIOUS
<1>1. /\ pooled[o] \in Nat
      /\ Count(inHand, o) \in Nat /\ Count(eventChan, o) \in Nat
      /\ Count(reader, o) \in Nat /\ Count(recycleChan, o) \in Nat
      /\ eventChan \in Seq(Objects) /\ inHand \in Seq(Objects) /\ recycleChan \in Seq(Objects)
  BY PlacesTyped, HoldingsTyped DEF IInv, Types
<1>2. pooled[o] + Count(recycleChan, o) >= 1
  BY <1>1, CountPositive
<1>3. Count(eventChan, o) + Count(inHand, o) >= 1
  <2>1. CASE i \in 1 .. Len(eventChan)
    <3>1. eventChan[i] = o
      BY <2>1, ChainTyped DEF IInv
    <3> QED  BY <1>1, <2>1, <3>1, CountPositive
  <2>2. CASE i \notin 1 .. Len(eventChan)
    <3>1. inHand # <<>>
      BY <1>1, <2>2, ChainTyped DEF IInv
    <3>2. i = Waiting /\ Len(inHand) = 1 /\ Chain[Waiting] = inHand[1]
      <4>1. /\ Len(inHand) = 1 /\ Waiting = Len(eventChan) + Len(inHand)
            /\ Chain[Waiting] = inHand[1] /\ Len(eventChan) \in Nat /\ Waiting \in Nat
        BY <1>1, <3>1, ChainTyped DEF IInv
      <4> QED  BY <2>2, <4>1
    <3>3. inHand[1] = o /\ 1 \in 1 .. Len(inHand)
      BY <3>2
    <3> QED  BY <1>1, <3>3, CountPositive
  <2> QED  BY <2>1, <2>2
<1>4. pooled[o] + Count(inHand, o) + Count(eventChan, o) + Count(reader, o)
                + Count(recycleChan, o) = 1
  BY DEF IInv, OnePlace, Total
<1> QED  BY <1>1, <1>2, <1>3, <1>4, NoRoomForTwo

\* What the line tells changes when something is kept,
LEMMA KeepWords ==
    ASSUME IInv, DOMAIN content = Objects, NEW m, NEW o \in Objects, NEW some,
           window = "select", Keep(m, o, some), eventChan' = eventChan
    PROVE  /\ Waiting \in Nat /\ Waiting' = Waiting + 1
           /\ \A i \in 1 .. Waiting : Words'[i] = Words[i]
           /\ Words'[Waiting + 1] = <<m, some>>
<1>1. /\ inHand = <<>> /\ inHand' = <<o>> /\ pooled[o] > 0
      /\ content' = [content EXCEPT ![o] = <<m, some>>]
  BY DEF Keep, Get, IInv, Types
<1>2. Chain = eventChan /\ Chain' = eventChan \o <<o>> /\ Chain \in Seq(Objects) /\ Waiting \in Nat
  BY <1>1, ChainTyped DEF IInv, Chain
<1>3. /\ Waiting' = Waiting + 1
      /\ \A i \in 1 .. Waiting : Chain'[i] = Chain[i]
      /\ Chain'[Waiting + 1] = o
  BY <1>2 DEF Waiting
<1>4. \A i \in 1 .. Waiting : Chain[i] # o /\ Chain[i] \in Objects
  BY <1>1, <1>2, NotInLine DEF Waiting
<1>5. ASSUME NEW i \in 1 .. Waiting PROVE Words'[i] = Words[i]
  <2>1. content'[Chain'[i]] = content[Chain[i]]
    BY <1>1, <1>3, <1>4
  <2>2. Words[i] = content[Chain[i]]
    BY DEF Words
  <2>3. i \in 1 .. Waiting + 1
    BY <1>2
  <2>4. Words'[i] = content'[Chain'[i]]
    BY <1>3, <2>3 DEF Words
  <2> QED  BY <2>1, <2>2, <2>4
<1>6. Words'[Waiting + 1] = <<m, some>>
  <2>1. Waiting + 1 \in 1 .. Waiting'
    BY <1>2, <1>3
  <2>2. Words'[Waiting + 1] = content'[o]
    BY <1>3, <2>1 DEF Words
  <2> QED  BY <1>1, <2>2
<1> QED  BY <1>2, <1>3, <1>5, <1>6

\* not when it is sent,
LEMMA PushWords ==
    ASSUME IInv, Push
    PROVE  /\ Waiting \in Nat \ {0} /\ Waiting' = Waiting /\ Words' = Words
           /\ Words[Waiting] = content[inHand[1]]
<1>1. PICK o \in Objects : inHand = <<o>>
  BY DEF IInv, Types, Holdings, Push
<1>2. /\ eventChan' = eventChan \o <<o>> /\ inHand' = <<>> /\ content' = content
      /\ eventChan' \in Seq(Objects)
  BY <1>1 DEF Push, IInv, Types
<1>3. Chain' = Chain
  BY <1>1, <1>2 DEF Chain
<1>4. Waiting \in Nat \ {0} /\ Chain[Waiting] = inHand[1]
  BY <1>1, ChainTyped DEF IInv, Types
<1> QED  BY <1>2, <1>3, <1>4 DEF Waiting, Words

\* and loses its first word when that is read.
LEMMA ReadWords ==
    ASSUME IInv, Read
    PROVE  /\ Waiting \in Nat \ {0} /\ Waiting' = Waiting - 1
           /\ \A i \in 1 .. Waiting - 1 : Words'[i] = Words[i + 1]
           /\ Words[1] = content[Head(eventChan)]
<1>1. /\ eventChan # <<>> /\ eventChan' = Tail(eventChan) /\ UNCHANGED <<inHand, content>>
      /\ eventChan \in Seq(Objects) /\ inHand \in Seq(Objects)
  BY HoldingsTyped DEF Read, IInv, Types
<1>2. Chain' = Tail(eventChan) \o inHand /\ Chain = eventChan \o inHand
  BY <1>1 DEF Chain
<1>3. /\ Len(eventChan) > 0 /\ Tail(eventChan) \in Seq(Objects)
      /\ Len(Tail(eventChan)) = Len(eventChan) - 1
      /\ \A i \in 1 .. Len(eventChan) - 1 : Tail(eventChan)[i] = eventChan[i + 1]
      /\ Head(eventChan) = eventChan[1]
  BY <1>1, HeadTailProperties
<1>4. Waiting \in Nat \ {0} /\ Waiting' = Waiting - 1
  BY <1>1, <1>2, <1>3 DEF Waiting
<1>5. \A i \in 1 .. Waiting - 1 : Chain'[i] = Chain[i + 1]
  <2> SUFFICES ASSUME NEW i \in 1 .. Waiting - 1 PROVE Chain'[i] = Chain[i + 1]
    OBVIOUS
  <2>1. Waiting = Len(eventChan) + Len(inHand)
    BY <1>1, <1>2 DEF Waiting
  <2>2. Chain'[i] = IF i <= Len(eventChan) - 1 THEN Tail(eventChan)[i]
                                              ELSE inHand[i - (Len(eventChan) - 1)]
    BY <1>1, <1>2, <1>3, <2>1
  <2>3. Chain[i + 1] = IF i + 1 <= Len(eventChan) THEN eventChan[i + 1]
                                                 ELSE inHand[i + 1 - Len(eventChan)]
    BY <1>1, <1>2, <1>3, <2>1
  <2> QED  BY <1>1, <1>3, <2>2, <2>3
<1>6. Chain[1] = Head(eventChan)
  BY <1>1, <1>2, <1>3
<1> QED  BY <1>1, <1>4, <1>5, <1>6 DEF Words

\* Every other step leaves the line and its words as they are.
LEMMA OtherWords ==
    ASSUME IInv, DOMAIN content = Objects, UNCHANGED <<eventChan, inHand>>,
           content' = content \/ Recycle
    PROVE  Waiting' = Waiting /\ Words' = Words
<1>1. Chain' = Chain /\ Waiting' = Waiting
  BY DEF Chain, Waiting
<1>2. CASE content' = content
  BY <1>1, <1>2 DEF Words
<1>3. CASE Recycle
  <2>1. /\ Head(recycleChan) \in Objects
        /\ Len(recycleChan) \in Nat /\ Len(recycleChan) > 0
        /\ recycleChan[1] = Head(recycleChan)
        /\ content' = [content EXCEPT ![Head(recycleChan)] = <<>>]
    BY <1>3, HeadTailProperties DEF Recycle, IInv, Types
  <2>2. \A i \in 1 .. Waiting : Chain[i] # Head(recycleChan)
    BY <2>1, NotInLine
  <2>3. \A i \in 1 .. Waiting : content'[Chain[i]] = content[Chain[i]]
    BY <2>1, <2>2, ChainTyped DEF IInv, Waiting
  <2> QED  BY <1>1, <2>3 DEF Words
<1> QED  BY <1>2, <1>3

-------------------------------------------------------------------------------
(* The types of the rest of the state.                                       *)

Bounds ==
    /\ sent \subseteq Messages
    /\ streamChan \in Seq(sent) /\ Len(streamChan) <= StreamCap
    /\ DOMAIN content = Objects
    /\ Len(eventChan) <= EventCap /\ Len(recycleChan) <= RecycleCap
    /\ DOMAIN metaCache = Keys /\ DOMAIN told = Keys /\ DOMAIN heard = Keys
    /\ dupCache \in [Keys -> Seq(Registered)]
    /\ hits \in [Agents -> Nat]
    /\ evictions \in 0 .. MaxEvictions
    /\ passed \subseteq sent

\* What waits in the line are messages that were sent: else passed would not be
\* a set of them after the next send.
Filled == \A i \in 1 .. Waiting : Words[i][1] \in sent

TypeInv == IInv /\ Bounds /\ Filled

\* A channel of fewer messages is one of more.
LEMMA SeqMono ==
    ASSUME NEW S, NEW T, S \subseteq T, NEW s \in Seq(S)
    PROVE  s \in Seq(T)
OBVIOUS

\* The message the window takes is one that was sent.
LEMMA TakeTyped ==
    ASSUME Bounds, NEW kind, NEW m, Take(kind, m)
    PROVE  /\ m \in sent /\ m \in Messages /\ Body[m].key \in Keys /\ Body[m].kind = kind
           /\ streamChan' \in Seq(sent) /\ Len(streamChan') <= StreamCap
           /\ UNCHANGED <<sent, eventChan, recycleChan, heard, reader, passed>>
<1>1. streamChan \in Seq(sent) /\ streamChan # <<>> /\ m = Head(streamChan)
      /\ streamChan' = Tail(streamChan)
  BY DEF Take, Bounds
<1>2. m \in sent /\ streamChan' \in Seq(sent) /\ Len(streamChan') = Len(streamChan) - 1
      /\ Len(streamChan) \in Nat
  BY <1>1, HeadTailProperties
<1>3. m \in Messages
  BY <1>2 DEF Bounds
<1>4. StreamCap \in Nat /\ Len(streamChan) <= StreamCap
  BY ControllerAssumption DEF Bounds
<1> QED  BY <1>2, <1>3, <1>4, ControllerAssumption DEF Take, readerVars

\* What the window keeps joins the line, and the caches stay typed.
LEMMA KeepTypes ==
    ASSUME TypeInv, NEW m \in Messages, NEW o \in Objects, NEW some, NEW kind,
           Take(kind, m), Keep(m, o, some), Remember(m)
    PROVE  Bounds' /\ Filled'
<1> USE DEF TypeInv
<1>1. window = "select" /\ eventChan' = eventChan
  BY DEF Take
<1>2. /\ Waiting \in Nat /\ Waiting' = Waiting + 1
      /\ \A i \in 1 .. Waiting : Words'[i] = Words[i]
      /\ Words'[Waiting + 1] = <<m, some>>
  BY <1>1, KeepWords DEF Bounds
<1>3. Filled'
  <2>1. ASSUME NEW i \in 1 .. Waiting' PROVE Words'[i][1] \in sent'
    <3>1. CASE i \in 1 .. Waiting
      BY <1>2, <3>1, TakeTyped DEF Filled
    <3>2. CASE i = Waiting + 1
      BY <1>2, <3>2, TakeTyped
    <3> QED  BY <1>2, <3>1, <3>2
  <2> QED  BY <2>1 DEF Filled
<1>4. DOMAIN content' = Objects
  BY DEF Keep, Bounds
<1>5. DOMAIN metaCache' = Keys /\ DOMAIN told' = Keys /\ UNCHANGED <<dupCache, hits, evictions>>
  BY DEF Remember, Bounds
<1>6. Bounds'
  BY <1>4, <1>5, TakeTyped DEF Bounds
<1> QED  BY <1>3, <1>6

\* A step that leaves the line alone keeps its words messages that were sent.
LEMMA OtherFilled ==
    ASSUME TypeInv, UNCHANGED <<eventChan, inHand>>, content' = content \/ Recycle,
           sent \subseteq sent'
    PROVE  Filled'
BY OtherWords DEF TypeInv, Bounds, Filled

\* The window's handling of a message keeps the types.
LEMMA WindowTypes ==
    ASSUME TypeInv, NEW m \in Messages, NEW o \in Objects,
           Medal(m, o) \/ UserInfo(m, o) \/ Filter(m, o) \/ Online(m, o)
    PROVE  Bounds' /\ Filled'
<1>0. PICK kind : Take(kind, m)
  BY DEF Medal, UserInfo, Filter, Online
<1>1. CASE \E some : Keep(m, o, some) /\ Remember(m)
  BY <1>0, <1>1, KeepTypes
<1>2. CASE (Drop(m, o) \/ Panic) /\ UNCHANGED cacheVars
  <2>1. UNCHANGED <<content, inHand>> /\ UNCHANGED cacheVars
    BY <1>2 DEF Drop, Panic
  <2>2. Bounds'
    BY <1>0, <2>1, TakeTyped DEF Bounds, TypeInv, cacheVars
  <2> QED  BY <1>0, <2>1, <2>2, OtherFilled, TakeTyped DEF TypeInv
<1>3. CASE Filter(m, o) /\ Drop(m, o) /\ dupCache[Body[m].key] = <<>> /\ Known(m)
           /\ dupCache' = [dupCache EXCEPT ![Body[m].key] = <<Body[m].agent>>]
           /\ UNCHANGED <<metaCache, hits, evictions, told>>
  <2>1. dupCache' \in [Keys -> Seq(Registered)]
    <3>1. Body[m].agent \in Registered /\ dupCache \in [Keys -> Seq(Registered)]
      BY <1>3 DEF Known, TypeInv, Bounds
    <3>2. <<Body[m].agent>> \in Seq(Registered)
      BY <3>1
    <3> QED  BY <1>3, <3>1, <3>2
  <2>2. Bounds'
    BY <1>0, <1>3, <2>1, TakeTyped DEF Bounds, TypeInv, Drop
  <2> QED  BY <1>0, <1>3, <2>2, OtherFilled, TakeTyped DEF TypeInv, Drop
<1>4. CASE Medal(m, o) \/ UserInfo(m, o)
  BY <1>1, <1>2, <1>4 DEF Medal, UserInfo
<1>5. CASE Filter(m, o)
  BY <1>2, <1>3, <1>5 DEF Filter, msgDuplicateFilter, Panic
<1>6. CASE Online(m, o)
  BY <1>2, <1>6 DEF Online, Panic
<1> QED  BY <1>4, <1>5, <1>6

\* So does every other action.
LEMMA PublishTypes ==
    ASSUME TypeInv, NEW m \in Messages, Publish(m)
    PROVE  Bounds' /\ Filled'
<1>1. /\ sent' = sent \union {m} /\ m \in sent'
      /\ streamChan' = IF Len(streamChan) < StreamCap THEN Append(streamChan, m) ELSE streamChan
      /\ UNCHANGED <<content, inHand, eventChan, recycleChan, heard, passed>>
      /\ UNCHANGED cacheVars
  BY DEF Publish, readerVars
<1>2. streamChan \in Seq(sent') /\ StreamCap \in Nat /\ Len(streamChan) <= StreamCap
  BY <1>1, SeqMono, ControllerAssumption DEF TypeInv, Bounds
<1>3. streamChan' \in Seq(sent') /\ Len(streamChan') <= StreamCap
  BY <1>1, <1>2
<1>4. Bounds'
  BY <1>1, <1>3 DEF TypeInv, Bounds, cacheVars
<1> QED  BY <1>1, <1>4, OtherFilled

LEMMA PushTypes == ASSUME TypeInv, Push PROVE Bounds' /\ Filled'
<1> USE DEF TypeInv
<1>1. /\ Waiting \in Nat \ {0} /\ Waiting' = Waiting /\ Words' = Words
      /\ Words[Waiting] = content[inHand[1]]
  BY PushWords
<1>2. content[inHand[1]][1] \in sent
  BY <1>1 DEF Filled
<1>3. passed' \subseteq sent /\ UNCHANGED <<sent, streamChan, content, recycleChan, heard>>
      /\ UNCHANGED cacheVars
  BY <1>2 DEF Push, Bounds, streamVars, readerVars
<1>4. Filled'
  BY <1>1, <1>3 DEF Filled
<1>5. Len(eventChan') <= EventCap
  <2>1. PICK o \in Objects : inHand = <<o>>
    BY DEF IInv, Types, Holdings, Push
  <2>2. eventChan' = eventChan \o <<o>> /\ Len(eventChan) < EventCap /\ eventChan \in Seq(Objects)
    BY <2>1 DEF Push, IInv, Types
  <2> QED  BY <2>2, ControllerAssumption
<1>6. Bounds'
  BY <1>3, <1>5 DEF Bounds, cacheVars
<1> QED  BY <1>4, <1>6

LEMMA ReadTypes == ASSUME TypeInv, Read PROVE Bounds' /\ Filled'
<1> USE DEF TypeInv
<1>1. /\ Waiting \in Nat \ {0} /\ Waiting' = Waiting - 1
      /\ \A i \in 1 .. Waiting - 1 : Words'[i] = Words[i + 1]
  BY ReadWords
<1>2. UNCHANGED <<sent, streamChan, content, recycleChan, passed>> /\ UNCHANGED cacheVars
      /\ DOMAIN heard' = Keys
  BY DEF Read, Bounds, streamVars
<1>3. Filled'
  BY <1>1, <1>2 DEF Filled
<1>4. Len(eventChan') <= EventCap
  <2>1. eventChan \in Seq(Objects) /\ eventChan # <<>> /\ eventChan' = Tail(eventChan)
    BY DEF Read, IInv, Types
  <2>2. Len(eventChan') = Len(eventChan) - 1 /\ Len(eventChan) \in Nat
    BY <2>1, HeadTailProperties
  <2> QED  BY <2>2, ControllerAssumption DEF Bounds
<1>5. Bounds'
  BY <1>2, <1>4 DEF Bounds, cacheVars
<1> QED  BY <1>3, <1>5

LEMMA RecycleTypes ==
    ASSUME TypeInv, RecycleEvent \/ Recycle
    PROVE  Bounds' /\ Filled'
<1> USE DEF TypeInv
<1>1. UNCHANGED <<sent, streamChan, inHand, eventChan, heard, passed>> /\ UNCHANGED cacheVars
      /\ (content' = content \/ Recycle) /\ DOMAIN content' = Objects
  BY DEF RecycleEvent, Recycle, Bounds, streamVars
<1>2. Len(recycleChan') <= RecycleCap
  <2>1. CASE RecycleEvent
    <3>1. PICK o \in Objects : reader = <<o>>
      BY <2>1 DEF IInv, Types, Holdings, RecycleEvent
    <3>2. recycleChan' = recycleChan \o <<o>> /\ Len(recycleChan) < RecycleCap
          /\ recycleChan \in Seq(Objects)
      BY <2>1, <3>1 DEF RecycleEvent, IInv, Types
    <3> QED  BY <3>2, ControllerAssumption
  <2>2. CASE Recycle
    <3>1. recycleChan \in Seq(Objects) /\ recycleChan # <<>> /\ recycleChan' = Tail(recycleChan)
      BY <2>2 DEF Recycle, IInv, Types
    <3>2. Len(recycleChan') = Len(recycleChan) - 1 /\ Len(recycleChan) \in Nat
      BY <3>1, HeadTailProperties
    <3> QED  BY <3>2, ControllerAssumption DEF Bounds
  <2> QED  BY <2>1, <2>2
<1>3. Bounds'
  BY <1>1, <1>2 DEF Bounds, cacheVars
<1> QED  BY <1>1, <1>3, OtherFilled

LEMMA ForgetTypes ==
    ASSUME TypeInv, NEW k \in Keys, ForgetMeta(k) \/ ForgetKey(k)
    PROVE  Bounds' /\ Filled'
<1> USE DEF TypeInv
<1>1. UNCHANGED <<sent, streamChan, inHand, content, eventChan, recycleChan, heard, passed>>
  BY DEF ForgetMeta, ForgetKey, streamVars, readerVars
<1>2. evictions' \in 0 .. MaxEvictions
  BY ControllerAssumption DEF ForgetMeta, ForgetKey, Bounds
<1>3. DOMAIN metaCache' = Keys /\ DOMAIN told' = Keys
  BY DEF ForgetMeta, ForgetKey, Bounds
<1>4. dupCache' \in [Keys -> Seq(Registered)]
  <2>1. <<>> \in Seq(Registered)
    OBVIOUS
  <2> QED  BY <2>1 DEF ForgetMeta, ForgetKey, Bounds
<1>5. hits' \in [Agents -> Nat]
  BY DEF ForgetMeta, ForgetKey, Bounds
<1>6. Bounds'
  BY <1>1, <1>2, <1>3, <1>4, <1>5 DEF Bounds
<1> QED  BY <1>1, <1>6, OtherFilled

\* It holds at the start,
LEMMA InitTypes == Init => TypeInv
<1> SUFFICES ASSUME Init PROVE Bounds /\ Filled
  BY Initially DEF TypeInv
<1>1. <<>> \in Seq(sent) /\ <<>> \in Seq(Registered) /\ Len(<<>>) = 0
  OBVIOUS
<1>2. 0 \in 0 .. MaxEvictions /\ StreamCap >= 0 /\ EventCap >= 0 /\ RecycleCap >= 0
  BY ControllerAssumption
<1>3. Bounds
  BY <1>1, <1>2 DEF Init, Bounds
<1>4. Filled
  BY DEF Init, Filled, Waiting, Chain
<1> QED  BY <1>3, <1>4

\* and every step keeps it.
LEMMA StepTypes == TypeInv /\ [Next]_vars => TypeInv'
<1> SUFFICES ASSUME TypeInv, [Next]_vars PROVE Bounds' /\ Filled'
  BY Inductive DEF TypeInv
<1>1. CASE UNCHANGED vars
  <2>1. Bounds'
    BY <1>1 DEF vars, streamVars, readerVars, cacheVars, TypeInv, Bounds
  <2> QED  BY <1>1, <2>1, OtherFilled DEF vars, streamVars
<1>2. CASE Next
  BY <1>2, PublishTypes, WindowTypes, PushTypes, ForgetTypes, ReadTypes, RecycleTypes
     DEF Next, Window
<1> QED  BY <1>1, <1>2

\* The state has its types, whatever the messages and the capacities: no channel
\* holds more than it has room for, and only what was sent is passed on.
THEOREM TypeCorrect == Spec => []TypeOK
<1>1. TypeInv => TypeOK
  <2> SUFFICES ASSUME TypeInv PROVE TypeOK
    OBVIOUS
  <2>1. inHand \in Seq(Objects) /\ reader \in Seq(Objects)
    BY HoldingsTyped DEF TypeInv, IInv, Types
  <2>2. streamChan \in Seq(Messages)
    BY SeqMono DEF TypeInv, Bounds
  <2> QED  BY <2>1, <2>2 DEF TypeInv, IInv, Types, Bounds, TypeOK
<1> QED  BY <1>1, InitTypes, StepTypes, PTL DEF Spec

-------------------------------------------------------------------------------
(* What a reader knows of a key: the last word about it that is on its way,  *)
(* or what it has heard when there is none.                                  *)

\* Of n words w, the last about the key k tells t; or none is about k, and t is
\* what has been heard.
Final(w, n, h, t, k) ==
    \/ \E i \in 1 .. n :
          /\ Body[w[i][1]].key = k /\ \A f \in Fields : w[i][2][f] = t[f]
          /\ \A j \in i + 1 .. n : Body[w[j][1]].key # k
    \/ /\ \A j \in 1 .. n : Body[w[j][1]].key # k
       /\ h # <<>> /\ \A f \in Fields : h[1][f] = t[f]

Tells(k) == [f \in Fields |-> LastTold(k, f)]

LastInv == \A k \in Keys : told[k] # <<>> => Final(Words, Waiting, heard[k], Tells(k), k)

\* The cache holds the younger of the two infos that are remembered: what is merged
\* with it is told with the older.
CacheInv ==
    \A k \in Keys :
        \/ told[k] = <<>> /\ metaCache[k] = <<>>
        \/ /\ told[k] = <<told[k][1]>> \/ told[k] = <<told[k][1], told[k][2]>>
           /\ metaCache[k] = <<told[k][1]>>

KnowInv == TypeInv /\ CacheInv /\ LastInv

\* A word about the key, put at the end, is the last.
LEMMA FinalNew ==
    ASSUME NEW v, NEW n \in Nat, NEW h, NEW t, NEW k,
           Body[v[n + 1][1]].key = k, \A f \in Fields : v[n + 1][2][f] = t[f]
    PROVE  Final(v, n + 1, h, t, k)
<1>1. n + 1 \in 1 .. n + 1 /\ \A j \in (n + 1) + 1 .. n + 1 : FALSE
  OBVIOUS
<1> QED  BY <1>1 DEF Final

\* One about another key changes nothing.
LEMMA FinalOther ==
    ASSUME NEW w, NEW v, NEW n \in Nat, NEW h, NEW t, NEW k,
           \A i \in 1 .. n : v[i] = w[i], Body[v[n + 1][1]].key # k,
           Final(w, n, h, t, k)
    PROVE  Final(v, n + 1, h, t, k)
<1>1. CASE \A j \in 1 .. n : Body[w[j][1]].key # k
  <2>1. h # <<>> /\ \A f \in Fields : h[1][f] = t[f]
    BY <1>1 DEF Final
  <2>2. \A j \in 1 .. n + 1 : Body[v[j][1]].key # k
    <3>1. \A j \in 1 .. n + 1 : j \in 1 .. n \/ j = n + 1
      OBVIOUS
    <3> QED  BY <1>1, <3>1
  <2> QED  BY <2>1, <2>2 DEF Final
<1>2. CASE ~ \A j \in 1 .. n : Body[w[j][1]].key # k
  <2>1. PICK i \in 1 .. n :
            /\ Body[w[i][1]].key = k /\ \A f \in Fields : w[i][2][f] = t[f]
            /\ \A j \in i + 1 .. n : Body[w[j][1]].key # k
    BY <1>2 DEF Final
  <2>2. i \in 1 .. n + 1 /\ v[i] = w[i]
    OBVIOUS
  <2>3. \A j \in i + 1 .. n + 1 : Body[v[j][1]].key # k
    <3>1. \A j \in i + 1 .. n + 1 : (j \in i + 1 .. n /\ j \in 1 .. n) \/ j = n + 1
      OBVIOUS
    <3> QED  BY <2>1, <3>1
  <2> QED  BY <2>1, <2>2, <2>3 DEF Final
<1> QED  BY <1>1, <1>2

\* When the first word is read, the reader has heard it if it was the last.
LEMMA FinalRead ==
    ASSUME NEW w, NEW v, NEW n \in Nat \ {0}, NEW h, NEW g, NEW t, NEW k,
           \A i \in 1 .. n - 1 : v[i] = w[i + 1],
           g = IF Body[w[1][1]].key = k THEN <<w[1][2]>> ELSE h,
           Final(w, n, h, t, k)
    PROVE  Final(v, n - 1, g, t, k)
<1>1. ASSUME \A j \in 2 .. n : Body[w[j][1]].key # k
      PROVE  \A j \in 1 .. n - 1 : Body[v[j][1]].key # k
  BY <1>1
<1>2. CASE \A j \in 1 .. n : Body[w[j][1]].key # k
  <2>1. h # <<>> /\ \A f \in Fields : h[1][f] = t[f]
    BY <1>2 DEF Final
  <2>2. g = h
    BY <1>2
  <2>3. \A j \in 1 .. n - 1 : Body[v[j][1]].key # k
    BY <1>1, <1>2
  <2> QED  BY <2>1, <2>2, <2>3 DEF Final
<1>3. CASE ~ \A j \in 1 .. n : Body[w[j][1]].key # k
  <2>1. PICK i \in 1 .. n :
            /\ Body[w[i][1]].key = k /\ \A f \in Fields : w[i][2][f] = t[f]
            /\ \A j \in i + 1 .. n : Body[w[j][1]].key # k
    BY <1>3 DEF Final
  <2>2. CASE i = 1
    <3>1. \A j \in 1 .. n - 1 : Body[v[j][1]].key # k
      BY <1>1, <2>1, <2>2
    <3>2. g = <<w[1][2]>> /\ \A f \in Fields : w[1][2][f] = t[f]
      BY <2>1, <2>2
    <3>3. g # <<>> /\ \A f \in Fields : g[1][f] = t[f]
      BY <3>2
    <3> QED  BY <3>1, <3>3 DEF Final
  <2>3. CASE i # 1
    <3>1. i - 1 \in 1 .. n - 1 /\ v[i - 1] = w[i]
      BY <2>3
    <3>2. \A j \in (i - 1) + 1 .. n - 1 : Body[v[j][1]].key # k
      <4>1. \A j \in (i - 1) + 1 .. n - 1 :
                j \in 1 .. n - 1 /\ j + 1 \in i + 1 .. n /\ v[j] = w[j + 1]
        OBVIOUS
      <4> QED  BY <2>1, <4>1
    <3> QED  BY <2>1, <3>1, <3>2 DEF Final
  <2> QED  BY <2>2, <2>3
<1> QED  BY <1>2, <1>3

\* A key of which nothing new is told is told what it was.
LEMMA TellsSame ==
    ASSUME NEW k, told'[k] = told[k]
    PROVE  Tells(k)' = Tells(k)
BY DEF Tells, LastTold

\* What is remembered is in the cache, and the two last infos tell what is passed
\* on: a medal as it came, as it tells every field, a user meta merged.
LEMMA RememberTells ==
    ASSUME TypeInv, CacheInv, NEW m, NEW some, NEW kind, Take(kind, m), Remember(m),
           \/ some = Merged(m)
           \/ some = Body[m].info /\ kind = "fansMedal"
    PROVE  /\ CacheInv'
           /\ \A f \in Fields : some[f] = Tells(Body[m].key)'[f]
<1> DEFINE k == Body[m].key
           info == Body[m].info
<1>1. m \in Messages /\ k \in Keys /\ Body[m].kind = kind
  BY TakeTyped DEF TypeInv
<1>2. DOMAIN told = Keys /\ DOMAIN metaCache = Keys
  BY DEF TypeInv, Bounds
<1>3. /\ told'[k] = IF told[k] = <<>> THEN <<info>> ELSE <<info, told[k][1]>>
      /\ metaCache'[k] = <<info>>
      /\ \A q \in Keys : q # k => told'[q] = told[q] /\ metaCache'[q] = metaCache[q]
  BY <1>1, <1>2 DEF Remember
<1>4. CacheInv'
  <2>1. told'[k] = <<told'[k][1]>> \/ told'[k] = <<told'[k][1], told'[k][2]>>
    BY <1>3
  <2>2. metaCache'[k] = <<told'[k][1]>>
    BY <1>3
  <2> HIDE DEF k, info
  <2> QED  BY <1>3, <2>1, <2>2 DEF CacheInv
<1>5. ASSUME NEW f \in Fields PROVE some[f] = Tells(k)'[f]
  <2>1. Tells(k)'[f] = IF told'[k][1][f] = Nil /\ Len(told'[k]) = 2 THEN told'[k][2][f]
                                                                   ELSE told'[k][1][f]
    BY DEF Tells, LastTold
  <2>2. CASE some = Body[m].info /\ kind = "fansMedal"
    <3>1. info[f] # Nil
      BY <1>1, <2>2, ControllerAssumption
    <3>2. told'[k][1] = info
      BY <1>3
    <3> QED  BY <2>1, <2>2, <3>1, <3>2
  <2>3. CASE some = Merged(m) /\ told[k] = <<>>
    <3>1. some = info
      BY <1>1, <2>3 DEF Merged, CacheInv
    <3>2. told'[k] = <<info>> /\ Len(told'[k]) = 1 /\ told'[k][1] = info
      BY <1>3, <2>3
    <3> QED  BY <2>1, <3>1, <3>2
  <2>4. CASE some = Merged(m) /\ told[k] # <<>>
    <3>1. metaCache[k] = <<told[k][1]>>
      BY <1>1, <2>4 DEF CacheInv
    <3>2. some[f] = IF f \in Optional /\ info[f] = Nil THEN told[k][1][f] ELSE info[f]
      BY <2>4, <3>1 DEF Merged, Merge
    <3>4. info[f] = Nil => f \in Optional
      BY <1>1, ControllerAssumption
    <3>3. /\ Len(told'[k]) = 2 /\ told'[k][1] = info /\ told'[k][2] = told[k][1]
      BY <1>3, <2>4
    <3> QED  BY <2>1, <3>2, <3>3, <3>4
  <2> QED  BY <2>2, <2>3, <2>4
<1> QED  BY <1>4, <1>5

\* What the window keeps is the last word about its key.
LEMMA KeepKnows ==
    ASSUME KnowInv, NEW m, NEW o \in Objects, NEW some, NEW kind,
           Take(kind, m), Keep(m, o, some), Remember(m),
           \/ some = Merged(m)
           \/ some = Body[m].info /\ kind = "fansMedal"
    PROVE  CacheInv' /\ LastInv'
<1> USE DEF KnowInv
<1>1. /\ CacheInv'
      /\ \A f \in Fields : some[f] = Tells(Body[m].key)'[f]
  BY RememberTells
<1>2. /\ Waiting \in Nat /\ Waiting' = Waiting + 1
      /\ \A i \in 1 .. Waiting : Words'[i] = Words[i]
      /\ Words'[Waiting + 1] = <<m, some>>
  BY KeepWords DEF Take, TypeInv, Bounds
<1>3. ASSUME NEW k \in Keys, told'[k] # <<>>
      PROVE  Final(Words', Waiting', heard'[k], Tells(k)', k)
  <2>1. CASE k = Body[m].key
    <3>1. /\ Body[Words'[Waiting + 1][1]].key = k
          /\ \A f \in Fields : Words'[Waiting + 1][2][f] = Tells(k)'[f]
      BY <1>1, <1>2, <2>1
    <3> QED  BY <1>2, <3>1, FinalNew
  <2>2. CASE k # Body[m].key
    <3>1. told'[k] = told[k]
      BY <1>3, <2>2 DEF Remember, TypeInv, Bounds
    <3>2. heard'[k] = heard[k] /\ Tells(k)' = Tells(k)
      BY <3>1, TellsSame DEF Take, readerVars
    <3>3. Final(Words, Waiting, heard[k], Tells(k), k)
      BY <1>3, <3>1 DEF LastInv
    <3> QED  BY <1>2, <2>2, <3>2, <3>3, FinalOther
  <2> QED  BY <2>1, <2>2
<1> QED  BY <1>1, <1>3 DEF LastInv

\* A step that leaves the line and the caches alone, or forgets, keeps the rest.
LEMMA OtherKnows ==
    ASSUME KnowInv, UNCHANGED <<eventChan, inHand, heard>>, content' = content \/ Recycle,
           \A k \in Keys : \/ told'[k] = told[k] /\ metaCache'[k] = metaCache[k]
                           \/ told'[k] = <<>> /\ metaCache'[k] = <<>>
    PROVE  CacheInv' /\ LastInv'
<1>1. Waiting' = Waiting /\ Words' = Words
  BY OtherWords DEF KnowInv, TypeInv, Bounds
<1>2. CacheInv'
  <2> SUFFICES ASSUME NEW k \in Keys
               PROVE  \/ told'[k] = <<>> /\ metaCache'[k] = <<>>
                      \/ /\ told'[k] = <<told'[k][1]>> \/ told'[k] = <<told'[k][1], told'[k][2]>>
                         /\ metaCache'[k] = <<told'[k][1]>>
    BY DEF CacheInv
  <2> QED  BY DEF KnowInv, CacheInv
<1>3. ASSUME NEW k \in Keys, told'[k] # <<>>
      PROVE  Final(Words', Waiting', heard'[k], Tells(k)', k)
  <2>1. told'[k] = told[k]
    BY <1>3
  <2>2. Final(Words, Waiting, heard[k], Tells(k), k)
    BY <1>3, <2>1 DEF KnowInv, LastInv
  <2> QED  BY <1>1, <2>1, <2>2, TellsSame
<1> QED  BY <1>2, <1>3 DEF LastInv

\* A send changes nothing of it,
LEMMA PushKnows == ASSUME KnowInv, Push PROVE CacheInv' /\ LastInv'
<1>1. Waiting' = Waiting /\ Words' = Words
  BY PushWords DEF KnowInv, TypeInv
<1>2. UNCHANGED <<told, metaCache, heard>>
  BY DEF Push, cacheVars, readerVars
<1>3. CacheInv'
  BY <1>2 DEF KnowInv, CacheInv
<1>4. ASSUME NEW k \in Keys, told'[k] # <<>>
      PROVE  Final(Words', Waiting', heard'[k], Tells(k)', k)
  BY <1>1, <1>2, <1>4, TellsSame DEF KnowInv, LastInv
<1> QED  BY <1>3, <1>4 DEF LastInv

\* and when the reader takes the first word, what it hears counts in its place.
LEMMA ReadKnows == ASSUME KnowInv, Read PROVE CacheInv' /\ LastInv'
<1>1. /\ Waiting \in Nat \ {0} /\ Waiting' = Waiting - 1
      /\ \A i \in 1 .. Waiting - 1 : Words'[i] = Words[i + 1]
      /\ Words[1] = content[Head(eventChan)]
  BY ReadWords DEF KnowInv, TypeInv
<1>2. UNCHANGED <<told, metaCache>>
      /\ heard' = [heard EXCEPT ![Body[Words[1][1]].key] = <<Words[1][2]>>]
  BY <1>1 DEF Read, cacheVars
<1>3. CacheInv'
  BY <1>2 DEF KnowInv, CacheInv
<1>4. ASSUME NEW k \in Keys, told'[k] # <<>>
      PROVE  Final(Words', Waiting', heard'[k], Tells(k)', k)
  <2>1. heard'[k] = IF Body[Words[1][1]].key = k THEN <<Words[1][2]>> ELSE heard[k]
    BY <1>2 DEF KnowInv, TypeInv, Bounds
  <2>2. Tells(k)' = Tells(k) /\ Final(Words, Waiting, heard[k], Tells(k), k)
    BY <1>2, <1>4, TellsSame DEF KnowInv, LastInv
  <2> QED  BY <1>1, <2>1, <2>2, FinalRead
<1> QED  BY <1>3, <1>4 DEF LastInv

\* The window's handling of a message.
LEMMA WindowKnows ==
    ASSUME KnowInv, NEW m \in Messages, NEW o \in Objects,
           Medal(m, o) \/ UserInfo(m, o) \/ Filter(m, o) \/ Online(m, o)
    PROVE  CacheInv' /\ LastInv'
<1>1. CASE \E some, kind : /\ Take(kind, m) /\ Keep(m, o, some) /\ Remember(m)
                           /\ \/ some = Merged(m)
                              \/ some = Body[m].info /\ kind = "fansMedal"
  BY <1>1, KeepKnows
<1>2. CASE UNCHANGED <<eventChan, inHand, heard, content, told, metaCache>>
  BY <1>2, OtherKnows
<1>3. CASE Medal(m, o)
  <2>1. CASE ~Body[m].fit \/ Cached(m)
    BY <1>2, <1>3, <2>1 DEF Medal, Take, Drop, readerVars, cacheVars
  <2>2. CASE ~(~Body[m].fit \/ Cached(m))
    BY <1>1, <1>3, <2>2 DEF Medal
  <2> QED  BY <2>1, <2>2
<1>4. CASE UserInfo(m, o)
  <2>1. CASE Keep(m, o, Merged(m)) /\ Remember(m)
    BY <1>1, <1>4, <2>1 DEF UserInfo
  <2>2. CASE Drop(m, o) /\ UNCHANGED cacheVars
    BY <1>2, <1>4, <2>2 DEF UserInfo, Take, Drop, readerVars, cacheVars
  <2> QED  BY <1>4, <2>1, <2>2 DEF UserInfo
<1>5. CASE Filter(m, o) \/ Online(m, o)
  BY <1>2, <1>5 DEF Filter, Online, msgDuplicateFilter, Take, Drop, Panic, readerVars, cacheVars
<1> QED  BY <1>3, <1>4, <1>5

\* It holds at the start, when nothing has been told,
LEMMA InitKnows == Init => KnowInv
<1> SUFFICES ASSUME Init PROVE CacheInv /\ LastInv
  BY InitTypes DEF KnowInv
<1> QED  BY DEF Init, CacheInv, LastInv

\* and every step keeps it.
LEMMA StepKnows == KnowInv /\ [Next]_vars => KnowInv'
<1> SUFFICES ASSUME KnowInv, [Next]_vars PROVE CacheInv' /\ LastInv'
  BY StepTypes DEF KnowInv
<1>1. ASSUME UNCHANGED <<eventChan, inHand, heard, told, metaCache>>,
             content' = content \/ Recycle
      PROVE  CacheInv' /\ LastInv'
  BY <1>1, OtherKnows
<1>2. ASSUME NEW m \in Messages, Publish(m) PROVE CacheInv' /\ LastInv'
  BY <1>1, <1>2 DEF Publish, readerVars, cacheVars
<1>3. CASE Window
  BY <1>3, WindowKnows, PushKnows DEF Window
<1>4. ASSUME NEW k \in Keys, ForgetMeta(k) PROVE CacheInv' /\ LastInv'
  <2>1. UNCHANGED <<eventChan, inHand, heard, content>>
    BY <1>4 DEF ForgetMeta, readerVars
  <2>2. \A q \in Keys : \/ told'[q] = told[q] /\ metaCache'[q] = metaCache[q]
                        \/ told'[q] = <<>> /\ metaCache'[q] = <<>>
    BY <1>4 DEF ForgetMeta, KnowInv, TypeInv, Bounds
  <2> QED  BY <2>1, <2>2, OtherKnows
<1>5. ASSUME NEW k \in Keys, ForgetKey(k) PROVE CacheInv' /\ LastInv'
  BY <1>1, <1>5 DEF ForgetKey, readerVars
<1>6. CASE Read
  BY <1>6, ReadKnows
<1>7. CASE RecycleEvent \/ Recycle
  BY <1>1, <1>7 DEF RecycleEvent, Recycle, cacheVars
<1>8. CASE UNCHANGED vars
  BY <1>1, <1>8 DEF vars, readerVars, cacheVars
<1> QED  BY <1>2, <1>3, <1>4, <1>5, <1>6, <1>7, <1>8 DEF Next

\* Whoever has read what was sent knows of every key what its last two infos tell,
\* in whatever order they came and whatever the caches have forgotten meanwhile.
THEOREM LastTwoKnown == Spec => []ReadersKnowLastTwo
<1>1. KnowInv => ReadersKnowLastTwo
  <2> SUFFICES ASSUME KnowInv, CaughtUp, NEW k \in Keys, told[k] # <<>>, NEW f \in Fields
               PROVE  heard[k][1][f] = LastTold(k, f)
    BY DEF ReadersKnowLastTwo
  <2>1. inHand = <<>> /\ eventChan = <<>>
    BY DEF CaughtUp, KnowInv, TypeInv, IInv, Types
  <2>2. Waiting = 0
    BY <2>1 DEF Waiting, Chain
  <2>3. Final(Words, Waiting, heard[k], Tells(k), k)
    BY DEF KnowInv, LastInv
  <2>4. heard[k][1][f] = Tells(k)[f]
    BY <2>2, <2>3 DEF Final
  <2> QED  BY <2>4 DEF Tells
<1> QED  BY <1>1, InitKnows, StepKnows, PTL DEF Spec

-------------------------------------------------------------------------------
(* For a reader the controller is a MessageLine.                             *)

\* Functions on 1 .. n are sequences: one that goes on is an Append,
LEMMA AppendByIndex ==
    ASSUME NEW n \in Nat, NEW w, NEW v, NEW S,
           w \in [1 .. n -> S], v \in [1 .. n + 1 -> S], \A i \in 1 .. n : v[i] = w[i]
    PROVE  Len(w) = n /\ Len(v) = n + 1 /\ v = Append(w, v[Len(v)])
<1>1. w \in Seq(S) /\ Len(w) = n /\ v \in Seq(S) /\ Len(v) = n + 1
  OBVIOUS
<1>2. v[n + 1] \in S
  OBVIOUS
<1>3. /\ Append(w, v[n + 1]) \in Seq(S) /\ Len(Append(w, v[n + 1])) = n + 1
      /\ \A i \in 1 .. n : Append(w, v[n + 1])[i] = w[i]
      /\ Append(w, v[n + 1])[n + 1] = v[n + 1]
  BY <1>1, <1>2, AppendProperties
<1>4. \A i \in 1 .. n + 1 : v[i] = Append(w, v[n + 1])[i]
  <2>1. \A i \in 1 .. n + 1 : i \in 1 .. n \/ i = n + 1
    OBVIOUS
  <2> QED  BY <1>3, <2>1
<1> QED  BY <1>1, <1>3, <1>4

\* and one that is moved up by one place is a Tail.
LEMMA TailByIndex ==
    ASSUME NEW n \in Nat \ {0}, NEW w, NEW v, NEW S,
           w \in [1 .. n -> S], v \in [1 .. n - 1 -> S], \A i \in 1 .. n - 1 : v[i] = w[i + 1]
    PROVE  w # <<>> /\ Head(w) = w[1] /\ v = Tail(w)
<1>1. w \in Seq(S) /\ Len(w) = n /\ v \in Seq(S) /\ Len(v) = n - 1
  OBVIOUS
<1>2. w # <<>> /\ Head(w) = w[1]
  BY <1>1
<1>3. /\ Tail(w) \in Seq(S) /\ Len(Tail(w)) = n - 1
      /\ \A i \in 1 .. n - 1 : Tail(w)[i] = w[i + 1]
  BY <1>1, <1>2, HeadTailProperties
<1> QED  BY <1>1, <1>2, <1>3

\* The words are what all the objects might be filled with, before and after a step.
LEMMA WordsTyped ==
    ASSUME IInv, IInv', NEW S, \A o \in Objects : content[o] \in S /\ content'[o] \in S
    PROVE  Words \in [1 .. Waiting -> S] /\ Words' \in [1 .. Waiting' -> S]
<1>1. \A i \in 1 .. Waiting : Chain[i] \in Objects
  BY ChainTyped DEF IInv, Waiting
<1>2. Chain' \in Seq(Objects) /\ Waiting' = Len(Chain')
  <2>1. eventChan' \in Seq(Objects) /\ inHand' \in Seq(Objects)
    BY HoldingsTyped DEF IInv, Types
  <2> QED  BY <2>1 DEF Chain, Waiting
<1>3. \A i \in 1 .. Waiting' : Chain'[i] \in Objects
  BY <1>2
<1>4. Words \in [1 .. Waiting -> S]
  BY <1>1 DEF Words
<1>5. Words' \in [1 .. Waiting' -> S]
  BY <1>3 DEF Words
<1> QED  BY <1>4, <1>5

\* An object in its pool or on the way back to it is not with the reader.
LEMMA NotWithReader ==
    ASSUME IInv, NEW o \in Objects,
           pooled[o] > 0 \/ \E j \in 1 .. Len(recycleChan) : recycleChan[j] = o
    PROVE  reader # <<o>>
<1> SUFFICES ASSUME reader = <<o>> PROVE FALSE
  OBVIOUS
<1>1. /\ pooled[o] \in Nat
      /\ Count(inHand, o) \in Nat /\ Count(eventChan, o) \in Nat
      /\ Count(reader, o) \in Nat /\ Count(recycleChan, o) \in Nat
      /\ recycleChan \in Seq(Objects)
  BY PlacesTyped DEF IInv, Types
<1>2. pooled[o] + Count(recycleChan, o) >= 1
  BY <1>1, CountPositive
<1>3. Count(reader, o) = 1
  BY CountSmall
<1>4. pooled[o] + Count(inHand, o) + Count(eventChan, o) + Count(reader, o)
                + Count(recycleChan, o) = 1
  BY DEF IInv, OnePlace, Total
<1>5. Count(inHand, o) + Count(eventChan, o) >= 0
  BY <1>1
<1> QED  BY <1>1, <1>2, <1>3, <1>4, <1>5

\* What is read stays as it is when another object is filled or reset.
LEMMA ReadingSame ==
    ASSUME IInv, reader' = reader, NEW o \in Objects, reader # <<o>>,
           DOMAIN content = Objects, NEW word, content' = [content EXCEPT ![o] = word]
    PROVE  Reading' = Reading
<1>1. CASE reader = <<>>
  BY <1>1 DEF Reading
<1>2. CASE reader # <<>>
  <2>1. PICK r \in Objects : reader = <<r>>
    BY <1>2 DEF IInv, Types, Holdings
  <2>2. r # o /\ content'[r] = content[r]
    BY <2>1
  <2> QED  BY <2>1, <2>2 DEF Reading
<1> QED  BY <1>1, <1>2

\* Keeping an object is joining the line,
LEMMA KeepJoins ==
    ASSUME TypeInv, TypeInv', NEW m, NEW o \in Objects, NEW some, NEW kind,
           Take(kind, m), Keep(m, o, some)
    PROVE  ML!Join
<1> USE DEF TypeInv
<1> DEFINE S == {content[p] : p \in Objects} \union {content'[p] : p \in Objects}
<1>1. window = "select" /\ UNCHANGED <<eventChan, reader>>
  BY DEF Take, readerVars
<1>2. /\ Waiting \in Nat /\ Waiting' = Waiting + 1
      /\ \A i \in 1 .. Waiting : Words'[i] = Words[i]
  BY <1>1, KeepWords DEF Bounds
<1>3. Words \in [1 .. Waiting -> S] /\ Words' \in [1 .. Waiting + 1 -> S]
  <2>1. \A p \in Objects : content[p] \in S /\ content'[p] \in S
    OBVIOUS
  <2> HIDE DEF S
  <2> QED  BY <1>2, <2>1, WordsTyped
<1> HIDE DEF S
<1>4. Len(Words') = Len(Words) + 1 /\ Words' = Append(Words, Words'[Len(Words')])
  BY <1>2, <1>3, AppendByIndex
<1>5. Reading' = Reading
  <2>1. pooled[o] > 0 /\ content' = [content EXCEPT ![o] = <<m, some>>]
    BY DEF Keep, Get
  <2> QED  BY <1>1, <2>1, NotWithReader, ReadingSame DEF Bounds
<1> QED  BY <1>4, <1>5 DEF ML!Join

\* reading is taking the first word,
LEMMA ReadTakesFirst ==
    ASSUME TypeInv, TypeInv', Read
    PROVE  ML!TakeFirst
<1> USE DEF TypeInv
<1> DEFINE S == {content[p] : p \in Objects} \union {content'[p] : p \in Objects}
<1>1. /\ Waiting \in Nat \ {0} /\ Waiting' = Waiting - 1
      /\ \A i \in 1 .. Waiting - 1 : Words'[i] = Words[i + 1]
      /\ Words[1] = content[Head(eventChan)]
  BY ReadWords
<1>2. Words \in [1 .. Waiting -> S] /\ Words' \in [1 .. Waiting - 1 -> S]
  <2>1. \A p \in Objects : content[p] \in S /\ content'[p] \in S
    OBVIOUS
  <2> HIDE DEF S
  <2> QED  BY <1>1, <2>1, WordsTyped
<1> HIDE DEF S
<1>3. Words # <<>> /\ Head(Words) = Words[1] /\ Words' = Tail(Words)
  BY <1>1, <1>2, TailByIndex
<1>4. Reading = <<>> /\ Reading' = <<content[Head(eventChan)]>>
  BY DEF Read, Reading
<1> QED  BY <1>1, <1>3, <1>4 DEF ML!TakeFirst

\* giving back is being done,
LEMMA GiveBackDone ==
    ASSUME TypeInv, RecycleEvent
    PROVE  ML!Done
<1>1. Waiting' = Waiting /\ Words' = Words
  BY OtherWords DEF TypeInv, Bounds, RecycleEvent
<1>2. Reading # <<>> /\ Reading' = <<>>
  BY DEF RecycleEvent, Reading
<1> QED  BY <1>1, <1>2 DEF ML!Done

\* and every other step is none of the line's.
LEMMA OthersStutter ==
    ASSUME TypeInv, UNCHANGED <<eventChan, inHand, reader>>, content' = content \/ Recycle
    PROVE  UNCHANGED ML!vars
<1>1. Words' = Words
  BY OtherWords DEF TypeInv, Bounds
<1>2. Reading' = Reading
  <2>1. CASE content' = content
    BY <2>1 DEF Reading
  <2>2. CASE Recycle
    <3>1. /\ Head(recycleChan) \in Objects
          /\ Len(recycleChan) \in Nat /\ Len(recycleChan) > 0
          /\ recycleChan[1] = Head(recycleChan)
          /\ content' = [content EXCEPT ![Head(recycleChan)] = <<>>]
      BY <2>2, HeadTailProperties DEF Recycle, TypeInv, IInv, Types
    <3>2. reader # <<Head(recycleChan)>>
      BY <3>1, NotWithReader DEF TypeInv
    <3> QED  BY <3>1, <3>2, ReadingSame DEF TypeInv, Bounds
  <2> QED  BY <2>1, <2>2
<1> QED  BY <1>1, <1>2 DEF ML!vars

LEMMA PushStutters ==
    ASSUME TypeInv, Push
    PROVE  UNCHANGED ML!vars
<1>1. Words' = Words
  BY PushWords DEF TypeInv
<1>2. Reading' = Reading
  BY DEF Push, readerVars, Reading
<1> QED  BY <1>1, <1>2 DEF ML!vars

\* Each step of the controller is one of the line or none.
LEMMA NextRefines == TypeInv /\ TypeInv' /\ [Next]_vars => [ML!Next]_(ML!vars)
<1> SUFFICES ASSUME TypeInv, TypeInv', [Next]_vars PROVE ML!Next \/ UNCHANGED ML!vars
  OBVIOUS
<1>1. ASSUME NEW m \in Messages, Publish(m) PROVE UNCHANGED ML!vars
  BY <1>1, OthersStutter DEF Publish, readerVars
<1>2. ASSUME NEW m \in Messages, NEW o \in Objects,
             Medal(m, o) \/ UserInfo(m, o) \/ Filter(m, o) \/ Online(m, o)
      PROVE  ML!Next \/ UNCHANGED ML!vars
  <2>1. PICK kind : Take(kind, m)
    BY <1>2 DEF Medal, UserInfo, Filter, Online
  <2>2. \/ \E some : Keep(m, o, some)
        \/ Drop(m, o)
        \/ Panic
    BY <1>2 DEF Medal, UserInfo, Filter, Online, msgDuplicateFilter
  <2>3. CASE \E some : Keep(m, o, some)
    BY <2>1, <2>3, KeepJoins DEF ML!Next
  <2>4. CASE Drop(m, o) \/ Panic
    BY <2>1, <2>4, OthersStutter DEF Take, Drop, Panic, readerVars
  <2> QED  BY <2>2, <2>3, <2>4
<1>3. CASE Push
  BY <1>3, PushStutters
<1>4. ASSUME NEW k \in Keys, ForgetMeta(k) \/ ForgetKey(k) PROVE UNCHANGED ML!vars
  BY <1>4, OthersStutter DEF ForgetMeta, ForgetKey, readerVars
<1>5. CASE Read
  BY <1>5, ReadTakesFirst DEF ML!Next
<1>6. CASE RecycleEvent
  BY <1>6, GiveBackDone DEF ML!Next
<1>7. CASE Recycle
  BY <1>7, OthersStutter DEF Recycle
<1>8. CASE UNCHANGED vars
  BY <1>8, OthersStutter DEF vars, readerVars
<1> QED  BY <1>1, <1>2, <1>3, <1>4, <1>5, <1>6, <1>7, <1>8 DEF Next, Window

\* Whatever the messages, the number of objects and the capacities, a reader sees
\* one line of words, each as it was told when it was parsed, and nothing of the
\* pools behind it.
THEOREM LineRefined == Spec => ReadersSeeOneLine
<1>1. Init => ML!Init
  <2> SUFFICES ASSUME Init PROVE Words = <<>> /\ Reading = <<>>
    BY DEF ML!Init
  <2>1. Waiting = 0
    BY DEF Init, Waiting, Chain
  <2>2. Words = <<>>
    BY <2>1 DEF Words
  <2> QED  BY <2>2 DEF Init, Reading
<1> QED  BY <1>1, NextRefines, InitTypes, StepTypes, PTL DEF Spec, ReadersSeeOneLine, ML!Spec

===============================================================================
