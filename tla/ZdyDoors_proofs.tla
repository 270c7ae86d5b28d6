---------------------------- MODULE ZdyDoors_proofs ----------------------------
(***************************************************************************)
(* Theorems about the door service's front end, for any number of handlers *)
(* and tokens.                                                             *)
(***************************************************************************)
EXTENDS ZdyDoors, TLAPS

Underway == {"login", "loggedIn", "stored", "begin", "send", "asked"}

Types ==
    /\ pc \in [Handlers -> Underway \union {"idle", "answered"}]
    /\ kind \in [Handlers -> {"list", "open"}]
    /\ resume \in [Handlers -> {"begin", "send"}]
    /\ answer \in [Handlers -> {"none", "ok", "failed", "code2", "error"}]
    /\ opened \in [Handlers -> 0 .. 1]

\* A request has not been carried out while it is under way, nor when it was
\* refused for its token, so making it again does not repeat it.
NothingRepeated ==
    \A h \in Handlers :
        /\ pc[h] \in Underway => opened[h] = 0 /\ answer[h] # "ok"
        /\ answer[h] = "code2" => opened[h] = 0
        /\ kind[h] = "open" /\ answer[h] = "ok" => opened[h] = 1

IInv == Types /\ NothingRepeated

\* The invariant holds at the start.
LEMMA Initially == Init => IInv
BY DEF Init, IInv, Types, NothingRepeated, Underway

\* Every step keeps it.
LEMMA Inductive == IInv /\ [Next]_vars => IInv'
<1> SUFFICES ASSUME IInv, [Next]_vars PROVE IInv'
  OBVIOUS
<1> USE DEF IInv, Types, NothingRepeated, Underway, srvVars, serviceVars
<1>1. ASSUME NEW h \in Handlers, Call(h, "list") \/ Call(h, "open") PROVE IInv'
  BY <1>1 DEF Call, Refresh, Goto
<1>2. ASSUME NEW h \in Handlers, Begin(h) PROVE IInv'
  BY <1>2 DEF Begin, Refresh, Goto
<1>3. ASSUME NEW h \in Handlers, Send(h) PROVE IInv'
  BY <1>3 DEF Send, Goto
<1>4. ASSUME NEW h \in Handlers, React(h) PROVE IInv'
  BY <1>4 DEF React, Again, Refresh, Reply, Goto
<1>5. ASSUME NEW h \in Handlers, StoreToken(h) PROVE IInv'
  BY <1>5 DEF StoreToken, Goto
<1>6. ASSUME NEW h \in Handlers, Login(h) PROVE IInv'
  BY <1>6 DEF Login, Goto
<1>7. ASSUME NEW h \in Handlers, LoginFails(h) PROVE IInv'
  BY <1>7 DEF LoginFails, Reply, Goto
<1>8. ASSUME NEW h \in Handlers, Serve(h) PROVE IInv'
  BY <1>8 DEF Serve, Answer, Goto
<1>9. ASSUME NEW h \in Handlers, Refuse(h) PROVE IInv'
  BY <1>9 DEF Refuse, Answer, Goto
<1>10. ASSUME NEW h \in Handlers, StoreCommunity(h) PROVE IInv'
  BY <1>10 DEF StoreCommunity, Goto
<1>11. CASE UNCHANGED vars
  BY <1>11 DEF vars
<1> QED
  BY <1>1, <1>2, <1>3, <1>4, <1>5, <1>6, <1>7, <1>8, <1>9, <1>10, <1>11 DEF Next, Handler, Service

\* Whatever refreshes and retries a request goes through, and whatever the other
\* handlers do to the token meanwhile, it opens the door at most once, and has
\* opened it when it is answered with success.
THEOREM DoorOpensOnce == Spec => []OpensOnce
<1>1. Init => IInv  BY Initially
<1>2. IInv /\ [Next]_vars => IInv'  BY Inductive
<1>3. IInv => OpensOnce
  BY DEF IInv, Types, NothingRepeated, OpensOnce
<1> QED  BY <1>1, <1>2, <1>3, PTL DEF Spec

-------------------------------------------------------------------------------
(* What a request carries.                                                   *)

Held == Tokens \union {NoToken}

\* A handler that is past its login has got a token; one that has stored it, and one
\* that sends, finds a token set; and the community is set after it.
Ready ==
    /\ token \in Held /\ community \in BOOLEAN /\ carried \in [Handlers -> Held]
    /\ community => token \in Tokens
    /\ \A h \in Handlers :
        /\ pc[h] \in {"loggedIn", "asked"} => carried[h] \in Tokens
        /\ pc[h] \in {"stored", "send"} => token \in Tokens
        /\ pc[h] = "send" /\ kind[h] = "list" => community
        /\ pc[h] = "asked" /\ kind[h] = "list" => community
        /\ pc[h] = "begin" /\ kind[h] = "list" => community

\* The tokens are ready at the start,
LEMMA InitReady == Init => Ready
BY DEF Init, Ready, Held

\* and every step keeps them so.
LEMMA StepReady == IInv /\ Ready /\ [Next]_vars => Ready'
<1> SUFFICES ASSUME IInv, Ready, [Next]_vars PROVE Ready'
  OBVIOUS
<1> NoToken \notin Tokens
  BY DoorsAssumption
<1> USE DEF IInv, Types, Ready, Held, Underway, srvVars, serviceVars
<1>1. ASSUME NEW h \in Handlers, Call(h, "list") \/ Call(h, "open") PROVE Ready'
  BY <1>1 DEF Call, Refresh, Goto
<1>2. ASSUME NEW h \in Handlers, Begin(h) PROVE Ready'
  BY <1>2 DEF Begin, Refresh, Goto
<1>3. ASSUME NEW h \in Handlers, Send(h) PROVE Ready'
  BY <1>3 DEF Send, Goto
<1>4. ASSUME NEW h \in Handlers, React(h) PROVE Ready'
  BY <1>4 DEF React, Again, Refresh, Reply, Goto
<1>5. ASSUME NEW h \in Handlers, StoreToken(h) PROVE Ready'
  BY <1>5 DEF StoreToken, Goto
<1>6. ASSUME NEW h \in Handlers, Login(h) PROVE Ready'
  BY <1>6 DEF Login, Goto
<1>7. ASSUME NEW h \in Handlers, LoginFails(h) PROVE Ready'
  BY <1>7 DEF LoginFails, Reply, Goto
<1>8. ASSUME NEW h \in Handlers, Serve(h) PROVE Ready'
  BY <1>8 DEF Serve, Answer, Goto
<1>9. ASSUME NEW h \in Handlers, Refuse(h) PROVE Ready'
  BY <1>9 DEF Refuse, Answer, Goto
<1>10. ASSUME NEW h \in Handlers, StoreCommunity(h) PROVE Ready'
  BY <1>10 DEF StoreCommunity, Goto
<1>11. CASE UNCHANGED vars
  BY <1>11 DEF vars
<1> QED
  BY <1>1, <1>2, <1>3, <1>4, <1>5, <1>6, <1>7, <1>8, <1>9, <1>10, <1>11 DEF Next, Handler, Service

\* However the handlers interleave, no request goes out without a token, and none
\* for the list of doors before the community is known.
THEOREM GoesOutReady == Spec => []SentReady
<1>1. Init => IInv /\ Ready  BY Initially, InitReady
<1>2. (IInv /\ Ready) /\ [Next]_vars => (IInv /\ Ready)'  BY Inductive, StepReady
<1>3. IInv /\ Ready => SentReady
  BY DEF Ready, SentReady
<1> QED  BY <1>1, <1>2, <1>3, PTL DEF Spec

===============================================================================
