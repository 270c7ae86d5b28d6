------------------------------- MODULE ZdyDoors -------------------------------
(***************************************************************************)
(* api-one-action/zdy-doors: HTTP handlers that list the doors and open    *)
(* one through a service that wants a token.  Handlers run concurrently    *)
(* and share the token of the one ZdyService, without a lock.  A request   *)
(* that the service answers with code 2 refreshes the token and is made    *)
(* again.                                                                  *)
(***************************************************************************)
EXTENDS Integers, FiniteSets

CONSTANTS
    Handlers,  \* the HTTP requests that can be served at a time
    Tokens     \* the tokens of the service

NoToken == 0

ASSUME DoorsAssumption == NoToken \notin Tokens

VARIABLES
    token,        \* srv.token
    community,    \* whether srv.communityId is set
    pc,           \* per handler, where it is
    kind,         \* per handler, "list" or "open"
    resume,       \* per handler, where it goes on after refreshToken
    autoRefresh,  \* per handler, its reqOpt.AutoRefresh
    carried,      \* per handler, the token its request carries or login got
    answer,       \* per handler, what the service answered, and then its reply
    opened,       \* per handler, how often its request has opened the door
    latest        \* history: the token of the last login

srvVars == <<token, community>>
serviceVars == <<opened, latest>>
vars == <<srvVars, pc, kind, resume, autoRefresh, carried, answer, serviceVars>>

Init ==
    /\ token = NoToken /\ community = FALSE
    /\ pc = [h \in Handlers |-> "idle"]
    /\ kind = [h \in Handlers |-> "list"]
    /\ resume = [h \in Handlers |-> "begin"]
    /\ autoRefresh = [h \in Handlers |-> TRUE]
    /\ carried = [h \in Handlers |-> NoToken]
    /\ answer = [h \in Handlers |-> "none"]
    /\ opened = [h \in Handlers |-> 0]
    /\ latest = NoToken

Goto(h, to) == pc' = [pc EXCEPT ![h] = to]

\* The handler calls refreshToken and goes on at the given place.
Refresh(h, then) == Goto(h, "login") /\ resume' = [resume EXCEPT ![h] = then]

Reply(h, what) == Goto(h, "idle") /\ answer' = [answer EXCEPT ![h] = what]

-------------------------------------------------------------------------------
(* listDoorDevs and openDoor.                                                *)

Call(h, what) ==
    /\ pc[h] = "idle"
    /\ kind' = [kind EXCEPT ![h] = what]
    /\ answer' = [answer EXCEPT ![h] = "none"]
    /\ opened' = [opened EXCEPT ![h] = 0]
    /\ IF what = "list" /\ ~community
         THEN Refresh(h, "begin")
         ELSE Goto(h, "begin") /\ UNCHANGED resume
    /\ UNCHANGED <<srvVars, autoRefresh, carried, latest>>

\* doRequest: without a token it gets one first, and gives up refreshing.
Begin(h) ==
    /\ pc[h] = "begin"
    /\ autoRefresh' = [autoRefresh EXCEPT ![h] = token # NoToken]
    /\ IF token = NoToken
         THEN Refresh(h, "send")
         ELSE Goto(h, "send") /\ UNCHANGED resume
    /\ UNCHANGED <<srvVars, kind, carried, answer, serviceVars>>

\* The token is read again.
Send(h) ==
    /\ pc[h] = "send"
    /\ carried' = [carried EXCEPT ![h] = token]
    /\ Goto(h, "asked")
    /\ UNCHANGED <<srvVars, kind, resume, autoRefresh, answer, serviceVars>>

\* Mutant of Again: whatever went wrong, the request is made again.
Again_OnError(h) == answer[h] # "ok" /\ autoRefresh[h]

\* The request is made again, with a new token.
Again(h) == answer[h] = "code2" /\ autoRefresh[h]

React(h) ==
    /\ pc[h] = "answered"
    /\ IF Again(h)
         THEN Refresh(h, "begin") /\ UNCHANGED answer
         ELSE Reply(h, IF answer[h] = "ok" THEN "ok" ELSE "error") /\ UNCHANGED resume
    /\ UNCHANGED <<srvVars, kind, autoRefresh, carried, serviceVars>>

-------------------------------------------------------------------------------
(* refreshToken: it logs in, then stores what it got.                        *)

\* Mutant of StoreToken: the token is not stored when there is one.
StoreToken_Once(h) ==
    /\ pc[h] = "loggedIn"
    /\ token' = IF token = NoToken THEN carried[h] ELSE token
    /\ Goto(h, "stored")
    /\ UNCHANGED <<community, kind, resume, autoRefresh, carried, answer, serviceVars>>

StoreToken(h) ==
    /\ pc[h] = "loggedIn"
    /\ token' = carried[h]
    /\ Goto(h, "stored")
    /\ UNCHANGED <<community, kind, resume, autoRefresh, carried, answer, serviceVars>>

StoreCommunity(h) ==
    /\ pc[h] = "stored"
    /\ community' = TRUE
    /\ Goto(h, resume[h])
    /\ UNCHANGED <<token, kind, resume, autoRefresh, carried, answer, serviceVars>>

\* Mutant of LoginFails: the error is ignored, and the caller goes on.
LoginFails_Ignored(h) ==
    /\ pc[h] = "login"
    /\ Goto(h, resume[h])
    /\ UNCHANGED <<srvVars, kind, resume, autoRefresh, carried, answer, serviceVars>>

LoginFails(h) ==
    /\ pc[h] = "login"
    /\ Reply(h, "error")
    /\ UNCHANGED <<srvVars, kind, resume, autoRefresh, carried, serviceVars>>

-------------------------------------------------------------------------------
(* The service, which may take as long as it likes (the client sets no time *)
(* limit) and answer what it likes, but for one thing: a request that it has *)
(* carried out is not answered with code 2, nor any other with success.      *)

\* A login gets some token, or fails.
Login(h) ==
    /\ pc[h] = "login"
    /\ \E t \in Tokens : carried' = [carried EXCEPT ![h] = t] /\ latest' = t
    /\ Goto(h, "loggedIn")
    /\ UNCHANGED <<srvVars, kind, resume, autoRefresh, answer, opened>>

Answer(h, what) ==
    /\ pc[h] = "asked"
    /\ answer' = [answer EXCEPT ![h] = what]
    /\ Goto(h, "answered")
    /\ UNCHANGED <<srvVars, kind, resume, autoRefresh, carried, latest>>

\* The request is carried out; its answer may be lost.
Serve(h) ==
    /\ opened' = [opened EXCEPT ![h] = IF kind[h] = "open" THEN @ + 1 ELSE @]
    /\ Answer(h, "ok") \/ Answer(h, "failed")

\* It is refused, for its token or for something else, or never gets there.
Refuse(h) ==
    /\ Answer(h, "code2") \/ Answer(h, "failed")
    /\ UNCHANGED opened

-------------------------------------------------------------------------------

Handler(h) == Begin(h) \/ Send(h) \/ React(h) \/ StoreToken(h) \/ StoreCommunity(h)
Service(h) == Login(h) \/ LoginFails(h) \/ Serve(h) \/ Refuse(h)

Next ==
    \E h \in Handlers : Call(h, "list") \/ Call(h, "open") \/ Handler(h) \/ Service(h)

\* A handler whose request has been answered goes on.
Spec == Init /\ [][Next]_vars /\ \A h \in Handlers : WF_vars(Handler(h))

-------------------------------------------------------------------------------
(* Properties.                                                               *)

\* Whatever refreshes and retries a request goes through, it opens the door at
\* most once, and has opened it when it is answered with success (zdy.go:83-95).
OpensOnce ==
    \A h \in Handlers :
        /\ opened[h] <= 1
        /\ kind[h] = "open" /\ answer[h] = "ok" => opened[h] = 1

\* No request goes out without a token, and none for the list of doors before the
\* community is known, although both are checked early, read again later and set
\* by any handler: what one handler has checked no other takes away (zdy.go:63-71,
\* actions.go:13-21).
SentReady ==
    \A h \in Handlers :
        pc[h] = "asked" => carried[h] \in Tokens /\ (kind[h] = "list" => community)

\* Nothing counts the retries (zdy.go:88): a service that takes none of its tokens,
\* or two requests that take each other's, keep one going for ever.  But a request
\* that is left alone in the end, by a service that always answers and does not
\* refuse the token of the last login, comes to an end: a refresh takes effect,
\* whichever of the earlier ones was stored last (zdy.go:83-88, :115).
Refused(h) == pc[h] = "answered" /\ answer[h] = "code2" /\ carried[h] = latest

LoneRequestEnds ==
    \A h \in Handlers :
        /\ <>[](\A other \in Handlers \ {h} : pc[other] = "idle")
        /\ []<>(pc[h] \notin {"login", "asked"})
        /\ <>[](~Refused(h))
        => []<>(pc[h] = "idle")

===============================================================================
