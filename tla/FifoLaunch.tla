------------------------------ MODULE FifoLaunch ------------------------------
(***************************************************************************)
(* What the task scheduler of client-http-proxy promises to whoever hands  *)
(* it work: tasks are launched in the order in which they were accepted,   *)
(* each at most once and none skipped, and in the limited mode every       *)
(* launch spends a tick of the rate limiter.  One tick at most is saved    *)
(* while nothing needs it, and one at most is taken ahead of its launch.   *)
(***************************************************************************)
EXTENDS Naturals, Sequences, Functions

CONSTANTS
    Tasks,    \* the tasks a caller may hand over
    Limited   \* whether a rate limit is set

VARIABLES
    accepted,  \* the tasks accepted so far, in order
    launched,  \* the tasks launched so far, in order
    saved,     \* a tick has passed that nothing has taken yet
    taken      \* a tick has been taken for the next launch

vars == <<accepted, launched, saved, taken>>

Init ==
    /\ accepted = <<>>
    /\ launched = <<>>
    /\ saved = FALSE
    /\ taken = FALSE

Accept(t) ==
    /\ t \notin Range(accepted)
    /\ accepted' = Append(accepted, t)
    /\ UNCHANGED <<launched, saved, taken>>

Earn ==
    /\ Limited
    /\ ~saved
    /\ saved' = TRUE
    /\ UNCHANGED <<accepted, launched, taken>>

Take ==
    /\ saved
    /\ ~taken
    /\ saved' = FALSE
    /\ taken' = TRUE
    /\ UNCHANGED <<accepted, launched>>

Launch ==
    /\ Limited => taken
    /\ Len(launched) < Len(accepted)
    /\ launched' = Append(launched, accepted[Len(launched) + 1])
    /\ taken' = FALSE
    /\ UNCHANGED <<accepted, saved>>

Next ==
    \/ \E t \in Tasks : Accept(t)
    \/ Earn
    \/ Take
    \/ Launch

Spec == Init /\ [][Next]_vars

===============================================================================
