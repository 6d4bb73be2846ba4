---------------------------- MODULE TimerService -----------------------------
(***************************************************************************)
(* The timer service before dbservice: the handlers StartTimer and         *)
(* EndTimer, which wait for one call each, and what they tell the user.    *)
(*                                                                         *)
(* A request and its call go separate ways when nginx stops waiting: the   *)
(* user has an answer and may send the next request, while the call is     *)
(* still at work in dbservice.                                             *)
(***************************************************************************)
EXTENDS Timer

VARIABLES
    stage,    \* where the request of each call is
    crossed,  \* history: the calls that overlapped with one of the same user
    told      \* history: the active timers by the user's last answer, or None

serviceVars == <<stage, crossed, told>>
allVars == <<vars, serviceVars>>

ServiceTypeOK ==
    /\ TypeOK
    /\ stage \in [Call -> {"idle", "waiting", "answered"}]
    /\ crossed \subseteq Call
    /\ told \in [User -> (SUBSET Start) \cup {None}]

ServiceInit ==
    /\ Init
    /\ stage = [c \in Call |-> "idle"]
    /\ crossed = {}
    /\ told = [u \in User |-> None]

-----------------------------------------------------------------------------
\* The handler waits, or dbservice is still at work for it.
Pending(c) == stage[c] = "waiting" \/ Running(c)
PendingOf(u) == {c \in Call : user[c] = u /\ Pending(c)}

Leave(c) == stage' = [stage EXCEPT ![c] = "answered"]

\* The handler sends the call, and what the user was told is out of date.  A
\* request that gets no further (the body, a cookie or a connector is wanting,
\* the gateway refuses the call) changes nothing.
Send(c) ==
    /\ stage[c] = "idle"
    /\ Arrive(c)
    /\ stage' = [stage EXCEPT ![c] = "waiting"]
    /\ crossed' = IF PendingOf(user'[c]) = {} THEN crossed
                  ELSE crossed \cup PendingOf(user'[c]) \cup {c}
    /\ told' = [told EXCEPT ![user'[c]] = None]

StartTimer(c) == c \in Start /\ Send(c)
EndTimer(c) == c \in End /\ Send(c)

\* Mutant: the handlers do not look at the error.
SaysRaw(c) == IF c \in Start THEN {c} ELSE {}

\* What a call's answer says of its user's timers.  A panic is answered OK, but
\* names no timer; an error says nothing.
Says(c) ==
    CASE answer[c].code = "OK" /\ c \in End -> {}
      [] answer[c].timer # None /\ c \in Start -> {answer[c].timer}
      [] OTHER -> None

\* The user gets the answer.
Relay(c) ==
    /\ stage[c] = "waiting" /\ pc[c] = "done"
    /\ Leave(c)
    /\ told' = [told EXCEPT ![user[c]] = IF c \in crossed THEN None ELSE Says(c)]
    /\ UNCHANGED <<vars, crossed>>

\* The user gets an error in its place, or nothing: nginx has stopped waiting,
\* the answer is lost, or the service stops.  The call goes on.
GiveUp(c) ==
    /\ stage[c] = "waiting"
    /\ Leave(c)
    /\ UNCHANGED <<vars, crossed, told>>

ServiceNext ==
    \/ \E c \in Call : StartTimer(c) \/ EndTimer(c) \/ Relay(c) \/ GiveUp(c)
    \/ /\ \E c \in Call : Progress(c) \/ Failure(c)
       /\ UNCHANGED serviceVars
    \/ Crash /\ UNCHANGED serviceVars

ServiceSpec == ServiceInit /\ [][ServiceNext]_allVars

-----------------------------------------------------------------------------
\* What a user was told is true until he sends the next request: the timer he
\* was given is active and is his only one, or none is, whatever earlier calls
\* of his have failed halfway, were given up or have crossed each other.  Only
\* the last one must not have crossed another: a call that nginx has given up
\* may still close a timer that was started after it.
ToldIsTrue == \A u \in User : told[u] # None => ActiveOf(u) = told[u]
=============================================================================
