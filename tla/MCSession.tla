------------------------------ MODULE MCSession ------------------------------
(* Two overlapping requests; an access token lives for 1, a cookie for 2 and *)
(* a refresh token for 3 units of time, in the order of 15 minutes, an hour  *)
(* and seven days.                                                           *)
EXTENDS Session

CONSTANTS r1, r2

\* At the last moment, when the refresh token of a first login expires, only r1 is
\* under way.  Time and the sending of requests are owed by nobody, so that
\* fairness is the same.
MCNext == Next /\ (now = Horizon => stage[r2] = "idle")'
MCSpec == Init /\ [][MCNext]_vars /\ Fairness
=============================================================================
