------------------------------ MODULE MCTimer ------------------------------
(* One user whose timer is running, two more starts and an end, on two       *)
(* connections.                                                              *)
EXTENDS Timer

CONSTANT First  \* the start of the running timer

\* A reachable state: First has arrived and inserted.
Underway ==
    /\ user \in {[c \in Call |-> IF c = First THEN u ELSE None] : u \in User}
    /\ pc = [c \in Call |-> IF c = First THEN "done" ELSE "idle"]
    /\ timers = {First}
    /\ closer = [t \in Start |-> None]
    /\ answer = [c \in Call |-> IF c = First THEN [code |-> "OK", timer |-> First]
                                           ELSE [code |-> None, timer |-> None]]
    /\ seen = [c \in Call |-> {}] /\ closing = seen /\ known = seen

MCSpec == Underway /\ [][Next]_vars /\ Fairness
=============================================================================
