--------------------------- MODULE MCTimerService ---------------------------
(* Two starts and two ends, of two users, on two connections.                *)
EXTENDS TimerService, TLC

Symmetry == Permutations(Start) \cup Permutations(User) \cup Permutations(End)
=============================================================================
