--------------------------- MODULE MCRegistration ---------------------------
(* Registration on three requests that contend for every unique key.         *)
EXTENDS Registration, TLC

\* The second form clashes with the first by address under another name, the
\* third with the first by e-mail; the last two share a name and nothing else.
MCForm ==
    {[name |-> "n1", address |-> "a1", email |-> "e1", phone |-> "p1"],
     [name |-> "n2", address |-> "a1", email |-> "e2", phone |-> "p2"],
     [name |-> "n2", address |-> "a2", email |-> "e1", phone |-> "p3"]}

Symmetry == Permutations(Request)
=============================================================================
