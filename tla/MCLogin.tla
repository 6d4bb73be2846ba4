------------------------------ MODULE MCLogin ------------------------------
(* Two registrations beside one login, and three registrations that contend  *)
(* for keys and for a pool of two connections.                               *)
EXTENDS Login

MCRequest == 1 .. 3

FormOf(n, a, e, p) ==
    [name |-> n, address |-> a, email |-> e, phone |-> p, password |-> "w"]

\* Two accounts with one name and one password, and no key in common; a third
\* with the e-mail of the first, at an address of its own.
f1 == FormOf("n1", "a1", "e1", "p1")
f2 == FormOf("n1", "a2", "e2", "p2")
f3 == FormOf("n2", "a3", "e1", "p3")
MCForm == {f1, f2, f3}

\* The first user's own e-mail and phone; the first e-mail, the second phone.
MCCredential ==
    {[email |-> "e1", phone |-> "p1", password |-> "w"],
     [email |-> "e1", phone |-> "p2", password |-> "w"]}

\* Requests arrive in the order of their numbers, which are only names.
InOrder ==
    \A r \in Request : form[r] # None => \A q \in 1 .. r - 1 : form[q] # None

Carry(forms) == \A r \in Request : form[r] \in forms[r] \cup {None}

\* Two registrations, and logins.
Beside == Carry(<<{f1, f2}, {f1, f2}, {}>>)

\* Three registrations.  The second wants the keys of the first, a company's or a
\* user's.  The third does too, so that two may leak a connection each, or none of
\* them, so that its compensation waits for connections whose holders wait.
Contending ==
    /\ \A l \in Caller : at[l] = "idle"
    /\ Carry(<<{f1}, {f1, f3}, {f1, f2}>>)

\* What arrives is bounded.  Nobody has to arrive, so that fairness is the same.
MCNext == LoginNext /\ (InOrder /\ (Beside \/ Contending))'
MCSpec == LoginInit /\ [][MCNext]_allVars /\ LoginFairness
=============================================================================
