------------------------------- MODULE MCTeam -------------------------------
(* Two calls for one or two companies.  The batch {ann, bob} is enough for   *)
(* waits in either database, in opposite orders and across both; bob2 has    *)
(* bob's phone.  Ann may have an account already.                            *)
EXTENDS Team

CONSTANTS a, b

ann == [email |-> "ann", phone |-> 1]
bob == [email |-> "bob", phone |-> 2]
bob2 == [email |-> "bob2", phone |-> 2]

MCEntry == {ann, bob, bob2}
MCJob == {[batch |-> {ann, bob}, company |-> a, database |-> a],
          [batch |-> {bob, bob2}, company |-> b, database |-> a]}
MCOwnJob == {j \in MCJob : j.company = j.database}
MCFounder == {[by |-> None, entry |-> ann, company |-> b]}
=============================================================================
