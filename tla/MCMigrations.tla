---------------------------- MODULE MCMigrations ----------------------------
(* The authorization database with its two files, and companies with the     *)
(* nine files, the references and the one bare CREATE TABLE of the source.   *)
EXTENDS Migrations, TLC

CONSTANTS auth, c1, c2

AuthFiles == 2
CompanyFiles == 9
AuthNeeds == {<<2, 1>>}
CompanyNeeds == {<<3, 2>>, <<5, 1>>, <<5, 4>>, <<6, 1>>, <<6, 4>>, <<7, 4>>, <<8, 7>>, <<9, 1>>}

LastOf == [d \in Database |-> IF d = auth THEN AuthFiles ELSE CompanyFiles]
NeedsOf == [d \in Database |-> IF d = auth THEN AuthNeeds ELSE CompanyNeeds]
BareOf == [d \in Database |-> IF d = auth THEN {} ELSE {9}]

\* The installation starts empty, or the release adds files to older databases.
BeginOf == auth :> {Absent, 1} @@ c1 :> {4, 8} @@ c2 :> {Absent, 9}
=============================================================================
