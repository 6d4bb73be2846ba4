-------------------------- MODULE AccountDirectory --------------------------
(***************************************************************************)
(* What the authorization database promises to the rest of the CRM: a      *)
(* directory of accounts, each one a company together with the user that   *)
(* registered it.  An account appears whole or not at all, disappears      *)
(* whole, and no two accounts ever share an address, an e-mail or a phone. *)
(* Module Registration shows that registerCompany, with its transactions,  *)
(* faults, crashes and compensation, implements this directory.            *)
(***************************************************************************)
CONSTANT Form      \* the data of a registration: name, address, email, phone

VARIABLE directory \* the forms of the accounts that exist

\* Two forms that the UNIQUE columns of the two tables keep apart.
Clash(f, g) ==
    \/ f.address = g.address
    \/ f.email = g.email
    \/ f.phone = g.phone

Init == directory = {}

Open(f) ==
    /\ \A g \in directory : ~Clash(f, g)
    /\ directory' = directory \cup {f}

Close(f) ==
    /\ f \in directory
    /\ directory' = directory \ {f}

Next == \E f \in Form : Open(f) \/ Close(f)

Spec == Init /\ [][Next]_directory
=============================================================================
