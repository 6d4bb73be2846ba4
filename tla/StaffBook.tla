----------------------------- MODULE StaffBook ------------------------------
(***************************************************************************)
(* What adding staff promises to the rest of the CRM: a book of users, and *)
(* of the companies' databases that they are members of.  A call enters    *)
(* its new users, all of them at once, and then, at once, makes members of *)
(* them and of others whom it has found.  It may stop before either.       *)
(* Nobody is struck out.  Who makes members may still have lost his new    *)
(* users: then none of them is in the book, and he reports nobody.         *)
(* Module Team shows that RegisterUsersInCompany, with its two             *)
(* transactions, waits, failures and crashes, implements this book.        *)
(***************************************************************************)
CONSTANTS
    Call,     \* those who add staff
    Entry,    \* the persons: records with an email and a phone
    Company,  \* the companies' databases
    None      \* who has entered the users of the beginning

Row == [by : Call \cup {None}, entry : Entry, company : Company]
Member == [database : Company, row : Row, by : Call \cup {None}]

VARIABLES
    users,     \* the rows of users
    members,   \* who is a member of which database, and by which call
    reported   \* the entries that each call has reported as added

vars == <<users, members, reported>>

SameKey(e, f) == e.email = f.email \/ e.phone = f.phone
NobodyTwice(rows) == \A r, s \in rows : r # s => ~SameKey(r.entry, s.entry)
Linked(d, r) == \E m \in members : m.database = d /\ m.row = r

Init ==
    /\ users \subseteq {r \in Row : r.by = None} /\ NobodyTwice(users)
    /\ members \subseteq {m \in Member :
                             m.by = None /\ m.row \in users /\ m.database = m.row.company}
    /\ reported = [c \in Call |-> {}]

\* The call c has not made members yet.
Unconfirmed(c) == reported[c] = {} /\ \A m \in members : m.by # c

Enter(c) ==
    /\ Unconfirmed(c)
    /\ \A r \in users : r.by # c
    /\ users \subseteq users'
    /\ users' \ users \subseteq {r \in Row : r.by = c}
    /\ NobodyTwice(users')
    /\ UNCHANGED <<members, reported>>

\* Whom c may make a member.
Known(c, r) == r \in users \/ (r.by = c /\ \A q \in users : q.by # c)

Confirm(c, d) ==
    /\ Unconfirmed(c)
    /\ members \subseteq members'
    /\ \A m \in members' \ members :
           m.by = c /\ m.database = d /\ Known(c, m.row) /\ ~Linked(d, m.row)
    /\ \E S \in SUBSET Entry :
           /\ reported' = [reported EXCEPT ![c] = S]
           /\ \A e \in S : \E r \in users : SameKey(r.entry, e) /\ Linked(d, r)'
    /\ UNCHANGED users

Next == \E c \in Call : Enter(c) \/ \E d \in Company : Confirm(c, d)

Spec == Init /\ [][Next]_vars

-----------------------------------------------------------------------------
(* What follows for whoever uses the book. *)

\* No two users share an e-mail or a phone.
UniqueUsers == NobodyTwice(users)

\* Nobody is a member of a database twice.
MemberOnce ==
    \A m, n \in members : m.database = n.database /\ m.row = n.row => m = n
=============================================================================
