------------------------------- MODULE MCChat -------------------------------
(* Instances of Chat: creations that race direct saves, two posts beside a    *)
(* client that reads twice, and a creation with a post and a read.            *)
EXTENDS Chat

CONSTANTS c1, c2, u1, u2, u3, k1, k2, s1, p1, p2, r1, r2

MCChatId == {c1, c2}
MCUser == {u1}
MCCreation == {k1, k2}
MCSave == {s1}
MCPost == {p1, p2}
MCReader == {r1}

MCTogether == {{k1, k2}, {k1, s1}, {k1, p1}, {p1, p2, r1}}
MCPostTogether == {{k1, p1}}
=============================================================================
