------------------------------ MODULE MCClient ------------------------------
(* Small instances of Client: one service, two sessions, two commands at a *)
(* time.                                                                   *)
EXTENDS Client, TLC

CONSTANTS c1, s1, s2, h1, src, u1, u2

MCEntry(a) == [mode |-> "http", host |-> h1, path |-> "/", allow |-> a]

MCServices == <<[mode |-> "http", host |-> h1, path |-> "/"]>>

MCInitAllow == [id \in IDs |-> {src}]

MCPaths == {"", "/"}

MCNone == <<>>

MCNoCerts == [c \in {} |-> {}]

MCRegistrations == {[certs |-> <<>>, services |-> <<MCEntry(a)>>] : a \in {BadAllow} \cup AllowLists}

Symmetry == Permutations({u1, u2}) \cup Permutations({s1, s2})
=============================================================================
