------------------------------ MODULE MCSwitch ------------------------------
(* A small instance of Switch: a server with two client streams, and a     *)
(* client with two UDP peers.                                              *)
EXTENDS Switch, TLC

CONSTANTS s1, s2, a1, a2, m1, m2, v4, v6, net6

MCPrefix80 == (v4 :> NoPrefix) @@ (v6 :> net6)

MCNoLimit == [p \in Ports |-> {}]

MCFrame(src, dst, type, ip) == [src |-> src, dst |-> dst, type |-> type, ip |-> ip]

MCFrames ==
  {MCFrame(m1, m2, "ipv4", v4), MCFrame(m2, m1, "ipv6", v6), MCFrame(m1, m2, "runt", Short),
   MCFrame(m2, Group, "other", Short)}

Symmetry == Permutations({s1, s2}) \cup Permutations({a1, a2})
=============================================================================
