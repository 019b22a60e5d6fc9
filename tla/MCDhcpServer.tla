---------------------------- MODULE MCDhcpServer ----------------------------
(* A small instance of DhcpServer: a /29 pool and three clients. *)
EXTENDS DhcpServer, TLC

CONSTANTS a1, a2, a3

Symmetry == Permutations(Chids)
=============================================================================
