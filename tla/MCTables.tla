------------------------------ MODULE MCTables ------------------------------
(* The two tables that say what belongs to whom: the registry's hosts and  *)
(* paths (two clients, two sessions, two hosts) and the lease book (a /30  *)
(* pool and three clients).  They share no state, so each is explored with *)
(* the other at rest.                                                      *)
EXTENDS Registry, DhcpServer, TLC

CONSTANTS a1, a2, a3, c1, c2, s1, s2, h1, h2, k1, k2, src

VARIABLE part  \* the table that is explored

Entry(m, h, p, a) == [mode |-> m, host |-> h, path |-> p, allow |-> a]

Msg(cs, ss) == [certs |-> cs, services |-> ss]

MCPaths == {"", "/", "/a"}

(* k1 names h1 and covers h2 with a wildcard, k2 names both hosts. *)
MCExact == (k1 :> {h1}) @@ (k2 :> {h1, h2})

MCWild == (k1 :> {h2}) @@ (k2 :> {})

MCServerCerts == <<k1>>

MCServerServices == <<Entry("http", h1, "/a", {})>>

(* Messages that compete for a host and for a path, that repeat a host or   *)
(* a path or mix modes on a host, and that fail to parse.                   *)
MCRegistrations ==
  {Msg(<<k2>>, <<Entry("http", h1, "", {}), Entry("ws", h1, "/", {src})>>),
   Msg(<<>>,   <<Entry("http", h2, "/a", {}), Entry("http", h1, "/", {})>>),
   Msg(<<k2>>, <<Entry("tcp", h2, "", {}), Entry("socks5", h2, "", {src})>>),
   Msg(<<>>,   <<Entry("tcp", h1, "", {})>>),
   Msg(<<>>,   <<Entry("tcp", h2, "", {}), Entry("http", h2, "/", {})>>),
   Msg(<<>>,   <<Entry("other", h2, "", {})>>),
   Msg(<<BadCert>>, <<>>),
   Msg(<<>>,   <<Entry("http", h2, "/", BadAllow)>>)}

-----------------------------------------------------------------------------
TablesInit ==
  /\ part \in {"registry", "leases"}
  /\ RegInit /\ DhcpInit

TablesNext ==
  /\ \/ part = "registry" /\ RegNext /\ UNCHANGED dhcpVars
     \/ part = "leases" /\ DhcpBoundedNext /\ UNCHANGED regVars
  /\ UNCHANGED part

TablesSpec == TablesInit /\ [][TablesNext]_<<part, regVars, dhcpVars>>

Symmetry == Permutations({c1, c2}) \cup Permutations({s1, s2}) \cup Permutations({a1, a2, a3})
=============================================================================
