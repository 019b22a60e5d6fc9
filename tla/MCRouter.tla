------------------------------ MODULE MCRouter ------------------------------
(* Small instances of Router: two hosts, two concurrent connections. *)
EXTENDS Router, TLC

CONSTANTS c1, s1, s2, h1, h2, k1, in, out, x1, x2

MCEntry(m, h, p, a) == [mode |-> m, host |-> h, path |-> p, allow |-> a]

MCMsg(ss) == [certs |-> <<k1>>, services |-> ss]

MCPaths == {"", "/"}

MCPrefixes == ("" :> {"", "/"}) @@ ("/" :> {"", "/"})

MCPathLen == ("" :> 0) @@ ("/" :> 1)

MCAllHosts == k1 :> {h1, h2}

MCNoHosts == k1 :> {}

MCNone == <<>>

(* A host with two services on one path, or with one beside another http    *)
(* host or a whole-host service; between  the two h2 changes its mode.      *)
MCRegistrations ==
  {MCMsg(<<MCEntry("http", h1, "/", {in}), MCEntry("ws", h1, "", {}),
           MCEntry("tcp", h2, "", {in})>>),
   MCMsg(<<MCEntry("http", h1, "/", {}), MCEntry("http", h2, "/", {in})>>)}

MCOne == {MCMsg(<<MCEntry("http", h1, "/", {})>>)}

Symmetry == Permutations({x1, x2}) \cup Permutations({s1, s2})
=============================================================================
