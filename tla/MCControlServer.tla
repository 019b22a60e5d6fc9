--------------------------- MODULE MCControlServer ---------------------------
(* Small instances of ControlServer: one host, two sessions, and messages  *)
(* over which two clients, or two sessions of one client, compete.         *)
EXTENDS ControlServer, TLC

CONSTANTS c1, c2, s1, s2, h1, k1, src, stranger

MCEntry(m, p, a) == [mode |-> m, host |-> h1, path |-> p, allow |-> a]

MCMsg(cs, ss) == [certs |-> cs, services |-> ss]

MCPaths == {"", "/"}

MCNames == k1 :> {h1}

MCNoNames == k1 :> {}

MCNone == <<>>

MCRegistrations ==
  {MCMsg(<<k1>>, <<MCEntry("http", "/", {})>>),
   MCMsg(<<>>, <<MCEntry("tcp", "", {src})>>)}

MCAllRegistrations == MCRegistrations \cup {MCMsg(<<BadCert>>, <<>>)}

MCOneRegistration == {MCMsg(<<k1>>, <<MCEntry("http", "/", {})>>)}

Symmetry == Permutations({c1, c2}) \cup Permutations({s1, s2})
=============================================================================
