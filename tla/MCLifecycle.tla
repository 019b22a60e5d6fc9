---------------------------- MODULE MCLifecycle -----------------------------
(* What ends at any step and must give back what it took: control sessions *)
(* (two, of one client or of two), the client's L2 node (two nodes one     *)
(* after the other, two members of the bridge, one crash), the server      *)
(* process (two at a time), and the commands that write the configuration  *)
(* file (two at a time).  The four share no state, so each is explored     *)
(* with the others at rest.  Model values that are interchangeable in one  *)
(* part are so in the others: c1 and c2 are also bridge members and server *)
(* processes, s1 and s2 also commands.                                     *)
EXTENDS MCControlServer, ClientNode, ServerRun, Provision

VARIABLE part  \* the part that is explored

MCConfig(addr, listen, pub, tuicOn, tuicPort, pw) ==
  [addr |-> addr, listen |-> listen, control |-> "", mimic |-> "mimic", key |-> 1, pub |-> pub,
   clients |-> <<[name |-> "a", uuid |-> 1, pw |-> pw]>>,
   tuic |-> tuicOn, tuicListen |-> tuicPort, tuicSNI |-> IF tuicOn THEN "quic" ELSE ""]

(* Defaults everywhere, ports and passwords of its own, a client without a *)
(* UUID, no public address.                                                *)
MCHandMade ==
  {MCConfig("vps", 0, 0, FALSE, 0, 0), MCConfig("vps", 8443, 1, TRUE, 8445, 99),
   [MCConfig("vps", 8443, 0, TRUE, 0, 0) EXCEPT !.clients = Append(@, [name |-> "b", uuid |-> 0, pw |-> 0])],
   MCConfig("", 0, 1, FALSE, 0, 0)}

NodeRests == UseTAP /\ cfg.bridge /\ cfg.v4 /\ cfg.dhcp /\ cfg.udp /\ ~Exists("bridge")

ServerRests == ~tun.enable /\ ~tun.nat /\ rule = 0

ProvRests == file = Absent

LifeInit ==
  /\ part \in {"sessions", "node", "server", "config"}
  /\ CSInit
  /\ NodeInit /\ (part = "node" \/ NodeRests)
  /\ ServerInit /\ (part = "server" \/ ServerRests)
  /\ ProvInit /\ (part = "config" \/ ProvRests)

LifeNext ==
  /\ \/ part = "sessions" /\ CSNext /\ UNCHANGED <<nodeVars, serverVars, provVars>>
     \/ part = "node" /\ NodeNext /\ UNCHANGED <<csVars, serverVars, provVars>>
     \/ part = "server" /\ ServerNext /\ UNCHANGED <<csVars, nodeVars, provVars>>
     \/ part = "config" /\ ProvNext /\ UNCHANGED <<csVars, nodeVars, serverVars>>
  /\ UNCHANGED part

LifeSpec == LifeInit /\ [][LifeNext]_<<part, csVars, nodeVars, serverVars, provVars>>
=============================================================================
