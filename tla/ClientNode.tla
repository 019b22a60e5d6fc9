----------------------------- MODULE ClientNode -----------------------------
(***************************************************************************)
(* The client's L2 node over its successive control sessions: startTun     *)
(* (internal/control/client.go) builds it with StartClient and startTAP    *)
(* (internal/l2/clientnode.go) out of resources of the host, a TAP, a      *)
(* bridge and its members, a UDP socket, each of which may fail            *)
(* (internal/l2/netcfg_linux.go, device_linux.go); DHCP may add an address *)
(* (internal/control/client_dhcp_linux.go).  Close takes it down again:    *)
(* the session calls it, and so does the uplink reader as soon as the      *)
(* stream fails, whether or not the node is complete by then.              *)
(***************************************************************************)
EXTENDS Naturals

CONSTANTS
  NICs,        \* cfg.members: extra local interfaces for the bridge
  MaxNodes,    \* bound on the nodes, one for each session that starts one
  MaxCrashes   \* bound on the crashes of the process

ASSUME NodeBounds == MaxNodes \in Nat \ {0} /\ MaxCrashes \in Nat

ASSUME NICNames == NICs \cap {"tap", "bridge", "udp"} = {}

VARIABLES
  cfg,      \* the tun section of the configuration
  owner,    \* owner[r]: the node that has r, Foreign, or NoOwner
  tap,      \* "none", "open", "read" (its reader blocks in Read), "closing"
  addrOn,   \* the devices that carry the tunnel's IPv4 address
  n,        \* the current node
  pc,       \* where the session is
  up,       \* up[k]: the uplink stream of node k is usable
  once,     \* once[k]: closeOnce, "no", the step Close is at, or "done"
  fields,   \* fields[k]: dev, udp, createdBridge and bridgeMembers
  crashes,
  late      \* history: <<k, r>>, what a node took after its Close had begun

nodeVars == <<cfg, owner, tap, addrOn, n, pc, up, once, fields, crashes, late>>

Nodes == 1..MaxNodes

NoOwner == 0

Foreign == MaxNodes + 1  \* of the host, or left by a process that died

Resources == {"tap", "bridge", "udp"} \cup NICs

(* What LoadClient accepts: a TAP or a UDP endpoint.  v4: a static address. *)
Configs ==
  {c \in [tap : BOOLEAN, bridge : BOOLEAN, v4 : BOOLEAN, dhcp : BOOLEAN, udp : BOOLEAN] :
     /\ c.tap \/ c.udp
     /\ c.bridge \/ c.v4 \/ c.dhcp => c.tap}

(* An address-less TAP is skipped unless it is bridged. *)
UseTAP == cfg.tap /\ (cfg.v4 \/ cfg.dhcp \/ cfg.bridge)

ipDev == IF cfg.bridge THEN "bridge" ELSE "tap"

Exists(r) == owner[r] # NoOwner

NodeInit ==
  /\ cfg \in Configs
  /\ owner \in [Resources -> {NoOwner, Foreign}] /\ \A r \in Resources \ {"bridge"} : owner[r] = NoOwner
  /\ tap = "none" /\ addrOn = {}
  /\ n = 0 /\ pc = "idle"
  /\ up = [k \in Nodes |-> FALSE]
  /\ once = [k \in Nodes |-> "no"]
  /\ fields = [k \in Nodes |-> {}]
  /\ crashes = 0 /\ late = {}

-----------------------------------------------------------------------------
(* The session: startTun, StartClient and startTAP *)

AfterTAP == IF cfg.udp THEN "udp" ELSE "started"

(* startTun opens and tags the stream and picks the options; StartClient   *)
(* starts the uplink reader.                                               *)
StartTun ==
  /\ pc = "idle" /\ n < MaxNodes /\ (UseTAP \/ cfg.udp)
  /\ n' = n + 1
  /\ up' = [up EXCEPT ![n + 1] = TRUE]
  /\ pc' = IF UseTAP THEN "open" ELSE AfterTAP
  /\ UNCHANGED <<cfg, owner, tap, addrOn, once, fields, crashes, late>>

(* The stream cannot be opened or tagged, or nothing is usable. *)
NoTun ==
  /\ pc = "idle"
  /\ pc' = "without"
  /\ UNCHANGED <<cfg, owner, tap, addrOn, n, up, once, fields, crashes, late>>

(* A step of the start takes a resource and notes it in the node. *)
Take(r) ==
  /\ owner' = [owner EXCEPT ![r] = n]
  /\ fields' = [fields EXCEPT ![n] = @ \cup {r}]
  /\ late' = IF once[n] = "no" THEN late ELSE late \cup {<<n, r>>}

(* A step of the start fails. *)
Fails ==
  /\ pc \in {"open", "setup", "bridge", "enslave", "members", "addr", "udp"}
  /\ pc' = "failing"
  /\ \/ UNCHANGED addrOn
     \/ pc = "addr" /\ cfg.v4 /\ Exists(ipDev) /\ addrOn' = addrOn \cup {ipDev}
  /\ UNCHANGED <<cfg, owner, tap, n, up, once, fields, crashes, late>>

(* TUNSETIFF refuses a name that is still attached. *)
Open ==
  /\ pc = "open" /\ ~Exists("tap")
  /\ Take("tap") /\ tap' = "open"
  /\ pc' = "setup"
  /\ UNCHANGED <<cfg, addrOn, n, up, once, crashes>>

SetUp ==
  /\ pc = "setup" /\ Exists("tap")
  /\ pc' = IF cfg.bridge THEN "bridge" ELSE "addr"
  /\ UNCHANGED <<cfg, owner, tap, addrOn, n, up, once, fields, crashes, late>>

(* Mutation of EnsureBridge: it always reports that it created the bridge. *)
MutEnsureBridge ==
  /\ pc = "bridge"
  /\ IF Exists("bridge")
       THEN fields' = [fields EXCEPT ![n] = @ \cup {"bridge"}] /\ UNCHANGED <<owner, late>>
       ELSE Take("bridge")
  /\ pc' = "enslave"
  /\ UNCHANGED <<cfg, tap, addrOn, n, up, once, crashes>>

EnsureBridge ==
  /\ pc = "bridge"
  /\ IF Exists("bridge") THEN UNCHANGED <<owner, fields, late>> ELSE Take("bridge")
  /\ pc' = "enslave"
  /\ UNCHANGED <<cfg, tap, addrOn, n, up, once, crashes>>

(* The TAP becomes a bridge port, and the bridge is set up. *)
Enslave ==
  /\ pc = "enslave" /\ Exists("tap") /\ Exists("bridge")
  /\ pc' = "members"
  /\ UNCHANGED <<cfg, owner, tap, addrOn, n, up, once, fields, crashes, late>>

(* Mutation of AddToBridge: the members are noted when all are enslaved. *)
MutAddToBridge(m) ==
  /\ pc = "members" /\ owner[m] # n /\ Exists("bridge")
  /\ owner' = [owner EXCEPT ![m] = n]
  /\ fields' = IF \A i \in NICs \ {m} : owner[i] = n
                 THEN [fields EXCEPT ![n] = @ \cup NICs] ELSE fields
  /\ UNCHANGED <<cfg, tap, addrOn, n, pc, up, once, crashes, late>>

AddToBridge(m) ==
  /\ pc = "members" /\ m \notin fields[n] /\ Exists("bridge")
  /\ Take(m)
  /\ UNCHANGED <<cfg, tap, addrOn, n, pc, up, once, crashes>>

(* Mutation of MembersDone: a member that cannot be enslaved is skipped. *)
MutMembersDone ==
  /\ pc = "members"
  /\ pc' = "addr"
  /\ UNCHANGED <<cfg, owner, tap, addrOn, n, up, once, fields, crashes, late>>

MembersDone ==
  /\ pc = "members" /\ NICs \subseteq fields[n]
  /\ pc' = "addr"
  /\ UNCHANGED <<cfg, owner, tap, addrOn, n, up, once, fields, crashes, late>>

(* AddAddr, AddRoute and their like. *)
Configure ==
  /\ pc = "addr" /\ (cfg.v4 => Exists(ipDev))
  /\ addrOn' = IF cfg.v4 THEN addrOn \cup {ipDev} ELSE addrOn
  /\ pc' = "port"
  /\ UNCHANGED <<cfg, owner, tap, n, up, once, fields, crashes, late>>

(* The TAP's reader starts; on a device that Close has closed it returns. *)
StartReader ==
  /\ pc = "port"
  /\ tap' = IF owner["tap"] = n /\ tap = "open" THEN "read" ELSE tap
  /\ pc' = AfterTAP
  /\ UNCHANGED <<cfg, owner, addrOn, n, up, once, fields, crashes, late>>

NewUDPEndpoint ==
  /\ pc = "udp" /\ ~Exists("udp")
  /\ Take("udp")
  /\ pc' = "started"
  /\ UNCHANGED <<cfg, tap, addrOn, n, up, once, crashes>>

(* runDHCP, where it is wanted, gets an address or fails and is logged. *)
runDHCP ==
  /\ pc = "started"
  /\ \/ UNCHANGED addrOn
     \/ UseTAP /\ ~cfg.v4 /\ cfg.dhcp /\ Exists(ipDev) /\ addrOn' = addrOn \cup {ipDev}
  /\ pc' = "running"
  /\ UNCHANGED <<cfg, owner, tap, n, up, once, fields, crashes, late>>

(* The session is over: the deferred calls begin. *)
SessionEnds ==
  /\ pc \in {"running", "without"}
  /\ pc' = IF pc = "running" THEN "ending" ELSE "idle"
  /\ UNCHANGED <<cfg, owner, tap, addrOn, n, up, once, fields, crashes, late>>

(* The session's own Close call returns, once whoever runs it is done. *)
CloseReturns ==
  /\ pc \in {"failing", "ending"} /\ once[n] = "done"
  /\ pc' = IF pc = "ending" THEN "idle" ELSE "without"
  /\ UNCHANGED <<cfg, owner, tap, addrOn, n, up, once, fields, crashes, late>>

SessionStep ==
  \/ StartTun \/ NoTun \/ Fails \/ Open \/ SetUp \/ EnsureBridge \/ Enslave
  \/ MembersDone \/ Configure \/ StartReader \/ NewUDPEndpoint \/ runDHCP
  \/ SessionEnds \/ CloseReturns
  \/ \E m \in NICs : AddToBridge(m)

-----------------------------------------------------------------------------
(* Close *)

(* closeOnce.Do: by the session, or by the uplink reader. *)
BeginClose(k) ==
  /\ k \in 1..n /\ once[k] = "no"
  /\ ~up[k] \/ (k = n /\ pc \in {"failing", "ending"})
  /\ once' = [once EXCEPT ![k] = "udp"]
  /\ UNCHANGED <<cfg, owner, tap, addrOn, n, pc, up, fields, crashes, late>>

(* The descriptors of node k that are still open. *)
Own(k) == {r \in fields[k] : owner[r] = k}

Frees(rs) == owner' = [r \in Resources |-> IF r \in rs THEN NoOwner ELSE owner[r]]

CloseUDP(k) ==
  /\ once[k] = "udp"
  /\ Frees(Own(k) \cap {"udp"})
  /\ once' = [once EXCEPT ![k] = "dev"]
  /\ UNCHANGED <<cfg, tap, addrOn, n, pc, up, fields, crashes, late>>

(* os.File.Close of a blocking descriptor returns at once, but a Read that *)
(* is blocked on it keeps the descriptor, and so the interface.            *)
CloseDev(k) ==
  /\ once[k] = "dev"
  /\ IF "tap" \notin Own(k) THEN UNCHANGED <<owner, tap, addrOn>>
     ELSE IF tap = "read" THEN tap' = "closing" /\ UNCHANGED <<owner, addrOn>>
     ELSE Frees({"tap"}) /\ tap' = "none" /\ addrOn' = addrOn \ {"tap"}
  /\ once' = [once EXCEPT ![k] = "members"]
  /\ UNCHANGED <<cfg, n, pc, up, fields, crashes, late>>

CloseMembers(k) ==
  /\ once[k] = "members"
  /\ Frees(fields[k] \cap NICs)
  /\ once' = [once EXCEPT ![k] = "bridge"]
  /\ UNCHANGED <<cfg, tap, addrOn, n, pc, up, fields, crashes, late>>

(* DelLink: the members of a bridge that goes are free again. *)
CloseBridge(k) ==
  /\ once[k] = "bridge"
  /\ IF "bridge" \in fields[k]
       THEN Frees({"bridge"} \cup NICs) /\ addrOn' = addrOn \ {"bridge"}
       ELSE UNCHANGED <<owner, addrOn>>
  /\ once' = [once EXCEPT ![k] = "stream"]
  /\ UNCHANGED <<cfg, tap, n, pc, up, fields, crashes, late>>

CloseStream(k) ==
  /\ once[k] = "stream"
  /\ up' = [up EXCEPT ![k] = FALSE]
  /\ once' = [once EXCEPT ![k] = "done"]
  /\ UNCHANGED <<cfg, owner, tap, addrOn, n, pc, fields, crashes, late>>

CloseStep(k) ==
  BeginClose(k) \/ CloseUDP(k) \/ CloseDev(k) \/ CloseMembers(k) \/ CloseBridge(k) \/ CloseStream(k)

-----------------------------------------------------------------------------
(* The rest of the world *)

(* The next frame on a TAP that was closed wakes its reader. *)
TapFrame ==
  /\ tap = "closing"
  /\ Frees({"tap"}) /\ tap' = "none" /\ addrOn' = addrOn \ {"tap"}
  /\ UNCHANGED <<cfg, n, pc, up, once, fields, crashes, late>>

UplinkLost(k) ==
  /\ up[k]
  /\ up' = [up EXCEPT ![k] = FALSE]
  /\ UNCHANGED <<cfg, owner, tap, addrOn, n, pc, once, fields, crashes, late>>

(* The process dies and is started again: its descriptors are closed, the  *)
(* bridge and its members stay as they are.                                *)
Crash ==
  /\ crashes < MaxCrashes /\ crashes' = crashes + 1
  /\ owner' = [r \in Resources |->
       IF r \in {"tap", "udp"} THEN NoOwner ELSE IF owner[r] = NoOwner THEN NoOwner ELSE Foreign]
  /\ tap' = "none" /\ addrOn' = addrOn \ {"tap"}
  /\ pc' = "idle"
  /\ up' = [k \in Nodes |-> FALSE]
  /\ once' = [k \in Nodes |-> IF k <= n THEN "done" ELSE "no"]
  /\ UNCHANGED <<cfg, n, fields, late>>

NodeNext ==
  \/ SessionStep
  \/ \E k \in Nodes : CloseStep(k) \/ UplinkLost(k)
  \/ TapFrame \/ Crash

NodeSpec == NodeInit /\ [][NodeNext]_nodeVars

-----------------------------------------------------------------------------
(* Properties *)

(* The type invariant. *)
NodeTypeOK ==
  /\ cfg \in Configs
  /\ owner \in [Resources -> 0..Foreign]
  /\ tap \in {"none", "open", "read", "closing"} /\ (tap = "none") = (owner["tap"] = NoOwner)
  /\ addrOn \subseteq {"tap", "bridge"} /\ \A d \in addrOn : Exists(d)
  /\ n \in 0..MaxNodes
  /\ pc \in {"idle", "open", "setup", "bridge", "enslave", "members", "addr", "port", "udp",
             "started", "running", "failing", "without", "ending"}
  /\ up \in [Nodes -> BOOLEAN]
  /\ once \in [Nodes -> {"no", "udp", "dev", "members", "bridge", "stream", "done"}]
  /\ fields \in [Nodes -> SUBSET Resources]
  /\ crashes \in 0..MaxCrashes /\ late \subseteq Nodes \X Resources

(* "Close tears down the node": once Close is done nothing a node took is  *)
(* still taken, wherever its start had failed, except what the start took  *)
(* after the uplink reader had begun the Close, and a TAP whose reader is  *)
(* waiting for a frame.  No stream is left open at the server's switch.    *)
CleanClose ==
  \A k \in 1..n : once[k] = "done" =>
    /\ ~up[k]
    /\ \A r \in Resources : owner[r] = k => <<k, r>> \in late \/ (r = "tap" /\ tap = "closing")

(* A node that has started has all it was configured with as long as it is *)
(* not closed: no Close of an earlier node, whoever runs it, takes away a  *)
(* bridge, a member or a device the later one uses.                        *)
RunningIntact ==
  pc \in {"started", "running"} /\ once[n] = "no" =>
    /\ UseTAP => owner["tap"] = n /\ tap = "read"
    /\ UseTAP /\ cfg.bridge => Exists("bridge") /\ \A m \in NICs : owner[m] = n
    /\ UseTAP /\ cfg.v4 => ipDev \in addrOn
    /\ cfg.udp => owner["udp"] = n

(* A bridge that tbox did not create, or that a process that died left     *)
(* behind, is never removed: DelLink is for the bridge the node created.   *)
ForeignKept == [][owner["bridge"] = Foreign => owner'["bridge"] = Foreign]_nodeVars
=============================================================================
