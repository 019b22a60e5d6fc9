-------------------------- MODULE LifecycleProofs ---------------------------
(* Proofs about what starts and stops: the L2 node of a client             *)
(* (ClientNode) and the processes of the server (ServerRun).               *)
EXTENDS ClientNode, ServerRun, TLAPS

(* Zenon is asked for every step that does not name another prover. *)
USE Zenon

(* Any number of server processes with one configuration: a server that    *)
(* serves keeps what it started, and the masquerade rule is accounted for. *)
(* The argument is that sing-box's inbound is a lock: a process holds it   *)
(* from StartSingbox until CloseSingbox, its last deferred call, so at     *)
(* most one process is between the two.                                    *)

(* Between StartSingbox and CloseSingbox. *)
Active(p) == at[p] \notin {"off", "exit"}

(* What a process has where it is. *)
Keeps(p) ==
  /\ Active(p) => holder["reality"] = p
  /\ at[p] \in {"addr", "nat", "dhcp"} => tun.enable
  /\ tun.enable /\ at[p] \in {"addr", "nat", "dhcp", "listen", "banner", "serve",
                              "closeControl", "closeDhcp", "closeNat", "closeDev"} => holder["tap"] = p
  /\ tun.enable /\ at[p] \in {"listen", "banner", "serve"} => sig[p] \/ holder["dhcp"] = p
  /\ at[p] \in {"banner", "serve", "closeControl"} => holder["control"] = p
  /\ UsesRule(p) => rule = 1

(* The inductive invariant. *)
ServerInv == ServerTypeOK /\ (\A p \in Procs : Keeps(p)) /\ RuleAccounted

(* Every step of RunServer keeps the types. *)
LEMMA TypeStep == ServerTypeOK /\ [ServerNext]_serverVars => ServerTypeOK'
<1> SUFFICES ASSUME ServerTypeOK, [ServerNext]_serverVars PROVE ServerTypeOK'
    OBVIOUS
<1> USE ProcsAssumption DEF ServerTypeOK, Held, Starting, Closing, Goes, Takes, Drops, ClosesDev
<1>1. CASE UNCHANGED serverVars
      BY <1>1 DEF serverVars
<1>2. ASSUME NEW p \in Procs, ProcStep(p) PROVE ServerTypeOK'
  <2>1. CASE StartSingbox(p) \/ LoadCerts(p) \/ OpenTap(p) \/ AddGateway(p)
        BY <2>1, SMTT(30) DEF StartSingbox, LoadCerts, OpenTap, AddGateway
  <2>2. CASE EnsureMasquerade(p) \/ StartDHCP(p) \/ ListenControl(p) \/ StartRouter(p) \/ ListenAndServe(p)
        BY <2>2, SMTT(30)
           DEF EnsureMasquerade, StartDHCP, ListenControl, StartRouter, ListenAndServe
  <2>3. CASE StartFails(p)
    <3>1. holder' \in [Held -> Procs \cup {NoProc}]
          BY <2>3, SMTT(30) DEF StartFails
    <3>2. at' \in [Procs -> {"off", "serve"} \cup Starting \cup Closing]
          BY <2>3 DEF StartFails
    <3>3. left' \in BOOLEAN
          BY <2>3 DEF StartFails
    <3> QED BY <2>3, <3>1, <3>2, <3>3 DEF StartFails
  <2>4. CASE Signal(p) \/ ServeEnds(p)
        BY <2>4 DEF Signal, ServeEnds
  <2>8. CASE ContextDone(p)
        BY <2>8 DEF ContextDone
  <2>5. CASE CloseControl(p) \/ CloseDHCP(p) \/ CloseTap(p) \/ CloseSingbox(p)
    <3>1. holder' \in [Held -> Procs \cup {NoProc}]
          BY <2>5, SMTT(30) DEF CloseControl, CloseDHCP, CloseTap, CloseSingbox
    <3>2. at' \in [Procs -> {"off", "serve"} \cup Starting \cup Closing]
          BY <2>5, SMTT(30) DEF CloseControl, CloseDHCP, CloseTap, CloseSingbox
    <3> QED BY <2>5, <3>1, <3>2 DEF CloseControl, CloseDHCP, CloseTap, CloseSingbox
  <2>7. CASE DeleteMasquerade(p)
    <3>1. rule' \in {0, 1} /\ left' \in BOOLEAN
          BY <2>7 DEF DeleteMasquerade
    <3>2. at' \in [Procs -> {"off", "serve"} \cup Starting \cup Closing]
          BY <2>7 DEF DeleteMasquerade
    <3> QED BY <2>7, <3>1, <3>2 DEF DeleteMasquerade
  <2>6. CASE Exit(p)
    <3>1. left' \in BOOLEAN
          BY <2>6 DEF Exit
    <3> QED BY <2>6, <3>1 DEF Exit, Released
  <2> QED BY <1>2, <2>1, <2>2, <2>3, <2>4, <2>5, <2>6, <2>7, <2>8 DEF ProcStep
<1> QED BY <1>1, <1>2 DEF ServerNext

(* sing-box's inbound excludes: two active processes are one. *)
LEMMA OneActive ==
  ASSUME NEW p \in Procs, NEW q \in Procs, Keeps(p), Keeps(q), Active(p), Active(q)
  PROVE  p = q
BY DEF Keeps

(* A step of one process leaves what another one has. *)
LEMMA OthersKeep ==
  ASSUME ServerTypeOK, \A x \in Procs : Keeps(x),
         NEW p \in Procs, NEW q \in Procs, q # p, ProcStep(p)
  PROVE  Keeps(q)'
<1> USE ProcsAssumption DEF ServerTypeOK, Held, Starting, Closing, Goes, Takes, Drops, ClosesDev
<1>k. Keeps(q) /\ Keeps(p)
      OBVIOUS
<1>1. tun' = tun /\ at'[q] = at[q] /\ sig'[q] = sig[q]
      BY DEF ProcStep, StartSingbox, LoadCerts, OpenTap, AddGateway, EnsureMasquerade, StartDHCP,
             ListenControl, StartRouter, ListenAndServe, StartFails, Signal, ContextDone,
             ServeEnds,
             CloseControl, CloseDHCP, DeleteMasquerade, CloseTap, CloseSingbox, Exit
<1>2. \A r \in Held : holder[r] = q => holder'[r] = q
      BY SMTT(30)
         DEF ProcStep, StartSingbox, LoadCerts, OpenTap, AddGateway, EnsureMasquerade, StartDHCP,
             ListenControl, StartRouter, ListenAndServe, StartFails, Signal, ContextDone,
             ServeEnds,
             CloseControl, CloseDHCP, DeleteMasquerade, CloseTap, CloseSingbox, Exit, Released
<1>3. UsesRule(q) /\ rule = 1 => rule' = 1
  <2>1. CASE DeleteMasquerade(p)
        BY <2>1, <1>k, OneActive DEF DeleteMasquerade, UsesRule, Active
  <2>2. CASE ~DeleteMasquerade(p)
        BY <2>2
           DEF ProcStep, StartSingbox, LoadCerts, OpenTap, AddGateway, EnsureMasquerade,
           StartDHCP,
             ListenControl, StartRouter, ListenAndServe, StartFails, Signal, ContextDone,
             ServeEnds,
             CloseControl, CloseDHCP, CloseTap, CloseSingbox, Exit
  <2> QED BY <2>1, <2>2
<1> QED BY <1>k, <1>1, <1>2, <1>3 DEF Keeps, Active, UsesRule

(* A step of a process brings it to a place where it has what it needs. *)
LEMMA OwnKeeps ==
  ASSUME ServerTypeOK, NEW p \in Procs, Keeps(p), ProcStep(p)
  PROVE  Keeps(p)'
<1> USE ProcsAssumption DEF ServerTypeOK, Held, Starting, Closing, Goes, Takes, Drops, ClosesDev,
                            Keeps, Active, UsesRule
<1>1. CASE StartSingbox(p) \/ LoadCerts(p) \/ OpenTap(p) \/ AddGateway(p)
      BY <1>1, SMTT(30) DEF StartSingbox, LoadCerts, OpenTap, AddGateway
<1>2. CASE EnsureMasquerade(p)
      BY <1>2 DEF EnsureMasquerade
<1>3. CASE StartDHCP(p) \/ ListenControl(p)
      BY <1>3, SMTT(30) DEF StartDHCP, ListenControl
<1>4. CASE StartRouter(p) \/ ListenAndServe(p)
      BY <1>4 DEF StartRouter, ListenAndServe
<1>5. CASE StartFails(p)
      BY <1>5 DEF StartFails
<1>6. CASE Signal(p) \/ ContextDone(p) \/ ServeEnds(p)
      BY <1>6 DEF Signal, ContextDone, ServeEnds
<1>7. CASE CloseControl(p) \/ CloseDHCP(p)
      BY <1>7, SMTT(30) DEF CloseControl, CloseDHCP
<1>8. CASE DeleteMasquerade(p) \/ CloseTap(p) \/ CloseSingbox(p)
      BY <1>8, SMTT(30) DEF DeleteMasquerade, CloseTap, CloseSingbox
<1>9. CASE Exit(p)
      BY <1>9 DEF Exit
<1> QED BY <1>1, <1>2, <1>3, <1>4, <1>5, <1>6, <1>7, <1>8, <1>9 DEF ProcStep

(* A rule that stays has a process that uses it, or was left behind. *)
LEMMA RuleStep ==
  ASSUME ServerTypeOK, RuleAccounted, NEW p \in Procs, Keeps(p), ProcStep(p)
  PROVE  RuleAccounted'
<1> USE DEF ServerTypeOK, Starting, Closing, Goes
<1>1. \A q \in Procs \ {p} : UsesRule(q) => UsesRule(q)'
      BY DEF UsesRule, ProcStep, StartSingbox, LoadCerts, OpenTap, AddGateway, EnsureMasquerade,
         StartDHCP,
             ListenControl, StartRouter, ListenAndServe, StartFails, Signal, ContextDone,
             ServeEnds,
             CloseControl, CloseDHCP, DeleteMasquerade, CloseTap, CloseSingbox, Exit
<1>2. left => left' \/ rule' = 0
      BY DEF ProcStep, StartSingbox, LoadCerts, OpenTap, AddGateway, EnsureMasquerade, StartDHCP,
             ListenControl, StartRouter, ListenAndServe, StartFails, Signal, ContextDone,
             ServeEnds,
             CloseControl, CloseDHCP, DeleteMasquerade, CloseTap, CloseSingbox, Exit
<1>3. rule' = 1 => rule = 1 \/ UsesRule(p)'
      BY SMTT(30)
         DEF UsesRule, Keeps, ProcStep, StartSingbox, LoadCerts, OpenTap, AddGateway,
         EnsureMasquerade, StartDHCP,
             ListenControl, StartRouter, ListenAndServe, StartFails, Signal, ContextDone,
             ServeEnds,
             CloseControl, CloseDHCP, DeleteMasquerade, CloseTap, CloseSingbox, Exit
<1>4. UsesRule(p) => UsesRule(p)' \/ left' \/ rule' = 0
  <2>1. CASE StartFails(p) \/ Exit(p)
        BY <2>1 DEF StartFails, Exit, UsesRule
  <2>2. CASE DeleteMasquerade(p)
        BY <2>2 DEF DeleteMasquerade, UsesRule
  <2>3. CASE ~StartFails(p) /\ ~Exit(p) /\ ~DeleteMasquerade(p)
        BY <2>3
           DEF UsesRule, ProcStep, StartSingbox, LoadCerts, OpenTap, AddGateway,
           EnsureMasquerade, StartDHCP,
             ListenControl, StartRouter, ListenAndServe, Signal, ContextDone, ServeEnds,
             CloseControl, CloseDHCP, CloseTap, CloseSingbox
  <2> QED BY <2>1, <2>2, <2>3
<1>5. CASE rule' = 1 /\ rule # 1
      BY <1>3, <1>5 DEF RuleAccounted
<1>6. CASE rule' = 1 /\ rule = 1
  <2>1. left \/ \E q \in Procs : UsesRule(q)
        BY <1>6 DEF RuleAccounted
  <2>2. CASE left
        BY <1>2, <1>6, <2>2, SMTT(30) DEF RuleAccounted
  <2>3. ASSUME NEW q \in Procs, UsesRule(q) PROVE RuleAccounted'
        BY <1>1, <1>4, <1>6, <2>3, SMTT(30) DEF RuleAccounted
  <2> QED BY <2>1, <2>2, <2>3
<1>7. CASE rule' # 1
      BY <1>7 DEF RuleAccounted
<1> QED BY <1>5, <1>6, <1>7

(* ServerInv is an invariant of the server processes on a host. *)
THEOREM ServerInvariant == ServerSpec => []ServerInv
<1>1. ServerInit => ServerInv
  <2> SUFFICES ASSUME ServerInit PROVE ServerInv
      OBVIOUS
  <2>1. ServerTypeOK
        BY DEF ServerInit, ServerTypeOK
  <2>2. \A p \in Procs : Keeps(p)
        BY DEF ServerInit, Keeps, Active, UsesRule
  <2>3. RuleAccounted
        BY DEF ServerInit, RuleAccounted
  <2> QED BY <2>1, <2>2, <2>3 DEF ServerInv
<1>2. ServerInv /\ [ServerNext]_serverVars => ServerInv'
  <2> SUFFICES ASSUME ServerInv, [ServerNext]_serverVars PROVE ServerInv'
      BY SMTT(30)
  <2>1. ServerTypeOK'
        BY TypeStep DEF ServerInv
  <2>2. CASE UNCHANGED serverVars
        BY <2>1, <2>2 DEF ServerInv, serverVars, Keeps, Active, UsesRule, RuleAccounted
  <2>3. ASSUME NEW p \in Procs, ProcStep(p) PROVE ServerInv'
    <3>1. \A q \in Procs : Keeps(q)'
          BY <2>3, OthersKeep, OwnKeeps DEF ServerInv
    <3>2. RuleAccounted'
          BY <2>3, RuleStep DEF ServerInv
    <3> QED BY <2>1, <3>1, <3>2 DEF ServerInv
  <2> QED BY <2>2, <2>3 DEF ServerNext
<1> QED BY <1>1, <1>2, PTL DEF ServerSpec

(* The variables of the server processes keep their types. *)
THEOREM ServerTypeCorrect == ServerSpec => []ServerTypeOK
<1>1. ServerInv => ServerTypeOK
      BY DEF ServerInv
<1> QED BY <1>1, ServerInvariant, PTL

(* However many processes share the configuration, and wherever each of    *)
(* them fails, is told to stop or dies, a server that serves keeps its     *)
(* inbound, TAP, listeners and masquerade rule: RunServer's order of       *)
(* starting and of the deferred calls makes sing-box's inbound a lock.     *)
THEOREM ServingIntactHolds == ServerSpec => []ServingIntact
<1>1. ServerInv => ServingIntact
      BY DEF ServerInv, ServingIntact, Keeps, Active
<1> QED BY <1>1, ServerInvariant, PTL

(* natCleanup: a masquerade rule without a process that uses it was left   *)
(* by a process that died or could not start its DHCP server.              *)
THEOREM RuleAccountedHolds == ServerSpec => []RuleAccounted
<1>1. ServerInv => RuleAccounted
      BY DEF ServerInv
<1> QED BY <1>1, ServerInvariant, PTL

-----------------------------------------------------------------------------
(* For any members and any number of sessions and crashes: Close leaves     *)
(* nothing behind, a running node keeps what it has, and a bridge of        *)
(* others is never removed.                                                 *)

Beginning == {"open", "setup", "bridge", "enslave", "members", "addr", "port"}

(* Nodes follow each other: the next one starts when Close of the last is  *)
(* done, and those to come are untouched.                                  *)
Sequential ==
  /\ \A k \in Nodes : k > n => once[k] = "no" /\ fields[k] = {} /\ ~up[k]
  /\ \A k \in Nodes : k < n => once[k] = "done"
  /\ pc \notin {"idle", "without"} => n \in Nodes
  /\ pc \in {"idle", "without"} => (n \in Nodes => once[n] = "done")

(* A node notes what it takes. *)
Noted == \A k \in Nodes, r \in Resources : owner[r] = k => r \in fields[k]

(* createdBridge: until Close has dealt with it the bridge is the node's. *)
BridgeOwned ==
  \A k \in Nodes :
    "bridge" \in fields[k] /\ once[k] \in {"no", "udp", "dev", "members", "bridge"} => owner["bridge"] = k

(* What Close has dealt with at each of its steps. *)
Gone(k, r) == owner[r] # k \/ <<k, r>> \in late

Stages ==
  \A k \in Nodes :
    /\ once[k] \in {"dev", "members", "bridge", "stream", "done"} => Gone(k, "udp")
    /\ once[k] \in {"members", "bridge", "stream", "done"} => Gone(k, "tap") \/ tap = "closing"
    /\ once[k] \in {"bridge", "stream", "done"} => \A m \in NICs : Gone(k, m)
    /\ once[k] \in {"stream", "done"} => Gone(k, "bridge")
    /\ once[k] = "done" => ~up[k]

(* What the start of a node has done so far, as long as it is not closed. *)
Progress ==
  /\ pc \in Beginning => UseTAP
  /\ pc \in {"bridge", "enslave", "members"} => cfg.bridge
  /\ pc \notin {"idle", "without"} /\ once[n] = "no" =>
       /\ UseTAP /\ pc \in Beginning \ {"open"} => owner["tap"] = n /\ tap = "open"
       /\ UseTAP /\ pc \in {"udp", "started", "running"} => owner["tap"] = n /\ tap = "read"
       /\ UseTAP /\ cfg.bridge /\ pc \in {"enslave", "members", "addr", "port", "udp", "started", "running"}
            => Exists("bridge")
       /\ \A m \in NICs : m \in fields[n] => owner[m] = n
       /\ UseTAP /\ cfg.bridge /\ pc \in {"addr", "port", "udp", "started", "running"} => NICs \subseteq fields[n]
       /\ UseTAP /\ cfg.v4 /\ pc \in {"port", "udp", "started", "running"} => ipDev \in addrOn
       /\ cfg.udp /\ pc \in {"started", "running"} => owner["udp"] = n

(* The inductive invariant. *)
NodeInv == NodeTypeOK /\ Sequential /\ Noted /\ BridgeOwned /\ Stages /\ Progress

-----------------------------------------------------------------------------
(* The steps that only move the session on. *)
Quiet ==
  NoTun \/ Fails \/ SetUp \/ Enslave \/ MembersDone \/ Configure \/ StartReader \/ runDHCP
    \/ SessionEnds \/ CloseReturns

LEMMA QuietFrame == Quiet => UNCHANGED <<cfg, owner, n, up, once, fields, crashes, late>>
BY DEF Quiet, NoTun, Fails, SetUp, Enslave, MembersDone, Configure, StartReader, runDHCP,
   SessionEnds, CloseReturns

(* The steps that take something. *)
Taking == Open \/ EnsureBridge \/ NewUDPEndpoint \/ \E m \in NICs : AddToBridge(m)

LEMMA TakingFrame ==
  ASSUME NodeTypeOK, Taking
  PROVE  /\ UNCHANGED <<cfg, addrOn, n, up, once, crashes>>
         /\ pc \in {"open", "bridge", "members", "udp"}
         /\ \/ UNCHANGED <<owner, fields, late, tap>>
            \/ \E r \in Resources : Take(r) /\ (r \in NICs \/ ~Exists(r))
         /\ tap' = IF Open THEN "open" ELSE tap
<1>1. CASE Open
      BY <1>1 DEF Open, Resources
<1>2. CASE EnsureBridge
      BY <1>2 DEF EnsureBridge, Resources, Open
<1>3. CASE NewUDPEndpoint
      BY <1>3 DEF NewUDPEndpoint, Resources, Open
<1>4. ASSUME NEW m \in NICs, AddToBridge(m)
      PROVE  /\ UNCHANGED <<cfg, addrOn, n, up, once, crashes, tap>>
             /\ pc = "members" /\ Take(m)
      BY <1>4 DEF AddToBridge
<1> QED BY <1>1, <1>2, <1>3, <1>4 DEF Taking, Open, Resources

Clearing(k) == CloseUDP(k) \/ CloseDev(k) \/ CloseMembers(k) \/ CloseBridge(k)

(* The steps of the node, sorted. *)
LEMMA Steps ==
  NodeNext => \/ StartTun \/ Quiet \/ Taking \/ TapFrame \/ Crash
              \/ \E k \in Nodes : BeginClose(k) \/ Clearing(k) \/ CloseStream(k) \/ UplinkLost(k)
BY DEF NodeNext, SessionStep, CloseStep, Clearing, Quiet, Taking

LEMMA NodeNumbers == Nodes \subseteq Nat /\ 0 \notin Nodes /\ Foreign \notin Nodes /\ Foreign # 0 /\ Foreign \in 0..Foreign
BY NodeBounds, SMTT(30) DEF Nodes, Foreign

(* The steps of Close and what they free. *)
LEMMA ClosingFrame ==
  ASSUME NodeTypeOK, NEW k \in Nodes, Clearing(k)
  PROVE  /\ UNCHANGED <<cfg, n, pc, up, fields, crashes, late>>
         /\ once[k] \in {"udp", "dev", "members", "bridge"}
         /\ once' = [once EXCEPT ![k] = CASE once[k] = "udp" -> "dev" [] once[k] = "dev" -> "members"
                                          [] once[k] = "members" -> "bridge" [] OTHER -> "stream"]
         /\ owner' \in [Resources -> 0..Foreign]
         /\ \A r \in Resources : owner'[r] \in {owner[r], NoOwner}
<1> USE NodeNumbers DEF NodeTypeOK, Frees, NoOwner
<1>1. CASE CloseUDP(k)
      BY <1>1, SMTT(30) DEF CloseUDP
<1>2. CASE CloseDev(k)
      BY <1>2, SMTT(30) DEF CloseDev
<1>3. CASE CloseMembers(k)
      BY <1>3, SMTT(30) DEF CloseMembers
<1>4. CASE CloseBridge(k)
      BY <1>4, SMTT(30) DEF CloseBridge
<1> QED BY <1>1, <1>2, <1>3, <1>4 DEF Clearing

(* Every step keeps the types, and the TAP and the addresses in step with  *)
(* the devices.                                                            *)
LEMMA NodeTypeStep == NodeTypeOK /\ Sequential /\ [NodeNext]_nodeVars => NodeTypeOK'
<1> SUFFICES ASSUME NodeTypeOK, Sequential, [NodeNext]_nodeVars PROVE NodeTypeOK'
    OBVIOUS
<1> USE NodeBounds, NICNames
<1>1. CASE UNCHANGED nodeVars
      BY <1>1 DEF NodeTypeOK, nodeVars, Exists
<1>2. CASE StartTun
      BY <1>2, SMTT(30) DEF StartTun, NodeTypeOK, Exists, Nodes, AfterTAP
<1>3. CASE Quiet
  <2>1. UNCHANGED <<cfg, owner, n, up, once, fields, crashes, late>>
        BY <1>3, QuietFrame
  <2>2. pc' \in {"idle", "open", "setup", "bridge", "enslave", "members", "addr", "port", "udp",
                 "started", "running", "failing", "without", "ending"}
        BY <1>3
           DEF Quiet, NoTun, Fails, SetUp, Enslave, MembersDone, Configure, StartReader, runDHCP,
                    SessionEnds, CloseReturns, AfterTAP
  <2>3. /\ tap' \in {"none", "open", "read", "closing"}
        /\ (tap' = "none") = (owner["tap"] = NoOwner)
        BY <1>3
           DEF NodeTypeOK, Quiet, NoTun, Fails, SetUp, Enslave, MembersDone, Configure,
           StartReader, runDHCP,
                    SessionEnds, CloseReturns
  <2>4. addrOn' \subseteq {"tap", "bridge"} /\ \A d \in addrOn' : Exists(d)
        BY <1>3
           DEF NodeTypeOK, ipDev, Quiet, NoTun, Fails, SetUp, Enslave, MembersDone, Configure,
                    StartReader, runDHCP, SessionEnds, CloseReturns
  <2> QED BY <2>1, <2>2, <2>3, <2>4 DEF NodeTypeOK, Exists
<1>4. CASE Taking
  <2>0. n \in Nodes
        BY <1>4, TakingFrame DEF Sequential
  <2>1. /\ owner' \in [Resources -> 0..Foreign] /\ fields' \in [Nodes -> SUBSET Resources]
        /\ late' \subseteq Nodes \X Resources
        /\ \A r \in Resources : Exists(r) => Exists(r)'
    <3>1. CASE UNCHANGED <<owner, fields, late, tap>>
          BY <3>1 DEF NodeTypeOK, Exists
    <3>2. ASSUME NEW r \in Resources, Take(r)
          PROVE  /\ owner' \in [Resources -> 0..Foreign] /\ fields' \in [Nodes -> SUBSET Resources]
                 /\ late' \subseteq Nodes \X Resources
                 /\ \A x \in Resources : Exists(x) => Exists(x)'
      <4>1. n \in 0..Foreign /\ n # 0
            BY <2>0, SMTT(30) DEF Foreign, Nodes
      <4>2. owner' \in [Resources -> 0..Foreign]
            BY <3>2, <4>1 DEF Take, NodeTypeOK
      <4>3. fields' \in [Nodes -> SUBSET Resources]
            BY <2>0, <3>2 DEF Take, NodeTypeOK
      <4>4. late' \subseteq Nodes \X Resources
            BY <2>0, <3>2, SMTT(30) DEF Take, NodeTypeOK
      <4>5. \A x \in Resources : Exists(x) => Exists(x)'
            BY <3>2, <4>1 DEF Take, NodeTypeOK, Exists, NoOwner
      <4> QED BY <4>2, <4>3, <4>4, <4>5
    <3> QED BY <1>4, <3>1, <3>2, TakingFrame
  <2>2. pc' \in {"setup", "enslave", "members", "started"}
        BY <1>4 DEF Taking, Open, EnsureBridge, NewUDPEndpoint, AddToBridge
  <2>3. /\ tap' \in {"none", "open", "read", "closing"}
        /\ (tap' = "none") = (owner'["tap"] = NoOwner)
    <3>1. CASE Open
          BY <2>0, <3>1, SMTT(30) DEF Open, Take, NodeTypeOK, NoOwner, Resources, Nodes
    <3>2. CASE ~Open
          BY <1>4, <3>2, SMTT(30)
             DEF Taking, EnsureBridge, NewUDPEndpoint, AddToBridge, Take, NodeTypeOK, Resources
    <3> QED BY <3>1, <3>2
  <2>4. "tap" \in Resources /\ "bridge" \in Resources
        BY DEF Resources
  <2> QED BY <1>4, TakingFrame, <2>1, <2>2, <2>3, <2>4 DEF NodeTypeOK
<1>5. CASE TapFrame
      BY <1>5, SMTT(30) DEF TapFrame, NodeTypeOK, Frees, Exists, NoOwner, Foreign, Resources
<1>6. CASE Crash
  <2>1. owner' \in [Resources -> 0..Foreign] /\ owner'["tap"] = NoOwner
        BY <1>6, NodeNumbers, SMTT(30) DEF Crash, NodeTypeOK, NoOwner, Resources
  <2>2. Exists("bridge") => Exists("bridge")'
        BY <1>6, NodeNumbers DEF Crash, NodeTypeOK, NoOwner, Resources, Exists
  <2>3. addrOn' \subseteq {"tap", "bridge"} /\ \A d \in addrOn' : Exists(d)'
        BY <1>6, <2>2 DEF Crash, NodeTypeOK
  <2>4. once' \in [Nodes -> {"no", "udp", "dev", "members", "bridge", "stream", "done"}]
        BY <1>6 DEF Crash, NodeTypeOK
  <2> QED BY <1>6, <2>1, <2>3, <2>4, SMTT(30) DEF Crash, NodeTypeOK
<1>7. ASSUME NEW k \in Nodes, BeginClose(k) \/ CloseStream(k) \/ UplinkLost(k) PROVE NodeTypeOK'
  <2>1. once' \in [Nodes -> {"no", "udp", "dev", "members", "bridge", "stream", "done"}]
        BY <1>7 DEF BeginClose, CloseStream, UplinkLost, NodeTypeOK
  <2>2. up' \in [Nodes -> BOOLEAN]
        BY <1>7 DEF BeginClose, CloseStream, UplinkLost, NodeTypeOK
  <2>3. UNCHANGED <<cfg, owner, tap, addrOn, n, pc, fields, crashes, late>>
        BY <1>7 DEF BeginClose, CloseStream, UplinkLost
  <2> QED BY <2>1, <2>2, <2>3 DEF NodeTypeOK, Exists
<1>8. ASSUME NEW k \in Nodes, Clearing(k) PROVE NodeTypeOK'
  <2>1. /\ tap' \in {"none", "open", "read", "closing"}
        /\ (tap' = "none") = (owner'["tap"] = NoOwner)
        BY <1>8, SMTT(30)
           DEF Clearing, CloseUDP, CloseDev, CloseMembers, CloseBridge, Frees, Own, NodeTypeOK,
           NoOwner, Resources
  <2>2. addrOn' \subseteq {"tap", "bridge"} /\ \A d \in addrOn' : Exists(d)'
    <3> USE DEF Frees, NodeTypeOK, NoOwner, Resources, Exists
    <3>1. CASE CloseUDP(k)
          BY <3>1 DEF CloseUDP
    <3>2. CASE CloseDev(k)
          BY <3>2 DEF CloseDev
    <3>3. CASE CloseMembers(k)
          BY <3>3 DEF CloseMembers
    <3>4. CASE CloseBridge(k)
      <4>1. UNCHANGED <<owner,
      addrOn>> \/ (addrOn' = addrOn \ {"bridge"} /\ owner'["tap"] = owner["tap"])
            BY <3>4 DEF CloseBridge
      <4>2. CASE UNCHANGED <<owner, addrOn>>
            BY <4>2
      <4>3. CASE addrOn' = addrOn \ {"bridge"} /\ owner'["tap"] = owner["tap"]
        <5>1. addrOn' \subseteq {"tap"} /\ addrOn' \subseteq addrOn
              BY <4>3
        <5>2. \A d \in addrOn' : d = "tap" /\ owner["tap"] # 0
              BY <5>1, SMTT(30)
        <5> QED BY <4>3, <5>1, <5>2
      <4> QED BY <4>1, <4>2, <4>3
    <3> QED BY <1>8, <3>1, <3>2, <3>3, <3>4 DEF Clearing
  <2>3. once' \in [Nodes -> {"no", "udp", "dev", "members", "bridge", "stream", "done"}]
        BY <1>8, ClosingFrame DEF NodeTypeOK
  <2> QED BY <1>8, <2>1, <2>2, <2>3, ClosingFrame DEF NodeTypeOK
<1> QED BY <1>1, <1>2, <1>3, <1>4, <1>5, <1>6, <1>7, <1>8, Steps

(* Nodes follow each other: startTun waits for Close of the last one, and  *)
(* nothing but the session's own steps works on the node.                  *)
LEMMA SequentialStep == NodeTypeOK /\ Sequential /\ [NodeNext]_nodeVars => Sequential'
<1> SUFFICES ASSUME NodeTypeOK, Sequential, [NodeNext]_nodeVars PROVE Sequential'
    OBVIOUS
<1> USE NodeBounds
<1>1. CASE UNCHANGED nodeVars
      BY <1>1 DEF Sequential, nodeVars
<1>2. CASE StartTun
  <2>1. /\ n \in Nat /\ n' = n + 1 /\ n' \in Nodes /\ UNCHANGED <<once, fields>>
        /\ n \in Nodes => once[n] = "done"
        BY <1>2, SMTT(30) DEF StartTun, NodeTypeOK, Nodes, Sequential
  <2>2. \A k \in Nodes : k > n + 1 => once[k] = "no" /\ fields[k] = {} /\ ~up'[k]
        BY <1>2, <2>1, SMTT(30) DEF StartTun, NodeTypeOK, Nodes, Sequential
  <2>3. \A k \in Nodes : k < n + 1 => once[k] = "done"
        BY <2>1, SMTT(30) DEF Nodes, Sequential
  <2>4. pc' \notin {"idle", "without"}
        BY <1>2 DEF StartTun, AfterTAP
  <2> QED BY <2>1, <2>2, <2>3, <2>4 DEF Sequential
<1>3. CASE Quiet
  <2>1. UNCHANGED <<cfg, owner, n, up, once, fields, crashes, late>>
        BY <1>3, QuietFrame
  <2>2. /\ pc' \notin {"idle", "without"} => pc \notin {"idle", "without"}
        /\ pc' \in {"idle", "without"} => pc \in {"idle", "without"} \/ once[n] = "done"
        BY <1>3
           DEF NodeTypeOK, Quiet, NoTun, Fails, SetUp, Enslave, MembersDone, Configure,
           StartReader, runDHCP,
                    SessionEnds, CloseReturns, AfterTAP
  <2> QED BY <2>1, <2>2 DEF Sequential
<1>4. CASE Taking
  <2>1. n \in Nodes /\ UNCHANGED <<n, up, once>>
        BY <1>4, TakingFrame DEF Sequential
  <2>2. pc' \in {"setup", "enslave", "members", "started"}
        BY <1>4 DEF Taking, Open, EnsureBridge, NewUDPEndpoint, AddToBridge
  <2>3. \A k \in Nodes : k > n => fields'[k] = fields[k]
    <3>1. ASSUME NEW r \in Resources, Take(r), NEW k \in Nodes, k > n PROVE fields'[k] = fields[k]
          BY <3>1, NodeNumbers, SMTT(30) DEF Take, NodeTypeOK
    <3> QED BY <1>4, <3>1, TakingFrame
  <2> QED BY <2>1, <2>2, <2>3 DEF Sequential
<1>5. CASE TapFrame
      BY <1>5 DEF TapFrame, Sequential
<1>6. CASE Crash
      BY <1>6, SMTT(30) DEF Crash, NodeTypeOK, Sequential, Nodes
<1>7. ASSUME NEW k \in Nodes, BeginClose(k) PROVE Sequential'
      BY <1>7, SMTT(30) DEF BeginClose, NodeTypeOK, Sequential, Nodes
<1>8. ASSUME NEW k \in Nodes, CloseStream(k) PROVE Sequential'
      BY <1>8 DEF CloseStream, NodeTypeOK, Sequential, Nodes
<1>9. ASSUME NEW k \in Nodes, UplinkLost(k) PROVE Sequential'
      BY <1>9 DEF UplinkLost, NodeTypeOK, Sequential, Nodes
<1>10. ASSUME NEW k \in Nodes, Clearing(k) PROVE Sequential'
  <2>1. UNCHANGED <<n, pc, up, fields>> /\ \A j \in Nodes : j # k => once'[j] = once[j]
        BY <1>10, ClosingFrame DEF NodeTypeOK
  <2>2. once[k] \notin {"no", "done"}
        BY <1>10, ClosingFrame
  <2>3. ~(k > n) /\ ~(k < n)
        BY <2>2 DEF Sequential
  <2>4. k = n /\ pc \notin {"idle", "without"}
        BY <2>2, <2>3, SMTT(30) DEF Sequential, NodeTypeOK, Nodes
  <2> QED BY <2>1, <2>3, <2>4 DEF Sequential
<1> QED BY <1>1, <1>2, <1>3, <1>4, <1>5, <1>6, <1>7, <1>8, <1>9, <1>10, Steps

(* Take notes what it takes, and no step forgets a note. *)
LEMMA NotedStep == NodeTypeOK /\ Sequential /\ Noted /\ [NodeNext]_nodeVars => Noted'
<1> SUFFICES ASSUME NodeTypeOK, Sequential, Noted, [NodeNext]_nodeVars PROVE Noted'
    OBVIOUS
<1>1. CASE UNCHANGED <<owner, fields>>
      BY <1>1 DEF Noted
<1>2. CASE StartTun
      BY <1>1, <1>2 DEF StartTun
<1>3. CASE Quiet
      BY <1>1, <1>3, QuietFrame
<1>4. CASE Taking
  <2>1. n \in Nodes
        BY <1>4, TakingFrame DEF Sequential
  <2>2. ASSUME NEW r \in Resources, Take(r) PROVE Noted'
        BY <2>1, <2>2 DEF Take, NodeTypeOK, Noted
  <2> QED BY <1>1, <1>4, <2>2, TakingFrame
<1>5. CASE TapFrame
      BY <1>5, NodeNumbers DEF TapFrame, Frees, NodeTypeOK, Noted, NoOwner
<1>6. CASE Crash
      BY <1>6, NodeNumbers DEF Crash, NodeTypeOK, Noted, NoOwner
<1>7. ASSUME NEW k \in Nodes, BeginClose(k) \/ CloseStream(k) \/ UplinkLost(k) PROVE Noted'
      BY <1>1, <1>7 DEF BeginClose, CloseStream, UplinkLost
<1>8. ASSUME NEW k \in Nodes, Clearing(k) PROVE Noted'
      BY <1>8, ClosingFrame, NodeNumbers DEF NodeTypeOK, Noted, NoOwner
<1> QED BY <1>1, <1>2, <1>3, <1>4, <1>5, <1>6, <1>7, <1>8, Steps DEF nodeVars

(* Only Close of the node that created the bridge removes it. *)
LEMMA BridgeStep ==
  NodeTypeOK /\ Sequential /\ BridgeOwned /\ [NodeNext]_nodeVars => BridgeOwned'
<1> SUFFICES ASSUME NodeTypeOK, Sequential, BridgeOwned, [NodeNext]_nodeVars PROVE BridgeOwned'
    BY SMTT(30)
<1> USE NICNames
<1>b. "bridge" \in Resources /\ "bridge" \notin NICs
      BY DEF Resources
<1>1. CASE UNCHANGED <<owner, fields, once>>
      BY <1>1 DEF BridgeOwned
<1>2. CASE StartTun
      BY <1>1, <1>2 DEF StartTun
<1>3. CASE Quiet
      BY <1>1, <1>3, QuietFrame
<1>4. CASE Taking
  <2>1. n \in Nodes /\ UNCHANGED once
        BY <1>4, TakingFrame DEF Sequential
  <2>2. ASSUME NEW r \in Resources, Take(r), r \in NICs \/ ~Exists(r) PROVE BridgeOwned'
    <3>1. CASE r = "bridge"
          BY <1>b, <2>1, <2>2, <3>1, NodeNumbers
             DEF Take, NodeTypeOK, BridgeOwned, Exists, NoOwner
    <3>2. CASE r # "bridge"
          BY <1>b, <2>1, <2>2, <3>2 DEF Take, NodeTypeOK, BridgeOwned
    <3> QED BY <3>1, <3>2
  <2> QED BY <1>1, <1>4, <2>1, <2>2, TakingFrame
<1>5. CASE TapFrame
      BY <1>5, <1>b DEF TapFrame, Frees, NodeTypeOK, BridgeOwned
<1>6. CASE Crash
      BY <1>6, SMTT(30) DEF Crash, NodeTypeOK, BridgeOwned, Sequential, Nodes
<1>7. ASSUME NEW k \in Nodes, BeginClose(k) \/ CloseStream(k) \/ UplinkLost(k) PROVE BridgeOwned'
      BY <1>7 DEF BeginClose, CloseStream, UplinkLost, NodeTypeOK, BridgeOwned
<1>8. ASSUME NEW k \in Nodes, CloseUDP(k) \/ CloseDev(k) \/ CloseMembers(k) PROVE BridgeOwned'
  <2>1. owner'["bridge"] = owner["bridge"] /\ UNCHANGED fields
        BY <1>8, <1>b, SMTT(30) DEF CloseUDP, CloseDev, CloseMembers, Frees, Own, NodeTypeOK
  <2>2. \A j \in Nodes : once'[j] \in {"no", "udp", "dev", "members", "bridge"}
                           => once[j] \in {"no", "udp", "dev", "members", "bridge"}
        BY <1>8 DEF CloseUDP, CloseDev, CloseMembers, NodeTypeOK
  <2> QED BY <2>1, <2>2 DEF BridgeOwned
<1>9. ASSUME NEW k \in Nodes, CloseBridge(k) PROVE BridgeOwned'
  <2>1. once' = [once EXCEPT ![k] = "stream"] /\ UNCHANGED fields
        BY <1>9 DEF CloseBridge
  <2>2. CASE "bridge" \notin fields[k]
        BY <1>9, <2>1, <2>2 DEF CloseBridge, NodeTypeOK, BridgeOwned
  <2>3. CASE "bridge" \in fields[k]
    <3>1. owner["bridge"] = k
          BY <1>9, <2>3 DEF CloseBridge, BridgeOwned
    <3> QED BY <2>1, <3>1 DEF NodeTypeOK, BridgeOwned
  <2> QED BY <2>2, <2>3
<1> QED BY <1>1, <1>2, <1>3, <1>4, <1>5, <1>6, <1>7, <1>8, <1>9, Steps DEF nodeVars, Clearing

(* Close takes what the node has noted, one kind after the other, and what *)
(* the start takes from then on is late.                                   *)
LEMMA StagesStep ==
  NodeTypeOK /\ Sequential /\ Noted /\ Stages /\ [NodeNext]_nodeVars => Stages'
<1> SUFFICES ASSUME NodeTypeOK, Sequential, Noted, Stages, [NodeNext]_nodeVars PROVE Stages'
    OBVIOUS
<1> USE NICNames, NodeNumbers
<1>r. {"tap", "bridge", "udp"} \subseteq Resources /\ NICs \subseteq Resources
      BY DEF Resources
<1>1. CASE UNCHANGED nodeVars
      BY <1>1 DEF Stages, Gone, nodeVars
<1>2. CASE StartTun
  <2>1. \A k \in Nodes : once[k] = "done" => up'[k] = up[k]
    <3>1. n + 1 \in Nodes /\ once[n + 1] = "no"
          BY <1>2, NodeBounds, SMTT(30) DEF StartTun, Sequential, NodeTypeOK, Nodes
    <3> QED BY <1>2, <3>1 DEF StartTun, NodeTypeOK
  <2> QED BY <1>2, <2>1 DEF StartTun, Stages, Gone
<1>3. CASE Quiet
  <2>1. tap = "closing" => tap' = "closing"
        BY <1>3
           DEF Quiet, NoTun, Fails, SetUp, Enslave, MembersDone, Configure, StartReader, runDHCP,
                    SessionEnds, CloseReturns
  <2> QED BY <1>3, <2>1, QuietFrame DEF Stages, Gone
<1>4. CASE Taking
  <2>1. n \in Nodes /\ UNCHANGED <<up, once>>
        BY <1>4, TakingFrame DEF Sequential
  <2>2. ASSUME NEW k \in Nodes, once[k] # "no", NEW r \in Resources, Gone(k, r) PROVE Gone(k, r)'
    <3>1. ASSUME NEW x \in Resources, Take(x) PROVE Gone(k, r)'
          BY <2>1, <2>2, <3>1 DEF Take, NodeTypeOK, Gone
    <3> QED BY <1>4, <2>2, <3>1, TakingFrame DEF Gone
  <2>3. tap = "closing" => tap' = "closing"
        BY <1>4, TakingFrame DEF Open, Exists, NodeTypeOK
  <2> QED BY <1>r, <2>1, <2>2, <2>3 DEF Stages
<1>5. CASE TapFrame
  <2>1. owner'["tap"] = NoOwner /\ \A r \in Resources : owner'[r] \in {owner[r], NoOwner}
        BY <1>5, <1>r DEF TapFrame, Frees
  <2> QED BY <1>5, <1>r, <2>1 DEF TapFrame, Stages, Gone, NoOwner
<1>6. CASE Crash
  <2>1. \A k \in Nodes, r \in Resources : owner'[r] # k
        BY <1>6 DEF Crash, NoOwner
  <2>2. \A k \in Nodes : ~up'[k]
        BY <1>6 DEF Crash
  <2> QED BY <1>r, <2>1, <2>2 DEF Stages, Gone
<1>7. ASSUME NEW k \in Nodes, BeginClose(k) PROVE Stages'
      BY <1>7 DEF BeginClose, NodeTypeOK, Stages, Gone
<1>8. ASSUME NEW k \in Nodes, CloseStream(k) PROVE Stages'
  <2>1. \A j \in Nodes : j # k => once'[j] = once[j] /\ up'[j] = up[j]
        BY <1>8 DEF CloseStream, NodeTypeOK
  <2>2. once[k] = "stream" /\ once'[k] = "done" /\ ~up'[k] /\ UNCHANGED <<owner, late, tap>>
        BY <1>8 DEF CloseStream, NodeTypeOK
  <2> QED BY <2>1, <2>2 DEF Stages, Gone
<1>9. ASSUME NEW k \in Nodes, UplinkLost(k) PROVE Stages'
      BY <1>9 DEF UplinkLost, NodeTypeOK, Stages, Gone
<1>10. ASSUME NEW k \in Nodes, Clearing(k) PROVE Stages'
  <2>1. /\ UNCHANGED <<up, late>>
        /\ \A j \in Nodes : j # k => once'[j] = once[j]
        /\ \A j \in Nodes, r \in Resources : Gone(j, r) => Gone(j, r)'
        BY <1>10, ClosingFrame, SMTT(30) DEF NodeTypeOK, Gone, NoOwner
  <2>2. tap = "closing" => tap' = "closing" \/ owner'["tap"] = NoOwner
        BY <1>10, <1>r
           DEF Clearing, CloseUDP, CloseDev, CloseMembers, CloseBridge, Frees, NodeTypeOK
  <2>3. \A j \in Nodes : Gone(j, "tap") \/ tap = "closing" => Gone(j, "tap")' \/ tap' = "closing"
        BY <1>r, <2>1, <2>2 DEF Gone, NoOwner
  <2>4. CASE CloseUDP(k)
    <3>1. once[k] = "udp" /\ once'[k] = "dev" /\ Gone(k, "udp")'
          BY <1>r, <2>4 DEF CloseUDP, NodeTypeOK, Frees, Own, Noted, Gone, NoOwner
    <3> QED BY <1>r, <2>1, <2>3, <3>1 DEF Stages
  <2>5. CASE CloseDev(k)
    <3>1. once[k] = "dev" /\ once'[k] = "members"
          BY <2>5 DEF CloseDev, NodeTypeOK
    <3>2. Gone(k, "tap")' \/ tap' = "closing"
          BY <1>r, <2>5 DEF CloseDev, NodeTypeOK, Frees, Own, Noted, Gone, NoOwner
    <3> QED BY <1>r, <2>1, <2>3, <3>1, <3>2 DEF Stages
  <2>6. CASE CloseMembers(k)
    <3>1. once[k] = "members" /\ once'[k] = "bridge" /\ \A m \in NICs : Gone(k, m)'
          BY <1>r, <2>6 DEF CloseMembers, NodeTypeOK, Frees, Noted, Gone, NoOwner
    <3> QED BY <1>r, <2>1, <2>3, <3>1 DEF Stages
  <2>7. CASE CloseBridge(k)
    <3>1. once[k] = "bridge" /\ once'[k] = "stream"
          BY <2>7 DEF CloseBridge, NodeTypeOK
    <3>2. Gone(k, "bridge")'
          BY <1>r, <2>7 DEF CloseBridge, NodeTypeOK, Frees, Noted, Gone, NoOwner
    <3> QED BY <1>r, <2>1, <2>3, <3>1, <3>2 DEF Stages
  <2> QED BY <1>10, <2>4, <2>5, <2>6, <2>7 DEF Clearing
<1> QED BY <1>1, <1>2, <1>3, <1>4, <1>5, <1>6, <1>7, <1>8, <1>9, <1>10, Steps

(* The next node starts from nothing. *)
LEMMA ProgressStart == NodeTypeOK /\ Sequential /\ StartTun => Progress'
<1> SUFFICES ASSUME NodeTypeOK, Sequential, StartTun PROVE Progress'
    OBVIOUS
<1>1. n' \in Nodes /\ fields'[n'] = {} /\ UNCHANGED cfg
  <2>1. n \in Nat /\ n' = n + 1 /\ n' \in Nodes /\ UNCHANGED <<cfg, fields>>
        BY NodeBounds, SMTT(30) DEF StartTun, NodeTypeOK, Nodes
  <2> QED BY <2>1, SMTT(30) DEF Sequential
<1>2. CASE UseTAP
      BY <1>1, <1>2 DEF StartTun, UseTAP, Progress, Beginning
<1>3. CASE ~UseTAP
      BY <1>1, <1>3 DEF StartTun, UseTAP, AfterTAP, Progress, Beginning
<1> QED BY <1>2, <1>3

(* What the session does, besides taking, leads from one stage to the next. *)
LEMMA ProgressQuiet == NodeTypeOK /\ Sequential /\ Progress /\ Quiet => Progress'
<1> SUFFICES ASSUME NodeTypeOK, Sequential, Progress, Quiet PROVE Progress'
    OBVIOUS
<1> USE DEF Progress, Beginning, UseTAP, ipDev, Exists
<1>1. CASE NoTun
      BY <1>1 DEF NoTun
<1>2. CASE Fails
      BY <1>2 DEF Fails
<1>3. CASE SetUp
      BY <1>3 DEF SetUp
<1>4. CASE Enslave
      BY <1>4 DEF Enslave
<1>5. CASE MembersDone
      BY <1>5 DEF MembersDone
<1>6. CASE Configure
      BY <1>6 DEF Configure
<1>7. CASE StartReader
      BY <1>7 DEF StartReader, AfterTAP
<1>8. CASE runDHCP
      BY <1>8 DEF runDHCP
<1>9. CASE SessionEnds
      BY <1>9 DEF SessionEnds
<1>10. CASE CloseReturns
      BY <1>10 DEF CloseReturns
<1> QED BY <1>1, <1>2, <1>3, <1>4, <1>5, <1>6, <1>7, <1>8, <1>9, <1>10 DEF Quiet

(* What a stage takes is there at the next, and what the others took stays. *)
LEMMA ProgressTaking == NodeTypeOK /\ Sequential /\ Progress /\ Taking => Progress'
<1> SUFFICES ASSUME NodeTypeOK, Sequential, Progress, Taking PROVE Progress'
    BY SMTT(30)
<1> USE NICNames, NodeNumbers
<1>n. n \in Nodes /\ n # NoOwner
      BY TakingFrame DEF Sequential, NoOwner
<1>r. {"tap", "bridge", "udp"} \subseteq Resources /\ NICs \subseteq Resources
      BY DEF Resources
<1>t. ASSUME NEW r \in Resources, Take(r)
      PROVE  /\ owner'[r] = n /\ fields'[n] = fields[n] \cup {r}
             /\ \A x \in Resources : x # r => owner'[x] = owner[x]
      BY <1>n, <1>t DEF Take, NodeTypeOK
<1> HIDE NodeNumbers
<1> USE DEF Progress, Beginning, UseTAP, ipDev, Exists
<1>1. CASE Open
  <2>1. /\ pc = "open" /\ pc' = "setup" /\ tap' = "open" /\ Take("tap")
        /\ UNCHANGED <<cfg, n, once>>
        BY <1>1 DEF Open
  <2> QED BY <1>n, <1>r, <1>t, <2>1
<1>2. CASE EnsureBridge
  <2>1. /\ pc = "bridge" /\ pc' = "enslave" /\ UNCHANGED <<cfg, n, once, tap>>
        /\ Take("bridge") \/ (Exists("bridge") /\ UNCHANGED <<owner, fields>>)
        BY <1>2 DEF EnsureBridge
  <2>2. CASE Take("bridge")
        BY <1>n, <1>r, <1>t, <2>1, <2>2, SMTT(30)
  <2>3. CASE Exists("bridge") /\ UNCHANGED <<owner, fields>>
        BY <2>1, <2>3
  <2> QED BY <2>1, <2>2, <2>3
<1>3. CASE NewUDPEndpoint
  <2>1. pc = "udp" /\ pc' = "started" /\ Take("udp") /\ UNCHANGED <<cfg, n, once, tap, addrOn>>
        BY <1>3 DEF NewUDPEndpoint
  <2> QED BY <1>n, <1>r, <1>t, <2>1
<1>4. ASSUME NEW m \in NICs, AddToBridge(m) PROVE Progress'
  <2>1. pc = "members" /\ Take(m) /\ UNCHANGED <<cfg, n, pc, once, tap>>
        BY <1>4 DEF AddToBridge
  <2> QED BY <1>n, <1>r, <1>t, <2>1
<1> QED BY <1>1, <1>2, <1>3, <1>4 DEF Taking

(* No step outside the session disturbs a node that is not being closed. *)
LEMMA ProgressStep ==
  NodeTypeOK /\ Sequential /\ Progress /\ [NodeNext]_nodeVars => Progress'
<1> SUFFICES ASSUME NodeTypeOK, Sequential, Progress, [NodeNext]_nodeVars PROVE Progress'
    BY SMTT(30)
<1> USE NICNames, NodeNumbers
<1>1. CASE UNCHANGED nodeVars
      BY <1>1 DEF nodeVars, Progress, UseTAP, ipDev, Exists
<1>2. CASE TapFrame
  <2>1. tap = "closing" /\ \A r \in Resources \ {"tap"} : owner'[r] = owner[r]
        BY <1>2 DEF TapFrame, Frees
  <2>2. addrOn' = addrOn \ {"tap"} /\ UNCHANGED <<cfg, n, pc, once, fields>>
        BY <1>2 DEF TapFrame
  <2> QED BY <2>1, <2>2 DEF Progress, Beginning, UseTAP, ipDev, Exists, Resources
<1>3. CASE Crash
      BY <1>3 DEF Crash, Progress, Beginning
<1>4. ASSUME NEW k \in Nodes, UplinkLost(k) PROVE Progress'
      BY <1>4 DEF UplinkLost, Progress, UseTAP, ipDev, Exists
<1>5. ASSUME NEW k \in Nodes, BeginClose(k) \/ CloseStream(k) \/ Clearing(k) PROVE Progress'
  <2>1. UNCHANGED <<cfg, n, pc>>
        BY <1>5, ClosingFrame DEF BeginClose, CloseStream
  <2>2. once[k] # "done" /\ k <= n /\ once'[k] # "no"
    <3>1. CASE BeginClose(k)
      <4>1. k \in 1..n /\ once[k] = "no" /\ once' = [once EXCEPT ![k] = "udp"]
            BY <3>1 DEF BeginClose
      <4>2. k <= n
            BY <4>1, SMTT(30) DEF NodeTypeOK
      <4>3. DOMAIN once = Nodes
            BY DEF NodeTypeOK
      <4>4. once'[k] = "udp"
            BY <4>1, <4>3
      <4> QED BY <4>1, <4>2, <4>4
    <3>2. CASE CloseStream(k) \/ Clearing(k)
      <4>1. once[k] \notin {"no", "done"} /\ once'[k] # "no"
            BY <3>2, ClosingFrame DEF CloseStream, NodeTypeOK
      <4> QED BY <4>1, SMTT(30) DEF Sequential, NodeTypeOK, Nodes
    <3> QED BY <1>5, <3>1, <3>2
  <2>3. k = n
        BY <2>2, SMTT(30) DEF Sequential, NodeTypeOK, Nodes
  <2> QED BY <2>1, <2>2, <2>3 DEF Progress, UseTAP
<1> QED BY <1>1, <1>2, <1>3, <1>4, <1>5, Steps, ProgressStart, ProgressQuiet, ProgressTaking

-----------------------------------------------------------------------------
(* The invariant holds of every session, close and crash. *)
THEOREM NodeInvariant == NodeSpec => []NodeInv
<1>1. NodeInit => NodeInv
  <2> SUFFICES ASSUME NodeInit PROVE NodeInv
      BY SMTT(30)
  <2> USE NodeBounds, NodeNumbers DEF NodeInit
  <2>1. NodeTypeOK
        BY NICNames, SMTT(30) DEF NodeTypeOK, NoOwner, Foreign, Exists, Resources
  <2>2. Sequential
        BY SMTT(30) DEF Sequential, Nodes
  <2>3. \A k \in Nodes, r \in Resources : owner[r] # k
        BY DEF NoOwner
  <2> QED BY <2>1, <2>2, <2>3 DEF NodeInv, Noted, BridgeOwned, Stages, Progress, Beginning
<1>2. NodeInv /\ [NodeNext]_nodeVars => NodeInv'
      BY NodeTypeStep, SequentialStep, NotedStep, BridgeStep, StagesStep, ProgressStep DEF NodeInv
<1> QED BY <1>1, <1>2, PTL DEF NodeSpec

(* The TAP, its descriptor and the addresses stay in step with the host's   *)
(* devices, whatever fails.                                                 *)
THEOREM NodeTypeCorrect == NodeSpec => []NodeTypeOK
<1>1. NodeInv => NodeTypeOK
      BY DEF NodeInv
<1> QED BY <1>1, NodeInvariant, PTL

(* Close leaves nothing behind: of all the node took, only what the start   *)
(* took after Close had begun, and a TAP with a blocked reader, remain.     *)
THEOREM CleanCloseHolds == NodeSpec => []CleanClose
<1>1. NodeInv => CleanClose
  <2> SUFFICES ASSUME NodeInv, NEW k \in 1..n, once[k] = "done"
               PROVE  /\ ~up[k]
                      /\ \A r \in Resources :
                           owner[r] = k => <<k, r>> \in late \/ (r = "tap" /\ tap = "closing")
      BY DEF CleanClose
  <2>1. k \in Nodes
        BY NodeBounds, SMTT(30) DEF NodeInv, NodeTypeOK, Nodes
  <2> QED BY <2>1 DEF NodeInv, Stages, Gone, Resources
<1> QED BY <1>1, NodeInvariant, PTL

(* A started node that is not being closed has all it was configured with. *)
THEOREM RunningIntactHolds == NodeSpec => []RunningIntact
<1>1. NodeInv => RunningIntact
      BY DEF NodeInv, Progress, RunningIntact
<1> QED BY <1>1, NodeInvariant, PTL

(* No step removes a bridge that the nodes did not create. *)
THEOREM ForeignKeptHolds == NodeSpec => ForeignKept
<1> USE NICNames, NodeNumbers
<1>1. NodeInv /\ [NodeNext]_nodeVars
        => [owner["bridge"] = Foreign => owner'["bridge"] = Foreign]_nodeVars
  <2> SUFFICES ASSUME NodeInv, NodeNext,
  owner["bridge"] = Foreign PROVE owner'["bridge"] = Foreign
      OBVIOUS
  <2>r. "bridge" \in Resources /\ "bridge" \notin NICs
        BY DEF Resources
  <2>1. CASE StartTun \/ Quiet
        BY <2>1, QuietFrame DEF StartTun
  <2>2. CASE Taking
    <3>1. ASSUME NEW r \in Resources, Take(r),
    r \in NICs \/ ~Exists(r) PROVE owner'["bridge"] = Foreign
          BY <2>r, <3>1 DEF Take, Exists, NodeInv, NodeTypeOK, NoOwner
    <3> QED BY <2>2, <3>1, TakingFrame DEF NodeInv
  <2>3. CASE TapFrame \/ Crash
        BY <2>r, <2>3 DEF TapFrame, Frees, Crash, NoOwner
  <2>4. ASSUME NEW k \in Nodes, BeginClose(k) \/ CloseStream(k) \/ UplinkLost(k)
        PROVE  owner'["bridge"] = Foreign
        BY <2>4 DEF BeginClose, CloseStream, UplinkLost
  <2>5. ASSUME NEW k \in Nodes, CloseUDP(k) \/ CloseDev(k) \/ CloseMembers(k)
        PROVE  owner'["bridge"] = Foreign
        BY <2>r, <2>5 DEF CloseUDP, CloseDev, CloseMembers, Frees
  <2>6. ASSUME NEW k \in Nodes, CloseBridge(k) PROVE owner'["bridge"] = Foreign
    <3>1. "bridge" \notin fields[k]
          BY <2>6 DEF CloseBridge, NodeInv, BridgeOwned
    <3> QED BY <2>6, <3>1 DEF CloseBridge
  <2> QED BY <2>1, <2>2, <2>3, <2>4, <2>5, <2>6, Steps DEF Clearing
<1> QED BY <1>1, NodeInvariant, PTL DEF NodeSpec, ForeignKept
=============================================================================
