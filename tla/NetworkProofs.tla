--------------------------- MODULE NetworkProofs ----------------------------
(* Proofs about the server's L2 network: the switch (Switch) and the DHCP   *)
(* server (DhcpServer).                                                     *)
EXTENDS Switch, DhcpServer, WellFoundedInduction, TLAPS

(* Zenon is asked for every step that does not name another prover. *)
USE Zenon

(***************************************************************************)
(* Theorems about Switch for any number of streams, UDP peers, stations    *)
(* and prefixes.  The inductive invariant says where the port of a frame   *)
(* in flight and the ports of the table can have come from: a port that is *)
(* no longer attached is a stream that is gone or belongs to an endpoint   *)
(* that has been closed, and neither is ever attached again.               *)
(***************************************************************************)

(* The port is attached, or was and will not be again. *)
Known(p) ==
  \/ p \in ports
  \/ p \in Streams /\ stream[p] = "gone"
  \/ p \in Peers \X {"first"} /\ endpoint # "open"

(* A frame in flight is on a port of its reader. *)
FromOK ==
  \A r \in Readers : job[r] # Idle =>
    IF r = Udp THEN job[r].from \in UdpPorts /\ Known(job[r].from)
               ELSE job[r].from = r /\ r \in ports

StreamsOK == \A s \in Streams : s \in ports <=> stream[s] = "open"

(* The attached UDP ports are those in peers, and of the right generation. *)
PeersOK ==
  /\ \A p \in ports \cap UdpPorts : peers[p[1]] = p
  /\ \A a \in Peers : peers[a] # NoPort =>
       /\ peers[a] \in ports
       /\ peers[a] = <<a, IF endpoint = "open" THEN "first" ELSE "second">>

TableOK ==
  \A m \in MACs :
    /\ macs[m] \in ports \cup {NoPort} \/ (macs[m] \in Peers \X {"first"} /\ endpoint # "open")
    /\ heard[m] # NoPort => Known(heard[m])
    /\ heard[m] \in ports => macs[m] = heard[m]

Inv == SwitchTypeOK /\ FromOK /\ StreamsOK /\ PeersOK /\ TableOK

-----------------------------------------------------------------------------
(* The initial state satisfies the invariant. *)
LEMMA InitInv == SwitchInit => Inv
<1> SUFFICES ASSUME SwitchInit PROVE Inv
  OBVIOUS
<1>1. SwitchTypeOK
  BY PortAssumption DEF SwitchInit, SwitchTypeOK, Ports, Idle
<1>2. ports \cap Streams = {} /\ ports \cap UdpPorts = {}
  BY PortAssumption DEF SwitchInit
<1>3. FromOK
  BY DEF SwitchInit, FromOK
<1>4. StreamsOK
  BY <1>2 DEF SwitchInit, StreamsOK
<1>5. PeersOK
  BY <1>2 DEF SwitchInit, PeersOK
<1>6. TableOK
  BY PortAssumption DEF SwitchInit, TableOK, Ports
<1> QED BY <1>1, <1>3, <1>4, <1>5, <1>6 DEF Inv

(* A reader in the middle of Inject has a frame. *)
LEMMA BusyJob ==
  ASSUME SwitchTypeOK, NEW r \in Readers, job[r].at # "read"
  PROVE  job[r] \in Busy /\ job[r] # Idle
  BY SMTT(30) DEF SwitchTypeOK, Idle

(* A step of Inject moves one reader's frame on and leaves its port alone; *)
(* only Learn writes the table and no step attaches or detaches a port.    *)
LEMMA StepJob ==
  ASSUME SwitchTypeOK, NEW r \in Readers, ReaderStep(r)
  PROVE  /\ job[r] \in Busy /\ job[r] # Idle
         /\ job' \in [Readers -> Busy \cup {Idle}]
         /\ \A q \in Readers : q # r => job'[q] = job[q]
         /\ job'[r] = Idle \/ (job'[r] \in Busy /\ job'[r].from = job[r].from)
         /\ UNCHANGED <<role, ports, stream, peers, endpoint>>
<1>1. job \in [Readers -> Busy \cup {Idle}] /\ ports \subseteq Ports
      /\ macs \in [MACs -> Ports \cup {NoPort}]
  BY DEF SwitchTypeOK
<1>2. job[r].at # "read"
  BY DEF ReaderStep, Learn, OnIPv6, InstallRoute, Lookup, Flood, Sent
<1>3. job[r] \in Busy /\ job[r] # Idle
  BY <1>2, BusyJob
<1>4. UNCHANGED <<role, ports, stream, peers, endpoint>>
  BY DEF ReaderStep, Learn, OnIPv6, InstallRoute, Lookup, Flood, Sent
<1>5. \/ job' = [job EXCEPT ![r] = Idle]
      \/ \E st \in {"hook", "route", "lookup", "flood"} : job' = [job EXCEPT ![r].at = st]
      \/ \E t \in SUBSET Ports : job' = [job EXCEPT ![r].at = "send", ![r].to = t]
  <2>1. CASE Lookup(r)
    <3> DEFINE dst == job[r].frame.dst
    <3>1. CASE dst \notin MACs \/ macs[dst] = NoPort
      BY <2>1, <3>1, <1>1 DEF Lookup
    <3>2. CASE ~(dst \notin MACs \/ macs[dst] = NoPort) /\ macs[dst] = job[r].from
      BY <2>1, <3>2, <1>1 DEF Lookup
    <3>3. CASE ~(dst \notin MACs \/ macs[dst] = NoPort) /\ macs[dst] # job[r].from
      <4>1. {macs[dst]} \in SUBSET Ports
        BY <3>3, <1>1
      <4>2. job' = [job EXCEPT ![r].at = "send", ![r].to = {macs[dst]}]
        BY <2>1, <3>3, <1>1, <1>3 DEF Lookup, Busy
      <4> QED BY <4>1, <4>2
    <3> QED BY <3>1, <3>2, <3>3
  <2>2. CASE Flood(r)
    BY <2>2, <1>1 DEF Flood
  <2>3. CASE OnIPv6(r)
    BY <2>3 DEF OnIPv6
  <2>4. CASE Learn(r) \/ Sent(r) \/ \E ok \in BOOLEAN : InstallRoute(r, ok)
    BY <2>4 DEF Learn, Sent, InstallRoute
  <2> QED BY <2>1, <2>2, <2>3, <2>4 DEF ReaderStep
<1>6. CASE job' = [job EXCEPT ![r] = Idle]
  BY <1>1, <1>3, <1>4, <1>6
<1>7. ASSUME NEW st \in {"hook", "route", "lookup", "flood"}, job' = [job EXCEPT ![r].at = st]
      PROVE  /\ job' \in [Readers -> Busy \cup {Idle}]
             /\ \A q \in Readers : q # r => job'[q] = job[q]
             /\ job'[r] \in Busy /\ job'[r].from = job[r].from
  BY <1>1, <1>3, <1>7 DEF Busy
<1>8. ASSUME NEW t \in SUBSET Ports, job' = [job EXCEPT ![r].at = "send", ![r].to = t]
      PROVE  /\ job' \in [Readers -> Busy \cup {Idle}]
             /\ \A q \in Readers : q # r => job'[q] = job[q]
             /\ job'[r] \in Busy /\ job'[r].from = job[r].from
  BY <1>1, <1>3, <1>8 DEF Busy
<1> QED BY <1>3, <1>4, <1>5, <1>6, <1>7, <1>8

(* What Inject's first step does to the job of a reader that was idle. *)
LEMMA AcceptJob ==
  ASSUME SwitchTypeOK, NEW r \in Readers, NEW p \in Ports, NEW f \in Frames,
         job[r] = Idle, Accept(r, p, f)
  PROVE  /\ job' \in [Readers -> Busy \cup {Idle}]
         /\ \A q \in Readers : q # r => job'[q] = job[q]
         /\ job'[r] = Idle \/ (job'[r].from = p /\ job'[r].at = "learn")
<1> DEFINE j == [at |-> "learn", from |-> p, frame |-> f, to |-> {}]
<1>1. j \in Busy
  BY DEF Busy
<1>2. job' = job \/ job' = [job EXCEPT ![r] = j]
  BY DEF Accept
<1>3. j.from = p /\ j.at = "learn"
  OBVIOUS
<1>4. job \in [Readers -> Busy \cup {Idle}]
  BY DEF SwitchTypeOK
<1> HIDE DEF j
<1> QED BY <1>1, <1>2, <1>3, <1>4

-----------------------------------------------------------------------------
(* Attaching a client stream. *)
LEMMA AttachInv ==
  ASSUME Inv, NEW s \in Streams, Attach(s)
  PROVE  Inv'
<1>1. /\ SwitchTypeOK /\ FromOK /\ StreamsOK /\ PeersOK /\ TableOK
  BY DEF Inv
<1>2. /\ ports' = ports \cup {s} /\ stream' = [stream EXCEPT ![s] = "open"] /\ stream[s] = "new"
      /\ UNCHANGED <<role, macs, peers, endpoint, job, heard>>
  BY DEF Attach, AddPort
<1>3. s \notin ports /\ s \notin UdpPorts /\ s # NoPort
  BY <1>1, <1>2, PortAssumption DEF StreamsOK, Ports
<1>4. SwitchTypeOK'
  BY <1>1, <1>2 DEF SwitchTypeOK, Ports
<1>5. \A p : Known(p) => Known(p)' /\ p # s
  BY <1>1, <1>2, <1>3, PortAssumption DEF Known, SwitchTypeOK, UdpPorts
<1>6. FromOK'
  BY <1>1, <1>2, <1>5 DEF FromOK
<1>7. StreamsOK'
  BY <1>1, <1>2 DEF StreamsOK, SwitchTypeOK
<1>8. PeersOK'
  BY <1>1, <1>2, <1>3 DEF PeersOK
<1>9. TableOK'
  BY <1>1, <1>2, <1>3, <1>5 DEF TableOK
<1> QED BY <1>4, <1>6, <1>7, <1>8, <1>9 DEF Inv

(* The table after ports are removed. *)
LEMMA Removal ==
  ASSUME SwitchTypeOK, NEW gone, RemovePorts(gone)
  PROVE  /\ ports' = ports \ gone
         /\ macs' \in [MACs -> Ports \cup {NoPort}]
         /\ \A m \in MACs : macs'[m] = IF macs[m] \in gone THEN NoPort ELSE macs[m]
  BY DEF RemovePorts, Forgotten, SwitchTypeOK

(* Detaching a client stream: its reader has no frame in flight. *)
LEMMA DetachInv ==
  ASSUME Inv, NEW s \in Streams, Detach(s)
  PROVE  Inv'
<1>1. /\ SwitchTypeOK /\ FromOK /\ StreamsOK /\ PeersOK /\ TableOK
  BY SMTT(30) DEF Inv
<1>2. /\ stream' = [stream EXCEPT ![s] = "gone"] /\ job[s] = Idle
      /\ UNCHANGED <<role, peers, endpoint, job, heard>>
  BY DEF Detach
<1>3. /\ ports' = ports \ {s}
      /\ macs' \in [MACs -> Ports \cup {NoPort}]
      /\ \A m \in MACs : macs'[m] = IF macs[m] = s THEN NoPort ELSE macs[m]
  BY <1>1, Removal, SMTT(30) DEF Detach
<1>4. s \notin UdpPorts /\ s # NoPort /\ s # Tap
  BY PortAssumption DEF Ports
<1>5. SwitchTypeOK'
  BY <1>1, <1>2, <1>3, <1>4 DEF SwitchTypeOK
<1>6. \A p : Known(p) => Known(p)'
  BY <1>1, <1>2, <1>3 DEF Known, SwitchTypeOK
<1>7. FromOK'
  BY <1>1, <1>2, <1>3, <1>6 DEF FromOK
<1>8. StreamsOK'
  BY <1>1, <1>2, <1>3 DEF StreamsOK, SwitchTypeOK
<1>9. PeersOK'
  <2>1. ports' \cap UdpPorts = ports \cap UdpPorts /\ s \notin UdpPorts
    BY <1>3, <1>4
  <2>2. \A p \in ports \cap UdpPorts : peers[p[1]] = p
    BY <1>1 DEF PeersOK
  <2>3. \A a \in Peers : peers[a] # NoPort =>
          /\ peers[a] \in ports
          /\ peers[a] = <<a, IF endpoint = "open" THEN "first" ELSE "second">>
    BY <1>1 DEF PeersOK
  <2>4. \A a \in Peers : peers[a] # NoPort => peers[a] \in ports'
    BY <2>1, <2>3, <1>1, <1>3 DEF SwitchTypeOK
  <2> QED BY <2>1, <2>2, <2>3, <2>4, <1>2 DEF PeersOK
<1>10. TableOK'
  <2> SUFFICES ASSUME NEW m \in MACs
               PROVE  /\ \/ macs'[m] \in ports' \cup {NoPort}
                         \/ macs'[m] \in Peers \X {"first"} /\ endpoint' # "open"
                      /\ heard'[m] # NoPort => Known(heard[m])'
                      /\ heard'[m] \in ports' => macs'[m] = heard'[m]
    BY DEF TableOK
  <2>1. \/ macs[m] \in ports \cup {NoPort}
        \/ macs[m] \in Peers \X {"first"} /\ endpoint # "open"
    BY <1>1 DEF TableOK
  <2>2. heard[m] # NoPort => Known(heard[m])
    BY <1>1 DEF TableOK
  <2>3. heard[m] \in ports => macs[m] = heard[m]
    BY <1>1 DEF TableOK
  <2>4. heard'[m] # NoPort => Known(heard[m])'
    BY <2>2, <1>2, <1>6
  <2>5. heard'[m] \in ports' => macs'[m] = heard'[m]
    BY <2>3, <1>2, <1>3
  <2>6. \/ macs'[m] \in ports' \cup {NoPort}
        \/ macs'[m] \in Peers \X {"first"} /\ endpoint' # "open"
    BY <2>1, <1>2, <1>3
  <2> QED BY <2>4, <2>5, <2>6
<1> QED BY <1>5, <1>7, <1>8, <1>9, <1>10, SMTT(30) DEF Inv

(* Close of the UDP endpoint: what readLoop has in flight is then on a     *)
(* port of the first generation.                                           *)
LEMMA EndpointDetachInv ==
  ASSUME Inv, EndpointDetach
  PROVE  Inv'
<1> DEFINE gone == {peers[a] : a \in Peers}
<1>1. /\ SwitchTypeOK /\ FromOK /\ StreamsOK /\ PeersOK /\ TableOK
  BY DEF Inv
<1>2. /\ endpoint = "open" /\ endpoint' = "detached" /\ peers' = [a \in Peers |-> NoPort]
      /\ UNCHANGED <<role, stream, job, heard>>
  BY DEF EndpointDetach
<1>3. gone \subseteq UdpPorts \cup {NoPort}
  BY <1>1 DEF SwitchTypeOK
<1>4. ports \cap UdpPorts \subseteq gone
  BY <1>1 DEF PeersOK, UdpPorts
<1>5. \A p \in gone : p # NoPort => p \in Peers \X {"first"}
  BY <1>1, <1>2, SMTT(30) DEF PeersOK
<1>6. RemovePorts(gone)
  BY DEF EndpointDetach
<1> HIDE DEF gone
<1>7. /\ ports' = ports \ gone
      /\ macs' \in [MACs -> Ports \cup {NoPort}]
      /\ \A m \in MACs : macs'[m] = IF macs[m] \in gone THEN NoPort ELSE macs[m]
  BY <1>1, <1>6, Removal
<1>8. NoPort \notin ports /\ Tap \notin UdpPorts /\ Streams \cap UdpPorts = {}
      /\ Tap # NoPort /\ NoPort \notin UdpPorts /\ NoPort \notin Streams
  BY <1>1, PortAssumption DEF SwitchTypeOK, Ports
<1>9. SwitchTypeOK'
  BY <1>1, <1>2, <1>3, <1>7, <1>8 DEF SwitchTypeOK
<1>10. \A p : Known(p) => Known(p)'
  BY <1>2, <1>5, <1>7, <1>8 DEF Known
<1>11. FromOK'
  <2>1. \A r \in Readers \ {Udp} : r \notin gone
    BY <1>3, PortAssumption DEF Readers, Ports
  <2> QED BY <1>1, <1>2, <1>7, <1>10, <2>1 DEF FromOK
<1>12. StreamsOK'
  BY <1>1, <1>2, <1>3, <1>7, <1>8 DEF StreamsOK
<1>13. PeersOK'
  BY <1>2, <1>4, <1>7 DEF PeersOK
<1>14. TableOK'
  BY <1>1, <1>2, <1>7, <1>10 DEF TableOK
<1> QED BY <1>9, <1>11, <1>12, <1>13, <1>14 DEF Inv

(* Closing the socket changes nothing else. *)
LEMMA EndpointCloseInv ==
  ASSUME Inv, EndpointClose
  PROVE  Inv'
<1>1. /\ SwitchTypeOK /\ FromOK /\ StreamsOK /\ PeersOK /\ TableOK
  BY SMTT(30) DEF Inv
<1>2. /\ endpoint = "detached" /\ endpoint' = "closed"
      /\ UNCHANGED <<role, ports, macs, stream, peers, job, heard>>
  BY DEF EndpointClose
<1>3. \A p : Known(p) => Known(p)'
  BY <1>2 DEF Known
<1>4. SwitchTypeOK'
  BY <1>1, <1>2 DEF SwitchTypeOK
<1>5. FromOK' /\ StreamsOK'
  BY <1>1, <1>2, <1>3 DEF FromOK, StreamsOK
<1>6. PeersOK'
  BY <1>1, <1>2 DEF PeersOK
<1>7. TableOK'
  BY <1>1, <1>2, <1>3 DEF TableOK
<1> QED BY <1>4, <1>5, <1>6, <1>7 DEF Inv

-----------------------------------------------------------------------------
(* A reader of the TAP, the uplink or a stream takes a frame. *)
LEMMA ReadInv ==
  ASSUME Inv, NEW r \in Readers, NEW f \in Frames, Read(r, f)
  PROVE  Inv'
<1>1. /\ SwitchTypeOK /\ FromOK /\ StreamsOK /\ PeersOK /\ TableOK
  BY DEF Inv
<1>2. /\ r \in {Tap, Uplink} \cup Streams /\ r \in ports /\ job[r] = Idle /\ Accept(r, r, f)
      /\ UNCHANGED <<role, ports, macs, stream, peers, endpoint, heard>>
  BY DEF Read
<1>3. r \in Ports /\ r # Udp
  BY <1>2, PortAssumption DEF Ports
<1>4. /\ job' \in [Readers -> Busy \cup {Idle}]
      /\ \A q \in Readers : q # r => job'[q] = job[q]
      /\ job'[r] = Idle \/ (job'[r].from = r /\ job'[r].at = "learn")
  BY <1>1, <1>2, <1>3, AcceptJob
<1>5. SwitchTypeOK'
  BY <1>1, <1>2, <1>4 DEF SwitchTypeOK
<1>6. \A p : Known(p) => Known(p)'
  BY <1>2 DEF Known
<1>7. FromOK'
  BY <1>1, <1>2, <1>3, <1>4, <1>6 DEF FromOK
<1>8. StreamsOK' /\ PeersOK'
  BY <1>1, <1>2 DEF StreamsOK, PeersOK
<1>9. TableOK'
  BY <1>1, <1>2, <1>6 DEF TableOK
<1> QED BY <1>5, <1>7, <1>8, <1>9 DEF Inv

(* readLoop takes a datagram and, if it must, attaches a port that was     *)
(* never attached before.                                                  *)
LEMMA DatagramInv ==
  ASSUME Inv, NEW a \in Peers, NEW f \in Frames, Datagram(a, f)
  PROVE  Inv'
<1> DEFINE p == peerPort(a)
<1>1. /\ SwitchTypeOK /\ FromOK /\ StreamsOK /\ PeersOK /\ TableOK
  BY DEF Inv
<1>2. /\ job[Udp] = Idle /\ Accept(Udp, p, f) /\ ports' = ports \cup {p}
      /\ peers' = [peers EXCEPT ![a] = p]
      /\ UNCHANGED <<role, macs, stream, endpoint, heard>>
  BY DEF Datagram, AddPort
<1>3. p = <<a, IF endpoint = "open" THEN "first" ELSE "second">>
  BY <1>1 DEF PeersOK, peerPort
<1>4. p \in UdpPorts /\ p \in Ports /\ p # NoPort /\ p[1] = a
  BY <1>3, PortAssumption, SMTT(30) DEF UdpPorts, Ports
<1>5. p \in ports \/ ~Known(p)
  <2>1. p \notin Streams
    BY <1>4, PortAssumption
  <2>2. p \in Peers \X {"first"} => endpoint = "open"
    BY <1>3, SMTT(30)
  <2> QED BY <2>1, <2>2 DEF Known
<1> HIDE DEF p
<1>6. Udp \in Readers
  BY DEF Readers
<1>7. /\ job' \in [Readers -> Busy \cup {Idle}]
      /\ \A q \in Readers : q # Udp => job'[q] = job[q]
      /\ job'[Udp] = Idle \/ (job'[Udp].from = p /\ job'[Udp].at = "learn")
  BY <1>1, <1>2, <1>4, <1>6, AcceptJob
<1>8. SwitchTypeOK'
  BY <1>1, <1>2, <1>4, <1>7 DEF SwitchTypeOK
<1>9. \A q : Known(q) => Known(q)'
  BY <1>2 DEF Known
<1>10. job'[Udp] # Idle => job'[Udp].from \in UdpPorts /\ Known(job[Udp].from)'
  BY <1>2, <1>4, <1>7 DEF Known
<1>11. FromOK'
  BY <1>1, <1>2, <1>7, <1>10 DEF FromOK
<1>12. StreamsOK'
  BY <1>1, <1>2, <1>4, PortAssumption DEF StreamsOK
<1>13. PeersOK'
  <2>1. \A q \in ports' \cap UdpPorts : peers'[q[1]] = q
    <3> SUFFICES ASSUME NEW q \in ports' \cap UdpPorts PROVE peers'[q[1]] = q
      OBVIOUS
    <3>1. CASE q = p
      BY <1>1, <1>2, <1>4, <3>1 DEF SwitchTypeOK
    <3>2. CASE q # p
      <4>1. q \in ports \cap UdpPorts /\ q[1] \in Peers
        BY <1>2, <3>2 DEF UdpPorts
      <4>2. peers[q[1]] = q
        BY <1>1, <4>1 DEF PeersOK
      <4>3. q # NoPort
        BY <4>1, PortAssumption DEF Ports
      <4>4. q[1] # a
        <5>1. SUFFICES ASSUME q[1] = a PROVE FALSE
          OBVIOUS
        <5>2. peers[a] # NoPort /\ peers[a] = q
          BY <4>2, <4>3, <5>1
        <5>3. q = <<a, IF endpoint = "open" THEN "first" ELSE "second">>
          BY <5>2, <1>1 DEF PeersOK
        <5> QED BY <5>3, <1>3, <3>2
      <4> QED BY <4>1, <4>2, <4>4, <1>1, <1>2 DEF SwitchTypeOK
    <3> QED BY <3>1, <3>2
  <2>2. \A b \in Peers : peers'[b] # NoPort =>
          /\ peers'[b] \in ports'
          /\ peers'[b] = <<b, IF endpoint' = "open" THEN "first" ELSE "second">>
    BY <1>1, <1>2, <1>3 DEF PeersOK, SwitchTypeOK
  <2> QED BY <2>1, <2>2 DEF PeersOK
<1>14. TableOK'
  <2> SUFFICES ASSUME NEW m \in MACs
               PROVE  /\ \/ macs'[m] \in ports' \cup {NoPort}
                         \/ macs'[m] \in Peers \X {"first"} /\ endpoint' # "open"
                      /\ heard'[m] # NoPort => Known(heard[m])'
                      /\ heard'[m] \in ports' => macs'[m] = heard'[m]
    BY DEF TableOK
  <2>1. \/ macs[m] \in ports \cup {NoPort}
        \/ macs[m] \in Peers \X {"first"} /\ endpoint # "open"
    BY <1>1 DEF TableOK
  <2>2. heard[m] # NoPort => Known(heard[m])
    BY <1>1 DEF TableOK
  <2>3. heard[m] \in ports => macs[m] = heard[m]
    BY <1>1 DEF TableOK
  <2>4. heard[m] = p => p \in ports
    BY <2>2, <1>4, <1>5
  <2>5. heard'[m] # NoPort => Known(heard[m])'
    BY <2>2, <1>2, <1>9
  <2>6. heard'[m] \in ports' => macs'[m] = heard'[m]
    BY <2>3, <2>4, <1>2
  <2> QED BY <2>1, <2>5, <2>6, <1>2
<1> QED BY <1>8, <1>11, <1>12, <1>13, <1>14 DEF Inv

(* The steps of Inject. *)
LEMMA ReaderInv ==
  ASSUME Inv, NEW r \in Readers, ReaderStep(r)
  PROVE  Inv'
<1>1. /\ SwitchTypeOK /\ FromOK /\ StreamsOK /\ PeersOK /\ TableOK
  BY DEF Inv
<1>2. /\ job[r] \in Busy /\ job[r] # Idle
      /\ job' \in [Readers -> Busy \cup {Idle}]
      /\ \A q \in Readers : q # r => job'[q] = job[q]
      /\ job'[r] = Idle \/ (job'[r] \in Busy /\ job'[r].from = job[r].from)
      /\ UNCHANGED <<role, ports, stream, peers, endpoint>>
  BY <1>1, StepJob
<1>3. \A p : Known(p) => Known(p)'
  BY <1>2 DEF Known
<1>4. FromOK'
  BY <1>1, <1>2, <1>3 DEF FromOK
<1>5. StreamsOK' /\ PeersOK'
  BY <1>1, <1>2 DEF StreamsOK, PeersOK
<1>6. CASE Learn(r)
  <2> DEFINE src == job[r].frame.src
             from == job[r].from
  <2>1. /\ macs' = IF src \in MACs THEN [macs EXCEPT ![src] = from] ELSE macs
        /\ heard' = IF src \in MACs THEN [heard EXCEPT ![src] = from] ELSE heard
    BY <1>6 DEF Learn
  <2>2. from \in Ports
    BY <1>2 DEF Busy
  <2>3. Known(from) /\ (from \in ports \/ (from \in Peers \X {"first"} /\ endpoint # "open"))
    <3>1. CASE r = Udp
      BY <3>1, <1>1, <1>2, PortAssumption DEF FromOK, Known
    <3>2. CASE r # Udp
      BY <3>2, <1>1, <1>2 DEF FromOK, Known
    <3> QED BY <3>1, <3>2
  <2> HIDE DEF src, from
  <2>4. SwitchTypeOK'
    BY <1>1, <1>2, <2>1, <2>2 DEF SwitchTypeOK
  <2>5. TableOK'
    <3> SUFFICES ASSUME NEW m \in MACs
                 PROVE  /\ \/ macs'[m] \in ports' \cup {NoPort}
                           \/ macs'[m] \in Peers \X {"first"} /\ endpoint' # "open"
                        /\ heard'[m] # NoPort => Known(heard[m])'
                        /\ heard'[m] \in ports' => macs'[m] = heard'[m]
      BY DEF TableOK
    <3>1. CASE m = src
      <4>1. macs'[m] = from /\ heard'[m] = from
        BY <3>1, <2>1, <1>1 DEF SwitchTypeOK
      <4>2. Known(heard[m])'
        BY <4>1, <2>3, <1>2 DEF Known
      <4> QED BY <4>1, <4>2, <2>3, <1>2
    <3>2. CASE m # src
      <4>1. macs'[m] = macs[m] /\ heard'[m] = heard[m]
        BY <3>2, <2>1, <1>1 DEF SwitchTypeOK
      <4>2. heard'[m] # NoPort => Known(heard[m])'
        BY <4>1, <1>1, <1>3 DEF TableOK
      <4> QED BY <4>1, <4>2, <1>1, <1>2 DEF TableOK
    <3> QED BY <3>1, <3>2
  <2> QED BY <2>4, <2>5, <1>4, <1>5 DEF Inv
<1>7. CASE ~Learn(r)
  <2>1. UNCHANGED <<macs, heard>>
    BY <1>7 DEF ReaderStep, OnIPv6, InstallRoute, Lookup, Flood, Sent
  <2>2. SwitchTypeOK'
    BY <1>1, <1>2, <2>1 DEF SwitchTypeOK
  <2>3. TableOK'
    BY <1>1, <1>2, <1>3, <2>1 DEF TableOK
  <2> QED BY <2>2, <2>3, <1>4, <1>5, SMTT(30) DEF Inv
<1> QED BY <1>6, <1>7

(* Every step preserves the invariant. *)
LEMMA NextInv == Inv /\ [SwitchNext]_swVars => Inv'
<1> SUFFICES ASSUME Inv, [SwitchNext]_swVars PROVE Inv'
  OBVIOUS
<1>1. CASE SwitchNext
  BY <1>1, AttachInv, DetachInv, EndpointDetachInv, EndpointCloseInv, ReadInv, DatagramInv,
     ReaderInv
     DEF SwitchNext
<1>2. CASE UNCHANGED swVars
  BY <1>2 DEF swVars, Inv, SwitchTypeOK, FromOK, StreamsOK, PeersOK, TableOK, Known
<1> QED BY <1>1, <1>2

(* The state of the bridge is well typed in every behaviour. *)
THEOREM SwitchTypeCorrect == SwitchSpec => []SwitchTypeOK
<1>1. Inv => SwitchTypeOK
  BY DEF Inv
<1> QED BY <1>1, InitInv, NextInv, PTL DEF SwitchSpec

(* Every learned address is on an attached port, for any number of streams *)
(* and stations: no frame on its way teaches the switch a port that        *)
(* RemovePort has taken away.                                              *)
THEOREM LearnedAttachedHolds == SwitchSpec => []LearnedAttached
<1>1. Inv => LearnedAttached
  BY DEF Inv, TableOK, LearnedAttached, UdpPorts
<1> QED BY <1>1, InitInv, NextInv, PTL DEF SwitchSpec

-----------------------------------------------------------------------------
(* What a step that picks the targets of a frame picks. *)
LEMMA Targets ==
  ASSUME Inv, NEW r \in Readers, ReaderStep(r), job'[r].at = "send"
  PROVE  /\ job[r] \in Busy /\ job'[r].from = job[r].from
         /\ \/ /\ Lookup(r) /\ job[r].frame.dst \in MACs
               /\ job'[r].to = {macs[job[r].frame.dst]}
               /\ macs[job[r].frame.dst] \notin {NoPort, job[r].from}
            \/ Flood(r) /\ job'[r].to = ports \ {job[r].from}
<1>1. SwitchTypeOK
  BY DEF Inv
<1>2. job[r] \in Busy /\ (job'[r] = Idle \/ job'[r].from = job[r].from)
  BY <1>1, StepJob
<1>3. job'[r].from = job[r].from
  BY <1>2, SMTT(30) DEF Idle
<1>4. job \in [Readers -> Busy \cup {Idle}]
  BY <1>1 DEF SwitchTypeOK
<1>5. CASE Lookup(r)
  <2> DEFINE dst == job[r].frame.dst
  <2>1. CASE dst \notin MACs \/ macs[dst] = NoPort
    BY <2>1, <1>2, <1>4, <1>5 DEF Lookup, Busy
  <2>2. CASE ~(dst \notin MACs \/ macs[dst] = NoPort) /\ macs[dst] = job[r].from
    BY <2>2, <1>4, <1>5 DEF Lookup, Idle
  <2>3. CASE ~(dst \notin MACs \/ macs[dst] = NoPort) /\ macs[dst] # job[r].from
    BY <2>3, <1>2, <1>3, <1>4, <1>5 DEF Lookup, Busy
  <2> QED BY <2>1, <2>2, <2>3
<1>6. CASE Flood(r)
  BY <1>2, <1>3, <1>4, <1>6 DEF Flood, Busy
<1>7. CASE Learn(r) \/ OnIPv6(r) \/ Sent(r) \/ \E ok \in BOOLEAN : InstallRoute(r, ok)
  <2>1. \/ job' = [job EXCEPT ![r] = Idle]
        \/ \E st \in {"hook", "route", "lookup"} : job' = [job EXCEPT ![r].at = st]
    BY <1>7 DEF Learn, OnIPv6, Sent, InstallRoute
  <2> QED BY <2>1, <1>2, <1>4, SMTT(30) DEF Busy, Idle
<1> QED BY <1>5, <1>6, <1>7 DEF ReaderStep

(* Only a reader's own step gives its frame targets. *)
LEMMA OthersKeep ==
  ASSUME Inv, [SwitchNext]_swVars, NEW r \in Readers, job'[r].at = "send"
  PROVE  job'[r] = job[r] \/ ReaderStep(r)
<1>1. SwitchTypeOK
  BY DEF Inv
<1>2. CASE \E q \in Readers : ReaderStep(q)
  BY <1>1, <1>2, StepJob
<1>3. ASSUME NEW f \in Frames, NEW q \in Readers, Read(q, f)
      PROVE  job'[r] = job[r]
  <2>1. q \in Ports /\ job[q] = Idle /\ Accept(q, q, f)
    BY <1>3 DEF Read, Ports
  <2> QED BY <1>1, <2>1, AcceptJob DEF Idle
<1>4. ASSUME NEW f \in Frames, NEW a \in Peers, Datagram(a, f)
      PROVE  job'[r] = job[r]
  <2>1. peerPort(a) \in Ports
    BY <1>1 DEF peerPort, SwitchTypeOK, Ports, UdpPorts
  <2>2. job[Udp] = Idle /\ Accept(Udp, peerPort(a), f) /\ Udp \in Readers
    BY <1>4 DEF Datagram, Readers
  <2> QED BY <1>1, <2>1, <2>2, AcceptJob DEF Idle
<1>5. CASE \/ \E s \in Streams : Attach(s) \/ Detach(s)
          \/ EndpointDetach \/ EndpointClose \/ UNCHANGED swVars
  BY <1>5 DEF Attach, Detach, EndpointDetach, EndpointClose, swVars
<1> QED BY <1>2, <1>3, <1>4, <1>5 DEF SwitchNext

(* The step of ReachesStation, for the whole next-state relation. *)
LEMMA ReachesStep ==
  ASSUME Inv, [SwitchNext]_swVars, NEW r \in Readers,
         job[r].at \in {"lookup", "flood"}, job'[r].at = "send",
         job[r].frame.dst \in MACs,
         heard[job[r].frame.dst] \in ports \ {job[r].from}
  PROVE  heard[job[r].frame.dst] \in job'[r].to
<1>1. ReaderStep(r)
  BY OthersKeep
<1>2. macs[job[r].frame.dst] = heard[job[r].frame.dst]
  BY DEF Inv, TableOK
<1> QED BY <1>1, <1>2, Targets

(* A frame for a station whose last frame came from an attached port goes  *)
(* out of that port, however many readers and streams come and go.         *)
THEOREM ReachesStationHolds == SwitchSpec => ReachesStation
<1>1. Inv /\ [SwitchNext]_swVars =>
        [\A r \in Readers :
           /\ job[r].at \in {"lookup", "flood"} /\ job'[r].at = "send"
           /\ job[r].frame.dst \in MACs
           /\ heard[job[r].frame.dst] \in ports \ {job[r].from}
           => heard[job[r].frame.dst] \in job'[r].to]_swVars
  BY ReachesStep
<1> QED BY <1>1, InitInv, NextInv, PTL DEF SwitchSpec, ReachesStation

-----------------------------------------------------------------------------
(* The targets of a frame: never its own port, and while the endpoint is   *)
(* open no port of the generation that only a closing endpoint creates.    *)
TargetsOK ==
  \A r \in Readers : job[r].at = "send" =>
    \A p \in job[r].to :
       p # job[r].from /\ (endpoint = "open" => p \notin Peers \X {"second"})

(* While the endpoint is open every attached UDP port is a first one. *)
LEMMA FirstOnly ==
  ASSUME Inv, endpoint = "open", NEW p \in ports
  PROVE  p \notin Peers \X {"second"}
<1> SUFFICES ASSUME p \in Peers \X {"second"} PROVE FALSE
  OBVIOUS
<1>1. p \in UdpPorts /\ p[1] \in Peers /\ p[2] = "second"
  BY DEF UdpPorts
<1>2. peers[p[1]] = p /\ p # NoPort
  BY <1>1, PortAssumption DEF Inv, PeersOK, Ports
<1>3. p = <<p[1], "first">>
  BY <1>1, <1>2 DEF Inv, PeersOK
<1> QED BY <1>1, <1>3, SMTT(30)

LEMMA TargetsStep == Inv /\ TargetsOK /\ [SwitchNext]_swVars => TargetsOK'
<1> SUFFICES ASSUME Inv, TargetsOK, [SwitchNext]_swVars,
                    NEW r \in Readers, job'[r].at = "send", NEW p \in job'[r].to
             PROVE  p # job'[r].from /\ (endpoint' = "open" => p \notin Peers \X {"second"})
  BY DEF TargetsOK
<1>1. endpoint' = "open" => endpoint = "open"
  BY DEF SwitchNext, Attach, Detach, EndpointDetach, EndpointClose, Read, Datagram, ReaderStep,
         Learn, OnIPv6, InstallRoute, Lookup, Flood, Sent, swVars
<1>2. CASE job'[r] = job[r]
  BY <1>1, <1>2 DEF TargetsOK
<1>3. CASE ReaderStep(r)
  <2>1. p # job'[r].from
    BY <1>3, Targets
  <2>2. ASSUME endpoint = "open" PROVE p \in ports
    <3>1. p \in ports \/ \E m \in MACs : p = macs[m] /\ macs[m] # NoPort
      BY <1>3, Targets
    <3> QED BY <2>2, <3>1 DEF Inv, TableOK
  <2> QED BY <1>1, <2>1, <2>2, FirstOnly
<1> QED BY <1>2, <1>3, OthersKeep

(* No frame goes back to the peer, stream or device it came from.          *)
THEOREM NoReflectionHolds == SwitchSpec => []NoReflection
<1>1. SwitchInit => TargetsOK
  BY SMTT(30) DEF SwitchInit, TargetsOK, Idle
<1>2. Inv /\ TargetsOK => NoReflection
  <2> SUFFICES ASSUME Inv, TargetsOK, NEW r \in Readers, job[r].at = "send", NEW p \in job[r].to,
                      endpoint = "open"
               PROVE  Medium(p) # Medium(job[r].from)
    BY DEF NoReflection, TargetsOK
  <2> DEFINE from == job[r].from
  <2>1. job[r] \in Busy /\ job[r] # Idle
    BY BusyJob DEF Inv
  <2>2. p \in Ports /\ from \in Ports
    BY <2>1 DEF Busy
  <2>3. p # from /\ p \notin Peers \X {"second"}
    BY DEF TargetsOK
  <2>4. from \notin Peers \X {"second"}
    <3>1. CASE r = Udp
      <4>1. Known(from) /\ from \in UdpPorts
        BY <3>1, <2>1 DEF Inv, FromOK
      <4>2. from \in ports
        BY <4>1, PortAssumption DEF Known
      <4> QED BY <4>2, FirstOnly
    <3>2. CASE r # Udp
      BY <3>2, <2>1, FirstOnly DEF Inv, FromOK
    <3> QED BY <3>1, <3>2
  <2> HIDE DEF from
  <2>5. CASE p \in UdpPorts /\ from \in UdpPorts
    <3>1. PICK a \in Peers, b \in Peers : p = <<a, "first">> /\ from = <<b, "first">>
      BY <2>3, <2>4, <2>5, SMTT(30) DEF UdpPorts
    <3>2. a # b
      BY <2>3, <3>1
    <3> QED BY <2>5, <3>1, <3>2, SMTT(30) DEF Medium, from
  <2>6. CASE p \notin UdpPorts /\ from \notin UdpPorts
    BY <2>3, <2>6 DEF Medium, from
  <2>7. CASE p \in UdpPorts /\ from \notin UdpPorts
    <3>1. p[1] \in Peers /\ from \in {Tap, Uplink} \cup Streams
      BY <2>2, <2>7 DEF UdpPorts, Ports
    <3> QED BY <2>7, <3>1, PortAssumption DEF Medium, from
  <2>8. CASE p \notin UdpPorts /\ from \in UdpPorts
    <3>1. from[1] \in Peers /\ p \in {Tap, Uplink} \cup Streams
      BY <2>2, <2>8 DEF UdpPorts, Ports
    <3> QED BY <2>8, <3>1, PortAssumption DEF Medium, from
  <2> QED BY <2>5, <2>6, <2>7, <2>8
<1> QED BY <1>1, <1>2, InitInv, NextInv, TargetsStep, PTL DEF SwitchSpec

-----------------------------------------------------------------------------
(* A step that is no step of Inject leaves the frames in flight alone. *)
LEMMA InFlightKept ==
  ASSUME Inv, [SwitchNext]_swVars, NEW r \in Readers, job[r].at = "route",
         ~\E q \in Readers : ReaderStep(q)
  PROVE  job'[r] = job[r] /\ UNCHANGED <<seen, routes>>
<1>1. SwitchTypeOK
  BY DEF Inv
<1>2. ASSUME NEW f \in Frames, NEW q \in Readers, Read(q, f)
      PROVE  job'[r] = job[r]
  <2>1. q \in Ports /\ job[q] = Idle /\ Accept(q, q, f)
    BY <1>2 DEF Read, Ports
  <2>2. r # q
    BY <2>1, SMTT(30) DEF Idle
  <2> QED BY <1>1, <2>1, <2>2, AcceptJob
<1>3. ASSUME NEW f \in Frames, NEW a \in Peers, Datagram(a, f)
      PROVE  job'[r] = job[r]
  <2>1. peerPort(a) \in Ports
    BY <1>1 DEF peerPort, SwitchTypeOK, Ports, UdpPorts
  <2>2. job[Udp] = Idle /\ Accept(Udp, peerPort(a), f) /\ Udp \in Readers
    BY <1>3 DEF Datagram, Readers
  <2>3. r # Udp
    BY <2>2, SMTT(30) DEF Idle
  <2> QED BY <1>1, <2>1, <2>2, <2>3, AcceptJob
<1>4. CASE \/ \E s \in Streams : Attach(s) \/ Detach(s)
          \/ EndpointDetach \/ EndpointClose \/ UNCHANGED swVars
  BY <1>4 DEF Attach, Detach, EndpointDetach, EndpointClose, swVars
<1>5. UNCHANGED <<seen, routes>>
  BY DEF SwitchNext, Attach, Detach, EndpointDetach, EndpointClose, Read, Datagram, swVars
<1> QED BY <1>2, <1>3, <1>4, <1>5 DEF SwitchNext

LEMMA SeenStep == Inv /\ SeenIsRouted /\ [SwitchNext]_swVars => SeenIsRouted'
<1> SUFFICES ASSUME Inv, SeenIsRouted, [SwitchNext]_swVars, NEW p \in seen', p \notin routes'
             PROVE  \E r \in Readers : job'[r].at = "route" /\ Prefix(job'[r].frame) = p
  BY DEF SeenIsRouted, Prefix
<1>1. SwitchTypeOK /\ job \in [Readers -> Busy \cup {Idle}]
  BY DEF Inv, SwitchTypeOK
<1>2. CASE \E q \in Readers : ReaderStep(q)
  <2>1. PICK q \in Readers : ReaderStep(q)
    BY <1>2
  <2>2. job[q] \in Busy /\ \A r \in Readers : r # q => job'[r] = job[r]
    BY <1>1, <2>1, StepJob
  <2>3. p \notin routes
    BY <2>1 DEF ReaderStep, Learn, OnIPv6, InstallRoute, Lookup, Flood, Sent
  <2>4. CASE p \in seen /\ job[q].at # "route"
    BY <2>2, <2>3, <2>4 DEF SeenIsRouted
  <2>5. CASE p \in seen /\ job[q].at = "route"
    <3>1. Prefix(job[q].frame) # p
      BY <2>1, <2>5 DEF ReaderStep, Learn, OnIPv6, InstallRoute, Lookup, Flood, Sent
    <3> QED BY <2>2, <2>3, <2>5, <3>1 DEF SeenIsRouted
  <2>6. CASE p \notin seen
    <3>1. OnIPv6(q) /\ p = Prefix(job[q].frame)
          /\ job' = [job EXCEPT ![q].at = "route"]
      BY <2>1, <2>6 DEF ReaderStep, Learn, OnIPv6, InstallRoute, Lookup, Flood, Sent
    <3>2. job'[q].at = "route" /\ job'[q].frame = job[q].frame
      BY <3>1, <1>1, <2>2 DEF Busy
    <3> QED BY <3>1, <3>2
  <2> QED BY <2>4, <2>5, <2>6
<1>3. CASE ~\E q \in Readers : ReaderStep(q)
  <2>1. UNCHANGED <<seen, routes>>
    BY <1>3 DEF SwitchNext, Attach, Detach, EndpointDetach, EndpointClose, Read, Datagram, swVars
  <2>2. PICK r \in Readers : job[r].at = "route" /\ Prefix(job[r].frame) = p
    BY <2>1 DEF SeenIsRouted
  <2> QED BY <1>3, <2>2, InFlightKept
<1> QED BY <1>2, <1>3

(* The passthrough never takes a /80 for routed that is not, whatever the  *)
(* number of readers that see it at once and the routes that fail.         *)
THEOREM SeenIsRoutedHolds == SwitchSpec => []SeenIsRouted
<1>1. SwitchInit => SeenIsRouted
  BY DEF SwitchInit, SeenIsRouted
<1> QED BY <1>1, InitInv, NextInv, SeenStep, PTL DEF SwitchSpec

-----------------------------------------------------------------------------
(***************************************************************************)
(* Proofs about DhcpServer.  What a message does to the lease book is      *)
(* reduced to one of two shapes, Bind and Forget, with the facts about     *)
(* their arguments (Proper) that all the properties follow from.           *)
(***************************************************************************)

Book == DhcpTypeOK /\ BookConsistent

(* A message of client c touches the addresses E and unbinds the clients   *)
(* C: every binding it ends is to an address it touches, and an address it *)
(* touches is c's own or not on a good lease.                              *)
Proper(c, E, C) ==
  /\ byChid[c] \in E \cup {NoAddr}
  /\ \A d \in C : byChid[d] \in E \cup {NoAddr}
  /\ \A b \in E : b \in used /\ ~expired(b) => byChid[c] = b

Binds(c) ==
  \E a \in Pool, D \in SUBSET Pool, C \in SUBSET Chids :
     Proper(c, D \cup {a}, C) /\ Bind(c, a, D, C)

Forgets(c) ==
  \E D \in SUBSET Pool, C \in SUBSET Chids : Proper(c, D, C) /\ Forget(D, C)

BookUnchanged == UNCHANGED <<used, byChid, expiry>>

Touches(c) == BookUnchanged \/ Binds(c) \/ Forgets(c)

-----------------------------------------------------------------------------
(* A non-empty set of naturals has a lowest element. *)
LEMMA LowestIn ==
  ASSUME NEW S, S \subseteq Nat, S # {}
  PROVE  Lowest(S) \in S /\ \A b \in S : Lowest(S) <= b
<1> DEFINE R == OpToRel(<, Nat)
<1>1. IsWellFoundedOn(R, Nat)
  BY NatLessThanWellFounded
<1>2. \A x, y \in Nat : y < x => <<y, x>> \in R
  BY DEF OpToRel
<1> HIDE DEF R
<1>3. PICK x \in S : \A y \in S : ~(<<y, x>> \in R)
  BY <1>1, WFMin
<1>4. ASSUME NEW y \in S
      PROVE  x <= y
  <2>1. x \in Nat /\ y \in Nat
    OBVIOUS
  <2>2. ~(y < x)
    BY <1>2, <1>3, <2>1
  <2>. QED
    BY <2>1, <2>2, SMTT(30)
<1>. QED
  BY <1>4 DEF Lowest

(* What allocLocked finds is a usable address that is free or stale. *)
LEMMA LowestFree ==
  ASSUME NEW taken, Free(taken) # {}
  PROVE  /\ Lowest(Free(taken)) \in Usable
         /\ Lowest(Free(taken)) \in taken => expired(Lowest(Free(taken)))
<1>1. Free(taken) \subseteq Nat
  BY PoolAssumption, SMTT(30) DEF Free, Usable
<1>2. Lowest(Free(taken)) \in Free(taken)
  BY <1>1, LowestIn
<1>. QED
  BY <1>2 DEF Free

LEMMA UsableInPool == Usable \subseteq Pool
  BY PoolAssumption, SMTT(30) DEF Usable, Pool

(* The shape of an allocation, for DISCOVER and for REQUEST. *)
LEMMA BindFreeBinds ==
  ASSUME Book, NEW c \in Chids, NEW D \in SUBSET Pool, NEW taken,
         taken = used \ D, Free(taken) # {}, BindFree(c, D, taken),
         byChid[c] \in D \cup {NoAddr}, D \subseteq {byChid[c]}
  PROVE  Binds(c)
<1> DEFINE a == Lowest(Free(taken))
<1>1. a \in Pool /\ (a \in taken => expired(a))
  BY LowestFree, UsableInPool
<1> HIDE DEF a
<1>2. CASE a \in taken
  <2>1. Bind(c, a, D \cup {a}, Holders(a))
    BY <1>2 DEF BindFree, a
  <2>2. Proper(c, (D \cup {a}) \cup {a}, Holders(a))
    BY <1>1, <1>2 DEF Proper, Holders
  <2>3. D \cup {a} \in SUBSET Pool /\ Holders(a) \in SUBSET Chids
    BY <1>1 DEF Holders
  <2>. QED
    BY <1>1, <2>1, <2>2, <2>3 DEF Binds
<1>3. CASE a \notin taken
  <2>1. Bind(c, a, D, {})
    BY <1>3 DEF BindFree, a
  <2>2. Proper(c, D \cup {a}, {})
    BY <1>1, <1>3 DEF Proper
  <2>. QED
    BY <1>1, <2>1, <2>2 DEF Binds
<1>. QED
  BY <1>2, <1>3

LEMMA DiscoverTouches ==
  ASSUME Book, NEW c \in Chids, NEW r \in Addr, Discover(c, r)
  PROVE  Touches(c)
<1> DEFINE old   == byChid[c]
           stale == IF old = NoAddr THEN {} ELSE {old}
           taken == used \ stale
<1>1. old \in Pool \cup {NoAddr} /\ NoAddr \notin Pool
  BY SMTT(30) DEF Book, DhcpTypeOK, Addr, Pool, NoAddr
<1>2. stale \in SUBSET Pool /\ old \in stale \cup {NoAddr} /\ stale \subseteq {old}
  BY <1>1
<1>3. \/ BookUnchanged
      \/ r \in Pool \ taken /\ Bind(c, r, stale, {})
      \/ Free(taken) # {} /\ BindFree(c, stale, taken)
      \/ Forget(stale, {c})
  BY DEF Discover, BookUnchanged
<1> HIDE DEF stale
<1>4. CASE r \in Pool \ taken /\ Bind(c, r, stale, {})
  <2>1. Proper(c, stale \cup {r}, {})
    BY <1>2, <1>4 DEF Proper
  <2>. QED
    BY <1>2, <1>4, <2>1 DEF Touches, Binds
<1>5. CASE Free(taken) # {} /\ BindFree(c, stale, taken)
  BY <1>2, <1>5, BindFreeBinds DEF Touches
<1>6. CASE Forget(stale, {c})
  <2>1. Proper(c, stale, {c})
    BY <1>2 DEF Proper
  <2>. QED
    BY <1>2, <1>6, <2>1 DEF Touches, Forgets
<1>. QED
  BY <1>3, <1>4, <1>5, <1>6 DEF Touches

LEMMA RequestTouches ==
  ASSUME Book, NEW c \in Chids, NEW w \in Addr, Request(c, w)
  PROVE  Touches(c)
<1>0. byChid[c] \in Pool \cup {NoAddr} /\ NoAddr \notin Pool
  BY SMTT(30) DEF Book, DhcpTypeOK, Addr, Pool, NoAddr
<1>1. CASE Nak(c, w)
  BY <1>1 DEF Nak, Touches, BookUnchanged
<1>2. CASE w \in Pool /\ byChid[c] = NoAddr /\ w \notin used /\ Bind(c, w, {}, {})
  <2>1. Proper(c, {} \cup {w}, {})
    BY <1>2 DEF Proper
  <2>. QED
    BY <1>2, <2>1 DEF Touches, Binds
<1>3. CASE byChid[c] = NoAddr /\ Free(used) # {} /\ BindFree(c, {}, used)
  BY <1>3, BindFreeBinds DEF Touches
<1>4. CASE w \in Pool /\ byChid[c] = w /\ Bind(c, w, {}, {})
  <2>1. Proper(c, {} \cup {w}, {})
    BY <1>4 DEF Proper
  <2>. QED
    BY <1>4, <2>1 DEF Touches, Binds
<1>5. CASE /\ w \in Pool /\ byChid[c] # NoAddr /\ (w \in used => expired(w))
           /\ Bind(c, w, {byChid[c]}, {})
  <2>1. Proper(c, {byChid[c]} \cup {w}, {})
    BY <1>5 DEF Proper
  <2>2. {byChid[c]} \in SUBSET Pool
    BY <1>0, <1>5
  <2>. QED
    BY <1>5, <2>1, <2>2 DEF Touches, Binds
<1>. QED
  BY <1>1, <1>2, <1>3, <1>4, <1>5 DEF Request

LEMMA ReleaseTouches ==
  ASSUME Book, NEW c \in Chids, Release(c)
  PROVE  Touches(c)
<1>0. byChid[c] \in Pool \cup {NoAddr}
  BY DEF Book, DhcpTypeOK, Addr
<1>1. CASE byChid[c] # NoAddr /\ Forget({byChid[c]}, {c})
  <2>1. Proper(c, {byChid[c]}, {c})
    BY DEF Proper
  <2>. QED
    BY <1>0, <1>1, <2>1 DEF Touches, Forgets
<1>. QED
  BY <1>1 DEF Release, Touches, BookUnchanged

-----------------------------------------------------------------------------
(* The two shapes keep the lease book consistent. *)

LeaseMaps ==
  /\ used \subseteq Pool
  /\ byChid \in [Chids -> Addr]
  /\ \A a \in DOMAIN expiry : expiry[a] \in Nat
  /\ BookConsistent

LEMMA BindKeeps ==
  ASSUME Book, NEW c \in Chids, NEW a \in Pool, NEW D \in SUBSET Pool,
         NEW C \in SUBSET Chids, Proper(c, D \cup {a}, C), Bind(c, a, D, C), now' = now
  PROVE  LeaseMaps'
<1>1. /\ used' = (used \ D) \cup {a}
      /\ DOMAIN expiry' = (DOMAIN expiry \ D) \cup {a}
      /\ expiry'[a] = now + LeaseTime
      /\ \A b \in DOMAIN expiry \ D : b # a => expiry'[b] = expiry[b]
  BY DEF Bind
<1>2. now \in Nat /\ LeaseTime \in Nat
  BY PoolAssumption DEF Book, DhcpTypeOK
<1>3. used' \subseteq Pool /\ DOMAIN expiry' = used'
  BY <1>1 DEF Book, DhcpTypeOK, BookConsistent
<1>4. byChid' \in [Chids -> Addr]
  BY DEF Bind, Book, DhcpTypeOK, Addr
<1>5. \A b \in used' : expiry'[b] \in Nat /\ expiry'[b] <= now' + LeaseTime
  BY <1>1, <1>2, SMTT(30) DEF Book, DhcpTypeOK, BookConsistent
<1>6. ASSUME NEW b \in used'
      PROVE  Holders(b)' # {}
  <2>1. CASE b = a
    BY <2>1 DEF Bind, Holders
  <2>2. CASE b # a
    <3>1. b \in used /\ b \notin D
      BY <1>1, <2>2
    <3>2. PICK d \in Chids : byChid[d] = b
      BY <3>1 DEF Book, BookConsistent, Holders
    <3>3. b # NoAddr
      BY <3>1, PoolAssumption, SMTT(30) DEF Book, DhcpTypeOK, Pool, NoAddr
    <3>4. d # c /\ d \notin C
      BY <2>2, <3>1, <3>2, <3>3 DEF Proper
    <3>5. byChid'[d] = b
      BY <3>2, <3>4 DEF Bind
    <3>. QED
      BY <3>5 DEF Holders
  <2>. QED
    BY <2>1, <2>2
<1>. QED
  BY <1>3, <1>4, <1>5, <1>6 DEF LeaseMaps, BookConsistent

LEMMA ForgetKeeps ==
  ASSUME Book, NEW D \in SUBSET Pool, NEW C \in SUBSET Chids, Forget(D, C), now' = now,
         \A d \in C : byChid[d] \in D \cup {NoAddr}
  PROVE  LeaseMaps'
<1>1. /\ used' = used \ D
      /\ DOMAIN expiry' = DOMAIN expiry \ D
      /\ \A b \in DOMAIN expiry \ D : expiry'[b] = expiry[b]
  BY DEF Forget
<1>2. byChid' \in [Chids -> Addr]
  BY DEF Forget, Book, DhcpTypeOK, Addr
<1>3. ASSUME NEW b \in used'
      PROVE  Holders(b)' # {}
  <2>1. b \in used /\ b \notin D
    BY <1>1
  <2>2. PICK d \in Chids : byChid[d] = b
    BY <2>1 DEF Book, BookConsistent, Holders
  <2>3. b # NoAddr
    BY <2>1, PoolAssumption, SMTT(30) DEF Book, DhcpTypeOK, Pool, NoAddr
  <2>4. d \notin C
    BY <2>1, <2>2, <2>3
  <2>5. byChid'[d] = b
    BY <2>2, <2>4 DEF Forget
  <2>. QED
    BY <2>5 DEF Holders
<1>. QED
  BY <1>1, <1>2, <1>3 DEF LeaseMaps, BookConsistent, Book, DhcpTypeOK

LEMMA UnchangedKeeps ==
  ASSUME Book, BookUnchanged, now' = now
  PROVE  LeaseMaps'
BY DEF LeaseMaps, BookUnchanged, Book, DhcpTypeOK, BookConsistent, Holders

LEMMA TouchKeeps ==
  ASSUME Book, NEW c \in Chids, Touches(c), now' = now
  PROVE  LeaseMaps'
<1>1. CASE Binds(c)
  BY <1>1, BindKeeps DEF Binds
<1>2. CASE Forgets(c)
  BY <1>2, ForgetKeeps DEF Forgets, Proper
<1>. QED
  BY <1>1, <1>2, UnchangedKeeps DEF Touches

(* A DECLINE names an address and unbinds whoever holds it. *)
LEMMA DeclineKeeps ==
  ASSUME Book, NEW c \in Chids, NEW a \in Addr, Decline(c, a)
  PROVE  LeaseMaps'
<1>1. CASE a \in used /\ Forget({a}, Holders(a))
  BY <1>1, ForgetKeeps, SMTT(30) DEF Decline, Holders, Book, DhcpTypeOK
<1>2. CASE BookUnchanged
  BY <1>2, UnchangedKeeps DEF Decline
<1>. QED
  BY <1>1, <1>2 DEF Decline, BookUnchanged

ReplyType ==
  [to : Chids, asked : Addr, addr : Addr,
   type : {"none", "offer", "silence", "ack", "nak", "release", "decline"}]

LEMMA ReplyTyped ==
  ASSUME Book, NEW c \in Chids, Message(c)
  PROVE  reply' \in ReplyType /\ now' = now
<1>0. NoAddr \in Addr /\ Pool \subseteq Addr /\ byChid[c] \in Addr
  BY DEF Addr, Book, DhcpTypeOK
<1>1. ASSUME NEW taken, Free(taken) # {} PROVE Lowest(Free(taken)) \in Addr
  BY <1>0, <1>1, LowestFree, UsableInPool
<1>2. ASSUME NEW r \in Addr, Discover(c, r)
      PROVE  reply' \in ReplyType /\ now' = now
  BY <1>0, <1>1, <1>2, SMTT(30) DEF Discover, Answer, ReplyType
<1>3. ASSUME NEW r \in Addr, Request(c, r)
      PROVE  reply' \in ReplyType /\ now' = now
  BY <1>0, <1>1, <1>3, SMTT(30) DEF Request, Nak, Answer, ReplyType
<1>4. ASSUME NEW r \in Addr, Decline(c, r)
      PROVE  reply' \in ReplyType /\ now' = now
  BY <1>0, <1>4 DEF Decline, Answer, ReplyType
<1>5. CASE Release(c)
  BY <1>0, <1>5 DEF Release, Answer, ReplyType
<1>. QED
  BY <1>2, <1>3, <1>4, <1>5 DEF Message, Addr

LEMMA MessageKeepsBook ==
  ASSUME Book, NEW c \in Chids, Message(c)
  PROVE  Book'
<1>1. LeaseMaps'
  <2>1. now' = now
    BY ReplyTyped
  <2>2. CASE \E r \in Addr : Discover(c, r)
    BY <2>1, <2>2, DiscoverTouches, TouchKeeps
  <2>3. CASE \E r \in Addr : Request(c, r)
    BY <2>1, <2>3, RequestTouches, TouchKeeps, SMTT(30)
  <2>4. CASE \E r \in Addr : Decline(c, r)
    BY <2>4, DeclineKeeps
  <2>5. CASE Release(c)
    BY <2>1, <2>5, ReleaseTouches, TouchKeeps
  <2>. QED
    BY <2>2, <2>3, <2>4, <2>5 DEF Message, Addr
<1>2. DOMAIN expiry' \subseteq Pool
  BY <1>1 DEF LeaseMaps, BookConsistent
<1>. QED
  BY <1>1, <1>2, ReplyTyped DEF LeaseMaps, Book, DhcpTypeOK, ReplyType

LEMMA TickKeepsBook == Book /\ Tick => Book'
BY PoolAssumption, SMTT(30) DEF Book, Tick, DhcpTypeOK, BookConsistent, Holders

LEMMA InitBook == DhcpInit => Book
BY PoolAssumption, SMTT(30) DEF DhcpInit, Book, DhcpTypeOK, BookConsistent, Addr, Pool, NoAddr

LEMMA StutterKeepsBook == Book /\ UNCHANGED dhcpVars => Book'
BY SMTT(30) DEF Book, dhcpVars, DhcpTypeOK, BookConsistent, Holders

(* The lease book is well typed and consistent in every reachable state. *)
THEOREM LeaseBookInvariant == DhcpSpec => []Book
<1>1. Book /\ [DhcpNext]_dhcpVars => Book'
  BY MessageKeepsBook, TickKeepsBook, StutterKeepsBook DEF DhcpNext
<1>. QED
  BY <1>1, InitBook, PTL DEF DhcpSpec

(* Every value the server keeps or sends has its type. *)
THEOREM DhcpTypeOKHolds == DhcpSpec => []DhcpTypeOK
<1>1. Book => DhcpTypeOK
  BY DEF Book
<1>. QED
  BY <1>1, LeaseBookInvariant, PTL

(* used, expiry and byChid agree, and no address is leaked, for every pool *)
(* size, number of clients and lease time.                                 *)
THEOREM BookConsistentHolds == DhcpSpec => []BookConsistent
<1>1. Book => BookConsistent
  BY DEF Book
<1>. QED
  BY <1>1, LeaseBookInvariant, PTL

-----------------------------------------------------------------------------
(* Action properties *)

(* Who a message came from, and that only a DECLINE is recorded as one. *)
LEMMA Addressee ==
  ASSUME NEW d \in Chids, Message(d)
  PROVE  /\ reply'.to = d
         /\ reply'.type # "decline" =>
              (\E r \in Addr : Discover(d, r) \/ Request(d, r)) \/ Release(d)
<1>1. ASSUME NEW r \in Addr, Discover(d, r) PROVE reply'.to = d
  BY <1>1, SMTT(30) DEF Discover, Answer
<1>2. ASSUME NEW r \in Addr, Request(d, r) PROVE reply'.to = d
  BY <1>2, SMTT(30) DEF Request, Nak, Answer
<1>3. ASSUME NEW r \in Addr, Decline(d, r) PROVE reply'.to = d /\ reply'.type = "decline"
  BY <1>3 DEF Decline, Answer
<1>4. Release(d) => reply'.to = d
  BY SMTT(30) DEF Release, Answer
<1>. QED
  BY <1>1, <1>2, <1>3, <1>4 DEF Message, Addr

LeaseKept(c) ==
  /\ byChid'[c] = byChid[c]
  /\ byChid[c] \in used'
  /\ expiry'[byChid[c]] = expiry[byChid[c]]

LEMMA TouchSparesGoodLease ==
  ASSUME Book, NEW c \in Chids, NEW d \in Chids, c # d, GoodLease(c), Touches(d)
  PROVE  LeaseKept(c)
<1> DEFINE a == byChid[c]
<1>1. a \in used /\ ~expired(a) /\ a \in DOMAIN expiry /\ a # NoAddr
  BY PoolAssumption, SMTT(30) DEF GoodLease, Book, BookConsistent, DhcpTypeOK, Pool, NoAddr
<1>2. byChid[d] # a
  BY DEF GoodLease, Holders
<1>3. ASSUME NEW E, NEW C, Proper(d, E, C)
      PROVE  a \notin E /\ c \notin C
  BY <1>1, <1>2, <1>3 DEF Proper
<1>4. CASE BookUnchanged
  BY <1>1, <1>4 DEF BookUnchanged, LeaseKept
<1>5. CASE Binds(d)
  <2>1. PICK b \in Pool, D \in SUBSET Pool, C \in SUBSET Chids :
          Proper(d, D \cup {b}, C) /\ Bind(d, b, D, C)
    BY <1>5 DEF Binds
  <2>2. a \notin D /\ a # b /\ c \notin C
    BY <1>3, <2>1, SMTT(30)
  <2>. QED
    BY <1>1, <2>1, <2>2 DEF Bind, LeaseKept
<1>6. CASE Forgets(d)
  <2>1. PICK D \in SUBSET Pool, C \in SUBSET Chids : Proper(d, D, C) /\ Forget(D, C)
    BY <1>6 DEF Forgets
  <2>2. a \notin D /\ c \notin C
    BY <1>3, <2>1
  <2>. QED
    BY <1>1, <2>1, <2>2 DEF Forget, LeaseKept
<1>. QED
  BY <1>4, <1>5, <1>6 DEF Touches

(* A good lease held by one client alone survives whatever other clients   *)
(* discover, request or release.                                           *)
THEOREM NoStealHolds == DhcpSpec => NoSteal
<1>1. ASSUME Book, [DhcpNext]_dhcpVars, NEW c \in Chids, GoodLease(c), reply'.to # c,
             reply'.type # "decline"
      PROVE  LeaseKept(c)
  <2>1. CASE BookUnchanged
    BY <1>1, <2>1 DEF BookUnchanged, LeaseKept, GoodLease
  <2>2. ASSUME NEW d \in Chids, Message(d) PROVE LeaseKept(c)
    <3>1. d # c /\ Touches(d)
      BY <1>1, <2>2, Addressee, DiscoverTouches, RequestTouches, ReleaseTouches
    <3>. QED
      BY <1>1, <3>1, TouchSparesGoodLease
  <2>. QED
    BY <1>1, <2>1, <2>2 DEF DhcpNext, Tick, dhcpVars, BookUnchanged
<1>2. Book /\ [DhcpNext]_dhcpVars =>
        [\A c \in Chids : GoodLease(c) /\ reply'.to # c /\ reply'.type # "decline" =>
           /\ byChid'[c] = byChid[c]
           /\ byChid[c] \in used'
           /\ expiry'[byChid[c]] = expiry[byChid[c]]]_dhcpVars
  BY <1>1 DEF LeaseKept
<1>. QED
  BY <1>2, LeaseBookInvariant, PTL DEF DhcpSpec, NoSteal

Exhausted == \A a \in Usable : a \in used /\ ~expired(a) /\ Holders(a) # {}

Silent == reply'.type = "silence"

(* A DISCOVER stays unanswered only when every usable address is on a good *)
(* lease of some client.                                                   *)
THEOREM SilentOnlyWhenExhaustedHolds == DhcpSpec => SilentOnlyWhenExhausted
<1>1. ASSUME Book, Book', NEW c \in Chids, NEW r \in Addr, Discover(c, r), Silent
      PROVE  Exhausted'
  <2> DEFINE stale == IF byChid[c] = NoAddr THEN {} ELSE {byChid[c]}
             taken == used \ stale
  <2>1. Free(taken) = {} /\ Forget(stale, {c}) /\ now' = now
    BY <1>1, SMTT(30) DEF Discover, Answer, Silent
  <2>2. \A a \in Usable : a \in taken /\ ~expired(a)
    BY <2>1 DEF Free
  <2>3. used' = taken /\ \A a \in taken : expiry'[a] = expiry[a]
    BY <1>1, <2>1 DEF Forget, Book, BookConsistent
  <2>. QED
    BY <1>1, <2>1, <2>2, <2>3 DEF Exhausted, expired, Book, BookConsistent
<1>2. ASSUME NEW c \in Chids, NEW r \in Addr, Request(c, r) \/ Decline(c, r) \/ Release(c)
      PROVE  ~Silent
  BY <1>2, SMTT(30) DEF Request, Nak, Decline, Release, Answer, Silent
<1>3. Book /\ Book' /\ [DhcpNext]_dhcpVars =>
        [Silent => Exhausted']_<<used, byChid, expiry, reply>>
  <2> SUFFICES ASSUME Book, Book', NEW c \in Chids, Message(c), Silent
               PROVE  Exhausted'
    BY DEF DhcpNext, Tick, dhcpVars
  <2>. QED
    BY <1>1, <1>2 DEF Message, Addr
<1>4. [][Silent => Exhausted']_<<used, byChid, expiry, reply>> => SilentOnlyWhenExhausted
  <2>1. (Silent => Exhausted') <=>
          (reply'.type = "silence" =>
             \A a \in Usable : a \in used' /\ ~expired(a)' /\ Holders(a)' # {})
    BY DEF Silent, Exhausted, expired, Holders
  <2>. QED
    BY <2>1, PTL DEF SilentOnlyWhenExhausted
<1>. QED
  BY <1>3, <1>4, LeaseBookInvariant, PTL DEF DhcpSpec
=============================================================================
