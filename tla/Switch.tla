------------------------------- MODULE Switch -------------------------------
(***************************************************************************)
(* The userspace learning bridge (internal/l2/switch.go) and the           *)
(* goroutines that feed it: on the server the TAP reader and one           *)
(* ServeClient per client stream (internal/control/tunhub.go), with the    *)
(* IPv6 passthrough hook (internal/l2/passthrough_linux.go); on a client   *)
(* the uplink and TAP readers (internal/l2/clientnode.go) and the UDP      *)
(* endpoint (internal/l2/udpendpoint.go).  Inject takes and drops the      *)
(* switch's lock several times, so the readers' frames interleave with     *)
(* each other and with ports coming and going.                             *)
(***************************************************************************)
EXTENDS FiniteSets

CONSTANTS
  Tap, Uplink,           \* ports that stay for the life of their switch
  Streams,               \* ServeClient ports of the server
  Peers,                 \* UDP addresses of udpt peers
  Udp,                   \* the endpoint's readLoop
  NoPort,
  MACs,                  \* unicast addresses
  Group,                 \* a multicast or broadcast address
  Addrs, Short,          \* IP addresses, and a header too short to have one
  allowedV4, allowedV6,  \* allowed..[p]: addresses in p's prefixes
  Prefix80,              \* the /80 of a global-unicast IPv6 address, or NoPrefix
  NoPrefix,
  Frames                 \* the frames that arrive

(* A peer has a port, and may get a second one while the endpoint closes. *)
UdpPorts == Peers \X {"first", "second"}

Ports == {Tap, Uplink} \cup Streams \cup UdpPorts

Readers == {Tap, Uplink, Udp} \cup Streams

ASSUME PortAssumption ==
  /\ Tap # Uplink /\ NoPort \notin Ports /\ Udp \notin Ports
  /\ {Tap, Uplink} \cap (Streams \cup UdpPorts) = {} /\ Streams \cap UdpPorts = {}
  /\ Peers \cap ({Tap, Uplink} \cup Streams) = {}

ASSUME FrameAssumption ==
  /\ Group \notin MACs
  /\ \A f \in Frames : f.src \in MACs \cup {Group} /\ f.dst \in MACs \cup {Group}

VARIABLES
  role,      \* "server" or "client": which of the two switches this is
  ports, macs,
  stream,    \* stream[s]: "new", "open" or "gone"
  peers,     \* peers[a]: the port of UDP address a
  endpoint,  \* "open", "detached" (ports removed, socket open) or "closed"
  job,       \* job[r]: the frame a reader is injecting, and how far it is
  seen, routes,
  heard      \* history: heard[m], the port m's last learned frame came from

swVars == <<role, ports, macs, stream, peers, endpoint, job, seen, routes, heard>>

Idle == [at |-> "read"]

SwitchInit ==
  /\ role \in {"server", "client"}
  /\ ports = IF role = "server" THEN {Tap} ELSE {Tap, Uplink}
  /\ macs = [m \in MACs |-> NoPort]
  /\ stream = [s \in Streams |-> "new"]
  /\ peers = [a \in Peers |-> NoPort]
  /\ endpoint = IF role = "server" THEN "closed" ELSE "open"
  /\ job = [r \in Readers |-> Idle]
  /\ seen = {} /\ routes = {}
  /\ heard = [m \in MACs |-> NoPort]

-----------------------------------------------------------------------------
(* Ports *)

AddPort(p) == ports' = ports \cup {p}

Forgotten(gone) == [m \in MACs |-> IF macs[m] \in gone THEN NoPort ELSE macs[m]]

RemovePorts(gone) ==
  /\ ports' = ports \ gone
  /\ macs' = Forgotten(gone)

(* ServeClient: attach, and detach when a read fails. *)
Attach(s) ==
  /\ role = "server" /\ stream[s] = "new"
  /\ stream' = [stream EXCEPT ![s] = "open"]
  /\ AddPort(s)
  /\ UNCHANGED <<role, macs, peers, endpoint, job, seen, routes, heard>>

(* Mutation of Detach: whoever closes the stream removes the port, while   *)
(* its reader may be injecting.                                            *)
MutDetach(s) ==
  /\ stream[s] = "open"
  /\ stream' = [stream EXCEPT ![s] = "gone"]
  /\ RemovePorts({s})
  /\ UNCHANGED <<role, peers, endpoint, job, seen, routes, heard>>

Detach(s) ==
  /\ stream[s] = "open" /\ job[s] = Idle
  /\ stream' = [stream EXCEPT ![s] = "gone"]
  /\ RemovePorts({s})
  /\ UNCHANGED <<role, peers, endpoint, job, seen, routes, heard>>

(* UDPEndpoint.Close: remove the ports, then close the socket. *)
EndpointDetach ==
  /\ endpoint = "open"
  /\ endpoint' = "detached"
  /\ RemovePorts({peers[a] : a \in Peers})
  /\ peers' = [a \in Peers |-> NoPort]
  /\ UNCHANGED <<role, stream, job, seen, routes, heard>>

EndpointClose ==
  /\ endpoint = "detached"
  /\ endpoint' = "closed"
  /\ UNCHANGED <<role, ports, macs, stream, peers, job, seen, routes, heard>>

-----------------------------------------------------------------------------
(* Frames *)

sourceAllowed(p, f) ==
  \/ allowedV4[p] = {} /\ allowedV6[p] = {}
  \/ f.type = "ipv4" /\ f.ip \in allowedV4[p]
  \/ f.type = "arp" /\ f.ip \in allowedV4[p] \cup {Short}
  \/ f.type = "ipv6" /\ f.ip \in allowedV6[p]
  \/ f.type = "other"

(* Inject begins unless the frame is shorter than its header or spoofed. *)
Accept(r, p, f) ==
  job' = IF f.type # "runt" /\ sourceAllowed(p, f)
           THEN [job EXCEPT ![r] = [at |-> "learn", from |-> p, frame |-> f, to |-> {}]]
           ELSE job

(* The readers of the TAP, the uplink and the client streams. *)
Read(r, f) ==
  /\ r \in {Tap, Uplink} \cup Streams /\ r \in ports /\ job[r] = Idle
  /\ Accept(r, r, f)
  /\ UNCHANGED <<role, ports, macs, stream, peers, endpoint, seen, routes, heard>>

(* Mutation of peerPort: an address that is known gets another port. *)
MutPeerPort(a) == IF peers[a] = <<a, "first">> THEN <<a, "second">> ELSE <<a, "first">>

peerPort(a) ==
  IF peers[a] # NoPort THEN peers[a]
  ELSE <<a, IF endpoint = "open" THEN "first" ELSE "second">>

(* readLoop has a datagram, read before the socket was closed. *)
Datagram(a, f) ==
  /\ endpoint # "closed" /\ job[Udp] = Idle
  /\ f.type # "runt"
  /\ AddPort(peerPort(a))
  /\ peers' = [peers EXCEPT ![a] = peerPort(a)]
  /\ Accept(Udp, peerPort(a), f)
  /\ UNCHANGED <<role, macs, stream, endpoint, seen, routes, heard>>

(* Mutation of Learn: an address that is known stays where it is. *)
MutLearn(r) ==
  LET src == job[r].frame.src IN
  /\ job[r].at = "learn"
  /\ macs' = IF src \in MACs /\ macs[src] = NoPort
               THEN [macs EXCEPT ![src] = job[r].from] ELSE macs
  /\ heard' = IF src \in MACs THEN [heard EXCEPT ![src] = job[r].from] ELSE heard
  /\ job' = [job EXCEPT ![r].at = "hook"]
  /\ UNCHANGED <<role, ports, stream, peers, endpoint, seen, routes>>

Learn(r) ==
  LET src == job[r].frame.src IN
  /\ job[r].at = "learn"
  /\ macs' = IF src \in MACs THEN [macs EXCEPT ![src] = job[r].from] ELSE macs
  /\ heard' = IF src \in MACs THEN [heard EXCEPT ![src] = job[r].from] ELSE heard
  /\ job' = [job EXCEPT ![r].at = "hook"]
  /\ UNCHANGED <<role, ports, stream, peers, endpoint, seen, routes>>

Prefix(f) == IF f.type = "ipv6" /\ f.ip # Short THEN Prefix80[f.ip] ELSE NoPrefix

(* OnIPv6, on a server with passthrough: the first frame of a /80 goes on  *)
(* to install its route.                                                   *)
OnIPv6(r) ==
  LET p == Prefix(job[r].frame)
      new == role = "server" /\ p # NoPrefix /\ p \notin seen IN
  /\ job[r].at = "hook"
  /\ seen' = IF new THEN seen \cup {p} ELSE seen
  /\ job' = [job EXCEPT ![r].at = IF new THEN "route" ELSE "lookup"]
  /\ UNCHANGED <<role, ports, macs, stream, peers, endpoint, routes, heard>>

(* Mutation of InstallRoute: a route that failed is not tried again. *)
MutInstallRoute(r, ok) ==
  LET p == Prefix(job[r].frame) IN
  /\ job[r].at = "route"
  /\ routes' = IF ok THEN routes \cup {p} ELSE routes
  /\ job' = [job EXCEPT ![r].at = "lookup"]
  /\ UNCHANGED <<role, ports, macs, stream, peers, endpoint, seen, heard>>

InstallRoute(r, ok) ==
  LET p == Prefix(job[r].frame) IN
  /\ job[r].at = "route"
  /\ routes' = IF ok THEN routes \cup {p} ELSE routes
  /\ seen' = IF ok THEN seen ELSE seen \ {p}
  /\ job' = [job EXCEPT ![r].at = "lookup"]
  /\ UNCHANGED <<role, ports, macs, stream, peers, endpoint, heard>>

(* A group address or an unknown one is flooded; a frame for its own port  *)
(* is dropped.                                                             *)
Lookup(r) ==
  LET dst == job[r].frame.dst IN
  /\ job[r].at = "lookup"
  /\ job' = [job EXCEPT ![r] =
       IF dst \notin MACs \/ macs[dst] = NoPort THEN [@ EXCEPT !.at = "flood"]
       ELSE IF macs[dst] = @.from THEN Idle
       ELSE [@ EXCEPT !.at = "send", !.to = {macs[dst]}]]
  /\ UNCHANGED <<role, ports, macs, stream, peers, endpoint, seen, routes, heard>>

Flood(r) ==
  /\ job[r].at = "flood"
  /\ job' = [job EXCEPT ![r].at = "send", ![r].to = ports \ {job[r].from}]
  /\ UNCHANGED <<role, ports, macs, stream, peers, endpoint, seen, routes, heard>>

(* The sends; a failed one is logged. *)
Sent(r) ==
  /\ job[r].at = "send"
  /\ job' = [job EXCEPT ![r] = Idle]
  /\ UNCHANGED <<role, ports, macs, stream, peers, endpoint, seen, routes, heard>>

ReaderStep(r) ==
  \/ Learn(r) \/ OnIPv6(r) \/ Lookup(r) \/ Flood(r) \/ Sent(r)
  \/ \E ok \in BOOLEAN : InstallRoute(r, ok)

SwitchNext ==
  \/ \E s \in Streams : Attach(s) \/ Detach(s)
  \/ EndpointDetach \/ EndpointClose
  \/ \E f \in Frames : (\E r \in Readers : Read(r, f)) \/ (\E a \in Peers : Datagram(a, f))
  \/ \E r \in Readers : ReaderStep(r)

SwitchSpec == SwitchInit /\ [][SwitchNext]_swVars

-----------------------------------------------------------------------------
(* Properties *)

Busy == [at : {"learn", "hook", "route", "lookup", "flood", "send"},
         from : Ports, frame : Frames, to : SUBSET Ports]

(* The type invariant; a frame has no target that is nil. *)
SwitchTypeOK ==
  /\ role \in {"server", "client"}
  /\ ports \subseteq Ports /\ {Tap} \subseteq ports
  /\ macs \in [MACs -> Ports \cup {NoPort}] /\ heard \in [MACs -> Ports \cup {NoPort}]
  /\ stream \in [Streams -> {"new", "open", "gone"}]
  /\ peers \in [Peers -> UdpPorts \cup {NoPort}]
  /\ endpoint \in {"open", "detached", "closed"}
  /\ job \in [Readers -> Busy \cup {Idle}]

(* "RemovePort detaches a port and forgets any MACs learned on it", and no *)
(* frame that was on its way teaches it again: every learned address is on *)
(* an attached port.  The ports of a UDP endpoint that is being closed are *)
(* the exception, because readLoop is another goroutine than Close.        *)
LearnedAttached ==
  \A m \in MACs :
     macs[m] \in ports \cup {NoPort} \/ (macs[m] \in UdpPorts /\ endpoint # "open")

(* What is behind a port. *)
Medium(p) == IF p \in UdpPorts THEN p[1] ELSE p

(* A frame is never sent back to where it came from, also when that is one *)
(* of many peers behind the one UDP socket, or when the station it is for  *)
(* has just moved to the port it came from; a UDP endpoint that is being   *)
(* closed is the exception, as above.                                      *)
NoReflection ==
  \A r \in Readers : job[r].at = "send" =>
     \A p \in job[r].to :
        Medium(p) # Medium(job[r].from) \/ (p # job[r].from /\ endpoint # "open")

(* A frame reaches the port its destination last spoke on, if that is      *)
(* attached when the frame is switched: a station that moved, or that came *)
(* back over a new stream, is not cut off by what the table held before.   *)
ReachesStation ==
  [][\A r \in Readers :
       /\ job[r].at \in {"lookup", "flood"} /\ job'[r].at = "send"
       /\ job[r].frame.dst \in MACs
       /\ heard[job[r].frame.dst] \in ports \ {job[r].from}
       => heard[job[r].frame.dst] \in job'[r].to]_swVars

(* No /80 is taken for routed that is not: while it is in seen its route   *)
(* is installed, or some reader is about to install it or to give it back. *)
SeenIsRouted ==
  \A p \in seen : p \in routes \/
     \E r \in Readers : job[r].at = "route" /\ Prefix(job[r].frame) = p
=============================================================================
