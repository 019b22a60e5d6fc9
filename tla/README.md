# A TLA+ verification of tbox

tbox publishes services of machines behind NAT through one public server. A
client keeps a control session to the server, authenticates, and registers
certificates and services over it. The server accepts connections on :443, looks
at the SNI, and splices or proxies them over reverse streams to the client that
owns the host. Whatever it does not know it leaves to a sing-box REALITY inbound.
Optionally the server and its clients form a virtual Ethernet segment with an
embedded DHCP server.

This directory models that system. TLC checks the models on small instances and
TLAPS proves the main properties for every instance. `PROJECT.json` lists
components, runs, hazards, theorems and, for every definition, the lines of the
source it models.

## Parts and modules

| Part | Modules | What makes it hard |
|---|---|---|
| Registry (`internal/control/registry.go`) | Registry, RegistryProofs | pointers used after the lock is released, partial failure of Register |
| Control server (`internal/control/server.go`) | ControlServer, ControlProofs | sessions end at any step, two sessions of one client |
| Control client and admin commands (`internal/control/client.go`, `internal/app`) | Client, Whitelist, ControlProofs, ClientProofs | changes race reconnections, requests without numbers |
| L4 router and publish handler (`internal/l4router`, `internal/publish`) | Router, RouterProofs | each lookup is its own critical section, a cache keyed by version |
| Banner (`internal/ban`) | Banner, EdgeProofs | requests in flight, edges of windows, expired bans |
| DHCP server (`internal/dhcpserver`) | DhcpServer, NetworkProofs | expiry between messages, exhausted pool, duplicates |
| L2 switch, hub, UDP endpoint, IPv6 hook (`internal/l2`, `internal/control/tunhub.go`) | Switch, NetworkProofs | frames in flight while ports go and stations move |
| Data stream (`internal/l2/frame.go`, `internal/tunnel/frame.go`) | FrameStream, FrameStreamProofs | concurrent writers on one byte stream with a window |
| Client node (`internal/l2/clientnode.go`, `netcfg_linux.go`) | ClientNode, LifecycleProofs | a start that fails anywhere, Close by two goroutines, crashes |
| Server process (`internal/app/server.go`) | ServerRun, LifecycleProofs | failing starts, deaths, two processes on one host |
| Configuration file, tokens, rendered sing-box options | Provision, EdgeProofs | overlapping commands, truncated files, three kinds of token |
| Matching and parsing (paths, certificates, service ids, rules, SOCKS5, ClientHello) | Names, Hello, Inputs | boundaries, code that exists twice |

How they interact: the control server writes the registry; the client drives the
control server; the router reads the registry, one lookup at a time, and caches
handlers by its version; the handler asks the banner; the hub attaches client
data streams to the switch on which the DHCP server listens.

ControlServer extends Registry and implements it (`ImplementsRegistry`). Client
extends ControlServer and implements Whitelist (`KeepsPromise`). Router extends
Registry. The other components share no state with these.

**Registry.** The maps `raw` and `http` and the slice `certs` are sets of
records. A record carries `gen`, the version at which it was committed, and
`idx`, its place in the message; the two give the order of the Go slices and the
identity of the `*Service` object. Allow lists are kept by object in `allow`, so
that whoever holds an old pointer changes the old object. `Register` has its three
outcomes: a parse error changes nothing, a conflict has already dropped the
client's entries and leaves the version, a commit replaces them.
`UpdateWhitelist` is two steps, because the service is found under the read lock
and its list replaced after it; `found[s]` is the local variable in between.
Certificates are names with the hosts they cover exactly or by wildcard; letter
case is the subject of Names. The initial state is what `RunServer` has loaded
before it listens.

**ControlServer** has one `handleSession` goroutine (`handler`) and one
`acceptDataStreams` goroutine (`acceptor`) per session. Each case of the message
switch is an action that calls the registry's action; the deferred function is
two steps (RemoveSession, Close). `SessionLost` happens at any time; the handler
notices at its next Decode. A peer sends one message at a time, as `proto.go`
requires.

**Client** puts `Run` and `session` (one goroutine, `cpc`), the `tbox whitelist`
commands with their calls of `UpdateWhitelist` (`call[u]`), and the server's
handlers into one system. `sendMu` says who is between Encode and Decode, `via`
on which session. The copy that `currentServices` makes is a step before it is
sent. `add` and `remove` read the list and post it in separate steps, as the
commands do. `clean` is history: no update was under way when the copy was made.
**Whitelist** says without sessions, messages and locks what a user may expect
of a list: only chosen lists are enforced, and one that is neither the current
choice nor on its way comes back only by being chosen again.

**Router** extends Registry with connections. `pc` is the place in `handle`,
`handleRaw` or `serveHTTP`; there is a step for each lookup, and the registry may
move between two steps. `services` is the local variable of serveHTTP with, as
history, the version at which it was read (`snap`); `handlers` is the cache.
`gap` is history too: the modes in which the host asked for was unpublished at
some time since the ClientHello. A ban is a free choice here, as is the failure
of a dial or of a handshake. A connection carries one request at a time; requests
that share an HTTP/2 connection are represented by several connections with the
same SNI.

**Banner** is the throttle as ServeHTTP uses it: `Arrive` asks Blocked, `Respond`
reports a failure with Fail, and any number of requests may be between the two.
`log` is history, the failures of an address since its last ban, unpruned.

**DhcpServer** is the lease book. An address is its offset in the pool. Each
handler is one action, since it uses the book in one critical section; the
network may deliver anything at any time, which is every client sending every
message. `reply` records the last answer with what was asked.

**Switch.** Inject takes the lock three times (learn, look up, flood) and calls the
IPv6 hook in between; `job[r]` is the frame a reader is injecting and how far it
is. The readers are the TAP's, the uplink's, one per client stream, and the UDP
endpoint's, which gives each peer a port. `role` selects the server's or the
client's switch. `heard` is history, the port on which a station last spoke.

**FrameStream** is one direction of a data stream, byte by byte: the tunnel frame
that names the stream, the buffered writer under its mutex, a window, and the
reader. MaxEtherFrame is a constant.

**ClientNode.** Every resource of the host (TAP, bridge, members, UDP socket) has
an owner: a node, nobody, or `Foreign`. `fields[k]` are the fields by which node
k's Close knows what to give back, `once[k]` where that Close is. The uplink
reader may begin it while the start is still going on; `late` records what was
taken after that. A crash leaves the bridge and the enslavements to `Foreign`.

**ServerRun.** `at[p]` is the place of process p in RunServer and setupTunHub,
`holder` who has each socket and device, `rule` how many masquerade rules there
are. A signal marks the context, on which the DHCP server's own goroutine acts.

**Provision.** Commands load the file, truncate and write it, and print tokens;
the server loads it. `ServerConfigJSON`, `ClientConfigJSON` and
`TunClientConfigJSON` keep the fields that decide whether a client gets in.
Keys, UUIDs and passwords are numbers, 0 for an empty field. `known` and `clash`
are history: the tokens printed before the server loaded the file, and whether a
command overwrote a file other than the one it had read.

**Names** and **Hello** are the pure functions, over texts and byte sequences;
**Inputs** enumerates bounded inputs and states each function's reference
definition (segments, labels, the structure a rule or a message was written from).
`RequestReachesPath` joins the choice of a route with its rewriting, and
`HelloPassedOn` the parsed name with the replay.

The `Mut...` operators are mutations of the definition that follows them, each a
plausible slip in the code; none is used by a specification. `PROJECT.json`
pairs each with the property that notices it.

## Runs

| Run | Result | Shows |
|---|---|---|
| `tables` | holds | registry: ownership of hosts and paths is exclusive, one registration per client, nobody takes from anybody, the server's certificate is preferred; lease book: the three maps agree, a good lease is not taken, an unanswered DISCOVER means exhaustion |
| `control_server_live` | holds | every request is answered; a lost session is unpublished for good; an authenticated session's acceptor ends with it; the server implements Registry |
| `client` | holds | the server enforces the client's lists after any reconnection; acks go to whoever asked; client and server implement Whitelist |
| `client_live` | holds | UpdateWhitelist returns; Run never hangs |
| `router` | holds | connections and requests reach their own host; an unraced cached handler misses nothing; a host published in one mode is not left to REALITY |
| `router_stale` | violated | services read before the version are cached under the newer version |
| `dhcp_request` | violated | a REQUEST without an OFFER, for an address leased to another, is ACKed with a different address |
| `dhcp_holders` | violated | a move to an expired address leaves two clients bound to it |
| `switch` | holds | learned addresses are on attached ports; nothing is reflected; a moved station is reached; a seen prefix is routed |
| `lifecycle` | holds | published entries belong to served sessions and the end of an old session spares the new one; nodes and server processes give back what they took and nothing else; tokens work |
| `edge` | holds | bans are exact, kept and escalated; frames arrive whole and in order; matching and parsing agree with their references |
| `publish_case` | violated | a host with capitals gets reverse streams its client refuses |

A violated run states what a comment of the repository says; the findings in
`PROJECT.json` quote it. `StreamFindsService` holds in `edge`, where hosts are
lower case, and fails in `publish_case`, where one is not.

`tables`, `lifecycle` and `edge` each hold several components that share no state. The
variable `part` selects one and the others rest, so the state space is the sum
and not the product of theirs. In `lifecycle` the parts also share the names of
what is interchangeable in each, which keeps the symmetry group small.

**Bounds.** `MaxVersion` caps the number of registry changes, `MaxMsgs` the
messages all peers send, `MaxTime` the clock, `MaxCalls` and `MaxBeats` the
commands, sends and heartbeats, `MaxNodes`, `MaxCrashes` and `MaxFresh` what
their names say.
* Registry: a conflict needs two clients and two messages, a reconnection two
  sessions; four changes (version 2 at start, 6 at most) let a client register,
  fail, and register again while the other leaves.
* ControlServer: five messages let two sessions authenticate and register and
  leave one update. Client: six messages are two sessions' auth and register and
  two updates; two commands can overlap each other and a registration.
* Router: two connections share a cache; two registry changes are enough for a
  handler to become outdated and for a host to change its mode.
* Switch: two stations, two streams and two peers let a station move, come back
  and be flooded to; nothing is capped.
* DhcpServer: three clients compete for one ordinary address, with the network,
  gateway and broadcast addresses available to whoever asks; four ticks with
  leases of one tick let a lease expire, be reassigned and expire again. The two
  violated runs have a pool of eight, in which several ordinary addresses are free.
* Banner: threshold, window, ban and clock (2, 2, 3, 5) let an address be
  banned, run out and be banned again, and a /24 too. FrameStream: two writers,
  frames of zero to three bytes around MaxEtherFrame = 2, and a window of 3 bytes,
  smaller than a frame with its header.
* ClientNode: two nodes after each other, one crash, two members. ServerRun: two
  processes. Provision: two commands at a time, four hand-written files, one of
  which has a client without a UUID.
* Inputs: lists of at most two routes, certificates, URLs or rules. The texts are
  few and chosen around the boundaries (final slashes, shared characters,
  wildcards, bracketed addresses, ports 0, 65535, 65536, names over 255 bytes).

Because counters are capped, and since sessions, processes and streams really
end, the passing runs do not check for deadlock. Symmetry is used only
in runs without liveness.

**Fairness.** `CSFairSpec` and `ClientFairSpec` assume weak fairness of the
goroutines: handlers, acceptors, Run, a command's call. The Go runtime schedules
them, and no lock that another needs is held across a blocking call except
`sendMu`, which is modelled. Nothing is assumed of dialing, of the network or of
who runs commands. An Encode to a peer that has stopped reading blocks until the
session fails, which is a SessionLost the properties allow for. `FramesArrive`
assumes that writers inside `send` and the reader go on; the reader's work in
Inject is not part of that module.

## Proofs

The proofs hold for all values of the constants under the named assumptions of the
modules: owners, sessions and ports are distinct, `""` and `"/"` are paths,
register messages are well formed, what the client publishes is such a message,
the pool is not empty, the ban threshold, the receive window and the largest frame
are positive, a hand-written configuration is a configuration whose public key, if
it has one, is that of its private key. They do not use the bounds of the runs,
except that counters are part of some specifications with an arbitrary limit.

Every proof module begins with `USE Zenon`: Zenon is the prover of a leaf that
names no other, and leaves with arithmetic, sequences or records name the SMT
backend.

* `RegistryProofs`. `IInv` is the type invariant, FirstComeFirstServed,
  OneRegistrationPerClient, that exactly the server's entries have no session, and
  that server certificates precede the others. The last two are the
  strengthening: without them RemoveSession could take server entries, and
  LookupCert prefer a client's certificate. Action properties follow from three
  shapes of step: unchanging, replacing one owner's entries, dropping a session's.
* `ControlProofs`, the control server. `CSInv` adds that a handler is inside an
  update exactly while `found` is set, for a service of its own client, and that
  entries belong to served sessions. From it every step of the server is a step of
  Registry or leaves it alone, which is the refinement CSSpec => RegSpec; so what
  is proved of Registry holds of the server.
* `ControlProofs`, client and server together. ClientSpec => CSSpec, so the
  server's invariants hold here too. `SysInv` adds who may hold `sendMu` at which
  place (`Locking`), that a live stream carries nothing while nobody holds it for
  that stream (`Quiet`), and that what it carries otherwise is the holder's
  request (`RequestOfHolder`). AcksMatch follows, although messages have no numbers.
* `ClientProofs`. KeepsPromise, the refinement of Whitelist, maps each step of the
  system to a step of Whitelist or to a stutter, from SysInv alone. InSync needs two more
  invariants. `InSession`: while the session is alive, its handler has accepted
  this client. `Sync`: from a clean copy of the lists on, other sessions have
  nothing left to do but leave, at most one update is under way, and once the
  server has the registration all the client's entries are of this session, each
  with the client's list unless the update under way is for it.
* `RouterProofs`. `RInv` says what the local variables hold at each place of the
  code, that cached and read services are of their own host, that versions read
  are never ahead, and that services read at the current version are complete.
  The argument for the cache is that while the version stands still the registry
  only loses services. PublishedNotToReality needs in addition what each failed
  lookup has put into `gap`.
* `NetworkProofs`, the DHCP server. Every message is reduced to one of two shapes,
  Bind and Forget, with side conditions (`Proper`); type correctness,
  BookConsistent, NoSteal and SilentOnlyWhenExhausted follow from the shapes.
* `NetworkProofs`, the switch. `Inv` says that a port which is not attached, but
  still in the table or in a frame's hands, is a stream that is gone or belongs to
  a closed endpoint and never returns; and that the table agrees with `heard`
  wherever that port is attached. NoReflection and SeenIsRouted have
  strengthenings of their own on top of it.
* `EdgeProofs`, the throttle. BannerTypeOK is inductive and carries the bound on
  ban ends that LiveBansKept needs for a second ban by requests in flight.
  Escalation follows because the sweep at the start of Fail leaves only bans in
  force. `BanInv`, for BansExact, says that a log is in order, that the window of
  an address is the end of its log (`Kept`) and that what is missing in front lies
  before the window of now and of any later time. Sweeping and pruning then forget
  no failure that could still count, and the length of a pruned window is the
  number of failures in it.
* `EdgeProofs`, tokens. `ProvInv` says that, unless commands overlapped, every
  token printed or about to be printed under the key of a file was made (`Made`)
  from a client that is still in that file (`Covers`): a command that saves has
  either a key nobody has seen (`Unused`, InitServer) or what it read and one more
  client (`Extended`, AddClient). Adding a client keeps every token made before,
  and TokenWorks is a computation on a token and the configuration it was made
  from, once for each kind of token and each of the two renderings.
* `FrameStreamProofs`. `StreamInv` says that one writer at a time is inside send
  (`OneWriter`), that nothing precedes the tunnel frame (`TagFirst`), that what was
  read is a prefix of what was sent, and that there is a `Layout`: every frame has
  a place on the stream, each byte that is written and not yet read is the byte of
  the frame at its place, and reader and writer stand at the places their state
  says. With it a reader inside the stream always takes a length where a length
  was written. The layout is only claimed until the reader closes, since it may
  close in the middle of a frame.
* `LifecycleProofs`, server processes. The argument is that sing-box's inbound is a
  lock: a process holds it from its first step to its last deferred call, so at
  most one process is in between. `Keeps` says what a process has at each place.
* `LifecycleProofs`, client nodes. `NodeInv` says that nodes follow each other, that
  a node notes what it takes (`Noted`), that the bridge it noted is its own until
  Close has dealt with it, what Close has dealt with at each step (`Stages`) and
  what the start has built at each step (`Progress`).

Four kinds of statement are proved and not run, since a proof for every instance
covers the small ones: the type invariants, `ServerEntriesPermanent` (the server's
own entries are never dropped), `UpdateOwnService` (an update reaches only a
service of the client that sent it) and `ObjectsDistinct` (a service pointer that
is published or held by a handler never comes to mean another service).

Only model-checked, beside what the violated runs refute:
* Liveness (EveryRequestAnswered, LostSessionUnpublished, AuthedAcceptorReturns,
  ClientProgresses, FramesArrive): fairness and ENABLED are beyond the prover.
* The five properties of Inputs (RequestReachesPath, CertsAgree,
  StreamFindsService, SocksServesRequest, HelloPassedOn). The functions of Names
  and Hello search, select, fold and recurse over texts, lists and bytes; what they
  compute for every input needs induction over these, and the prover cannot use
  its SMT backend in a module that declares or reaches a RECURSIVE operator.

## Observations

What the models show the code to do, beside the four violated runs, where a reader
may expect something else:

* Two services of one register message are not checked against each other, so a
  tcp and an http service of one client may share a host (`registry.go:203`),
  which `registry.go:165` rules out; the router then finds the raw one.
* A registration refused for a conflict has dropped the client's services without
  a new version (`registry.go:201`), so a cached handler serves them until the
  next change.
* UpdateWhitelist replaces the list after releasing the lock (`registry.go:274`);
  when the client re-registers over another session in between, the acknowledged
  list is on an object nobody uses.
* An update that overlaps a registration may leave the server with the older list
  until the next update or reconnection (the exception of InSync).
* acceptDataStreams of a session that ends before authentication waits for ever
  on `authed` (`server.go:140`), although its comment says that it "returns when
  the session closes" (`server.go:138`).
* A host that one message turns from http to tcp between RawService and
  HasHTTPHost is found by neither and goes to REALITY.
* After the two clients of `dhcp_holders` are bound to one address, either may be
  offered it, renew it, or release it under the other; NoSteal is about leases that
  one client holds alone. A REQUEST without an OFFER for an address whose lease has
  expired is not honored either, unless that address is the lowest free one. A
  client that asks for the gateway's address is given it
  (`dhcpserver/server.go:264`).
* What a node's start takes after the uplink reader has begun Close is not given
  back; a TAP whose reader waits for a frame is closed only with the next frame.
* A failed start of the DHCP server leaves the masquerade rule until a server next
  shuts down in order.
* Two `add-client` commands at a time may lose a client whose token was printed;
  a command that dies between truncation and write leaves an empty file; without
  `server_addr` the client is saved and no token is printed; a running server
  knows new clients only after a restart.
* A ClientHello that continues in a second record may have no name for the router
  and then goes to REALITY. A first record cut short is not replayed exactly,
  although `clienthello.go:10` says that no bytes are discarded: a partial header
  is lost and a partial body is padded with zeros. The connection may have ended,
  or be alive and slower than the read deadline of 15 seconds (`router.go:98`).
* Of two published URLs with the same id the client keeps the last and the
  router's match the first. Destination rules compare IPv6 addresses as text.
* A peer that stops reading fills its window and holds up every reader that
  floods to it, until its session ends.

## Not modelled

* The Android app and the DHCP client's exchange: callbacks of a framework and
  calls into a library.
* yamux, TLS, sing-box, netlink and iptables: external, modelled by what the code
  expects of them (success, failure, loss).
* Encodings (JSON, YAML, base64, DHCP options), the rewriting of HTTP headers, the
  copying of spliced connections and WebSocket data, logging.
* In Client: the delay of the back-off, cancellation of the context, and reverse
  streams after their service is found. In ClientNode: addresses and routes left
  on a bridge that existed before, the pinned host route, and the branches of
  startTAP for a default route and a gateway, which startTun never sets. In
  Switch: the restart of ndppd and ping datagrams.
* Data races on single fields (`bridgeMembers` while Close reads it,
  `Server.srv` in the DHCP server's Close).
* Memory is not persistent: a restart of the server is the initial state, with
  every session gone and an empty lease book.
