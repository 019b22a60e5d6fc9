------------------------------- MODULE Client -------------------------------
(***************************************************************************)
(* The control client (internal/control/client.go) together with the       *)
(* control server it talks to: Run and session are one goroutine, and      *)
(* every `tbox whitelist` command ends in an UpdateWhitelist call on a     *)
(* goroutine of the admin server (internal/app/admin.go, whitelistcmd.go). *)
(* All of them share enc, dec, connected and whitelists under mu, and one  *)
(* request at a time is on the control stream under sendMu.                *)
(***************************************************************************)
EXTENDS ControlServer, Functions

CONSTANTS
  uuid,       \* the client's own id
  services,   \* what it publishes: sequence of [mode, host, path]
  initAllow,  \* initAllow[id]: the allow list of its configuration
  Callers,    \* `tbox whitelist` commands that may run at the same time
  Main,       \* the Run goroutine
  Nobody,
  MaxCalls,   \* bound on the commands
  MaxBeats    \* bound on the heartbeats

VARIABLES
  cpc,         \* where Run/session is
  enc,         \* session of the current encoder and decoder, NoSession if nil
  connected,
  whitelists,  \* whitelists[id]
  snapshot,    \* the lists currentServices copied, until they are sent
  sendMu,      \* who holds it, Nobody if free
  via,         \* the session the holder of sendMu has sent its request on
  call,        \* call[u]: where a command is, and its id and list
  calls, beats,
  clean        \* history: see Snapshot

clientVars == <<cpc, enc, connected, whitelists, snapshot, sendMu, via,
                call, calls, beats, clean>>

sysVars == <<csVars, clientVars>>

IDs == {ID(services[i]) : i \in DOMAIN services}

(* The register message for these lists. *)
currentServices(lists) ==
  [certs |-> <<>>,
   services |-> [i \in DOMAIN services |->
     [mode |-> services[i].mode, host |-> services[i].host, path |-> services[i].path,
      allow |-> lists[ID(services[i])]]]]

Lists == {BadAllow} \cup AllowLists

ASSUME ClientAssumption ==
  /\ \A lists \in [IDs -> Lists] : currentServices(lists) \in Registrations
  /\ uuid \in Clients
  /\ initAllow \in [IDs -> AllowLists]
  /\ NoSession \notin Sessions /\ Main \notin Callers /\ Nobody \notin Callers \cup {Main}

NoCall == [at |-> "idle"]

ClientInit ==
  /\ CSInit
  /\ cpc = "dial"
  /\ enc = NoSession
  /\ connected = FALSE
  /\ whitelists = initAllow
  /\ snapshot = initAllow
  /\ sendMu = Nobody
  /\ via = NoSession
  /\ call = [u \in Callers |-> NoCall]
  /\ calls = 0 /\ beats = 0
  /\ clean = TRUE

-----------------------------------------------------------------------------
(* requestResp: lock sendMu, read enc and dec, encode; then decode the ack *)
(* and unlock.  A request fails when the session is gone before it is      *)
(* sent or before its ack is read.                                         *)
Transmit(p, m) ==
  /\ sendMu = Nobody
  /\ Send(enc, m)
  /\ sendMu' = p /\ via' = enc

Acked(p, ok) ==
  /\ sendMu = p /\ reply[via] # NoMsg
  /\ ok = reply[via].ok
  /\ Receive(via)
  /\ sendMu' = Nobody /\ via' = NoSession

(* Mutation of Failed: a request may time out and leave its ack behind. *)
MutFailedTimeout(p) ==
  /\ \/ sendMu = Nobody /\ ~alive[enc]
     \/ sendMu = p
  /\ sendMu' = Nobody /\ via' = NoSession
  /\ UNCHANGED csVars

(* Mutation of Failed: the early return does not unlock. *)
MutFailedLocked(p) ==
  /\ \/ sendMu = Nobody /\ ~alive[enc]
     \/ sendMu = p /\ ~alive[via]
  /\ UNCHANGED <<csVars, sendMu, via>>

Failed(p) ==
  /\ \/ sendMu = Nobody /\ ~alive[enc]
     \/ sendMu = p /\ ~alive[via]
  /\ sendMu' = Nobody /\ via' = NoSession
  /\ UNCHANGED csVars

-----------------------------------------------------------------------------
(* Run and session *)

(* Dial, wrap, open the control stream, publish it to the other goroutines. *)
Connect(s) ==
  /\ cpc = "dial"
  /\ Accept(s)
  /\ enc' = s /\ connected' = TRUE
  /\ cpc' = "auth"
  /\ UNCHANGED <<whitelists, snapshot, sendMu, via, call, calls, beats, clean>>

DialFails ==
  /\ cpc = "dial"
  /\ cpc' = "backoff"
  /\ UNCHANGED <<csVars, enc, connected, whitelists, snapshot, sendMu, via,
                 call, calls, beats, clean>>

(* What session sends from each of its states, and where it goes when the  *)
(* server acknowledges it.                                                 *)
SendAuth ==
  /\ cpc = "auth"
  /\ Transmit(Main, [type |-> "auth", uuid |-> uuid])
  /\ cpc' = "authing"
  /\ UNCHANGED <<beats, snapshot>>

SendRegister ==
  /\ cpc = "register"
  /\ Transmit(Main, [type |-> "register", reg |-> currentServices(snapshot)])
  /\ cpc' = "registering" /\ snapshot' = initAllow
  /\ UNCHANGED beats

Heartbeat ==
  /\ cpc = "up" /\ beats < MaxBeats
  /\ Transmit(Main, [type |-> "heartbeat"])
  /\ cpc' = "beating" /\ beats' = beats + 1
  /\ UNCHANGED snapshot

MainSends ==
  /\ SendAuth \/ SendRegister \/ Heartbeat
  /\ UNCHANGED <<enc, connected, whitelists, call, calls, clean>>

MainAcked ==
  /\ cpc \in {"authing", "registering", "beating"}
  /\ \E ok \in BOOLEAN :
       /\ Acked(Main, ok)
       /\ cpc' = IF ~ok THEN "ending"
                           ELSE IF cpc = "authing" THEN "snapshot" ELSE "up"
  /\ UNCHANGED <<enc, connected, whitelists, snapshot, call, calls, beats, clean>>

MainFails ==
  /\ cpc \in {"auth", "authing", "register", "registering", "beating"}
  /\ Failed(Main)
  /\ cpc' = "ending" /\ snapshot' = initAllow
  /\ UNCHANGED <<enc, connected, whitelists, call, calls, beats, clean>>

(* Mutation of Snapshot: the configured lists are sent again. *)
MutSnapshot ==
  /\ cpc = "snapshot"
  /\ snapshot' = initAllow
  /\ cpc' = "register"
  /\ clean' = /\ \A u \in Callers : call[u].at \notin {"stored", "waiting"}
              /\ \A s \in Sessions \ {enc} : request[s] = NoMsg /\ ~found[s].pending
  /\ UNCHANGED <<csVars, enc, connected, whitelists, sendMu, via, call, calls, beats>>

(* currentServices is evaluated before requestResp takes sendMu.  From here *)
(* on clean says that no update was under way then, that none was stored    *)
(* before the server had the copy or while another was under way, and that  *)
(* none was refused or lost.                                                *)
Snapshot ==
  /\ cpc = "snapshot"
  /\ snapshot' = whitelists
  /\ cpc' = "register"
  /\ clean' = /\ \A u \in Callers : call[u].at \notin {"stored", "waiting"}
              /\ \A s \in Sessions \ {enc} : request[s] = NoMsg /\ ~found[s].pending
  /\ UNCHANGED <<csVars, enc, connected, whitelists, sendMu, via, call, calls, beats>>

(* <-sess.CloseChan() *)
CarrierClosed ==
  /\ cpc = "up" /\ ~alive[enc]
  /\ cpc' = "ending"
  /\ UNCHANGED <<csVars, enc, connected, whitelists, snapshot, sendMu, via,
                 call, calls, beats, clean>>

(* The deferred functions of session, last one first. *)
Disconnect ==
  /\ cpc = "ending"
  /\ connected' = FALSE
  /\ cpc' = "closing"
  /\ UNCHANGED <<csVars, enc, whitelists, snapshot, sendMu, via, call, calls,
                 beats, clean>>

Close ==
  /\ cpc = "closing"
  /\ IF alive[enc] THEN SessionLost(enc) ELSE UNCHANGED csVars
  /\ cpc' = "backoff"
  /\ UNCHANGED <<enc, connected, whitelists, snapshot, sendMu, via, call, calls,
                 beats, clean>>

(* The delay is over, however long it was: time is not modelled. *)
Retry ==
  /\ cpc = "backoff"
  /\ cpc' = "dial"
  /\ UNCHANGED <<csVars, enc, connected, whitelists, snapshot, sendMu, via, call, calls,
                 beats, clean>>

MainStep ==
  \/ \E s \in Sessions : Connect(s)
  \/ MainSends
  \/ MainAcked
  \/ MainFails
  \/ Snapshot
  \/ CarrierClosed
  \/ Disconnect
  \/ Close
  \/ Retry

-----------------------------------------------------------------------------
(* `tbox whitelist` *)

(* WhitelistAdd and WhitelistRemove read the list first. *)
fetchAllow(u, id) ==
  /\ call[u] = NoCall /\ calls < MaxCalls
  /\ calls' = calls + 1
  /\ call' = [call EXCEPT ![u] = [at |-> "fetched", id |-> id, list |-> whitelists[id]]]
  /\ UNCHANGED <<csVars, cpc, enc, connected, whitelists, snapshot, sendMu, via,
                 beats, clean>>

(* Mutation of UpdateWhitelist: a new list waits for the next registration. *)
MutUpdateWhitelist(u, id, list) ==
  /\ whitelists' = [whitelists EXCEPT ![id] = list]
  /\ call' = [call EXCEPT ![u] = NoCall]
  /\ UNCHANGED <<csVars, cpc, enc, connected, snapshot, sendMu, via, beats, clean>>

(* UpdateWhitelist up to its request: store the list, read connected. *)
UpdateWhitelist(u, id, list) ==
  /\ whitelists' = [whitelists EXCEPT ![id] = list]
  /\ call' = [call EXCEPT ![u] =
                IF connected THEN [at |-> "stored", id |-> id, list |-> list] ELSE NoCall]
  /\ clean' = /\ clean /\ cpc \notin {"register", "registering"}
              /\ \A v \in Callers : call[v].at \notin {"stored", "waiting"}
  /\ UNCHANGED <<csVars, cpc, enc, connected, snapshot, sendMu, via, beats>>

(* The list that comes of adding or removing one source. *)
Edited(list, src) ==
  IF list = BadAllow THEN {BadAllow} ELSE {list \cup {src}, list \ {src}}

WhitelistSet(u, id, list) ==
  /\ call[u] = NoCall /\ calls < MaxCalls
  /\ calls' = calls + 1
  /\ UpdateWhitelist(u, id, list)

WhitelistAddRemove(u) ==
  /\ call[u].at = "fetched"
  /\ \E src \in Sources : \E list \in Edited(call[u].list, src) :
       UpdateWhitelist(u, call[u].id, list)
  /\ UNCHANGED calls

SendUpdate(u) ==
  /\ call[u].at = "stored"
  /\ Transmit(u, [type |-> "update_whitelist", id |-> call[u].id, allow |-> call[u].list])
  /\ call' = [call EXCEPT ![u].at = "waiting"]
  /\ UNCHANGED <<cpc, enc, connected, whitelists, snapshot, calls, beats, clean>>

UpdateAcked(u) ==
  /\ call[u].at = "waiting"
  /\ \E ok \in BOOLEAN : Acked(u, ok) /\ clean' = (clean /\ ok)
  /\ call' = [call EXCEPT ![u] = NoCall]
  /\ UNCHANGED <<cpc, enc, connected, whitelists, snapshot, calls, beats>>

UpdateFails(u) ==
  /\ call[u].at \in {"stored", "waiting"}
  /\ Failed(u)
  /\ clean' = FALSE
  /\ call' = [call EXCEPT ![u] = NoCall]
  /\ UNCHANGED <<cpc, enc, connected, whitelists, snapshot, calls, beats>>

CommandStarts(u) ==
  \E id \in IDs : fetchAllow(u, id) \/ \E list \in Lists : WhitelistSet(u, id, list)

CallerStep(u) == WhitelistAddRemove(u) \/ SendUpdate(u) \/ UpdateAcked(u) \/ UpdateFails(u)

-----------------------------------------------------------------------------
(* The data streams of a session, and so acceptDataStreams, stay out of    *)
(* this composition.                                                       *)
ServerStep(s) ==
  /\ HandlerStep(s) \/ AcceptControl(s)
  /\ UNCHANGED clientVars

NetworkLoss(s) == SessionLost(s) /\ UNCHANGED clientVars

ClientNext ==
  \/ MainStep
  \/ DialFails
  \/ \E u \in Callers : CommandStarts(u) \/ CallerStep(u)
  \/ \E s \in Sessions : ServerStep(s) \/ NetworkLoss(s)

ClientSpec == ClientInit /\ [][ClientNext]_sysVars

(* The Go runtime runs a goroutine that can run: some step of Run, some    *)
(* step of a command and some step of a handler is eventually taken.       *)
(* Nothing is assumed of dialing, of the network, or of whoever runs the   *)
(* commands.                                                               *)
ClientFairSpec ==
  /\ ClientSpec
  /\ WF_sysVars(MainStep)
  /\ WF_sysVars(\E u \in Callers : CallerStep(u))
  /\ WF_sysVars(\E s \in Sessions : ServerStep(s))

-----------------------------------------------------------------------------
(* Properties *)

(* The lists the server enforces for a service of the client. *)
Published(id) == {allow[Object(t)] : t \in {t \in Services : ID(t) = id /\ t.client = uuid}}

(* An entry that is alone with its id and, of the whole-host entries for   *)
(* its host, the last: serviceByID and whitelists keep one entry per id,   *)
(* and the registry one whole-host service per host.                       *)
Sole(i) ==
  \A j \in DOMAIN services \ {i} :
     /\ ID(services[j]) # ID(services[i])
     /\ ~(/\ j > i /\ services[j].host = services[i].host
          /\ isRaw(services[i].mode) /\ isRaw(services[j].mode))

(* "The new list persists locally and is replayed on reconnect": once a    *)
(* session is registered, and as long as it lives, the server enforces the *)
(* client's own lists, whatever sessions were lost before, unless an       *)
(* update overlapped the registration or another update, or failed.        *)
InSync ==
  cpc \in {"up", "beating"} /\ alive[enc] /\ clean
  /\ (\A u \in Callers : call[u].at \notin {"stored", "waiting"}) =>
     \A i \in DOMAIN services : Sole(i) =>
        Published(ID(services[i])) = {whitelists[ID(services[i])]}

(* One request at a time is on a control stream, and its ack is read by    *)
(* whoever sent it: with sendMu free nothing is left on a live stream that *)
(* the next request could take for its own ack.                            *)
AcksMatch ==
  /\ sendMu = Nobody /\ enc # NoSession /\ alive[enc] =>
       request[enc] = NoMsg /\ reply[enc] = NoMsg
  /\ sendMu \in Callers /\ request[via] # NoMsg =>
       request[via] = [type |-> "update_whitelist", id |-> call[sendMu].id,
                       allow |-> call[sendMu].list]
  /\ sendMu = Main /\ request[via] # NoMsg =>
       cpc = CASE request[via].type = "auth" -> "authing"
               [] request[via].type = "register" -> "registering"
               [] OTHER -> "beating"

(* The lists for a service in a message. *)
Carried(m, id) ==
  CASE m.type = "update_whitelist" -> {m.allow : x \in {id} \cap {m.id}}
    [] m.type = "register" -> {t.allow : t \in {t \in Range(m.reg.services) : ID(t) = id}}
    [] OTHER -> {}

(* Lists that may still reach the registry: the client's own, those copied *)
(* or stored and yet to be sent, and those in requests yet to be answered. *)
InPlay ==
  [id \in IDs |->
     {whitelists[id]}
     \cup (IF cpc = "register" THEN {snapshot[id]} ELSE {})
     \cup {call[u].list : u \in {u \in Callers : call[u].at = "stored" /\ call[u].id = id}}
     \cup UNION {Carried(request[s], id) : s \in Sessions}]

InForce == [id \in IDs |-> Published(id)]

Promise == INSTANCE Whitelist
  WITH Lists <- AllowLists, Bad <- BadAllow, Chosen <- initAllow,
       want <- whitelists, inPlay <- InPlay, inForce <- InForce

(* The server enforces only lists that were chosen for the service with    *)
(* UpdateWhitelist or in the configuration, and a list that has left play  *)
(* comes back only by being chosen again, over any number of reconnects:   *)
(* client and server together implement Whitelist.                         *)
KeepsPromise == Promise!Spec

CallsReturn ==
  \A u \in Callers : call[u].at = "stored" ~> call[u].at \notin {"stored", "waiting"}

RunProgresses ==
  cpc \notin {"dial", "backoff"} ~> cpc = "backoff" \/ (cpc = "up" /\ alive[enc])

(* Nothing of the client hangs.  An UpdateWhitelist call returns: it is    *)
(* not stuck behind sendMu, on an ack that never comes, or on a session    *)
(* that is gone.  And Run goes on: a session that was dialed either is     *)
(* registered and alive or is given up for another attempt, whatever       *)
(* update or loss comes between its requests, and a lost carrier is        *)
(* noticed.                                                                *)
ClientProgresses == CallsReturn /\ RunProgresses
=============================================================================
