---------------------------- MODULE ControlServer ----------------------------
(***************************************************************************)
(* The control server (internal/control/server.go) on top of Registry: one *)
(* handleSession goroutine and one acceptDataStreams goroutine per yamux   *)
(* session.  A session is lost at any moment (alive becomes FALSE) and the *)
(* handler notices when it next reads.  The messages of a session arrive   *)
(* in order and the peer waits for an ack before it sends again.           *)
(***************************************************************************)
EXTENDS Registry, FiniteSets

CONSTANTS
  Strangers,  \* UUIDs that are not in allowedUUIDs
  MaxMsgs     \* bound on the messages all peers send

VARIABLES
  handler,   \* where handleSession is
  alive,     \* the yamux session is open
  clientID,  \* handleSession's clientID, "" until auth
  authed,    \* the one-place channel to acceptDataStreams
  acceptor,  \* where acceptDataStreams is
  request,   \* the message on its way to the handler, if any
  reply,     \* the ack on its way back, if any
  sent       \* number of messages sent so far

sessVars == <<handler, alive, clientID, authed, acceptor, request, reply, sent>>

csVars == <<regVars, sessVars>>

ASSUME StrangerAssumption == Strangers \cap (Clients \cup {NoClient}) = {}

ASSUME MaxMsgsAssumption == MaxMsgs \in Nat

-----------------------------------------------------------------------------
(* Messages *)

Auth == [type : {"auth"}, uuid : Clients \cup Strangers]

RegisterReq == [type : {"register"}, reg : Registrations]

UpdateReq == [type : {"update_whitelist"}, id : KnownIDs, allow : {BadAllow} \cup AllowLists]

(* A heartbeat, and a type the server does not know. *)
Plain == [type : {"heartbeat", "unknown"}]

Message == Auth \cup RegisterReq \cup UpdateReq \cup Plain

NoMsg == [type |-> "none"]

Ack(ok) == [type |-> "ack", ok |-> ok]

-----------------------------------------------------------------------------
HandlerStates ==
  {"unused",    \* the session does not exist yet
   "accepting", \* sess.AcceptStream
   "loop",      \* dec.Decode
   "updating",  \* between the two halves of reg.UpdateWhitelist
   "leaving",   \* returned: the deferred function is about to run
   "removed",   \* RemoveSession done, sess.Close not yet
   "closed"}

CSInit ==
  /\ RegInit
  /\ handler = [s \in Sessions |-> "unused"]
  /\ alive = [s \in Sessions |-> FALSE]
  /\ clientID = [s \in Sessions |-> NoClient]
  /\ authed = [s \in Sessions |-> NoClient]
  /\ acceptor = [s \in Sessions |-> "none"]
  /\ request = [s \in Sessions |-> NoMsg]
  /\ reply = [s \in Sessions |-> NoMsg]
  /\ sent = 0

(* Serve accepts a connection; tunnel.Server wraps it in a session. *)
Accept(s) ==
  /\ handler[s] = "unused"
  /\ handler' = [handler EXCEPT ![s] = "accepting"]
  /\ alive' = [alive EXCEPT ![s] = TRUE]
  /\ UNCHANGED <<regVars, clientID, authed, acceptor, request, reply, sent>>

(* The connection breaks, is closed by the peer or misses its keepalives.  *)
SessionLost(s) ==
  /\ alive[s]
  /\ alive' = [alive EXCEPT ![s] = FALSE]
  /\ UNCHANGED <<regVars, handler, clientID, authed, acceptor, request, reply, sent>>

(* The control stream is the first stream the peer opens, if it does. *)
AcceptControl(s) ==
  /\ handler[s] = "accepting" /\ alive[s]
  /\ handler' = [handler EXCEPT ![s] = "loop"]
  /\ acceptor' = [acceptor EXCEPT ![s] = "waiting"]
  /\ UNCHANGED <<regVars, alive, clientID, authed, request, reply, sent>>

AcceptControlError(s) ==
  /\ handler[s] = "accepting" /\ ~alive[s]
  /\ handler' = [handler EXCEPT ![s] = "leaving"]
  /\ UNCHANGED <<regVars, alive, clientID, authed, acceptor, request, reply, sent>>

(* The peer sends a message once the previous one has been answered. *)
Send(s, m) ==
  /\ alive[s] /\ handler[s] = "loop"
  /\ request[s] = NoMsg /\ reply[s] = NoMsg
  /\ sent < MaxMsgs
  /\ request' = [request EXCEPT ![s] = m]
  /\ sent' = sent + 1
  /\ UNCHANGED <<regVars, handler, alive, clientID, authed, acceptor, reply>>

Receive(s) ==
  /\ reply[s] # NoMsg
  /\ reply' = [reply EXCEPT ![s] = NoMsg]
  /\ UNCHANGED <<regVars, handler, alive, clientID, authed, acceptor, request, sent>>

-----------------------------------------------------------------------------
(* One iteration of the decode loop *)

(* The request is consumed and answered (the ack is lost with the session). *)
Answer(s, ok) ==
  /\ request' = [request EXCEPT ![s] = NoMsg]
  /\ reply' = [reply EXCEPT ![s] = Ack(ok)]

Goto(s, st) == handler' = [handler EXCEPT ![s] = st]

(* The loop has decoded a message of this type. *)
Decoded(s, type) == handler[s] = "loop" /\ request[s].type = type

(* Mutation of DecodeError: the session ends without its deferred calls. *)
MutDecodeError(s) ==
  /\ handler[s] = "loop" /\ ~alive[s]
  /\ Goto(s, "closed")
  /\ request' = [request EXCEPT ![s] = NoMsg]
  /\ UNCHANGED <<regVars, alive, clientID, authed, acceptor, reply, sent>>

DecodeError(s) ==
  /\ handler[s] = "loop" /\ ~alive[s]
  /\ Goto(s, "leaving")
  /\ request' = [request EXCEPT ![s] = NoMsg]
  /\ UNCHANGED <<regVars, alive, clientID, authed, acceptor, reply, sent>>

(* "auth required first" *)
HandleUnauthenticated(s) ==
  /\ handler[s] = "loop" /\ request[s] # NoMsg
  /\ clientID[s] = NoClient /\ request[s].type # "auth"
  /\ Answer(s, FALSE) /\ Goto(s, "leaving")
  /\ UNCHANGED <<regVars, alive, clientID, authed, acceptor, sent>>

(* Mutation of HandleAuth: authed is not buffered, and the client id is    *)
(* dropped when the acceptor is not receiving yet.                         *)
MutHandleAuthUnbuffered(s) ==
  /\ Decoded(s, "auth")
  /\ \/ /\ request[s].uuid \in Clients
        /\ clientID' = [clientID EXCEPT ![s] = request[s].uuid]
        /\ authed' \in {authed, [authed EXCEPT ![s] = request[s].uuid]}
        /\ Answer(s, TRUE)
        /\ UNCHANGED handler
     \/ /\ request[s].uuid \notin Clients
        /\ Answer(s, FALSE) /\ Goto(s, "leaving")
        /\ UNCHANGED <<clientID, authed>>
  /\ UNCHANGED <<regVars, alive, acceptor, sent>>

HandleAuth(s) ==
  /\ Decoded(s, "auth")
  /\ \/ /\ request[s].uuid \in Clients
        /\ clientID' = [clientID EXCEPT ![s] = request[s].uuid]
        /\ authed' = IF authed[s] = NoClient
                       THEN [authed EXCEPT ![s] = request[s].uuid] ELSE authed
        /\ Answer(s, TRUE)
        /\ UNCHANGED handler
     \/ /\ request[s].uuid \notin Clients
        /\ Answer(s, FALSE) /\ Goto(s, "leaving")
        /\ UNCHANGED <<clientID, authed>>
  /\ UNCHANGED <<regVars, alive, acceptor, sent>>

HandleRegister(s) ==
  /\ Decoded(s, "register") /\ clientID[s] # NoClient
  /\ LET reg == request[s].reg IN
       \/ RegisterParseError(clientID[s], reg) /\ Answer(s, FALSE)
       \/ RegisterConflict(clientID[s], reg) /\ Answer(s, FALSE)
       \/ RegisterCommit(clientID[s], s, reg) /\ Answer(s, TRUE)
  /\ UNCHANGED <<handler, alive, clientID, authed, acceptor, sent>>

HandleUpdateWhitelist(s) ==
  /\ Decoded(s, "update_whitelist") /\ clientID[s] # NoClient
  /\ \/ /\ UpdateWhitelistFind(clientID[s], s, request[s].id, request[s].allow)
        /\ Goto(s, "updating")
        /\ UNCHANGED <<request, reply>>
     \/ /\ UpdateWhitelistRefused(clientID[s], s, request[s].id)
        /\ Answer(s, FALSE)
        /\ UNCHANGED handler
  /\ UNCHANGED <<alive, clientID, authed, acceptor, sent>>

FinishUpdateWhitelist(s) ==
  /\ handler[s] = "updating"
  /\ UpdateWhitelistReplace(s)
  /\ Answer(s, request[s].allow # BadAllow) /\ Goto(s, "loop")
  /\ UNCHANGED <<alive, clientID, authed, acceptor, sent>>

(* Mutation of HandlePlain: a message of unknown type is dropped. *)
MutHandlePlain(s) ==
  /\ \/ Decoded(s, "heartbeat") /\ Answer(s, TRUE)
     \/ /\ Decoded(s, "unknown")
        /\ request' = [request EXCEPT ![s] = NoMsg] /\ UNCHANGED reply
  /\ clientID[s] # NoClient
  /\ UNCHANGED <<regVars, handler, alive, clientID, authed, acceptor, sent>>

HandlePlain(s) ==
  /\ \E type \in {"heartbeat", "unknown"} : Decoded(s, type) /\ Answer(s, type = "heartbeat")
  /\ clientID[s] # NoClient
  /\ UNCHANGED <<regVars, handler, alive, clientID, authed, acceptor, sent>>

-----------------------------------------------------------------------------
(* Mutation of DeferredRemove: what the client has is removed, rather than *)
(* what the session published.                                             *)
MutDeferredRemoveClient(s) ==
  /\ handler[s] = "leaving"
  /\ removeClientLocked(clientID[s])
  /\ version' = version + 1
  /\ Goto(s, "removed")
  /\ UNCHANGED <<allow, found, alive, clientID, authed, acceptor, request, reply, sent>>

(* Mutation of DeferredRemove: the certificates stay. *)
MutDeferredRemoveServices(s) ==
  /\ handler[s] = "leaving"
  /\ raw' = NotOf(raw, s) /\ http' = NotOf(http, s)
  /\ Goto(s, "removed")
  /\ UNCHANGED <<certs, allow, version, found, alive, clientID, authed, acceptor,
                 request, reply, sent>>

(* The deferred function: unpublish, then close the session. *)
DeferredRemove(s) ==
  /\ handler[s] = "leaving"
  /\ RemoveSession(s)
  /\ Goto(s, "removed")
  /\ UNCHANGED <<alive, clientID, authed, acceptor, request, reply, sent>>

DeferredClose(s) ==
  /\ handler[s] = "removed"
  /\ Goto(s, "closed")
  /\ alive' = [alive EXCEPT ![s] = FALSE]
  /\ UNCHANGED <<regVars, clientID, authed, acceptor, request, reply, sent>>

(* acceptDataStreams: wait for the client id, then accept until the session *)
(* is closed.                                                               *)
AcceptorAuthed(s) ==
  /\ acceptor[s] = "waiting" /\ authed[s] # NoClient
  /\ acceptor' = [acceptor EXCEPT ![s] = "accepting"]
  /\ authed' = [authed EXCEPT ![s] = NoClient]
  /\ UNCHANGED <<regVars, handler, alive, clientID, request, reply, sent>>

AcceptorReturns(s) ==
  /\ acceptor[s] = "accepting" /\ ~alive[s]
  /\ acceptor' = [acceptor EXCEPT ![s] = "returned"]
  /\ UNCHANGED <<regVars, handler, alive, clientID, authed, request, reply, sent>>

HandlerStep(s) ==
  \/ AcceptControlError(s)
  \/ DecodeError(s)
  \/ HandleUnauthenticated(s)
  \/ HandleAuth(s)
  \/ HandleRegister(s)
  \/ HandleUpdateWhitelist(s)
  \/ FinishUpdateWhitelist(s)
  \/ HandlePlain(s)
  \/ DeferredRemove(s)
  \/ DeferredClose(s)

AcceptorStep(s) == AcceptorAuthed(s) \/ AcceptorReturns(s)

PeerStep(s) ==
  \/ Accept(s)
  \/ AcceptControl(s)
  \/ SessionLost(s)
  \/ \E m \in Message : Send(s, m)
  \/ Receive(s)

CSNext == \E s \in Sessions : HandlerStep(s) \/ AcceptorStep(s) \/ PeerStep(s)

CSSpec == CSInit /\ [][CSNext]_csVars

(* The two goroutines of a session are scheduled by the Go runtime: a step *)
(* one of them can take is eventually taken.  Nothing is assumed of the    *)
(* peer or of the network.                                                 *)
CSFairSpec ==
  /\ CSSpec
  /\ \A s \in Sessions : WF_csVars(HandlerStep(s)) /\ WF_csVars(AcceptorStep(s))

-----------------------------------------------------------------------------
(* Properties *)

(* The type invariant. *)
CSTypeOK ==
  /\ RegTypeOK
  /\ handler \in [Sessions -> HandlerStates]
  /\ alive \in [Sessions -> BOOLEAN]
  /\ clientID \in [Sessions -> Clients \cup {NoClient}]
  /\ authed \in [Sessions -> Clients \cup {NoClient}]
  /\ acceptor \in [Sessions -> {"none", "waiting", "accepting", "returned"}]
  /\ request \in [Sessions -> Message \cup {NoMsg}]
  /\ reply \in [Sessions -> {Ack(TRUE), Ack(FALSE), NoMsg}]
  /\ sent \in Nat

Entries == Services \cup certs

(* Nothing is published over a session whose handler is gone or that never *)
(* authenticated: the deferred RemoveSession runs after the last Register  *)
(* of the session, however the session ended.                              *)
PublishedSessionsAreServed ==
  \A e \in Entries : e.sess \in Sessions =>
     handler[e.sess] \in {"loop", "updating", "leaving"} /\ clientID[e.sess] # NoClient

(* The whitelist update a handler is applying is to a service of the       *)
(* client it speaks for, also when that service was replaced meanwhile.    *)
UpdateOwnService ==
  \A s \in Sessions :
     /\ found[s].pending <=> handler[s] = "updating"
     /\ found[s].pending => found[s].svc.client = clientID[s]

(* A session that ends takes down only what it published itself: a client  *)
(* that reconnected before its old session was given up keeps what it      *)
(* registered over the new one.                                            *)
NewerSessionSurvives ==
  [][\A s \in Sessions : handler[s] = "leaving" /\ handler'[s] = "removed" =>
       \A e \in Entries : e.sess # s => e \in Entries']_csVars

(* Every request is answered unless its session is lost (proto.go: "the    *)
(* server replies to every request with an Ack").                          *)
EveryRequestAnswered ==
  \A s \in Sessions : request[s] # NoMsg ~> (reply[s] # NoMsg \/ ~alive[s])

(* What a lost session published is eventually gone, and stays gone. *)
LostSessionUnpublished ==
  \A s \in Sessions :
     (handler[s] # "unused" /\ ~alive[s]) ~> [](\A e \in Entries : e.sess # s)

(* The control server drives the registry only through the operations the  *)
(* registry has, one at a time per session: every behaviour of the server  *)
(* is one of Registry.                                                     *)
ImplementsRegistry == RegSpec

(* acceptDataStreams "returns when the session closes": whenever a session *)
(* that authenticated has ended, its acceptor ends too, however quickly    *)
(* the session broke after the auth message.                               *)
AuthedAcceptorReturns ==
  \A s \in Sessions : handler[s] = "closed" /\ clientID[s] # NoClient ~> acceptor[s] = "returned"
=============================================================================
