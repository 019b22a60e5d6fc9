--------------------------- MODULE ControlProofs ----------------------------
(***************************************************************************)
(* Proofs about ControlServer, and about Client, which puts a client and   *)
(* the server together.  The server drives the registry only in ways that  *)
(* Registry allows, so every theorem about Registry holds of it, and its   *)
(* sessions publish nothing they do not clean up.  Client and server       *)
(* together are a control server with one well-behaved peer, and acks go   *)
(* to whoever sent the request.                                            *)
(***************************************************************************)
EXTENDS Client, RegistryProofs

(* Zenon is asked for every step that does not name another prover. *)
USE Zenon

SessTypeOK ==
  /\ handler \in [Sessions -> HandlerStates]
  /\ alive \in [Sessions -> BOOLEAN]
  /\ clientID \in [Sessions -> Clients \cup {NoClient}]
  /\ authed \in [Sessions -> Clients \cup {NoClient}]
  /\ acceptor \in [Sessions -> {"none", "waiting", "accepting", "returned"}]
  /\ request \in [Sessions -> Message \cup {NoMsg}]
  /\ reply \in [Sessions -> {Ack(TRUE), Ack(FALSE), NoMsg}]
  /\ sent \in Nat

(* The inductive invariant.  That a handler is inside an update exactly    *)
(* while found is set is what makes its other calls steps of Registry.     *)
CSInv == IInv /\ SessTypeOK /\ UpdateOwnService /\ PublishedSessionsAreServed

LEMMA CSInitInv == CSInit => CSInv
<1> SUFFICES ASSUME CSInit PROVE CSInv
  OBVIOUS
<1>1. IInv
  BY InitIInv DEF CSInit
<1>2. SessTypeOK
  BY DEF CSInit, SessTypeOK, HandlerStates
<1>3. UpdateOwnService
  BY DEF CSInit, RegInit, UpdateOwnService, NoUpdate
<1>4. \A e \in Entries : e.sess = NoSession
  <2>1. \A e \in raw \cup http : \E i : e = NewService(ServerOwnerID, NoSession,
                                                    ServerServices, i, InitVersion)
    BY DEF CSInit, RegInit, NewRaw, NewHTTP
  <2>2. \A i : NewService(ServerOwnerID, NoSession, ServerServices, i, InitVersion).sess
                 = NoSession
    BY DEF NewService
  <2>3. \A e \in certs : e.sess = NoSession
    BY SMTT(30) DEF CSInit, RegInit
  <2>. QED
    BY <2>1, <2>2, <2>3 DEF Entries, Services
<1>5. PublishedSessionsAreServed
  BY <1>4, OwnersDistinct DEF PublishedSessionsAreServed
<1>. QED
  BY <1>1, <1>2, <1>3, <1>5 DEF CSInv

(* What a decoded message may hold. *)
LEMMA RequestContents ==
  ASSUME SessTypeOK, NEW s \in Sessions
  PROVE  /\ request[s].type = "auth" => request[s].uuid \in Clients \cup Strangers
         /\ request[s].type = "register" => request[s].reg \in Registrations
         /\ request[s].type = "update_whitelist" =>
              request[s].id \in KnownIDs /\ request[s].allow \in {BadAllow} \cup AllowLists
<1>1. request[s] \in Message \cup {NoMsg}
  BY DEF SessTypeOK
<1>. QED
  BY <1>1, SMTT(30) DEF Message, NoMsg, Auth, RegisterReq, UpdateReq, Plain

(* Every step of the server is a step of Registry or leaves it alone. *)
LEMMA CSStepIsRegStep ==
  ASSUME CSInv, [CSNext]_csVars
  PROVE  [RegStep]_regVars
<1>1. CASE UNCHANGED csVars
  BY <1>1 DEF csVars, regVars
<1>2. ASSUME NEW s \in Sessions, HandleRegister(s)
      PROVE  RegStep
  <2>1. clientID[s] \in Clients /\ request[s].reg \in Registrations
    BY <1>2, RequestContents DEF HandleRegister, Decoded, CSInv, SessTypeOK
  <2>2. ~found[s].pending
    BY <1>2 DEF HandleRegister, Decoded, CSInv, UpdateOwnService
  <2>3. Register(clientID[s], s, request[s].reg)
    BY <1>2 DEF HandleRegister, Register
  <2>. QED
    BY <2>1, <2>2, <2>3 DEF RegStep
<1>3. ASSUME NEW s \in Sessions, HandleUpdateWhitelist(s)
      PROVE  RegStep
  <2>1. /\ clientID[s] \in Clients /\ request[s].id \in KnownIDs
        /\ request[s].allow \in {BadAllow} \cup AllowLists
    BY <1>3, RequestContents DEF HandleUpdateWhitelist, Decoded, CSInv, SessTypeOK
  <2>2. \/ UpdateWhitelistFind(clientID[s], s, request[s].id, request[s].allow)
        \/ UpdateWhitelistRefused(clientID[s], s, request[s].id)
    BY <1>3 DEF HandleUpdateWhitelist
  <2>. QED
    BY <2>1, <2>2 DEF RegStep
<1>4. ASSUME NEW s \in Sessions, FinishUpdateWhitelist(s)
      PROVE  RegStep
  BY <1>4 DEF FinishUpdateWhitelist, RegStep
<1>5. ASSUME NEW s \in Sessions, DeferredRemove(s)
      PROVE  RegStep
  BY <1>5 DEF DeferredRemove, RegStep, CSInv, UpdateOwnService
<1>6. ASSUME NEW s \in Sessions,
             \/ AcceptControlError(s) \/ DecodeError(s) \/ HandleUnauthenticated(s)
             \/ HandleAuth(s) \/ HandlePlain(s) \/ DeferredClose(s)
             \/ AcceptorStep(s) \/ PeerStep(s)
      PROVE  UNCHANGED regVars
  BY <1>6 DEF AcceptControlError, DecodeError, HandleUnauthenticated, HandleAuth,
       HandlePlain, DeferredClose, AcceptorStep, AcceptorAuthed, AcceptorReturns,
       PeerStep, Accept, AcceptControl, SessionLost, Send, Receive
<1>. QED
  BY <1>1, <1>2, <1>3, <1>4, <1>5, <1>6 DEF CSNext, HandlerStep

-----------------------------------------------------------------------------
(* The three other conjuncts of the invariant, action by action. *)

LEMMA TypeStep == CSInv /\ [CSNext]_csVars => SessTypeOK'
<1> SUFFICES ASSUME CSInv, [CSNext]_csVars PROVE SessTypeOK'
  OBVIOUS
<1>. USE DEF CSInv, SessTypeOK
<1>1. CASE UNCHANGED csVars
  BY <1>1 DEF csVars, sessVars
<1>2. ASSUME NEW s \in Sessions, PeerStep(s)
      PROVE  SessTypeOK'
  <2>1. CASE \E m \in Message : Send(s, m)
    <3>1. PICK m \in Message : Send(s, m)
      BY <2>1
    <3>2. request' \in [Sessions -> Message \cup {NoMsg}]
      BY <3>1 DEF Send
    <3>3. sent' \in Nat
      BY <3>1, SMTT(30) DEF Send
    <3>. QED
      BY <3>1, <3>2, <3>3 DEF Send
  <2>2. CASE Receive(s)
    BY <2>2 DEF Receive
  <2>3. CASE Accept(s) \/ AcceptControl(s) \/ SessionLost(s)
    BY <2>3 DEF Accept, AcceptControl, SessionLost, HandlerStates
  <2>. QED
    BY <1>2, <2>1, <2>2, <2>3 DEF PeerStep
<1>3. ASSUME NEW s \in Sessions, AcceptorStep(s)
      PROVE  SessTypeOK'
  BY <1>3 DEF AcceptorStep, AcceptorAuthed, AcceptorReturns
<1>4. ASSUME NEW s \in Sessions, HandleAuth(s)
      PROVE  SessTypeOK'
  <2>1. handler' \in [Sessions -> HandlerStates]
    BY <1>4 DEF HandleAuth, Goto, HandlerStates
  <2>2. clientID' \in [Sessions -> Clients \cup {NoClient}]
    BY <1>4 DEF HandleAuth
  <2>3. authed' \in [Sessions -> Clients \cup {NoClient}]
    BY <1>4 DEF HandleAuth
  <2>4. request' \in [Sessions -> Message \cup {NoMsg}]
    BY <1>4 DEF HandleAuth, Answer
  <2>5. reply' \in [Sessions -> {Ack(TRUE), Ack(FALSE), NoMsg}]
    BY <1>4 DEF HandleAuth, Answer
  <2>6. UNCHANGED <<alive, acceptor, sent>>
    BY <1>4 DEF HandleAuth
  <2>. QED
    BY <2>1, <2>2, <2>3, <2>4, <2>5, <2>6
<1>5. ASSUME NEW s \in Sessions,
             \/ HandleRegister(s) \/ HandleUpdateWhitelist(s)
             \/ FinishUpdateWhitelist(s) \/ HandlePlain(s)
      PROVE  SessTypeOK'
  BY <1>5 DEF HandleRegister, HandleUpdateWhitelist, FinishUpdateWhitelist, HandlePlain,
       Answer, Goto, HandlerStates
<1>6. ASSUME NEW s \in Sessions,
             \/ AcceptControlError(s) \/ DecodeError(s) \/ HandleUnauthenticated(s)
             \/ DeferredRemove(s) \/ DeferredClose(s)
      PROVE  SessTypeOK'
  BY <1>6 DEF AcceptControlError, DecodeError, HandleUnauthenticated, DeferredRemove,
       DeferredClose, Answer, Goto, HandlerStates
<1>. QED
  BY <1>1, <1>2, <1>3, <1>4, <1>5, <1>6 DEF CSNext, HandlerStep

LEMMA UpdateStep == CSInv /\ [CSNext]_csVars => UpdateOwnService'
<1> SUFFICES ASSUME CSInv, [CSNext]_csVars PROVE UpdateOwnService'
  BY SMTT(30)
<1>. USE DEF CSInv, SessTypeOK, UpdateOwnService
<1>0. found \in [Sessions -> Update \cup {NoUpdate}]
  BY DEF IInv, RegTypeOK
<1>1. CASE UNCHANGED csVars
  BY <1>1 DEF csVars, sessVars, regVars
<1>2. ASSUME NEW s \in Sessions, PeerStep(s)
      PROVE  UpdateOwnService'
  BY <1>2 DEF PeerStep, Accept, AcceptControl, SessionLost, Send, Receive, regVars
<1>3. ASSUME NEW s \in Sessions, AcceptorStep(s)
      PROVE  UpdateOwnService'
  BY <1>3 DEF AcceptorStep, AcceptorAuthed, AcceptorReturns, regVars
<1>4. ASSUME NEW s \in Sessions, HandleUpdateWhitelist(s)
      PROVE  UpdateOwnService'
  <2>1. CASE found' = found /\ handler' = handler
    BY <1>4, <2>1 DEF HandleUpdateWhitelist
  <2>2. ASSUME UpdateWhitelistFind(clientID[s], s, request[s].id, request[s].allow),
               Goto(s, "updating")
        PROVE  UpdateOwnService'
    <3>1. PICK t : /\ t.client = clientID[s]
                   /\ found' = [found EXCEPT ![s] = [pending |-> TRUE, svc |-> t,
                                                   allow |-> request[s].allow]]
      BY <2>2 DEF UpdateWhitelistFind
    <3>. QED
      BY <1>0, <1>4, <2>2, <3>1 DEF HandleUpdateWhitelist, Goto
  <2>. QED
    BY <1>4, <2>1, <2>2 DEF HandleUpdateWhitelist, UpdateWhitelistRefused, regVars
<1>5. ASSUME NEW s \in Sessions, FinishUpdateWhitelist(s)
      PROVE  UpdateOwnService'
  BY <1>0, <1>5 DEF FinishUpdateWhitelist, UpdateWhitelistReplace, Goto, NoUpdate
<1>6. ASSUME NEW s \in Sessions,
             \/ AcceptControlError(s) \/ DecodeError(s) \/ HandleUnauthenticated(s)
             \/ HandleAuth(s) \/ HandleRegister(s) \/ HandlePlain(s)
             \/ DeferredRemove(s) \/ DeferredClose(s)
      PROVE  UpdateOwnService'
  <2>1. found' = found
    BY <1>6 DEF AcceptControlError, DecodeError, HandleUnauthenticated, HandleAuth,
         HandleRegister, HandlePlain, DeferredRemove, DeferredClose, regVars,
         RegisterParseError, RegisterConflict, RegisterCommit, RemoveSession
  <2>2. ~found[s].pending
    BY <1>6 DEF AcceptControlError, DecodeError, HandleUnauthenticated, HandleAuth,
         HandleRegister, HandlePlain, DeferredRemove, DeferredClose, Decoded
  <2>3. /\ handler'[s] # "updating"
        /\ \A t \in Sessions \ {s} : handler'[t] = handler[t] /\ clientID'[t] = clientID[t]
    BY <1>6 DEF AcceptControlError, DecodeError, HandleUnauthenticated, HandleAuth,
         HandleRegister, HandlePlain, DeferredRemove, DeferredClose, Decoded, Goto
  <2>. QED
    BY <2>1, <2>2, <2>3
<1>. QED
  BY <1>1, <1>2, <1>3, <1>4, <1>5, <1>6 DEF CSNext, HandlerStep

(* A committed entry carries the session it came over. *)
LEMMA CommittedEntries ==
  ASSUME NEW c, NEW s, NEW reg, RegisterCommit(c, s, reg), NEW e \in Entries'
  PROVE  e \in Entries \/ e.sess = s
<1>1. \A i : NewService(c, s, reg.services, i, version + 1).sess = s
  BY DEF NewService
<1>2. \A x \in NewRaw(c, s, reg.services, version + 1)
           \cup NewHTTP(c, s, reg.services, version + 1) : x.sess = s
  BY <1>1 DEF NewRaw, NewHTTP
<1>3. CASE e \in certs'
  BY <1>3, SMTT(30) DEF RegisterCommit, Others, Entries
<1>4. CASE e \in raw' \cup http'
  BY <1>2, <1>4 DEF RegisterCommit, Others, Entries, Services
<1>. QED
  BY <1>3, <1>4 DEF Entries, Services

LEMMA ServedStep == CSInv /\ [CSNext]_csVars => PublishedSessionsAreServed'
<1> SUFFICES ASSUME CSInv, [CSNext]_csVars PROVE PublishedSessionsAreServed'
  BY SMTT(30)
<1>. USE DEF CSInv, SessTypeOK, PublishedSessionsAreServed
<1>1. CASE UNCHANGED csVars
  BY <1>1 DEF csVars, sessVars, regVars, Entries, Services
<1>2. ASSUME NEW s \in Sessions, PeerStep(s)
      PROVE  PublishedSessionsAreServed'
  BY <1>2 DEF PeerStep, Accept, AcceptControl, SessionLost, Send, Receive, regVars,
       Entries, Services
<1>3. ASSUME NEW s \in Sessions, AcceptorStep(s)
      PROVE  PublishedSessionsAreServed'
  BY <1>3 DEF AcceptorStep, AcceptorAuthed, AcceptorReturns, regVars, Entries, Services
<1>4. ASSUME NEW s \in Sessions, HandleRegister(s)
      PROVE  PublishedSessionsAreServed'
  <2>1. handler[s] = "loop" /\ clientID[s] # NoClient
    BY <1>4 DEF HandleRegister, Decoded
  <2>2. handler' = handler /\ clientID' = clientID
    BY <1>4 DEF HandleRegister
  <2>3. \A e \in Entries' : e \in Entries \/ e.sess = s
    <3>1. CASE RegisterCommit(clientID[s], s, request[s].reg)
      BY <3>1, CommittedEntries
    <3>2. CASE \/ RegisterParseError(clientID[s], request[s].reg)
               \/ RegisterConflict(clientID[s], request[s].reg)
      BY <3>2 DEF RegisterParseError, RegisterConflict, removeClientLocked, Others,
           regVars, Entries, Services
    <3>. QED
      BY <1>4, <3>1, <3>2 DEF HandleRegister
  <2>. QED
    BY <2>1, <2>2, <2>3
<1>5. ASSUME NEW s \in Sessions, HandleUpdateWhitelist(s) \/ FinishUpdateWhitelist(s)
      PROVE  PublishedSessionsAreServed'
  <2>1. Entries' = Entries /\ clientID' = clientID
    BY <1>5 DEF HandleUpdateWhitelist, FinishUpdateWhitelist, UpdateWhitelistFind,
         UpdateWhitelistRefused, UpdateWhitelistReplace, regVars, Entries, Services
  <2>2. \A t \in Sessions : handler'[t] = handler[t] \/ handler'[t] \in {"loop", "updating"}
    BY <1>5 DEF HandleUpdateWhitelist, FinishUpdateWhitelist, Goto
  <2>. QED
    BY <2>1, <2>2
<1>6. ASSUME NEW s \in Sessions,
             \/ DecodeError(s) \/ HandleUnauthenticated(s) \/ HandleAuth(s)
             \/ HandlePlain(s)
      PROVE  PublishedSessionsAreServed'
  <2>1. Entries' = Entries
    BY <1>6 DEF DecodeError, HandleUnauthenticated, HandleAuth, HandlePlain, regVars,
         Entries, Services
  <2>2. \A t \in Sessions : handler'[t] = handler[t] \/ handler'[t] = "leaving"
    BY <1>6 DEF DecodeError, HandleUnauthenticated, HandleAuth, HandlePlain, Goto
  <2>3. \A t \in Sessions : clientID[t] # NoClient => clientID'[t] # NoClient
    <3>1. CASE DecodeError(s) \/ HandleUnauthenticated(s) \/ HandlePlain(s)
      BY <3>1 DEF DecodeError, HandleUnauthenticated, HandlePlain
    <3>2. CASE HandleAuth(s)
      <4>1. CASE clientID' = clientID
        BY <4>1
      <4>2. CASE request[s].uuid \in Clients /\ clientID' = [clientID EXCEPT ![s] = request[s].uuid]
        BY <4>2, OwnersDistinct
      <4>. QED
        BY <3>2, <4>1, <4>2 DEF HandleAuth
    <3>. QED
      BY <1>6, <3>1, <3>2
  <2>. QED
    BY <2>1, <2>2, <2>3
<1>7. ASSUME NEW s \in Sessions, DeferredRemove(s)
      PROVE  PublishedSessionsAreServed'
  BY <1>7 DEF DeferredRemove, RemoveSession, NotOf, Goto, Entries, Services
<1>8. ASSUME NEW s \in Sessions, AcceptControlError(s) \/ DeferredClose(s)
      PROVE  PublishedSessionsAreServed'
  BY <1>8 DEF AcceptControlError, DeferredClose, Goto, regVars, Entries, Services
<1>. QED
  BY <1>1, <1>2, <1>3, <1>4, <1>5, <1>6, <1>7, <1>8 DEF CSNext, HandlerStep

-----------------------------------------------------------------------------
(* The inductive invariant of the control server. *)
THEOREM ControlServerInvariant == CSSpec => []CSInv
<1>1. CSInv /\ [CSNext]_csVars => CSInv'
  <2> SUFFICES ASSUME CSInv, [CSNext]_csVars PROVE CSInv'
    OBVIOUS
  <2>1. IInv'
    BY CSStepIsRegStep, NextIInv DEF CSInv
  <2>. QED
    BY <2>1, TypeStep, UpdateStep, ServedStep DEF CSInv
<1>. QED
  BY <1>1, CSInitInv, PTL DEF CSSpec

(* The state of every session is well formed in every reachable state. *)
THEOREM ControlServerTypeOK == CSSpec => []CSTypeOK
<1>1. CSInv => CSTypeOK
  BY DEF CSInv, IInv, SessTypeOK, CSTypeOK
<1>. QED
  BY <1>1, ControlServerInvariant, PTL

(* The control server implements the registry: whatever the interleaving   *)
(* of sessions, losses and messages, the calls its handlers make are a     *)
(* behaviour of Registry.                                                  *)
THEOREM ControlServerImplementsRegistry == CSSpec => ImplementsRegistry
<1>1. CSInit => RegInit
  BY DEF CSInit
<1>2. CSInv /\ [CSNext]_csVars => [RegStep]_regVars
  BY CSStepIsRegStep
<1>. QED
  BY <1>1, <1>2, ControlServerInvariant, PTL DEF CSSpec, ImplementsRegistry, RegSpec

(* So hosts and paths are first come, first served for every number of     *)
(* sessions, reconnections and messages.                                   *)
THEOREM ServerFirstComeFirstServed == CSSpec => []FirstComeFirstServed
BY ControlServerImplementsRegistry, FirstComeFirstServedHolds, PTL DEF ImplementsRegistry

(* Nothing is published over a session whose handler has cleaned up. *)
THEOREM PublishedSessionsAreServedHolds == CSSpec => []PublishedSessionsAreServed
<1>1. CSInv => PublishedSessionsAreServed
  BY DEF CSInv
<1>. QED
  BY <1>1, ControlServerInvariant, PTL

(* An update in progress is to a service of the client it was asked by. *)
THEOREM UpdateOwnServiceHolds == CSSpec => []UpdateOwnService
<1>1. CSInv => UpdateOwnService
  BY DEF CSInv
<1>. QED
  BY <1>1, ControlServerInvariant, PTL

(* A session that ends takes down only its own entries: what its client    *)
(* has registered over a newer session stays published.                    *)
THEOREM NewerSessionSurvivesHolds == CSSpec => NewerSessionSurvives
<1>1. ASSUME CSInv, [CSNext]_csVars, NEW s \in Sessions, handler[s] = "leaving",
             handler'[s] = "removed"
      PROVE  DeferredRemove(s)
  <2>. USE <1>1 DEF CSInv, SessTypeOK
  <2>1. PICK t \in Sessions : HandlerStep(t)
    BY DEF CSNext, csVars, sessVars, AcceptorStep, AcceptorAuthed, AcceptorReturns,
         PeerStep, Accept, AcceptControl, SessionLost, Send, Receive
  <2>2. ~(AcceptControlError(t) \/ DecodeError(t) \/ HandleUnauthenticated(t)
          \/ HandleAuth(t) \/ HandleRegister(t) \/ HandlePlain(t) \/ DeferredClose(t))
    BY DEF AcceptControlError, DecodeError, HandleUnauthenticated, HandleAuth,
         HandleRegister, HandlePlain, DeferredClose, Goto
  <2>3. ~(HandleUpdateWhitelist(t) \/ FinishUpdateWhitelist(t))
    BY DEF HandleUpdateWhitelist, FinishUpdateWhitelist, Goto
  <2>4. DeferredRemove(t)
    BY <2>1, <2>2, <2>3 DEF HandlerStep
  <2>. QED
    BY <2>4 DEF DeferredRemove, Goto
<1>2. ASSUME NEW s \in Sessions, DeferredRemove(s), NEW e \in Entries, e.sess # s
      PROVE  e \in Entries'
  BY <1>2 DEF DeferredRemove, RemoveSession, NotOf, Entries, Services
<1>3. CSInv /\ [CSNext]_csVars =>
        [\A s \in Sessions : handler[s] = "leaving" /\ handler'[s] = "removed" =>
           \A e \in Entries : e.sess # s => e \in Entries']_csVars
  BY <1>1, <1>2
<1>. QED
  BY <1>3, ControlServerInvariant, PTL DEF CSSpec, NewerSessionSurvives

-----------------------------------------------------------------------------
(* Client: what holds of the client, whatever the server does. *)

CallState == {NoCall} \cup [at : {"fetched", "stored", "waiting"}, id : IDs, list : Lists]

ClientTypeOK ==
  /\ cpc \in {"dial", "auth", "authing", "snapshot", "register", "registering", "up",
              "beating", "ending", "closing", "backoff"}
  /\ enc \in Sessions \cup {NoSession}
  /\ connected \in BOOLEAN
  /\ whitelists \in [IDs -> Lists]
  /\ snapshot \in [IDs -> Lists]
  /\ sendMu \in Callers \cup {Main, Nobody}
  /\ via \in Sessions \cup {NoSession}
  /\ call \in [Callers -> CallState]
  /\ clean \in BOOLEAN

(* Who holds sendMu, and on which session: Run while it waits for an ack,  *)
(* a command while it does.  Without a session there is nothing to send.   *)
Locking ==
  /\ sendMu # Nobody => via \in Sessions
  /\ sendMu = Main <=> cpc \in {"authing", "registering", "beating"}
  /\ sendMu = Main => via = enc
  /\ \A u \in Callers : call[u].at = "waiting" <=> sendMu = u
  /\ enc = NoSession => /\ cpc \in {"dial", "backoff"} /\ connected = FALSE
                        /\ \A u \in Callers : call[u].at # "stored"

ClientInv == ClientTypeOK /\ Locking

LEMMA IdleCall == NoCall.at = "idle"
BY DEF NoCall

LEMMA ClientInitInv == ClientInit => ClientInv
<1> SUFFICES ASSUME ClientInit PROVE ClientInv
  BY SMTT(30)
<1>1. initAllow \in [IDs -> Lists]
  BY ClientAssumption DEF Lists
<1>2. ClientTypeOK
  BY <1>1 DEF ClientInit, ClientTypeOK, CallState
<1>3. \A u \in Callers : call[u].at = "idle" /\ u # Nobody
  BY ClientAssumption DEF ClientInit, NoCall
<1>4. Locking
  BY <1>3, ClientAssumption DEF ClientInit, Locking
<1>. QED
  BY <1>2, <1>4 DEF ClientInv

(* A list for every id, and the entry of a call. *)
LEMMA CallContents ==
  ASSUME ClientTypeOK, NEW u \in Callers, call[u].at # "idle"
  PROVE  /\ call[u] \in [at : {"fetched", "stored", "waiting"}, id : IDs, list : Lists]
         /\ call[u].id \in IDs /\ call[u].list \in Lists
<1>1. call[u] \in CallState
  BY DEF ClientTypeOK
<1>2. call[u] # NoCall
  BY SMTT(30) DEF NoCall
<1>. QED
  BY <1>1, <1>2 DEF CallState

LEMMA EditedType ==
  ASSUME NEW list \in Lists, NEW src \in Sources, NEW new \in Edited(list, src)
  PROVE  new \in Lists
BY DEF Edited, Lists, AllowLists

-----------------------------------------------------------------------------
(* The type invariant, for the goroutine of Run and for a command. *)
LEMMA MainTypeStep ==
  ASSUME ClientInv, MainStep \/ DialFails
  PROVE  ClientTypeOK'
<1>. USE DEF ClientInv, ClientTypeOK
<1>0. initAllow \in [IDs -> Lists]
  BY ClientAssumption DEF Lists
<1>1. CASE \E s \in Sessions : Connect(s)
  BY <1>1 DEF Connect
<1>2. CASE MainSends
  BY <1>0, <1>2 DEF MainSends, SendAuth, SendRegister, Heartbeat, Transmit
<1>3. CASE MainAcked
  BY <1>3 DEF MainAcked, Acked
<1>4. CASE MainFails
  BY <1>0, <1>4 DEF MainFails, Failed
<1>5. CASE Snapshot
  BY <1>5 DEF Snapshot
<1>6. CASE CarrierClosed \/ Disconnect \/ Close \/ Retry \/ DialFails
  BY <1>6 DEF CarrierClosed, Disconnect, Close, Retry, DialFails
<1>. QED
  BY <1>1, <1>2, <1>3, <1>4, <1>5, <1>6 DEF MainStep

LEMMA CallerTypeStep ==
  ASSUME ClientInv, NEW u \in Callers, CommandStarts(u) \/ CallerStep(u)
  PROVE  ClientTypeOK'
<1>. USE DEF ClientInv, ClientTypeOK
<1>1. ASSUME NEW id \in IDs, fetchAllow(u, id) PROVE ClientTypeOK'
  <2>1. [at |-> "fetched", id |-> id, list |-> whitelists[id]] \in CallState
    BY DEF CallState
  <2>. QED
    BY <1>1, <2>1 DEF fetchAllow
<1>2. ASSUME NEW id \in IDs, NEW list \in Lists, UpdateWhitelist(u, id, list)
      PROVE  ClientTypeOK'
  <2>1. [at |-> "stored", id |-> id, list |-> list] \in CallState /\ NoCall \in CallState
    BY DEF CallState
  <2>. QED
    BY <1>2, <2>1 DEF UpdateWhitelist
<1>3. CASE WhitelistAddRemove(u)
  <2>1. call[u].id \in IDs /\ call[u].list \in Lists
    BY <1>3, CallContents DEF WhitelistAddRemove
  <2>2. PICK src \in Sources : \E list \in Edited(call[u].list, src) :
          UpdateWhitelist(u, call[u].id, list)
    BY <1>3 DEF WhitelistAddRemove
  <2>. QED
    BY <1>2, <2>1, <2>2, EditedType
<1>4. CASE SendUpdate(u)
  <2>1. [call[u] EXCEPT !.at = "waiting"] \in CallState
    BY <1>4, CallContents DEF SendUpdate, CallState
  <2>. QED
    BY <1>4, <2>1 DEF SendUpdate, Transmit
<1>5. CASE UpdateAcked(u) \/ UpdateFails(u)
  <2>1. NoCall \in CallState
    BY DEF CallState
  <2>. QED
    BY <1>5, <2>1 DEF UpdateAcked, UpdateFails, Acked, Failed
<1>. QED
  BY <1>1, <1>2, <1>3, <1>4, <1>5 DEF CommandStarts, CallerStep, WhitelistSet
LEMMA MainLockingStep ==
  ASSUME ClientInv, MainStep \/ DialFails
  PROVE  Locking'
<1>t. enc \in Sessions \cup {NoSession} /\ DOMAIN call = Callers
  BY DEF ClientInv, ClientTypeOK
<1>l. Locking
  BY DEF ClientInv
<1>. USE <1>t, <1>l DEF Locking
<1>0. Main # Nobody /\ \A u \in Callers : u # Main /\ u # Nobody
  BY ClientAssumption
<1>1. ASSUME NEW s \in Sessions, Connect(s) PROVE Locking'
  BY <1>1, OwnersDistinct DEF Connect
<1>2. CASE MainSends
  <2>1. enc \in Sessions /\ sendMu = Nobody
    BY <1>2 DEF MainSends, SendAuth, SendRegister, Heartbeat, Transmit
  <2>2. /\ sendMu' = Main /\ via' = enc /\ cpc' \in {"authing", "registering", "beating"}
        /\ UNCHANGED <<enc, connected, call>>
    BY <1>2 DEF MainSends, SendAuth, SendRegister, Heartbeat, Transmit
  <2>. QED
    BY <1>0, <2>1, <2>2, OwnersDistinct
<1>3. CASE MainAcked
  <2>1. /\ sendMu = Main /\ sendMu' = Nobody /\ cpc' \in {"ending", "snapshot", "up"}
        /\ UNCHANGED <<enc, connected, call>>
    BY <1>3 DEF MainAcked, Acked
  <2>. QED
    BY <1>0, <1>3, <2>1 DEF MainAcked
<1>4. CASE MainFails
  <2>1. /\ sendMu \in {Main, Nobody} /\ sendMu' = Nobody /\ cpc' = "ending"
        /\ UNCHANGED <<enc, connected, call>>
    BY <1>4 DEF MainFails, Failed
  <2>. QED
    BY <1>0, <1>4, <2>1 DEF MainFails
<1>5. CASE Snapshot \/ CarrierClosed \/ Disconnect \/ Close \/ Retry \/ DialFails
  <2>1. UNCHANGED <<enc, sendMu, via, call>> /\ connected' \in {connected, FALSE}
    BY <1>5 DEF Snapshot, CarrierClosed, Disconnect, Close, Retry, DialFails
  <2>2. /\ cpc \notin {"authing", "registering", "beating"}
        /\ cpc' \notin {"authing", "registering", "beating"}
        /\ cpc \in {"dial", "backoff"} => cpc' \in {"dial", "backoff"}
    BY <1>5 DEF Snapshot, CarrierClosed, Disconnect, Close, Retry, DialFails
  <2>. QED
    BY <2>1, <2>2
<1>. QED
  BY <1>1, <1>2, <1>3, <1>4, <1>5 DEF MainStep

LEMMA CallerLockingStep ==
  ASSUME ClientInv, NEW u \in Callers, CommandStarts(u) \/ CallerStep(u)
  PROVE  Locking'
<1>t. enc \in Sessions \cup {NoSession} /\ DOMAIN call = Callers
  BY DEF ClientInv, ClientTypeOK
<1>l. Locking
  BY DEF ClientInv
<1>0. Main # Nobody /\ \A v \in Callers : v # Main /\ v # Nobody
  BY ClientAssumption
<1>1. ASSUME NEW id, call[u] = NoCall, fetchAllow(u, id) PROVE Locking'
  <2>0. call[u].at = "idle"
    BY <1>1, IdleCall
  <2>1. UNCHANGED <<cpc, enc, connected, sendMu, via>>
    BY <1>1 DEF fetchAllow
  <2>2. call'[u].at = "fetched" /\ \A v \in Callers \ {u} : call'[v] = call[v]
    BY <1>1, <1>t DEF fetchAllow
  <2>. QED
    BY <1>l, <2>0, <2>1, <2>2 DEF Locking
<1>2. ASSUME NEW id, NEW list, call[u].at # "waiting", UpdateWhitelist(u, id, list)
      PROVE  Locking'
  <2>1. /\ call'[u].at \in {"idle", "stored"} /\ (call'[u].at = "stored" => connected)
        /\ \A v \in Callers \ {u} : call'[v] = call[v]
    BY <1>2, <1>t DEF UpdateWhitelist, NoCall
  <2>2. UNCHANGED <<cpc, enc, connected, sendMu, via>>
    BY <1>2 DEF UpdateWhitelist
  <2>. QED
    BY <1>2, <1>l, <2>1, <2>2 DEF Locking
<1>3. CASE WhitelistAddRemove(u)
  <2>1. call[u].at # "waiting"
    BY <1>3 DEF WhitelistAddRemove
  <2>2. PICK list : UpdateWhitelist(u, call[u].id, list)
    BY <1>3 DEF WhitelistAddRemove
  <2>. QED
    BY <1>2, <2>1, <2>2
<1>4. CASE SendUpdate(u)
  <2>1. enc \in Sessions /\ sendMu = Nobody /\ sendMu' = u /\ via' = enc
    BY <1>4, <1>l, <1>t DEF SendUpdate, Transmit, Locking
  <2>2. /\ call'[u].at = "waiting" /\ \A v \in Callers \ {u} : call'[v] = call[v]
        /\ UNCHANGED <<cpc, enc, connected>>
    <3>1. call[u] \in [at : {"fetched", "stored", "waiting"}, id : IDs, list : Lists]
      BY <1>4, CallContents DEF SendUpdate, ClientInv
    <3>. QED
      BY <1>4, <1>t, <3>1 DEF SendUpdate
  <2>. QED
    BY <1>0, <1>l, <2>1, <2>2, OwnersDistinct DEF Locking
<1>5. CASE UpdateAcked(u) \/ UpdateFails(u)
  <2>1. sendMu \in {u, Nobody} /\ sendMu' = Nobody /\ UNCHANGED <<cpc, enc, connected>>
    BY <1>5 DEF UpdateAcked, UpdateFails, Acked, Failed
  <2>2. call' = [call EXCEPT ![u] = NoCall]
    BY <1>5 DEF UpdateAcked, UpdateFails
  <2>3. call'[u].at = "idle" /\ \A v \in Callers \ {u} : call'[v] = call[v]
    BY <1>t, <2>2, IdleCall
  <2>. QED
    BY <1>0, <1>l, <2>1, <2>3 DEF Locking
<1>6. ASSUME NEW id, NEW list, WhitelistSet(u, id, list) PROVE Locking'
  <2>1. call[u].at # "waiting" /\ UpdateWhitelist(u, id, list)
    BY <1>6, IdleCall DEF WhitelistSet
  <2>. QED
    BY <1>2, <2>1
<1>7. ASSUME NEW id, fetchAllow(u, id) PROVE Locking'
  BY <1>1, <1>7 DEF fetchAllow
<1>. QED
  BY <1>3, <1>4, <1>5, <1>6, <1>7 DEF CommandStarts, CallerStep

LEMMA ClientStepInv == ClientInv /\ [ClientNext]_sysVars => ClientInv'
<1> SUFFICES ASSUME ClientInv, [ClientNext]_sysVars PROVE ClientInv'
  BY SMTT(30)
<1>1. ASSUME UNCHANGED clientVars PROVE ClientInv'
  BY <1>1 DEF clientVars, ClientInv, ClientTypeOK, Locking
<1>2. CASE UNCHANGED sysVars
  BY <1>1, <1>2 DEF sysVars
<1>3. CASE MainStep \/ DialFails
  BY <1>3, MainTypeStep, MainLockingStep DEF ClientInv
<1>4. ASSUME NEW u \in Callers, CommandStarts(u) \/ CallerStep(u) PROVE ClientInv'
  BY <1>4, CallerTypeStep, CallerLockingStep DEF ClientInv
<1>5. ASSUME NEW s \in Sessions, ServerStep(s) \/ NetworkLoss(s) PROVE ClientInv'
  BY <1>1, <1>5 DEF ServerStep, NetworkLoss
<1>. QED
  BY <1>2, <1>3, <1>4, <1>5 DEF ClientNext

-----------------------------------------------------------------------------
(* Client and server together behave like the control server alone: what   *)
(* the client sends are messages, on sessions it has.                      *)
LEMMA ClientMessages ==
  ASSUME ClientInv
  PROVE  /\ [type |-> "auth", uuid |-> uuid] \in Message
         /\ [type |-> "register", reg |-> currentServices(snapshot)] \in Message
         /\ [type |-> "heartbeat"] \in Message
         /\ \A u \in Callers : call[u].at = "stored" =>
              [type |-> "update_whitelist", id |-> call[u].id, allow |-> call[u].list]
                \in Message
<1>1. [type |-> "auth", uuid |-> uuid] \in Message
  BY ClientAssumption DEF Message, Auth
<1>2. [type |-> "register", reg |-> currentServices(snapshot)] \in Message
  <2>1. currentServices(snapshot) \in Registrations
    BY ClientAssumption DEF ClientInv, ClientTypeOK
  <2>. QED
    BY <2>1 DEF Message, RegisterReq
<1>3. [type |-> "heartbeat"] \in Message
  BY DEF Message, Plain
<1>4. IDs \subseteq KnownIDs
  <2> SUFFICES ASSUME NEW i \in DOMAIN services PROVE ID(services[i]) \in KnownIDs
    BY DEF IDs
  <2>1. currentServices(initAllow) \in RegisterMsg
    BY ClientAssumption, MessageAssumption DEF Lists
  <2>2. currentServices(initAllow).services \in Seq(ServiceReg)
    BY <2>1 DEF RegisterMsg
  <2>3. currentServices(initAllow).services[i] \in ServiceReg
    BY <2>2, SMTT(30) DEF currentServices
  <2>4. /\ services[i].mode \in Modes \cup {"other"}
        /\ services[i].host \in Hosts /\ services[i].path \in Paths
    BY <2>3 DEF currentServices, ServiceReg
  <2>5. CASE services[i].mode \in Modes
    BY <2>4, <2>5, SMTT(30) DEF KnownIDs, ID
  <2>6. CASE services[i].mode = "other"
    <3>1. ID(services[i]) = ServiceID("http", services[i].host, services[i].path)
      BY <2>6 DEF ID, ServiceID
    <3>2. "http" \in Modes
      BY DEF Modes
    <3>. QED
      BY <2>4, <3>1, <3>2, SMTT(30) DEF KnownIDs
  <2>. QED
    BY <2>4, <2>5, <2>6
<1>5. ASSUME NEW u \in Callers, call[u].at = "stored"
      PROVE  [type |-> "update_whitelist", id |-> call[u].id, allow |-> call[u].list]
               \in Message
  <2>1. call[u].id \in KnownIDs /\ call[u].list \in {BadAllow} \cup AllowLists
    BY <1>4, <1>5, CallContents DEF ClientInv, Lists
  <2>. QED
    BY <2>1 DEF Message, UpdateReq
<1>. QED
  BY <1>1, <1>2, <1>3, <1>5

LEMMA ClientStepIsServerStep ==
  ASSUME ClientInv, [ClientNext]_sysVars
  PROVE  [CSNext]_csVars
<1>. USE DEF ClientInv, Locking, ClientTypeOK
<1>1. CASE UNCHANGED sysVars
  BY <1>1 DEF sysVars
<1>2. ASSUME NEW s \in Sessions, NEW m \in Message, Send(s, m) PROVE CSNext
  BY <1>2 DEF CSNext, PeerStep
<1>3. ASSUME NEW s \in Sessions, Receive(s) \/ Accept(s) \/ SessionLost(s) PROVE CSNext
  BY <1>3 DEF CSNext, PeerStep
<1>4. CASE MainSends
  <2>1. enc \in Sessions
    BY <1>4 DEF MainSends, SendAuth, SendRegister, Heartbeat
  <2>. QED
    BY <1>2, <1>4, <2>1, ClientMessages
       DEF MainSends, SendAuth, SendRegister, Heartbeat, Transmit
<1>5. ASSUME NEW p, p # Nobody, NEW ok, Acked(p, ok) PROVE CSNext
  <2>1. via \in Sessions
    BY <1>5 DEF Acked
  <2>. QED
    BY <1>3, <1>5, <2>1 DEF Acked
<1>6. CASE MainAcked
  BY <1>5, <1>6, ClientAssumption DEF MainAcked
<1>7. CASE Close
  <2>1. enc \in Sessions
    BY <1>7 DEF Close
  <2>. QED
    BY <1>3, <1>7, <2>1 DEF Close
<1>8. CASE MainFails \/ Snapshot \/ CarrierClosed \/ Disconnect \/ Retry \/ DialFails
  BY <1>8 DEF MainFails, Failed, Snapshot, CarrierClosed, Disconnect, Retry, DialFails
<1>9. CASE MainStep
  BY <1>3, <1>4, <1>6, <1>7, <1>8, <1>9 DEF MainStep, Connect
<1>10. ASSUME NEW u \in Callers, SendUpdate(u) PROVE CSNext
  <2>1. enc \in Sessions
    BY <1>10 DEF SendUpdate
  <2>. QED
    BY <1>2, <1>10, <2>1, ClientMessages DEF SendUpdate, Transmit
<1>11. ASSUME NEW u \in Callers, UpdateAcked(u) PROVE CSNext
  BY <1>5, <1>11, ClientAssumption DEF UpdateAcked
<1>12. ASSUME NEW u \in Callers, CommandStarts(u) \/ WhitelistAddRemove(u) \/ UpdateFails(u)
       PROVE  UNCHANGED csVars
  BY <1>12 DEF CommandStarts, fetchAllow, WhitelistSet, WhitelistAddRemove, UpdateWhitelist,
       UpdateFails, Failed
<1>13. ASSUME NEW s \in Sessions, ServerStep(s) \/ NetworkLoss(s) PROVE CSNext
  BY <1>13 DEF ServerStep, NetworkLoss, CSNext, PeerStep
<1>. QED
  BY <1>1, <1>8, <1>9, <1>10, <1>11, <1>12, <1>13 DEF ClientNext, CallerStep

(* The state of the client is well formed, sendMu is held exactly by who   *)
(* waits for an ack, and there is a session whenever something is sent.    *)
THEOREM ClientInvariant == ClientSpec => []ClientInv
BY ClientInitInv, ClientStepInv, PTL DEF ClientSpec

(* The client drives the server only in ways the control server allows for *)
(* any peer: whatever the interleaving of Run, commands, handlers and      *)
(* losses, the server's part is a behaviour of ControlServer, so that      *)
(* everything proved of ControlServer and of Registry holds of it.         *)
THEOREM ClientImplementsServer == ClientSpec => CSSpec
<1>1. ClientInit => CSInit
  BY DEF ClientInit
<1>2. ClientInv /\ [ClientNext]_sysVars => [CSNext]_csVars
  BY ClientStepIsServerStep, SMTT(30)
<1>. QED
  BY <1>1, <1>2, ClientInvariant, PTL DEF ClientSpec, CSSpec
-----------------------------------------------------------------------------
(* What the steps of the composition do to the server. *)
OwnMessage(m) == m \in Message /\ (m.type = "auth" => m.uuid = uuid)

ServerAction ==
  \/ UNCHANGED csVars
  \/ enc \in Sessions /\ \E m : OwnMessage(m) /\ Send(enc, m)
  \/ \E s \in Sessions : \/ Receive(s) \/ Accept(s) \/ SessionLost(s)
                         \/ HandlerStep(s) \/ AcceptControl(s)

LEMMA OwnMessages ==
  ASSUME ClientInv
  PROVE  /\ OwnMessage([type |-> "auth", uuid |-> uuid])
         /\ OwnMessage([type |-> "register", reg |-> currentServices(snapshot)])
         /\ OwnMessage([type |-> "heartbeat"])
         /\ \A u \in Callers : call[u].at = "stored" =>
              OwnMessage([type |-> "update_whitelist", id |-> call[u].id,
                          allow |-> call[u].list])
BY ClientMessages DEF OwnMessage

LEMMA ClientServerActions ==
  ASSUME ClientInv, [ClientNext]_sysVars
  PROVE  ServerAction
<1>e. enc \in Sessions \/ enc = NoSession
  BY DEF ClientInv, ClientTypeOK
<1>v. sendMu # Nobody => via \in Sessions
  BY DEF ClientInv, Locking
<1>c. enc = NoSession => cpc \in {"dial", "backoff"} /\ \A u \in Callers : call[u].at # "stored"
  BY DEF ClientInv, Locking
<1>0. Main # Nobody /\ \A u \in Callers : u # Nobody
  BY ClientAssumption
<1>1. CASE UNCHANGED sysVars
  BY <1>1 DEF sysVars, ServerAction
<1>2. CASE MainSends
  <2>1. enc \in Sessions
    BY <1>2, <1>e, <1>c DEF MainSends, SendAuth, SendRegister, Heartbeat
  <2>2. \/ Send(enc, [type |-> "auth", uuid |-> uuid])
        \/ Send(enc, [type |-> "register", reg |-> currentServices(snapshot)])
        \/ Send(enc, [type |-> "heartbeat"])
    BY <1>2 DEF MainSends, SendAuth, SendRegister, Heartbeat, Transmit
  <2>. QED
    BY <2>1, <2>2, OwnMessages DEF ServerAction
<1>3. ASSUME NEW p, p # Nobody, NEW ok, Acked(p, ok) PROVE ServerAction
  BY <1>3, <1>v DEF Acked, ServerAction
<1>4. CASE MainAcked
  BY <1>0, <1>3, <1>4 DEF MainAcked
<1>5. CASE Close
  <2>1. enc \in Sessions
    BY <1>5, <1>e, <1>c DEF Close
  <2>. QED
    BY <1>5, <2>1 DEF Close, ServerAction
<1>6. CASE MainFails \/ Snapshot \/ CarrierClosed \/ Disconnect \/ Retry \/ DialFails
  BY <1>6 DEF MainFails, Failed, Snapshot, CarrierClosed, Disconnect, Retry, DialFails,
       ServerAction
<1>7. ASSUME NEW s \in Sessions, Connect(s) PROVE ServerAction
  BY <1>7 DEF Connect, ServerAction
<1>8. ASSUME NEW u \in Callers, SendUpdate(u) PROVE ServerAction
  <2>1. enc \in Sessions /\ call[u].at = "stored"
    BY <1>8, <1>e, <1>c DEF SendUpdate
  <2>2. Send(enc, [type |-> "update_whitelist", id |-> call[u].id, allow |-> call[u].list])
    BY <1>8 DEF SendUpdate, Transmit
  <2>. QED
    BY <2>1, <2>2, OwnMessages DEF ServerAction
<1>9. ASSUME NEW u \in Callers, UpdateAcked(u) PROVE ServerAction
  BY <1>0, <1>3, <1>9 DEF UpdateAcked
<1>10. ASSUME NEW u \in Callers, CommandStarts(u) \/ WhitelistAddRemove(u) \/ UpdateFails(u)
       PROVE  ServerAction
  <2>1. UNCHANGED csVars
    BY <1>10 DEF CommandStarts, fetchAllow, WhitelistSet, WhitelistAddRemove,
         UpdateWhitelist, UpdateFails, Failed
  <2>. QED
    BY <2>1 DEF ServerAction
<1>11. ASSUME NEW s \in Sessions, ServerStep(s) \/ NetworkLoss(s) PROVE ServerAction
  BY <1>11 DEF ServerStep, NetworkLoss, ServerAction
<1>. QED
  BY <1>1, <1>2, <1>4, <1>5, <1>6, <1>7, <1>8, <1>9, <1>10, <1>11
     DEF ClientNext, MainStep, CallerStep

-----------------------------------------------------------------------------
(* What is on the streams.  A session that has not started carries         *)
(* nothing, a request is answered once, a handler inside an update still   *)
(* has the request it is working for, and every session speaks for this    *)
(* client.                                                                 *)
NotStarted ==
  \A s \in Sessions :
     /\ handler[s] \in {"unused", "accepting"} => request[s] = NoMsg /\ reply[s] = NoMsg
     /\ handler[s] = "unused" => alive[s] = FALSE

AnsweredOnce == \A s \in Sessions : request[s] # NoMsg => reply[s] = NoMsg

UpdatesRequest ==
  \A s \in Sessions : handler[s] = "updating" =>
     /\ request[s].type = "update_whitelist"
     /\ found[s].allow = request[s].allow
     /\ ID(found[s].svc) = request[s].id

OwnSessions ==
  \A s \in Sessions : /\ request[s].type = "auth" => request[s].uuid = uuid
                      /\ clientID[s] \in {uuid, NoClient}

ServerSide == NotStarted /\ AnsweredOnce /\ UpdatesRequest /\ OwnSessions

LEMMA NoMessage == NoMsg.type = "none"
BY DEF NoMsg

(* A handler touches its own session only; it answers a request it has. *)
LEMMA HandlerEffect ==
  ASSUME CSInv, UpdatesRequest, NEW s \in Sessions, HandlerStep(s) \/ AcceptControl(s)
  PROVE  /\ \A t \in Sessions \ {s} :
              /\ handler'[t] = handler[t] /\ request'[t] = request[t] /\ reply'[t] = reply[t]
              /\ clientID'[t] = clientID[t] /\ alive'[t] = alive[t] /\ found'[t] = found[t]
         /\ alive'[s] \in {alive[s], FALSE}
         /\ \/ request'[s] = request[s] /\ reply'[s] = reply[s]
            \/ request'[s] = NoMsg /\ (reply'[s] = reply[s] \/ request[s] # NoMsg)
         /\ handler'[s] # "unused"
         /\ handler'[s] # "accepting"
<1>t. /\ handler \in [Sessions -> HandlerStates] /\ alive \in [Sessions -> BOOLEAN]
      /\ clientID \in [Sessions -> Clients \cup {NoClient}]
      /\ DOMAIN request = Sessions /\ DOMAIN reply = Sessions /\ DOMAIN found = Sessions
  BY DEF CSInv, SessTypeOK, IInv, RegTypeOK
<1>1. CASE AcceptControl(s) \/ AcceptControlError(s) \/ DecodeError(s)
  BY <1>t, <1>1 DEF AcceptControl, AcceptControlError, DecodeError, Goto, regVars
<1>2. CASE HandleUnauthenticated(s)
  BY <1>t, <1>2 DEF HandleUnauthenticated, Answer, Goto, regVars
<1>3. CASE HandleAuth(s)
  <2>1. request[s] # NoMsg
    BY <1>3, NoMessage DEF HandleAuth, Decoded
  <2>2. /\ Answer(s, TRUE) \/ Answer(s, FALSE)
        /\ handler' \in {handler, [handler EXCEPT ![s] = "leaving"]}
        /\ clientID' \in {clientID, [clientID EXCEPT ![s] = request[s].uuid]}
        /\ alive' = alive /\ found' = found /\ handler[s] = "loop"
    BY <1>3 DEF HandleAuth, Goto, regVars, Decoded
  <2>. QED
    BY <1>t, <2>1, <2>2 DEF Answer
<1>4. CASE HandleRegister(s)
  <2>1. request[s] # NoMsg
    BY <1>4, NoMessage DEF HandleRegister, Decoded
  <2>2. /\ Answer(s, TRUE) \/ Answer(s, FALSE)
        /\ UNCHANGED <<handler, clientID, alive>> /\ handler[s] = "loop"
    BY <1>4 DEF HandleRegister, Decoded
  <2>3. found' = found
    BY <1>4 DEF HandleRegister, RegisterParseError, RegisterConflict, RegisterCommit, regVars
  <2>. QED
    BY <1>t, <2>1, <2>2, <2>3 DEF Answer
<1>5. CASE HandleUpdateWhitelist(s)
  <2>1. request[s] # NoMsg /\ UNCHANGED <<clientID, alive>> /\ handler[s] = "loop"
    BY <1>5, NoMessage DEF HandleUpdateWhitelist, Decoded
  <2>2. CASE /\ UpdateWhitelistFind(clientID[s], s, request[s].id, request[s].allow)
             /\ Goto(s, "updating") /\ UNCHANGED <<request, reply>>
    <3>1. \E v : found' = [found EXCEPT ![s] = v]
      BY <2>2 DEF UpdateWhitelistFind
    <3>. QED
      BY <1>t, <2>1, <2>2, <3>1 DEF Goto
  <2>3. CASE /\ UpdateWhitelistRefused(clientID[s], s, request[s].id)
             /\ Answer(s, FALSE) /\ UNCHANGED handler
    BY <1>t, <2>1, <2>3 DEF UpdateWhitelistRefused, Answer, regVars
  <2>. QED
    BY <1>5, <2>2, <2>3 DEF HandleUpdateWhitelist
<1>6. CASE FinishUpdateWhitelist(s)
  <2>1. request[s] # NoMsg
    BY <1>6, NoMessage DEF FinishUpdateWhitelist, UpdatesRequest
  <2>2. /\ Answer(s, request[s].allow # BadAllow) /\ Goto(s, "loop")
        /\ UNCHANGED <<clientID, alive>> /\ found' = [found EXCEPT ![s] = NoUpdate]
    BY <1>6 DEF FinishUpdateWhitelist, UpdateWhitelistReplace
  <2>. QED
    BY <1>t, <2>1, <2>2 DEF Answer, Goto
<1>7. CASE HandlePlain(s)
  <2>1. request[s] # NoMsg
    BY <1>7, NoMessage DEF HandlePlain, Decoded
  <2>2. PICK ok : Answer(s, ok)
    BY <1>7 DEF HandlePlain
  <2>3. UNCHANGED <<handler, clientID, alive, found>> /\ handler[s] = "loop"
    BY <1>7 DEF HandlePlain, Decoded, regVars
  <2>. QED
    BY <1>t, <2>1, <2>2, <2>3 DEF Answer
<1>8. CASE DeferredRemove(s) \/ DeferredClose(s)
  BY <1>t, <1>8 DEF DeferredRemove, DeferredClose, RemoveSession, Goto, regVars
<1>. QED
  BY <1>1, <1>2, <1>3, <1>4, <1>5, <1>6, <1>7, <1>8 DEF HandlerStep
LEMMA ServerSideInit == ClientInit => ServerSide
<1> SUFFICES ASSUME ClientInit PROVE ServerSide
  BY SMTT(30)
<1>1. \A s \in Sessions : /\ handler[s] = "unused" /\ alive[s] = FALSE
                          /\ request[s] = NoMsg /\ reply[s] = NoMsg /\ clientID[s] = NoClient
  BY DEF ClientInit, CSInit
<1>. QED
  BY <1>1, NoMessage DEF ServerSide, NotStarted, AnsweredOnce, UpdatesRequest, OwnSessions

(* What the peer does: one message, one ack, one session. *)
LEMMA PeerEffect ==
  ASSUME CSInv, NEW s \in Sessions
  PROVE  /\ \A m : Send(s, m) =>
              /\ alive[s] /\ handler[s] = "loop" /\ request[s] = NoMsg /\ reply[s] = NoMsg
              /\ request'[s] = m /\ \A t \in Sessions \ {s} : request'[t] = request[t]
              /\ UNCHANGED <<regVars, handler, alive, clientID, reply>>
         /\ Receive(s) =>
              /\ reply[s] # NoMsg /\ reply'[s] = NoMsg
              /\ \A t \in Sessions \ {s} : reply'[t] = reply[t]
              /\ UNCHANGED <<regVars, handler, alive, clientID, request>>
         /\ Accept(s) =>
              /\ handler[s] = "unused" /\ handler'[s] = "accepting" /\ alive'[s] = TRUE
              /\ \A t \in Sessions \ {s} : handler'[t] = handler[t] /\ alive'[t] = alive[t]
              /\ UNCHANGED <<regVars, clientID, request, reply>>
         /\ SessionLost(s) =>
              /\ alive[s] /\ alive'[s] = FALSE
              /\ \A t \in Sessions \ {s} : alive'[t] = alive[t]
              /\ UNCHANGED <<regVars, handler, clientID, request, reply>>
<1>t. /\ DOMAIN handler = Sessions /\ DOMAIN alive = Sessions
      /\ DOMAIN request = Sessions /\ DOMAIN reply = Sessions
  BY DEF CSInv, SessTypeOK
<1>1. ASSUME NEW m, Send(s, m)
      PROVE  /\ alive[s] /\ handler[s] = "loop" /\ request[s] = NoMsg /\ reply[s] = NoMsg
             /\ request'[s] = m /\ \A t \in Sessions \ {s} : request'[t] = request[t]
             /\ UNCHANGED <<regVars, handler, alive, clientID, reply>>
  BY <1>t, <1>1 DEF Send
<1>2. ASSUME Receive(s)
      PROVE  /\ reply[s] # NoMsg /\ reply'[s] = NoMsg
             /\ \A t \in Sessions \ {s} : reply'[t] = reply[t]
             /\ UNCHANGED <<regVars, handler, alive, clientID, request>>
  BY <1>t, <1>2 DEF Receive
<1>3. ASSUME Accept(s)
      PROVE  /\ handler[s] = "unused" /\ handler'[s] = "accepting" /\ alive'[s] = TRUE
             /\ \A t \in Sessions \ {s} : handler'[t] = handler[t] /\ alive'[t] = alive[t]
             /\ UNCHANGED <<regVars, clientID, request, reply>>
  BY <1>t, <1>3 DEF Accept
<1>4. ASSUME SessionLost(s)
      PROVE  /\ alive[s] /\ alive'[s] = FALSE
             /\ \A t \in Sessions \ {s} : alive'[t] = alive[t]
             /\ UNCHANGED <<regVars, handler, clientID, request, reply>>
  BY <1>t, <1>4 DEF SessionLost
<1>. QED
  BY <1>1, <1>2, <1>3, <1>4

LEMMA NotStartedStep ==
  ASSUME CSInv, ServerSide, ServerAction
  PROVE  NotStarted' /\ AnsweredOnce'
<1>. USE DEF ServerSide, NotStarted, AnsweredOnce
<1>1. CASE UNCHANGED csVars
  BY <1>1 DEF csVars, sessVars
<1>2. ASSUME enc \in Sessions, NEW m, Send(enc, m) PROVE NotStarted' /\ AnsweredOnce'
  BY <1>2, PeerEffect
<1>3. ASSUME NEW s \in Sessions, Receive(s) PROVE NotStarted' /\ AnsweredOnce'
  BY <1>3, PeerEffect
<1>4. ASSUME NEW s \in Sessions, Accept(s) PROVE NotStarted' /\ AnsweredOnce'
  BY <1>4, PeerEffect
<1>5. ASSUME NEW s \in Sessions, SessionLost(s) PROVE NotStarted' /\ AnsweredOnce'
  BY <1>5, PeerEffect
<1>6. ASSUME NEW s \in Sessions, HandlerStep(s) \/ AcceptControl(s)
      PROVE  NotStarted' /\ AnsweredOnce'
  <2>1. \A t \in Sessions \ {s} : /\ handler'[t] = handler[t] /\ alive'[t] = alive[t]
                                  /\ request'[t] = request[t] /\ reply'[t] = reply[t]
    BY <1>6, HandlerEffect
  <2>2. /\ handler'[s] \notin {"unused", "accepting"}
        /\ request'[s] = NoMsg \/ (request'[s] = request[s] /\ reply'[s] = reply[s])
    BY <1>6, HandlerEffect
  <2>. QED
    BY <2>1, <2>2
<1>. QED
  BY <1>1, <1>2, <1>3, <1>4, <1>5, <1>6 DEF ServerAction

LEMMA OwnSessionsStep ==
  ASSUME CSInv, ServerSide, ServerAction
  PROVE  OwnSessions'
<1>. USE DEF ServerSide, OwnSessions
<1>1. CASE UNCHANGED csVars
  BY <1>1 DEF csVars, sessVars
<1>2. ASSUME enc \in Sessions, NEW m, OwnMessage(m), Send(enc, m) PROVE OwnSessions'
  <2>1. request'[enc] = m /\ clientID' = clientID
    BY <1>2, PeerEffect
  <2>2. \A t \in Sessions \ {enc} : request'[t] = request[t]
    BY <1>2, PeerEffect
  <2>. QED
    BY <1>2, <2>1, <2>2 DEF OwnMessage
<1>3. ASSUME NEW s \in Sessions, Receive(s) \/ Accept(s) \/ SessionLost(s)
      PROVE  OwnSessions'
  <2>1. UNCHANGED <<request, clientID>>
    BY <1>3, PeerEffect
  <2>. QED
    BY <2>1
<1>4. ASSUME NEW s \in Sessions, HandlerStep(s) \/ AcceptControl(s)
      PROVE  OwnSessions'
  <2>1. \A t \in Sessions \ {s} : request'[t] = request[t] /\ clientID'[t] = clientID[t]
    BY <1>4, HandlerEffect
  <2>2. request'[s] \in {request[s], NoMsg}
    BY <1>4, HandlerEffect
  <2>3. clientID'[s] \in {uuid, NoClient}
    <3>1. CASE HandleAuth(s)
      <4>1. /\ request[s].uuid = uuid
            /\ clientID' \in {clientID, [clientID EXCEPT ![s] = request[s].uuid]}
        BY <3>1 DEF HandleAuth, Decoded
      <4>2. clientID \in [Sessions -> Clients \cup {NoClient}]
        BY DEF CSInv, SessTypeOK
      <4>. QED
        BY <4>1, <4>2
    <3>2. CASE ~HandleAuth(s)
      <4>1. clientID' = clientID
        BY <1>4, <3>2 DEF HandlerStep, AcceptControl, AcceptControlError, DecodeError,
             HandleUnauthenticated, HandleRegister, HandleUpdateWhitelist,
             FinishUpdateWhitelist, HandlePlain, DeferredRemove, DeferredClose
      <4>. QED
        BY <4>1
    <3>. QED
      BY <3>1, <3>2
  <2>. QED
    BY <2>1, <2>2, <2>3, NoMessage
<1>. QED
  BY <1>1, <1>2, <1>3, <1>4 DEF ServerAction

(* Only the second half of UpdateWhitelist leaves the update. *)
LEMMA UpdatesRequestStep ==
  ASSUME CSInv, ServerSide, ServerAction
  PROVE  UpdatesRequest'
<1>u. UpdatesRequest
  BY DEF ServerSide
<1>1. CASE UNCHANGED csVars
  BY <1>u, <1>1 DEF UpdatesRequest, csVars, sessVars, regVars
<1>2. ASSUME enc \in Sessions, NEW m, Send(enc, m) PROVE UpdatesRequest'
  <2>1. handler[enc] = "loop" /\ UNCHANGED <<handler, found>>
    BY <1>2, PeerEffect DEF regVars
  <2>2. \A t \in Sessions \ {enc} : request'[t] = request[t]
    BY <1>2, PeerEffect
  <2>. QED
    BY <1>u, <2>1, <2>2 DEF UpdatesRequest
<1>3. ASSUME NEW s \in Sessions, Receive(s) \/ Accept(s) \/ SessionLost(s)
      PROVE  UpdatesRequest'
  <2>1. UNCHANGED <<request, found>>
    BY <1>3, PeerEffect DEF regVars
  <2>2. \A t \in Sessions : handler'[t] \in {handler[t], "accepting"}
    BY <1>3, PeerEffect
  <2>. QED
    BY <1>u, <2>1, <2>2 DEF UpdatesRequest
<1>4. ASSUME NEW s \in Sessions, HandlerStep(s) \/ AcceptControl(s)
      PROVE  UpdatesRequest'
  <2>0. /\ handler \in [Sessions -> HandlerStates]
        /\ DOMAIN found = Sessions
    BY DEF CSInv, SessTypeOK, IInv, RegTypeOK
  <2>1. \A t \in Sessions \ {s} :
          handler'[t] = handler[t] /\ request'[t] = request[t] /\ found'[t] = found[t]
    BY <1>4, <1>u, HandlerEffect
  <2>2. CASE HandleUpdateWhitelist(s) /\ handler'[s] = "updating"
    <3>1. /\ UpdateWhitelistFind(clientID[s], s, request[s].id, request[s].allow)
          /\ request' = request /\ request[s].type = "update_whitelist"
      BY <2>0, <2>2 DEF HandleUpdateWhitelist, Decoded
    <3>2. PICK t \in FindService(request[s].id) :
            found' = [found EXCEPT ![s] = [pending |-> TRUE, svc |-> t,
                                           allow |-> request[s].allow]]
      BY <3>1 DEF UpdateWhitelistFind
    <3>3. found'[s].svc = t /\ found'[s].allow = request[s].allow
      BY <2>0, <3>2
    <3>4. ID(t) = request[s].id
      BY <3>2 DEF FindService
    <3>. QED
      BY <1>u, <2>1, <3>1, <3>3, <3>4 DEF UpdatesRequest
  <2>3. CASE handler'[s] # "updating"
    BY <1>u, <2>1, <2>3 DEF UpdatesRequest
  <2>4. ASSUME ~HandleUpdateWhitelist(s) PROVE handler'[s] # "updating"
    <3>1. CASE HandleRegister(s) \/ HandlePlain(s)
      BY <3>1 DEF HandleRegister, HandlePlain, Decoded
    <3>4. CASE HandleAuth(s)
      BY <2>0, <3>4 DEF HandleAuth, Decoded, Goto
    <3>2. CASE \/ AcceptControl(s) \/ AcceptControlError(s) \/ DecodeError(s)
               \/ HandleUnauthenticated(s)
      BY <2>0, <3>2 DEF AcceptControl, AcceptControlError, DecodeError,
           HandleUnauthenticated, Goto
    <3>3. CASE FinishUpdateWhitelist(s) \/ DeferredRemove(s) \/ DeferredClose(s)
      BY <2>0, <3>3 DEF FinishUpdateWhitelist, DeferredRemove, DeferredClose, Goto
    <3>. QED
      BY <1>4, <2>4, <3>1, <3>2, <3>3, <3>4 DEF HandlerStep
  <2>. QED
    BY <2>2, <2>3, <2>4
<1>. QED
  BY <1>1, <1>2, <1>3, <1>4 DEF ServerAction

LEMMA ServerSideStep ==
  ASSUME CSInv, ServerSide, ServerAction
  PROVE  ServerSide'
BY NotStartedStep, OwnSessionsStep, UpdatesRequestStep DEF ServerSide
-----------------------------------------------------------------------------
(* Requests and acks on a live stream are those of the holder of sendMu. *)
Quiet ==
  \A s \in Sessions : alive[s] /\ (sendMu = Nobody \/ via # s) =>
     request[s] = NoMsg /\ reply[s] = NoMsg

RequestOfHolder ==
  /\ sendMu \in Callers /\ request[via] # NoMsg =>
       request[via] = [type |-> "update_whitelist", id |-> call[sendMu].id,
                       allow |-> call[sendMu].list]
  /\ sendMu = Main /\ request[via] # NoMsg =>
       cpc = CASE request[via].type = "auth" -> "authing"
               [] request[via].type = "register" -> "registering"
               [] OTHER -> "beating"

(* A step that leaves sendMu to its holder, and the holder waiting. *)
HolderWaits ==
  /\ UNCHANGED <<sendMu, via>>
  /\ sendMu = Main => cpc' = cpc
  /\ sendMu \in Callers => call'[sendMu] = call[sendMu]

NoRequest ==
  \/ UNCHANGED csVars
  \/ \E s \in Sessions : Accept(s) \/ SessionLost(s) \/ HandlerStep(s) \/ AcceptControl(s)

(* The steps of the composition, as sendMu sees them. *)
LEMMA StepsAroundLock ==
  ASSUME ClientInv, [ClientNext]_sysVars
  PROVE  \/ MainSends
         \/ \E u \in Callers : SendUpdate(u)
         \/ \E p \in Callers \cup {Main}, ok \in BOOLEAN : Acked(p, ok)
         \/ \E p \in Callers \cup {Main} : Failed(p)
         \/ HolderWaits /\ NoRequest
<1>l. /\ sendMu = Main <=> cpc \in {"authing", "registering", "beating"}
      /\ \A u \in Callers : call[u].at = "waiting" <=> sendMu = u
      /\ enc = NoSession => cpc \in {"dial", "backoff"}
  BY DEF ClientInv, Locking
<1>t. enc \in Sessions \cup {NoSession} /\ DOMAIN call = Callers
  BY DEF ClientInv, ClientTypeOK
<1>1. ASSUME UNCHANGED <<sendMu, via, cpc, call>> PROVE HolderWaits
  BY <1>1 DEF HolderWaits
<1>2. CASE UNCHANGED sysVars
  BY <1>1, <1>2 DEF sysVars, clientVars, NoRequest
<1>3. ASSUME NEW s \in Sessions, ServerStep(s) \/ NetworkLoss(s) PROVE HolderWaits /\ NoRequest
  BY <1>1, <1>3 DEF ServerStep, NetworkLoss, clientVars, NoRequest
<1>4. ASSUME NEW s \in Sessions, Connect(s) PROVE HolderWaits /\ NoRequest
  BY <1>l, <1>4 DEF Connect, HolderWaits, NoRequest
<1>5. CASE Close
  <2>1. enc \in Sessions
    BY <1>l, <1>t, <1>5 DEF Close
  <2>2. NoRequest
    BY <1>5, <2>1 DEF Close, NoRequest
  <2>. QED
    BY <1>l, <1>5, <2>2 DEF Close, HolderWaits
<1>6. CASE Snapshot \/ CarrierClosed \/ Disconnect \/ Retry \/ DialFails
  <2>1. NoRequest /\ UNCHANGED <<sendMu, via, call>>
    BY <1>6 DEF Snapshot, CarrierClosed, Disconnect, Retry, DialFails, NoRequest
  <2>2. cpc \notin {"authing", "registering", "beating"}
    BY <1>6 DEF Snapshot, CarrierClosed, Disconnect, Retry, DialFails
  <2>. QED
    BY <1>l, <2>1, <2>2 DEF HolderWaits
<1>7. ASSUME NEW u \in Callers, CommandStarts(u) \/ WhitelistAddRemove(u)
      PROVE  HolderWaits /\ NoRequest
  <2>1. call[u].at # "waiting"
    BY <1>7, IdleCall DEF CommandStarts, fetchAllow, WhitelistSet, WhitelistAddRemove
  <2>2. UNCHANGED <<csVars, sendMu, via, cpc>>
    BY <1>7 DEF CommandStarts, fetchAllow, WhitelistSet, WhitelistAddRemove, UpdateWhitelist
  <2>3. \A v \in Callers \ {u} : call'[v] = call[v]
    BY <1>7, <1>t DEF CommandStarts, fetchAllow, WhitelistSet, WhitelistAddRemove,
         UpdateWhitelist
  <2>. QED
    BY <1>l, <2>1, <2>2, <2>3 DEF HolderWaits, NoRequest
<1>8. CASE MainAcked
  BY <1>8 DEF MainAcked
<1>9. CASE MainFails
  BY <1>9 DEF MainFails
<1>10. ASSUME NEW u \in Callers, UpdateAcked(u)
       PROVE  \E p \in Callers \cup {Main}, ok \in BOOLEAN : Acked(p, ok)
  BY <1>10 DEF UpdateAcked
<1>11. ASSUME NEW u \in Callers, UpdateFails(u) PROVE \E p \in Callers \cup {Main} : Failed(p)
  BY <1>11 DEF UpdateFails
<1>. QED
  BY <1>2, <1>3, <1>4, <1>5, <1>6, <1>7, <1>8, <1>9, <1>10, <1>11
     DEF ClientNext, MainStep, CallerStep

LEMMA QuietStep ==
  ASSUME ClientInv, CSInv, ServerSide, Quiet, [ClientNext]_sysVars
  PROVE  Quiet'
<1>l. /\ sendMu # Nobody => via \in Sessions
      /\ enc = NoSession => cpc \in {"dial", "backoff"} /\ \A u \in Callers : call[u].at # "stored"
      /\ enc \in Sessions \cup {NoSession}
  BY DEF ClientInv, Locking, ClientTypeOK
<1>0. Main # Nobody /\ \A u \in Callers : u # Nobody
  BY ClientAssumption
<1>1. ASSUME NEW p, p # Nobody, NEW m, enc \in Sessions, Transmit(p, m) PROVE Quiet'
  <2>1. sendMu = Nobody /\ sendMu' = p /\ via' = enc
    BY <1>1 DEF Transmit
  <2>2. alive' = alive /\ reply' = reply /\ \A t \in Sessions \ {enc} : request'[t] = request[t]
    BY <1>1, PeerEffect DEF Transmit
  <2>. QED
    BY <1>1, <2>1, <2>2 DEF Quiet
<1>2. CASE MainSends
  <2>1. enc \in Sessions
    BY <1>l, <1>2 DEF MainSends, SendAuth, SendRegister, Heartbeat
  <2>. QED
    BY <1>0, <1>1, <1>2, <2>1 DEF MainSends, SendAuth, SendRegister, Heartbeat
<1>3. ASSUME NEW u \in Callers, SendUpdate(u) PROVE Quiet'
  <2>1. enc \in Sessions
    BY <1>l, <1>3 DEF SendUpdate
  <2>. QED
    BY <1>0, <1>1, <1>3, <2>1 DEF SendUpdate
<1>4. ASSUME NEW p \in Callers \cup {Main}, NEW ok, Acked(p, ok) PROVE Quiet'
  <2>1. via \in Sessions /\ sendMu' = Nobody
    BY <1>0, <1>l, <1>4 DEF Acked
  <2>2. /\ reply[via] # NoMsg /\ reply'[via] = NoMsg
        /\ \A t \in Sessions \ {via} : reply'[t] = reply[t]
        /\ UNCHANGED <<alive, request>>
    BY <1>4, <2>1, PeerEffect DEF Acked
  <2>3. request[via] = NoMsg
    BY <2>1, <2>2 DEF ServerSide, AnsweredOnce
  <2>. QED
    BY <2>1, <2>2, <2>3 DEF Quiet
<1>5. ASSUME NEW p, Failed(p) PROVE Quiet'
  <2>1. UNCHANGED <<alive, request, reply>>
    BY <1>5 DEF Failed, csVars, sessVars
  <2>2. sendMu = Nobody \/ ~alive[via]
    BY <1>5 DEF Failed
  <2>. QED
    BY <2>1, <2>2 DEF Quiet
<1>6. CASE HolderWaits /\ NoRequest
  <2>1. UNCHANGED <<sendMu, via>>
    BY <1>6 DEF HolderWaits
  <2>2. CASE UNCHANGED csVars
    BY <2>1, <2>2 DEF Quiet, csVars, sessVars
  <2>3. ASSUME NEW s \in Sessions, Accept(s) PROVE Quiet'
    <3>1. request[s] = NoMsg /\ reply[s] = NoMsg
      BY <2>3, PeerEffect DEF ServerSide, NotStarted
    <3>2. UNCHANGED <<request, reply>> /\ \A t \in Sessions \ {s} : alive'[t] = alive[t]
      BY <2>3, PeerEffect
    <3>. QED
      BY <2>1, <3>1, <3>2 DEF Quiet
  <2>4. ASSUME NEW s \in Sessions, SessionLost(s) PROVE Quiet'
    <3>1. /\ UNCHANGED <<request, reply>> /\ alive'[s] = FALSE
          /\ \A t \in Sessions \ {s} : alive'[t] = alive[t]
      BY <2>4, PeerEffect
    <3>. QED
      BY <2>1, <3>1 DEF Quiet
  <2>5. ASSUME NEW s \in Sessions, HandlerStep(s) \/ AcceptControl(s) PROVE Quiet'
    <3>u. UpdatesRequest
      BY DEF ServerSide
    <3>1. \A t \in Sessions \ {s} :
            request'[t] = request[t] /\ reply'[t] = reply[t] /\ alive'[t] = alive[t]
      BY <2>5, <3>u, HandlerEffect
    <3>2. /\ alive'[s] \in {alive[s], FALSE}
          /\ \/ request'[s] = request[s] /\ reply'[s] = reply[s]
             \/ request'[s] = NoMsg /\ (reply'[s] = reply[s] \/ request[s] # NoMsg)
      BY <2>5, <3>u, HandlerEffect
    <3>. QED
      BY <2>1, <3>1, <3>2 DEF Quiet
  <2>. QED
    BY <1>6, <2>2, <2>3, <2>4, <2>5 DEF NoRequest
<1>. QED
  BY <1>2, <1>3, <1>4, <1>5, <1>6, StepsAroundLock
LEMMA RequestOfHolderStep ==
  ASSUME ClientInv, CSInv, ServerSide, RequestOfHolder, [ClientNext]_sysVars
  PROVE  RequestOfHolder'
<1>l. /\ sendMu # Nobody => via \in Sessions
      /\ enc = NoSession => cpc \in {"dial", "backoff"} /\ \A u \in Callers : call[u].at # "stored"
      /\ enc \in Sessions \cup {NoSession} /\ DOMAIN call = Callers
      /\ sendMu \in Callers \cup {Main, Nobody}
  BY DEF ClientInv, Locking, ClientTypeOK
<1>0. /\ Main # Nobody /\ Main \notin Callers
      /\ \A u \in Callers : u # Nobody /\ u # Main
  BY ClientAssumption
<1>1. CASE MainSends
  <2>1. enc \in Sessions /\ sendMu' = Main /\ via' = enc
    BY <1>l, <1>1 DEF MainSends, SendAuth, SendRegister, Heartbeat, Transmit
  <2>2. \/ Send(enc, [type |-> "auth", uuid |-> uuid]) /\ cpc' = "authing"
        \/ /\ Send(enc, [type |-> "register", reg |-> currentServices(snapshot)])
           /\ cpc' = "registering"
        \/ Send(enc, [type |-> "heartbeat"]) /\ cpc' = "beating"
    BY <1>1 DEF MainSends, SendAuth, SendRegister, Heartbeat, Transmit
  <2>3. \/ request'[enc] = [type |-> "auth", uuid |-> uuid] /\ cpc' = "authing"
        \/ /\ request'[enc] = [type |-> "register", reg |-> currentServices(snapshot)]
           /\ cpc' = "registering"
        \/ request'[enc] = [type |-> "heartbeat"] /\ cpc' = "beating"
    BY <2>1, <2>2, PeerEffect
  <2>4. \/ request'[enc].type = "auth" /\ cpc' = "authing"
        \/ request'[enc].type = "register" /\ cpc' = "registering"
        \/ request'[enc].type = "heartbeat" /\ cpc' = "beating"
    <3>1. /\ [type |-> "auth", uuid |-> uuid].type = "auth"
          /\ [type |-> "register", reg |-> currentServices(snapshot)].type = "register"
          /\ [type |-> "heartbeat"].type = "heartbeat"
      OBVIOUS
    <3>. QED
      BY <2>3, <3>1
  <2>. QED
    BY <1>0, <2>1, <2>4 DEF RequestOfHolder
<1>2. ASSUME NEW u \in Callers, SendUpdate(u) PROVE RequestOfHolder'
  <2>1. enc \in Sessions /\ sendMu' = u /\ via' = enc
    BY <1>l, <1>2 DEF SendUpdate, Transmit
  <2>2. Send(enc, [type |-> "update_whitelist", id |-> call[u].id, allow |-> call[u].list])
    BY <1>2 DEF SendUpdate, Transmit
  <2>3. request'[enc] = [type |-> "update_whitelist", id |-> call[u].id, allow |-> call[u].list]
    BY <2>1, <2>2, PeerEffect
  <2>4. call'[u].id = call[u].id /\ call'[u].list = call[u].list
    <3>1. call[u] \in [at : {"fetched", "stored", "waiting"}, id : IDs, list : Lists]
      BY <1>2, CallContents DEF SendUpdate, ClientInv
    <3>. QED
      BY <1>l, <1>2, <3>1 DEF SendUpdate
  <2>. QED
    BY <1>0, <2>1, <2>3, <2>4 DEF RequestOfHolder
<1>3. CASE sendMu' = Nobody
  BY <1>0, <1>3 DEF RequestOfHolder
<1>4. CASE HolderWaits /\ NoRequest
  <2>1. /\ UNCHANGED <<sendMu, via>>
        /\ sendMu = Main => cpc' = cpc
        /\ sendMu \in Callers => call'[sendMu] = call[sendMu]
    BY <1>4 DEF HolderWaits
  <2>2. \A t \in Sessions : request'[t] \in {request[t], NoMsg}
    <3>1. CASE UNCHANGED csVars
      BY <3>1 DEF csVars, sessVars
    <3>2. ASSUME NEW s \in Sessions, Accept(s) \/ SessionLost(s) PROVE request' = request
      BY <3>2, PeerEffect
    <3>3. ASSUME NEW s \in Sessions, HandlerStep(s) \/ AcceptControl(s), NEW t \in Sessions
          PROVE  request'[t] \in {request[t], NoMsg}
      BY <3>3, HandlerEffect DEF ServerSide
    <3>. QED
      BY <1>4, <3>1, <3>2, <3>3 DEF NoRequest
  <2>3. CASE sendMu = Nobody
    BY <1>3, <2>1, <2>3
  <2>4. CASE sendMu # Nobody
    <3>1. via \in Sessions /\ (request'[via] = request[via] \/ request'[via] = NoMsg)
      BY <1>l, <2>2, <2>4
    <3>. QED
      BY <2>1, <3>1 DEF RequestOfHolder
  <2>. QED
    BY <2>3, <2>4
<1>5. ASSUME NEW p, NEW ok, Acked(p, ok) \/ Failed(p) PROVE sendMu' = Nobody
  BY <1>5 DEF Acked, Failed
<1>. QED
  BY <1>1, <1>2, <1>3, <1>4, <1>5, StepsAroundLock

(* The invariant of client and server together. *)
SysInv == ClientInv /\ CSInv /\ ObjectsDistinct /\ ServerSide /\ Quiet /\ RequestOfHolder

LEMMA SysInit == ClientInit => ServerSide /\ Quiet /\ RequestOfHolder
<1> SUFFICES ASSUME ClientInit PROVE ServerSide /\ Quiet /\ RequestOfHolder
  OBVIOUS
<1>1. Quiet
  BY DEF ClientInit, CSInit, Quiet
<1>2. RequestOfHolder
  BY ClientAssumption DEF ClientInit, RequestOfHolder
<1>. QED
  BY <1>1, <1>2, ServerSideInit

(* Client and server together keep the invariant: the server's part comes  *)
(* from ControlServer and Registry, which they implement.                  *)
THEOREM SystemInvariant == ClientSpec => []SysInv
<1>1. /\ ClientInv /\ CSInv /\ ServerSide /\ Quiet /\ RequestOfHolder
      /\ [ClientNext]_sysVars
      => ServerSide' /\ Quiet' /\ RequestOfHolder'
  <2> SUFFICES ASSUME ClientInv, CSInv, ServerSide, Quiet, RequestOfHolder,
                      [ClientNext]_sysVars
               PROVE  ServerSide' /\ Quiet' /\ RequestOfHolder'
    OBVIOUS
  <2>1. ServerSide'
    BY ClientServerActions, ServerSideStep
  <2>. QED
    BY <2>1, QuietStep, RequestOfHolderStep
<1>2. ClientSpec => []CSInv
  BY ClientImplementsServer, ControlServerInvariant, PTL
<1>3. ClientSpec => []ObjectsDistinct
  BY ClientImplementsServer, ControlServerImplementsRegistry, ObjectsDistinctHolds, PTL
     DEF ImplementsRegistry
<1>4. SysInv <=> ClientInv /\ CSInv /\ ObjectsDistinct /\ ServerSide /\ Quiet /\ RequestOfHolder
  BY DEF SysInv
<1>. QED
  BY <1>1, <1>2, <1>3, <1>4, SysInit, ClientInvariant, PTL DEF ClientSpec

(* requestResp: an ack is read by whoever sent the request it answers, and *)
(* nothing is left on a live stream when sendMu is free, for any number of *)
(* commands, sessions and losses.                                          *)
THEOREM AcksMatchHolds == ClientSpec => []AcksMatch
<1>1. SysInv => AcksMatch
  <2> SUFFICES ASSUME SysInv PROVE AcksMatch
    OBVIOUS
  <2>1. enc # NoSession => enc \in Sessions
    BY DEF SysInv, ClientInv, ClientTypeOK
  <2>2. sendMu = Nobody /\ enc # NoSession /\ alive[enc] =>
          request[enc] = NoMsg /\ reply[enc] = NoMsg
    BY <2>1 DEF SysInv, Quiet
  <2>. QED
    BY <2>2 DEF SysInv, RequestOfHolder, AcksMatch
<1>. QED
  BY <1>1, SystemInvariant, PTL
=============================================================================
