---------------------------- MODULE ClientProofs ----------------------------
(***************************************************************************)
(* Proofs about Client: the lists in force are lists that were chosen,     *)
(* what both sides agree on for the length of one session, and that a      *)
(* clean registration leaves client and server with the same lists.        *)
(***************************************************************************)
EXTENDS ControlProofs

(* Zenon is asked for every step that does not name another prover. *)
USE Zenon

(* Lists in play and lists in force. *)

(* The service that is committed for an entry has the id of the entry. *)
LEMMA NewServiceID ==
  ASSUME NEW c, NEW sess, NEW svcs, NEW i, NEW g, svcs[i].mode \in Modes
  PROVE  ID(NewService(c, sess, svcs, i, g)) = ID(svcs[i])
<1> DEFINE n == NewService(c, sess, svcs, i, g)
<1>1. /\ n.mode = svcs[i].mode /\ n.host = svcs[i].host
      /\ n.path = IF isRaw(svcs[i].mode) THEN "" ELSE normPath(svcs[i].path)
  BY DEF NewService
<1>2. \A p : normPath(normPath(p)) = normPath(p)
  BY DEF normPath
<1> HIDE DEF n
<1>3. CASE svcs[i].mode = "http"
  <2>1. n.path = normPath(svcs[i].path)
    BY <1>1, <1>3 DEF isRaw
  <2>2. ID(n) = <<"https", n.host, normPath(n.path)>>
    BY <1>1, <1>3 DEF ID, ServiceID
  <2>3. ID(svcs[i]) = <<"https", svcs[i].host, normPath(svcs[i].path)>>
    BY <1>3 DEF ID, ServiceID
  <2>. QED
    BY <1>1, <1>2, <2>1, <2>2, <2>3 DEF n
<1>4. CASE svcs[i].mode = "ws"
  <2>1. n.path = normPath(svcs[i].path)
    BY <1>1, <1>4 DEF isRaw
  <2>2. ID(n) = <<"wss", n.host, normPath(n.path)>>
    BY <1>1, <1>4 DEF ID, ServiceID
  <2>3. ID(svcs[i]) = <<"wss", svcs[i].host, normPath(svcs[i].path)>>
    BY <1>4 DEF ID, ServiceID
  <2>. QED
    BY <1>1, <1>2, <2>1, <2>2, <2>3 DEF n
<1>5. CASE svcs[i].mode \in {"tcp", "socks5"}
  <2>1. ID(n) = <<n.mode, n.host, "">>
    BY <1>1, <1>5 DEF ID, ServiceID
  <2>2. ID(svcs[i]) = <<svcs[i].mode, svcs[i].host, "">>
    BY <1>5 DEF ID, ServiceID
  <2>. QED
    BY <1>1, <2>1, <2>2 DEF n
<1>. QED
  BY <1>3, <1>4, <1>5 DEF Modes

(* The entries of a registration carry one list per id. *)
LEMMA RegistrationLists ==
  ASSUME NEW lists, NEW i \in DOMAIN currentServices(lists).services
  PROVE  LET t == currentServices(lists).services[i] IN
         i \in DOMAIN services /\ ID(t) = ID(services[i]) /\ t.allow = lists[ID(services[i])]
<1> DEFINE t == [mode |-> services[i].mode, host |-> services[i].host,
                 path |-> services[i].path, allow |-> lists[ID(services[i])]]
<1>1. i \in DOMAIN services /\ currentServices(lists).services[i] = t
  BY DEF currentServices
<1>2. /\ t.mode = services[i].mode /\ t.host = services[i].host
      /\ t.path = services[i].path /\ t.allow = lists[ID(services[i])]
  OBVIOUS
<1> HIDE DEF t
<1>3. ID(t) = ID(services[i])
  BY <1>2 DEF ID
<1>. QED
  BY <1>1, <1>2, <1>3

LEMMA InPlayElements ==
  ASSUME NEW id \in IDs, NEW x
  PROVE  /\ x \in InPlay[id] <=>
              \/ x = whitelists[id]
              \/ cpc = "register" /\ x = snapshot[id]
              \/ \E u \in Callers : /\ call[u].at = "stored" /\ call[u].id = id
                                    /\ x = call[u].list
              \/ \E s \in Sessions : x \in Carried(request[s], id)
         /\ x \in InPlay'[id] <=>
              \/ x = whitelists'[id]
              \/ cpc' = "register" /\ x = snapshot'[id]
              \/ \E u \in Callers : /\ call'[u].at = "stored" /\ call'[u].id = id
                                    /\ x = call'[u].list
              \/ \E s \in Sessions : x \in Carried(request'[s], id)
<1>1. x \in InPlay[id] <=>
              \/ x = whitelists[id]
              \/ cpc = "register" /\ x = snapshot[id]
              \/ \E u \in Callers : /\ call[u].at = "stored" /\ call[u].id = id
                                    /\ x = call[u].list
              \/ \E s \in Sessions : x \in Carried(request[s], id)
  BY DEF InPlay
<1>2. x \in InPlay'[id] <=>
              \/ x = whitelists'[id]
              \/ cpc' = "register" /\ x = snapshot'[id]
              \/ \E u \in Callers : /\ call'[u].at = "stored" /\ call'[u].id = id
                                    /\ x = call'[u].list
              \/ \E s \in Sessions : x \in Carried(request'[s], id)
  BY DEF InPlay
<1>. QED
  BY <1>1, <1>2

(* What messages carry. *)
LEMMA CarriedLists ==
  /\ \A id : Carried(NoMsg, id) = {}
  /\ \A id : Carried([type |-> "auth", uuid |-> uuid], id) = {}
  /\ \A id : Carried([type |-> "heartbeat"], id) = {}
  /\ \A id, i, a : \A x \in Carried([type |-> "update_whitelist", id |-> i, allow |-> a], id) :
       id = i /\ x = a
<1>1. \A id : Carried(NoMsg, id) = {}
  BY NoMessage DEF Carried
<1>2. \A id : Carried([type |-> "auth", uuid |-> uuid], id) = {}
  BY DEF Carried
<1>3. \A id : Carried([type |-> "heartbeat"], id) = {}
  BY DEF Carried
<1>4. \A id, i, a : \A x \in Carried([type |-> "update_whitelist", id |-> i, allow |-> a], id) :
        id = i /\ x = a
  BY DEF Carried
<1>. QED
  BY <1>1, <1>2, <1>3, <1>4

LEMMA CarriedByRegister ==
  ASSUME NEW lists, NEW id,
         NEW x \in Carried([type |-> "register", reg |-> currentServices(lists)], id)
  PROVE  x = lists[id]
<1> DEFINE m == [type |-> "register", reg |-> currentServices(lists)]
<1>1. m.type = "register" /\ m.reg = currentServices(lists)
  OBVIOUS
<1> HIDE DEF m
<1>2. Carried(m, id) = {t.allow : t \in {t \in Range(m.reg.services) : ID(t) = id}}
  BY <1>1 DEF Carried
<1>3. PICK t \in Range(m.reg.services) : ID(t) = id /\ x = t.allow
  BY <1>2 DEF m
<1>4. PICK i \in DOMAIN currentServices(lists).services : t = currentServices(lists).services[i]
  BY <1>1, <1>3 DEF Range
<1>. QED
  BY <1>3, <1>4, RegistrationLists

(* Nothing new is in play after a step that only passes lists on. *)
LEMMA PlayShrinks ==
  ASSUME whitelists' = whitelists,
         cpc' = "register" => snapshot' = whitelists \/ (cpc = "register" /\ snapshot' = snapshot),
         \A u \in Callers : call'[u].at = "stored" => call'[u] = call[u],
         \A s \in Sessions : \/ request'[s] = request[s]
                             \/ \A i \in IDs : Carried(request'[s], i) \subseteq InPlay[i],
         NEW id \in IDs
  PROVE  InPlay'[id] \subseteq InPlay[id]
<1> SUFFICES ASSUME NEW x \in InPlay'[id] PROVE x \in InPlay[id]
  OBVIOUS
<1>1. CASE x = whitelists'[id]
  BY <1>1, InPlayElements
<1>2. CASE cpc' = "register" /\ x = snapshot'[id]
  BY <1>2, InPlayElements
<1>3. ASSUME NEW u \in Callers, call'[u].at = "stored", call'[u].id = id, x = call'[u].list
      PROVE  x \in InPlay[id]
  BY <1>3, InPlayElements, SMTT(30)
<1>4. ASSUME NEW s \in Sessions, x \in Carried(request'[s], id)
      PROVE  x \in InPlay[id]
  <2>1. CASE request'[s] = request[s]
    BY <1>4, <2>1, InPlayElements
  <2>2. CASE Carried(request'[s], id) \subseteq InPlay[id]
    BY <1>4, <2>2
  <2>. QED
    BY <2>1, <2>2
<1>. QED
  BY <1>1, <1>2, <1>3, <1>4, InPlayElements

LEMMA PlayStep ==
  ASSUME SysInv, [ClientNext]_sysVars
  PROVE  \/ whitelists' = whitelists /\ \A id \in IDs : InPlay'[id] \subseteq InPlay[id]
         \/ \E u \in Callers, id \in IDs, list \in Lists : UpdateWhitelist(u, id, list)
<1>i. ClientInv /\ CSInv /\ UpdatesRequest
  BY DEF SysInv, ServerSide
<1>l. /\ enc = NoSession => cpc \in {"dial", "backoff"} /\ \A u \in Callers : call[u].at # "stored"
      /\ enc \in Sessions \cup {NoSession} /\ DOMAIN call = Callers
      /\ sendMu # Nobody => via \in Sessions
  BY <1>i DEF ClientInv, Locking, ClientTypeOK
<1>0. Main # Nobody /\ \A u \in Callers : u # Nobody
  BY ClientAssumption
<1> DEFINE Shrinks == whitelists' = whitelists /\ \A id \in IDs : InPlay'[id] \subseteq InPlay[id]
           Consumed == \A s \in Sessions : request'[s] \in {request[s], NoMsg}
<1>1. ASSUME whitelists' = whitelists, Consumed,
             cpc' = "register" =>
               snapshot' = whitelists \/ (cpc = "register" /\ snapshot' = snapshot),
             \A u \in Callers : call'[u].at = "stored" => call'[u] = call[u]
      PROVE  Shrinks
  <2>1. \A s \in Sessions : \/ request'[s] = request[s]
                            \/ \A i \in IDs : Carried(request'[s], i) \subseteq InPlay[i]
    BY <1>1, CarriedLists
  <2>. QED
    BY <1>1, <2>1, PlayShrinks
<1> HIDE DEF Shrinks
<1>2. ASSUME UNCHANGED csVars PROVE Consumed
  BY <1>2 DEF csVars, sessVars
<1>3. CASE UNCHANGED sysVars
  BY <1>1, <1>2, <1>3 DEF sysVars, clientVars, Shrinks
<1>4. ASSUME NEW s \in Sessions, ServerStep(s) \/ NetworkLoss(s) PROVE Shrinks
  <2>1. UNCHANGED clientVars
    BY <1>4 DEF ServerStep, NetworkLoss
  <2>2. CASE SessionLost(s)
    BY <1>1, <1>i, <2>1, <2>2, PeerEffect DEF clientVars
  <2>3. CASE HandlerStep(s) \/ AcceptControl(s)
    <3>1. Consumed
      BY <1>i, <2>3, HandlerEffect
    <3>. QED
      BY <1>1, <2>1, <3>1 DEF clientVars
  <2>. QED
    BY <1>4, <2>2, <2>3 DEF ServerStep, NetworkLoss
<1>5. ASSUME NEW s \in Sessions, Connect(s) PROVE Shrinks
  <2>1. Consumed
    BY <1>5, <1>i, PeerEffect DEF Connect
  <2>. QED
    BY <1>1, <1>5, <2>1 DEF Connect
<1>6. ASSUME Close PROVE Shrinks
  <2>1. enc \in Sessions
    BY <1>l, <1>6 DEF Close
  <2>2. Consumed
    BY <1>2, <1>6, <1>i, <2>1, PeerEffect DEF Close
  <2>. QED
    BY <1>1, <1>6, <2>2 DEF Close
<1>7. ASSUME Snapshot \/ CarrierClosed \/ Disconnect \/ Retry \/ DialFails PROVE Shrinks
  <2>1. UNCHANGED csVars /\ UNCHANGED <<whitelists, call>>
    BY <1>7 DEF Snapshot, CarrierClosed, Disconnect, Retry, DialFails
  <2>2. cpc' = "register" => snapshot' = whitelists
    BY <1>7 DEF Snapshot, CarrierClosed, Disconnect, Retry, DialFails
  <2>. QED
    BY <1>1, <1>2, <2>1, <2>2
<1>8. ASSUME NEW p \in Callers \cup {Main}, NEW ok, Acked(p, ok) PROVE Consumed
  <2>1. via \in Sessions
    BY <1>0, <1>l, <1>8 DEF Acked
  <2>. QED
    BY <1>8, <1>i, <2>1, PeerEffect DEF Acked
<1>9. ASSUME MainAcked \/ MainFails PROVE Shrinks
  <2>1. Consumed
    BY <1>2, <1>8, <1>9 DEF MainAcked, MainFails, Failed
  <2>2. UNCHANGED <<whitelists, call>> /\ cpc' # "register"
    BY <1>9 DEF MainAcked, MainFails
  <2>. QED
    BY <1>1, <2>1, <2>2
<1>10. ASSUME NEW u \in Callers, UpdateAcked(u) \/ UpdateFails(u) PROVE Shrinks
  <2>1. Consumed
    BY <1>2, <1>8, <1>10 DEF UpdateAcked, UpdateFails, Failed
  <2>2. /\ UNCHANGED <<whitelists, cpc, snapshot>>
        /\ call' = [call EXCEPT ![u] = NoCall]
    BY <1>10 DEF UpdateAcked, UpdateFails
  <2>3. \A v \in Callers : call'[v].at = "stored" => call'[v] = call[v]
    BY <1>l, <2>2, IdleCall
  <2>. QED
    BY <1>1, <2>1, <2>2, <2>3
<1>11. ASSUME NEW u \in Callers, NEW id \in IDs, fetchAllow(u, id) PROVE Shrinks
  <2>1. /\ UNCHANGED csVars /\ UNCHANGED <<whitelists, cpc, snapshot>>
        /\ call' = [call EXCEPT ![u] = [at |-> "fetched", id |-> id, list |-> whitelists[id]]]
    BY <1>11 DEF fetchAllow
  <2>2. \A v \in Callers : call'[v].at = "stored" => call'[v] = call[v]
    BY <1>l, <2>1
  <2>. QED
    BY <1>1, <1>2, <2>1, <2>2
<1>12. ASSUME NEW m, enc \in Sessions, Send(enc, m), whitelists' = whitelists,
              \A i \in IDs : Carried(m, i) \subseteq InPlay[i],
              cpc' # "register",
              \A u \in Callers : call'[u].at = "stored" => call'[u] = call[u]
       PROVE  Shrinks
  <2>1. request'[enc] = m /\ \A s \in Sessions \ {enc} : request'[s] = request[s]
    BY <1>i, <1>12, PeerEffect
  <2>2. \A s \in Sessions : \/ request'[s] = request[s]
                            \/ \A i \in IDs : Carried(request'[s], i) \subseteq InPlay[i]
    BY <1>12, <2>1
  <2>. QED
    BY <1>12, <2>2, PlayShrinks DEF Shrinks
<1>13. ASSUME MainSends PROVE Shrinks
  <2>1. enc \in Sessions
    BY <1>l, <1>13 DEF MainSends, SendAuth, SendRegister, Heartbeat
  <2>2. UNCHANGED <<whitelists, call>> /\ cpc' # "register"
    BY <1>13 DEF MainSends, SendAuth, SendRegister, Heartbeat
  <2>3. CASE SendAuth \/ Heartbeat
    BY <1>12, <2>1, <2>2, <2>3, CarriedLists DEF SendAuth, Heartbeat, Transmit
  <2>4. CASE SendRegister
    <3>1. \A i \in IDs : \A x \in Carried([type |-> "register",
                                         reg |-> currentServices(snapshot)], i) : x = snapshot[i]
      BY CarriedByRegister
    <3>2. \A i \in IDs : snapshot[i] \in InPlay[i]
      BY <2>4, InPlayElements DEF SendRegister
    <3>. QED
      BY <1>12, <2>1, <2>2, <2>4, <3>1, <3>2 DEF SendRegister, Transmit
  <2>. QED
    BY <1>13, <2>3, <2>4 DEF MainSends
<1>14. ASSUME NEW u \in Callers, SendUpdate(u) PROVE Shrinks
  <2>1. enc \in Sessions /\ call[u].at = "stored" /\ UNCHANGED <<whitelists, cpc, snapshot>>
    BY <1>l, <1>14 DEF SendUpdate
  <2>2. \A v \in Callers : call'[v].at = "stored" => call'[v] = call[v]
    <3>1. call[u] \in [at : {"fetched", "stored", "waiting"}, id : IDs, list : Lists]
      BY <1>i, <2>1, CallContents DEF ClientInv
    <3>2. call'[u].at = "waiting" /\ \A v \in Callers \ {u} : call'[v] = call[v]
      BY <1>l, <1>14, <3>1 DEF SendUpdate
    <3>. QED
      BY <3>2
  <2> DEFINE m == [type |-> "update_whitelist", id |-> call[u].id, allow |-> call[u].list]
  <2>3. Send(enc, m)
    BY <1>14 DEF SendUpdate, Transmit
  <2>4. \A i \in IDs : \A x \in Carried(m, i) : i = call[u].id /\ x = call[u].list
    BY CarriedLists
  <2>5. \A i \in IDs : Carried(m, i) \subseteq InPlay[i]
    BY <2>1, <2>4, InPlayElements
  <2> HIDE DEF m
  <2>6. request'[enc] = m /\ \A s \in Sessions \ {enc} : request'[s] = request[s]
    BY <1>i, <2>1, <2>3, PeerEffect
  <2>7. \A s \in Sessions : \/ request'[s] = request[s]
                            \/ \A i \in IDs : Carried(request'[s], i) \subseteq InPlay[i]
    BY <2>5, <2>6
  <2>. QED
    BY <2>1, <2>2, <2>7, PlayShrinks DEF Shrinks
<1>15. ASSUME NEW u \in Callers, WhitelistAddRemove(u)
       PROVE  \E id \in IDs, list \in Lists : UpdateWhitelist(u, id, list)
  <2>1. call[u].id \in IDs /\ call[u].list \in Lists
    BY <1>15, <1>i, CallContents DEF WhitelistAddRemove, ClientInv
  <2>. QED
    BY <1>15, <2>1, EditedType DEF WhitelistAddRemove
<1>16. ASSUME NEW u \in Callers, CommandStarts(u)
       PROVE  Shrinks \/ \E id \in IDs, list \in Lists : UpdateWhitelist(u, id, list)
  BY <1>11, <1>16 DEF CommandStarts, WhitelistSet
<1>. QED
  BY <1>3, <1>4, <1>5, <1>6, <1>7, <1>9, <1>10, <1>13, <1>14, <1>15, <1>16
     DEF ClientNext, MainStep, CallerStep, Shrinks

LEMMA PublishedElements ==
  ASSUME NEW id, NEW x
  PROVE  /\ x \in Published(id) <=>
              \E t \in Services : ID(t) = id /\ t.client = uuid /\ x = allow[Object(t)]
         /\ x \in Published(id)' <=>
              \E t \in Services' : ID(t) = id /\ t.client = uuid /\ x = allow'[Object(t)]
<1>1. x \in Published(id) <=>
        \E t \in Services : ID(t) = id /\ t.client = uuid /\ x = allow[Object(t)]
  BY DEF Published
<1>2. x \in Published(id)' <=>
        \E t \in Services' : ID(t) = id /\ t.client = uuid /\ x = allow'[Object(t)]
  BY DEF Published
<1>. QED
  BY <1>1, <1>2

(* What a commit publishes, and with which lists. *)
LEMMA CommitLists ==
  ASSUME IInv, ObjectsDistinct, NEW c, NEW sess, NEW reg, RegisterCommit(c, sess, reg),
         NEW t \in Services'
  PROVE  \/ /\ t \in Services /\ t.client # c
            /\ allow'[Object(t)] = allow[Object(t)]
         \/ /\ t.idx \in DOMAIN reg.services
            /\ t = NewService(c, sess, reg.services, t.idx, version + 1)
            /\ t.client = c /\ t.sess = sess
            /\ ID(t) = ID(reg.services[t.idx])
            /\ allow'[Object(t)] = reg.services[t.idx].allow
<1> DEFINE g == version + 1
           svcs == reg.services
           new == NewRaw(c, sess, svcs, g) \cup NewHTTP(c, sess, svcs, g)
<1>1. allow' = NewAllow(svcs, g) /\ version \in Nat
  BY DEF RegisterCommit, IInv, RegTypeOK
<1>2. \/ t \in Services /\ t.client # c
      \/ t \in new
  BY DEF RegisterCommit, Services, Others
<1>3. CASE t \in Services /\ t.client # c
  <2>1. Object(t) \in DOMAIN allow
    BY <1>3 DEF IInv, RegTypeOK
  <2>2. allow'[Object(t)] = allow[Object(t)]
    BY <1>1, <2>1 DEF NewAllow
  <2>. QED
    BY <1>3, <2>2
<1>4. CASE t \in new
  <2>1. /\ t.idx \in DOMAIN svcs /\ t = NewService(c, sess, svcs, t.idx, g)
        /\ t.gen = g /\ t.client = c /\ t.sess = sess
    BY <1>4, NewEntries, SMTT(30)
  <2>2. svcs[t.idx].mode \in Modes
    BY <2>1 DEF RegisterCommit, Conflicts
  <2>3. ID(t) = ID(svcs[t.idx])
    BY <2>1, <2>2, NewServiceID, SMTT(30)
  <2>4. <<g, t.idx>> \notin DOMAIN allow
    <3>1. g \in Nat /\ ~(g <= version)
      BY <1>1, SMTT(30)
    <3>. QED
      BY <3>1 DEF ObjectsDistinct
  <2>5. allow'[<<g, t.idx>>] = svcs[t.idx].allow
    BY <1>1, <2>1, <2>4 DEF NewAllow
  <2>6. Object(t) = <<g, t.idx>>
    BY <2>1 DEF Object
  <2>. QED
    BY <2>1, <2>3, <2>5, <2>6
<1>. QED
  BY <1>2, <1>3, <1>4

(* Replace reaches the list of the service it was found for, and no other. *)
LEMMA ReplaceLists ==
  ASSUME IInv, ObjectsDistinct, NEW s \in Sessions, UpdateWhitelistReplace(s)
  PROVE  /\ UNCHANGED <<raw, http>>
         /\ found[s].allow = BadAllow => allow' = allow
         /\ found[s].allow # BadAllow =>
              /\ allow'[Object(found[s].svc)] = found[s].allow
              /\ \A t \in Services : t # found[s].svc => allow'[Object(t)] = allow[Object(t)]
<1>1. UNCHANGED <<raw, http>> /\ found[s].pending
  BY DEF UpdateWhitelistReplace
<1>2. found[s].svc \in Known /\ Services \subseteq Known
  BY <1>1 DEF Known
<1>3. CASE found[s].allow = BadAllow
  BY <1>1, <1>3 DEF UpdateWhitelistReplace
<1>4. CASE found[s].allow # BadAllow
  <2>1. allow' = [allow EXCEPT ![Object(found[s].svc)] = found[s].allow]
    BY <1>4 DEF UpdateWhitelistReplace
  <2>2. Object(found[s].svc) \in DOMAIN allow
    BY <1>2 DEF ObjectsDistinct
  <2>3. \A t \in Services : Object(t) \in DOMAIN allow
                            /\ (t # found[s].svc => Object(t) # Object(found[s].svc))
    BY <1>2 DEF ObjectsDistinct
  <2>. QED
    BY <1>1, <1>4, <2>1, <2>2, <2>3
<1>. QED
  BY <1>3, <1>4

(* The steps of the server, as the published services see them. *)
LEMMA RegistryEffect ==
  ASSUME CSInv, ServerSide, ServerAction
  PROVE  \/ UNCHANGED <<raw, http, allow>>
         \/ \E s \in Sessions :
              /\ HandlerStep(s)
              /\ \/ Services' = NotOf(Services, s) /\ allow' = allow
                 \/ /\ request[s].type = "register" /\ clientID[s] = uuid
                    /\ RegisterConflict(uuid, request[s].reg)
                 \/ /\ request[s].type = "register" /\ clientID[s] = uuid
                    /\ RegisterCommit(uuid, s, request[s].reg)
                 \/ handler[s] = "updating" /\ UpdateWhitelistReplace(s)
<1>1. CASE UNCHANGED csVars
  BY <1>1 DEF csVars, regVars
<1>2. CASE enc \in Sessions /\ \E m : OwnMessage(m) /\ Send(enc, m)
  BY <1>2 DEF Send, regVars
<1>3. ASSUME NEW s \in Sessions,
             Receive(s) \/ Accept(s) \/ SessionLost(s) \/ AcceptControl(s)
      PROVE  UNCHANGED <<raw, http, allow>>
  BY <1>3 DEF Receive, Accept, SessionLost, AcceptControl, regVars
<1>4. ASSUME NEW s \in Sessions,
             \/ AcceptControlError(s) \/ DecodeError(s) \/ HandleUnauthenticated(s)
             \/ HandleAuth(s) \/ HandlePlain(s) \/ DeferredClose(s)
             \/ HandleUpdateWhitelist(s)
      PROVE  UNCHANGED <<raw, http, allow>>
  BY <1>4 DEF AcceptControlError, DecodeError, HandleUnauthenticated, HandleAuth, HandlePlain,
     DeferredClose, HandleUpdateWhitelist, UpdateWhitelistFind, UpdateWhitelistRefused, regVars
<1>5. ASSUME NEW s \in Sessions, DeferredRemove(s)
      PROVE  Services' = NotOf(Services, s) /\ allow' = allow
  BY <1>5 DEF DeferredRemove, RemoveSession, NotOf, Services
<1>6. ASSUME NEW s \in Sessions, FinishUpdateWhitelist(s)
      PROVE  handler[s] = "updating" /\ UpdateWhitelistReplace(s)
  BY <1>6 DEF FinishUpdateWhitelist
<1>7. ASSUME NEW s \in Sessions, HandleRegister(s)
      PROVE  /\ request[s].type = "register" /\ clientID[s] = uuid
             /\ \/ UNCHANGED <<raw, http, allow>>
                \/ RegisterConflict(uuid, request[s].reg)
                \/ RegisterCommit(uuid, s, request[s].reg)
  <2>1. request[s].type = "register" /\ clientID[s] = uuid
    BY <1>7 DEF HandleRegister, Decoded, ServerSide, OwnSessions
  <2>2. \/ RegisterParseError(clientID[s], request[s].reg)
        \/ RegisterConflict(clientID[s], request[s].reg)
        \/ RegisterCommit(clientID[s], s, request[s].reg)
    BY <1>7 DEF HandleRegister
  <2>3. RegisterParseError(clientID[s], request[s].reg) => UNCHANGED <<raw, http, allow>>
    BY DEF RegisterParseError, regVars
  <2>. QED
    BY <2>1, <2>2, <2>3
<1>8. CASE \E s \in Sessions : HandlerStep(s)
  <2>1. PICK s \in Sessions : HandlerStep(s)
    BY <1>8
  <2>. QED
    BY <1>4, <1>5, <1>6, <1>7, <2>1 DEF HandlerStep
<1>. QED
  BY <1>1, <1>2, <1>3, <1>8 DEF ServerAction

(* Only lists in play come into force. *)
LEMMA ForceStep ==
  ASSUME SysInv, ServerAction, NEW id \in IDs, NEW x \in Published(id)'
  PROVE  x \in Published(id) \/ x \in InPlay[id]
<1>i. CSInv /\ ServerSide /\ IInv /\ ObjectsDistinct /\ UpdatesRequest
  BY DEF SysInv, CSInv, ServerSide
<1>1. PICK t \in Services' : ID(t) = id /\ t.client = uuid /\ x = allow'[Object(t)]
  BY PublishedElements, SMTT(30)
<1>2. ASSUME t \in Services, allow'[Object(t)] = allow[Object(t)]
      PROVE  x \in Published(id)
  BY <1>1, <1>2, PublishedElements
<1>3. CASE UNCHANGED <<raw, http, allow>>
  BY <1>2, <1>3 DEF Services
<1>4. ASSUME NEW s \in Sessions, Services' = NotOf(Services, s), allow' = allow
      PROVE  x \in Published(id)
  BY <1>2, <1>4 DEF NotOf
<1>5. ASSUME NEW reg, RegisterConflict(uuid, reg) PROVE x \in Published(id)
  BY <1>2, <1>5 DEF RegisterConflict, removeClientLocked, Others, Services
<1>6. ASSUME NEW s \in Sessions, request[s].type = "register",
             RegisterCommit(uuid, s, request[s].reg)
      PROVE  x \in InPlay[id]
  <2> DEFINE svcs == request[s].reg.services
  <2>1. /\ t.idx \in DOMAIN svcs /\ ID(t) = ID(svcs[t.idx])
        /\ allow'[Object(t)] = svcs[t.idx].allow
    BY <1>1, <1>6, <1>i, CommitLists, SMTT(30)
  <2>2. svcs[t.idx] \in Range(svcs)
    BY <2>1 DEF Range
  <2>3. Carried(request[s], id) = {r.allow : r \in {r \in Range(svcs) : ID(r) = id}}
    BY <1>6 DEF Carried
  <2>4. x \in Carried(request[s], id)
    BY <1>1, <2>1, <2>2, <2>3
  <2>. QED
    BY <2>4, InPlayElements
<1>7. ASSUME NEW s \in Sessions, handler[s] = "updating", UpdateWhitelistReplace(s)
      PROVE  x \in Published(id) \/ x \in InPlay[id]
  <2>1. t \in Services
    BY <1>7, <1>i, ReplaceLists DEF Services
  <2>2. CASE allow'[Object(t)] = allow[Object(t)]
    BY <1>2, <2>1, <2>2
  <2>3. CASE t = found[s].svc /\ allow'[Object(t)] = found[s].allow
    <3>1. /\ request[s].type = "update_whitelist" /\ found[s].allow = request[s].allow
          /\ ID(found[s].svc) = request[s].id
      BY <1>7, <1>i DEF UpdatesRequest
    <3>2. Carried(request[s], id) = {request[s].allow : y \in {id} \cap {request[s].id}}
      BY <3>1 DEF Carried
    <3>3. x \in Carried(request[s], id)
      BY <1>1, <2>3, <3>1, <3>2
    <3>. QED
      BY <3>3, InPlayElements
  <2>. QED
    BY <1>7, <1>i, <2>1, <2>2, <2>3, ReplaceLists
<1>. QED
  BY <1>3, <1>4, <1>5, <1>6, <1>7, <1>i, RegistryEffect

(* The variables of Whitelist have their types. *)
ListsTyped == InPlay \in Promise!InPlays /\ InForce \in [IDs -> SUBSET AllowLists]

LEMMA ListsType == SysInv => ListsTyped
<1> SUFFICES ASSUME SysInv PROVE ListsTyped
  OBVIOUS
<1>i. ClientTypeOK /\ SessTypeOK /\ RegTypeOK
  BY DEF SysInv, ClientInv, CSInv, IInv
<1>1. ASSUME NEW id \in IDs, NEW x \in Published(id) PROVE x \in AllowLists
  <2>1. PICK t \in Services : x = allow[Object(t)]
    BY <1>1, PublishedElements, SMTT(30)
  <2>. QED
    BY <1>i, <2>1 DEF RegTypeOK
<1>2. ASSUME NEW s \in Sessions, NEW id, NEW x \in Carried(request[s], id) PROVE x \in Lists
  <2>1. CASE request[s].type = "update_whitelist"
    <3>1. x = request[s].allow
      BY <1>2, <2>1 DEF Carried
    <3>. QED
      BY <1>i, <2>1, <3>1, RequestContents DEF Lists
  <2>2. CASE request[s].type = "register"
    <3>1. PICK r \in Range(request[s].reg.services) : x = r.allow
      BY <1>2, <2>2 DEF Carried
    <3>2. request[s].reg \in RegisterMsg
      BY <1>i, <2>2, RequestContents, MessageAssumption
    <3>3. request[s].reg.services \in Seq(ServiceReg)
      BY <3>2 DEF RegisterMsg
    <3>4. r \in ServiceReg
      BY <3>1, <3>3, SMTT(30) DEF Range
    <3>. QED
      BY <3>1, <3>4 DEF ServiceReg, Lists
  <2>3. CASE request[s].type \notin {"update_whitelist", "register"}
    BY <1>2, <2>3 DEF Carried
  <2>. QED
    BY <2>1, <2>2, <2>3
<1>3. ASSUME NEW id \in IDs, NEW x \in InPlay[id] PROVE x \in Lists
  <2>1. whitelists[id] \in Lists /\ snapshot[id] \in Lists
    BY <1>i DEF ClientTypeOK
  <2>2. ASSUME NEW u \in Callers, call[u].at = "stored" PROVE call[u].list \in Lists
    BY <1>i, <2>2, CallContents
  <2>. QED
    BY <1>2, <1>3, <2>1, <2>2, InPlayElements, SMTT(30)
<1>4. InPlay \in [IDs -> SUBSET Lists]
  <2>1. InPlay = [id \in IDs |-> InPlay[id]]
    BY DEF InPlay
  <2>. QED
    BY <1>3, <2>1
<1>5. InForce \in [IDs -> SUBSET AllowLists]
  BY <1>1 DEF InForce
<1>6. Lists = AllowLists \cup {BadAllow}
  BY DEF Lists
<1>. QED
  BY <1>4, <1>5, <1>6 DEF ListsTyped, Promise!InPlays

LEMMA PromiseInit == ClientInit => Promise!Init
<1> SUFFICES ASSUME ClientInit PROVE Promise!Init
  BY SMTT(30)
<1>1. \A t \in Services : t.client = ServerOwnerID
  BY NewEntries, SMTT(30) DEF ClientInit, CSInit, RegInit, Services
<1>2. ServerOwnerID # uuid
  BY OwnersDistinct, ClientAssumption
<1>3. InForce = [id \in IDs |-> {}]
  <2>1. \A id \in IDs : Published(id) = {}
    BY <1>1, <1>2, PublishedElements, SMTT(30)
  <2>. QED
    BY <2>1 DEF InForce
<1>4. /\ whitelists = initAllow /\ cpc = "dial"
      /\ \A u \in Callers : call[u].at # "stored"
      /\ \A s \in Sessions : request[s] = NoMsg
  BY IdleCall DEF ClientInit, CSInit
<1>5. \A id \in IDs : InPlay[id] = {initAllow[id]}
  <2> SUFFICES ASSUME NEW id \in IDs PROVE InPlay[id] = {initAllow[id]}
    OBVIOUS
  <2>1. \A s \in Sessions : Carried(request[s], id) = {}
    BY <1>4, CarriedLists
  <2>2. \A x : x \in InPlay[id] <=> x = initAllow[id]
    BY <1>4, <2>1, InPlayElements
  <2>. QED
    BY <2>2, SMTT(30)
<1>6. InPlay = [id \in IDs |-> {initAllow[id]}]
  <2>1. InPlay = [id \in IDs |-> InPlay[id]]
    BY DEF InPlay
  <2>. QED
    BY <1>5, <2>1
<1>. QED
  BY <1>3, <1>4, <1>6 DEF Promise!Init

LEMMA PromiseStep ==
  ASSUME SysInv, ListsTyped', [ClientNext]_sysVars
  PROVE  [Promise!Next]_<<whitelists, InPlay, InForce>>
<1>0. ClientInv
  BY DEF SysInv
<1>f. \A id \in IDs : InForce[id] = Published(id) /\ InForce'[id] = Published(id)'
  BY DEF InForce
<1>t. /\ InPlay' \in Promise!InPlays /\ InForce' \in [IDs -> SUBSET AllowLists]
  BY DEF ListsTyped
<1>1. CASE whitelists' = whitelists /\ \A id \in IDs : InPlay'[id] \subseteq InPlay[id]
  <2>1. ServerAction
    BY <1>0, ClientServerActions
  <2>2. ASSUME NEW id \in IDs, NEW x \in InForce'[id]
        PROVE  x \in InForce[id] \cup InPlay[id]
    BY <1>f, <2>1, <2>2, ForceStep
  <2>3. Promise!Enforce
    BY <1>1, <1>t, <2>2 DEF Promise!Enforce
  <2>. QED
    BY <2>3 DEF Promise!Next
<1>2. ASSUME NEW u \in Callers, NEW i \in IDs, NEW list \in Lists, UpdateWhitelist(u, i, list)
      PROVE  Promise!Next
  <2>1. /\ whitelists' = [whitelists EXCEPT ![i] = list]
        /\ call' = [call EXCEPT ![u] =
             IF connected THEN [at |-> "stored", id |-> i, list |-> list] ELSE NoCall]
        /\ UNCHANGED <<csVars, cpc, snapshot>>
    BY <1>2 DEF UpdateWhitelist
  <2>2. DOMAIN whitelists = IDs /\ DOMAIN call = Callers
    BY <1>0 DEF ClientInv, ClientTypeOK
  <2>3. InForce' = InForce
    BY <2>1 DEF InForce, Published, Services, csVars, regVars
  <2>4. ASSUME NEW id \in IDs, NEW x \in InPlay'[id]
        PROVE  x \in InPlay[id] \cup (IF id = i THEN {list} ELSE {})
    <3>1. request' = request
      BY <2>1 DEF csVars, sessVars
    <3>2. ASSUME NEW v \in Callers, call'[v].at = "stored"
          PROVE  call'[v] = call[v] \/ (call'[v].id = i /\ call'[v].list = list)
      <4>1. CASE v = u /\ connected
        BY <2>1, <2>2, <4>1
      <4>2. CASE v = u /\ ~connected
        BY <2>1, <2>2, <3>2, <4>2, IdleCall
      <4>3. CASE v # u
        BY <2>1, <2>2, <4>3
      <4>. QED
        BY <4>1, <4>2, <4>3
    <3>3. whitelists'[id] = IF id = i THEN list ELSE whitelists[id]
      BY <2>1, <2>2
    <3>. QED
      BY <2>1, <2>4, <3>1, <3>2, <3>3, InPlayElements, SMTT(30)
  <2>5. Promise!Choose(i, list)
    BY <1>t, <2>1, <2>3, <2>4 DEF Promise!Choose
  <2>6. list \in AllowLists \cup {BadAllow}
    BY DEF Lists
  <2>. QED
    BY <2>5, <2>6 DEF Promise!Next
<1>. QED
  BY <1>1, <1>2, PlayStep

(* UpdateWhitelist, the registration and the server's Replace: whatever    *)
(* sessions are lost and however commands overlap, the server enforces     *)
(* only lists that were chosen, and none that has left play.               *)
THEOREM KeepsPromiseHolds == ClientSpec => KeepsPromise
<1>1. SysInv /\ ListsTyped' /\ [ClientNext]_sysVars
      => [Promise!Next]_<<whitelists, InPlay, InForce>>
  BY PromiseStep
<1>. QED
  BY <1>1, PromiseInit, ListsType, SystemInvariant, PTL DEF ClientSpec, KeepsPromise, Promise!Spec
-----------------------------------------------------------------------------
(* A session from dial to close: connected is set all along, Run sends     *)
(* nothing but its own messages, and once the server has accepted the      *)
(* client's id the handler serves it for as long as the session lives.     *)
Accepted ==
  \/ cpc \in {"snapshot", "register", "registering", "up", "beating"}
  \/ cpc = "authing" /\ reply[enc] = Ack(TRUE)

InSession ==
  /\ cpc \in {"auth", "authing", "snapshot", "register", "registering", "up", "beating",
              "ending"} => connected = TRUE
  /\ sendMu = Main /\ request[via] # NoMsg =>
       request[via].type \in {"auth", "register", "heartbeat"}
  /\ Accepted /\ alive[enc] => handler[enc] \in {"loop", "updating"} /\ clientID[enc] = uuid

LEMMA Acks ==
  /\ Ack(TRUE) # Ack(FALSE) /\ Ack(TRUE) # NoMsg /\ Ack(FALSE) # NoMsg
  /\ Ack(TRUE).ok = TRUE /\ Ack(FALSE).ok = FALSE
<1>1. /\ Ack(TRUE).ok = TRUE /\ Ack(FALSE).ok = FALSE
      /\ Ack(TRUE).type = "ack" /\ Ack(FALSE).type = "ack"
  BY DEF Ack
<1>. QED
  BY <1>1, NoMessage

(* The handler of an authenticated client leaves only a lost session. *)
LEMMA LiveHandler ==
  ASSUME CSInv, ServerSide, NEW s \in Sessions, HandlerStep(s), alive'[s],
         handler[s] \in {"loop", "updating"}, clientID[s] = uuid
  PROVE  handler'[s] \in {"loop", "updating"} /\ clientID'[s] = uuid
<1>t. /\ DOMAIN handler = Sessions /\ DOMAIN clientID = Sessions
  BY DEF CSInv, SessTypeOK
<1>0. uuid \in Clients /\ uuid # NoClient
  BY ClientAssumption, OwnersDistinct
<1>1. CASE AcceptControlError(s) \/ DecodeError(s) \/ DeferredRemove(s) \/ DeferredClose(s)
  BY <1>1 DEF AcceptControlError, DecodeError, DeferredRemove, DeferredClose
<1>2. CASE HandleUnauthenticated(s)
  BY <1>0, <1>2 DEF HandleUnauthenticated
<1>3. CASE HandleAuth(s)
  <2>1. request[s].uuid = uuid
    BY <1>3 DEF HandleAuth, Decoded, ServerSide, OwnSessions
  <2>. QED
    BY <1>0, <1>3, <1>t, <2>1 DEF HandleAuth
<1>4. CASE HandleRegister(s) \/ HandlePlain(s)
  BY <1>4 DEF HandleRegister, HandlePlain
<1>5. CASE HandleUpdateWhitelist(s) \/ FinishUpdateWhitelist(s)
  BY <1>5, <1>t DEF HandleUpdateWhitelist, FinishUpdateWhitelist, Goto
<1>. QED
  BY <1>1, <1>2, <1>3, <1>4, <1>5 DEF HandlerStep

(* Whoever gets a positive ack to auth is authenticated. *)
LEMMA AuthAnswered ==
  ASSUME CSInv, ServerSide, NEW s \in Sessions, HandlerStep(s), request[s].type = "auth",
         reply[s] # Ack(TRUE), reply'[s] = Ack(TRUE)
  PROVE  handler'[s] = "loop" /\ clientID'[s] = uuid
<1>t. /\ DOMAIN handler = Sessions /\ DOMAIN clientID = Sessions /\ DOMAIN reply = Sessions
  BY DEF CSInv, SessTypeOK
<1>0. request[s].uuid = uuid /\ uuid \in Clients
  BY ClientAssumption DEF ServerSide, OwnSessions
<1>1. CASE AcceptControlError(s) \/ DecodeError(s) \/ DeferredRemove(s) \/ DeferredClose(s)
  BY <1>1 DEF AcceptControlError, DecodeError, DeferredRemove, DeferredClose
<1>2. CASE HandleAuth(s)
  BY <1>0, <1>2, <1>t DEF HandleAuth, Decoded
<1>3. CASE HandleUnauthenticated(s)
  BY <1>3 DEF HandleUnauthenticated
<1>4. CASE HandleRegister(s) \/ HandleUpdateWhitelist(s) \/ HandlePlain(s)
  BY <1>4 DEF HandleRegister, HandleUpdateWhitelist, HandlePlain, Decoded
<1>5. CASE FinishUpdateWhitelist(s)
  BY <1>5 DEF FinishUpdateWhitelist, ServerSide, UpdatesRequest
<1>. QED
  BY <1>1, <1>2, <1>3, <1>4, <1>5 DEF HandlerStep

LEMMA AckedContents ==
  ASSUME SysInv, NEW p \in Callers \cup {Main}, NEW ok, Acked(p, ok)
  PROVE  /\ via \in Sessions /\ Receive(via) /\ sendMu = p /\ sendMu' = Nobody
         /\ ok = TRUE => reply[via] = Ack(TRUE)
<1>1. p # Nobody
  BY ClientAssumption
<1>2. via \in Sessions
  BY <1>1 DEF Acked, SysInv, ClientInv, Locking
<1>3. reply[via] \in {Ack(TRUE), Ack(FALSE), NoMsg}
  BY <1>2 DEF SysInv, CSInv, SessTypeOK
<1>4. reply[via] # NoMsg /\ ok = reply[via].ok
  BY DEF Acked
<1>5. ok = TRUE => reply[via] = Ack(TRUE)
  BY <1>3, <1>4, Acks
<1>. QED
  BY <1>2, <1>5 DEF Acked

LEMMA ConnectedStep ==
  ASSUME InSession, [ClientNext]_sysVars
  PROVE  cpc' \in {"auth", "authing", "snapshot", "register", "registering", "up", "beating",
                   "ending"} => connected' = TRUE
<1> DEFINE Open == {"auth", "authing", "snapshot", "register", "registering", "up", "beating",
                    "ending"}
<1>0. cpc \in Open => connected = TRUE
  BY DEF InSession
<1>1. CASE UNCHANGED sysVars
  BY <1>0, <1>1 DEF sysVars, clientVars
<1>2. ASSUME NEW s \in Sessions, ServerStep(s) \/ NetworkLoss(s)
      PROVE  cpc' \in Open => connected' = TRUE
  BY <1>0, <1>2 DEF ServerStep, NetworkLoss, clientVars
<1>3. ASSUME NEW u \in Callers, CommandStarts(u) \/ CallerStep(u)
      PROVE  cpc' \in Open => connected' = TRUE
  <2>1. UNCHANGED <<cpc, connected>>
    BY <1>3 DEF CommandStarts, CallerStep, fetchAllow, WhitelistSet, WhitelistAddRemove,
       UpdateWhitelist, SendUpdate, UpdateAcked, UpdateFails
  <2>. QED
    BY <1>0, <2>1
<1>4. CASE (\E s \in Sessions : Connect(s)) \/ Disconnect \/ Close \/ Retry \/ DialFails
  BY <1>4 DEF Connect, Disconnect, Close, Retry, DialFails
<1>5. CASE MainSends \/ MainAcked \/ MainFails \/ Snapshot \/ CarrierClosed
  <2>1. connected' = connected /\ cpc \in Open
    BY <1>5 DEF MainSends, SendAuth, SendRegister, Heartbeat, MainAcked, MainFails, Snapshot,
       CarrierClosed
  <2>. QED
    BY <1>0, <2>1
<1>. QED
  BY <1>1, <1>2, <1>3, <1>4, <1>5 DEF ClientNext, MainStep

LEMMA MainRequestStep ==
  ASSUME SysInv, InSession, [ClientNext]_sysVars
  PROVE  sendMu' = Main /\ request'[via'] # NoMsg =>
           request'[via'].type \in {"auth", "register", "heartbeat"}
<1>i. ClientInv /\ CSInv /\ UpdatesRequest
  BY DEF SysInv, ServerSide
<1>0. Main # Nobody /\ \A u \in Callers : u # Main
  BY ClientAssumption
<1>1. CASE MainSends
  <2>1. enc \in Sessions
    BY <1>1, <1>i DEF MainSends, SendAuth, SendRegister, Heartbeat, ClientInv, Locking,
       ClientTypeOK
  <2>2. PICK m : Send(enc, m) /\ m.type \in {"auth", "register", "heartbeat"} /\ via' = enc
    <3>1. /\ [type |-> "auth", uuid |-> uuid].type = "auth"
          /\ [type |-> "heartbeat"].type = "heartbeat"
          /\ [type |-> "register", reg |-> currentServices(snapshot)].type = "register"
      OBVIOUS
    <3>. QED
      BY <1>1, <3>1 DEF MainSends, SendAuth, SendRegister, Heartbeat, Transmit
  <2>. QED
    BY <1>i, <2>1, <2>2, PeerEffect
<1>2. ASSUME NEW u \in Callers, SendUpdate(u) PROVE sendMu' # Main
  BY <1>0, <1>2 DEF SendUpdate, Transmit
<1>3. ASSUME NEW p, NEW ok, Acked(p, ok) \/ Failed(p) PROVE sendMu' # Main
  BY <1>0, <1>3 DEF Acked, Failed
<1>4. CASE HolderWaits /\ NoRequest
  <2>1. UNCHANGED <<sendMu, via>>
    BY <1>4 DEF HolderWaits
  <2>2. sendMu = Main => via \in Sessions
    BY <1>0, <1>i DEF ClientInv, Locking
  <2>3. \A t \in Sessions : request'[t] \in {request[t], NoMsg}
    <3>1. CASE UNCHANGED csVars
      BY <3>1 DEF csVars, sessVars
    <3>2. ASSUME NEW s \in Sessions, Accept(s) \/ SessionLost(s)
          PROVE  request' = request
      BY <1>i, <3>2, PeerEffect
    <3>3. ASSUME NEW s \in Sessions, HandlerStep(s) \/ AcceptControl(s)
          PROVE  \A t \in Sessions : request'[t] \in {request[t], NoMsg}
      BY <1>i, <3>3, HandlerEffect
    <3>. QED
      BY <1>4, <3>1, <3>2, <3>3 DEF NoRequest
  <2>. QED
    BY <2>1, <2>2, <2>3 DEF InSession
<1>. QED
  BY <1>i, <1>1, <1>2, <1>3, <1>4, StepsAroundLock

LEMMA AcceptedStep ==
  ASSUME SysInv, InSession, [ClientNext]_sysVars, Accepted', alive'[enc']
  PROVE  handler'[enc'] \in {"loop", "updating"} /\ clientID'[enc'] = uuid
<1>i. ClientInv /\ CSInv /\ ServerSide /\ UpdatesRequest /\ RequestOfHolder
  BY DEF SysInv, ServerSide
<1>0. Main # Nobody /\ \A u \in Callers : u # Nobody /\ u # Main
  BY ClientAssumption
<1>l. /\ enc \in Sessions \cup {NoSession}
      /\ enc = NoSession => cpc \in {"dial", "backoff"} /\ \A u \in Callers : call[u].at # "stored"
      /\ sendMu # Nobody => via \in Sessions
      /\ cpc = "authing" => sendMu = Main /\ via = enc
      /\ sendMu = Main => via = enc
  BY <1>i DEF ClientInv, Locking, ClientTypeOK
<1> DEFINE Served == handler'[enc'] \in {"loop", "updating"} /\ clientID'[enc'] = uuid
<1>1. ASSUME Accepted, alive[enc], UNCHANGED <<enc, handler, clientID>> PROVE Served
  BY <1>1 DEF InSession
<1>2. CASE UNCHANGED sysVars
  BY <1>1, <1>2 DEF sysVars, clientVars, csVars, sessVars, Accepted
<1>3. ASSUME NEW s \in Sessions, SessionLost(s), UNCHANGED clientVars PROVE Served
  <2>1. enc' = enc /\ cpc' = cpc
    BY <1>3 DEF clientVars
  <2>2. enc \in Sessions
    BY <1>l, <2>1 DEF Accepted
  <2>3. alive[enc] /\ UNCHANGED <<handler, clientID, reply>>
    BY <1>3, <1>i, <2>1, <2>2, PeerEffect
  <2>. QED
    BY <1>1, <2>1, <2>3 DEF Accepted
<1>4. ASSUME NEW s \in Sessions, HandlerStep(s) \/ AcceptControl(s), UNCHANGED clientVars
      PROVE  Served
  <2>1. enc' = enc /\ cpc' = cpc
    BY <1>4 DEF clientVars
  <2>2. enc \in Sessions
    BY <1>l, <2>1 DEF Accepted
  <2>3. CASE s # enc
    <3>1. /\ handler'[enc] = handler[enc] /\ clientID'[enc] = clientID[enc]
          /\ alive'[enc] = alive[enc] /\ reply'[enc] = reply[enc]
      BY <1>4, <1>i, <2>2, <2>3, HandlerEffect
    <3>. QED
      BY <2>1, <3>1 DEF InSession, Accepted
  <2>4. CASE s = enc /\ HandlerStep(s)
    <3>1. alive[enc]
      BY <1>4, <1>i, <2>1, <2>2, <2>4, HandlerEffect
    <3>2. CASE Accepted
      <4>1. handler[enc] \in {"loop", "updating"} /\ clientID[enc] = uuid
        BY <3>1, <3>2 DEF InSession
      <4>. QED
        BY <1>i, <2>1, <2>2, <2>4, <4>1, LiveHandler
    <3>3. CASE ~Accepted
      <4>1. cpc = "authing" /\ reply[enc] # Ack(TRUE) /\ reply'[enc] = Ack(TRUE)
        BY <2>1, <3>3 DEF Accepted
      <4>2. request[enc] # NoMsg
        BY <1>i, <2>2, <2>4, <4>1, HandlerEffect
      <4>3. request[enc].type = "auth"
        BY <1>i, <1>l, <4>1, <4>2 DEF RequestOfHolder
      <4>. QED
        BY <1>i, <2>1, <2>2, <2>4, <4>1, <4>3, AuthAnswered
    <3>. QED
      BY <3>2, <3>3
  <2>5. CASE s = enc /\ AcceptControl(s)
    <3>1. /\ UNCHANGED <<clientID, alive, reply>> /\ handler[enc] = "accepting"
      BY <2>5 DEF AcceptControl
    <3>. QED
      BY <2>1, <3>1 DEF InSession, Accepted
  <2>. QED
    BY <1>4, <2>3, <2>4, <2>5
<1>5. ASSUME \/ \E s \in Sessions : Connect(s)
             \/ DialFails \/ Disconnect \/ Close \/ Retry \/ CarrierClosed \/ MainFails
      PROVE  FALSE
  BY <1>5 DEF Connect, DialFails, Disconnect, Close, Retry, CarrierClosed, MainFails, Accepted
<1>6. ASSUME Snapshot PROVE Served
  BY <1>1, <1>6 DEF Snapshot, csVars, sessVars, Accepted
<1>7. ASSUME MainSends PROVE Served
  <2>1. enc \in Sessions /\ enc' = enc
    BY <1>7, <1>l DEF MainSends, SendAuth, SendRegister, Heartbeat
  <2>2. PICK m : Send(enc, m)
    BY <1>7 DEF MainSends, SendAuth, SendRegister, Heartbeat, Transmit
  <2>3. UNCHANGED <<handler, alive, clientID, reply>> /\ reply[enc] = NoMsg
    BY <1>i, <2>1, <2>2, PeerEffect
  <2>4. ~SendAuth
    BY <2>1, <2>3, Acks DEF SendAuth, Accepted
  <2>5. Accepted
    BY <1>7, <2>4 DEF MainSends, SendRegister, Heartbeat, Accepted
  <2>. QED
    BY <1>1, <2>1, <2>3, <2>5
<1>8. ASSUME MainAcked PROVE Served
  <2>1. PICK ok \in BOOLEAN : /\ Acked(Main, ok)
                              /\ cpc' = IF ~ok THEN "ending"
                                        ELSE IF cpc = "authing" THEN "snapshot" ELSE "up"
    BY <1>8 DEF MainAcked
  <2>2. ok = TRUE
    BY <2>1 DEF Accepted
  <2>3. via \in Sessions /\ Receive(via) /\ via = enc /\ reply[via] = Ack(TRUE)
    BY <1>l, <2>1, <2>2, AckedContents
  <2>4. UNCHANGED <<handler, alive, clientID>> /\ enc' = enc
    BY <1>8, <1>i, <2>3, PeerEffect DEF MainAcked
  <2>5. Accepted
    BY <1>8, <2>3 DEF MainAcked, Accepted
  <2>. QED
    BY <1>1, <2>4, <2>5
<1>9. ASSUME NEW u \in Callers, CommandStarts(u) \/ CallerStep(u) PROVE Served
  <2>1. UNCHANGED <<cpc, enc>>
    BY <1>9 DEF CommandStarts, CallerStep, fetchAllow, WhitelistSet, WhitelistAddRemove,
       UpdateWhitelist, SendUpdate, UpdateAcked, UpdateFails
  <2>2. enc \in Sessions
    BY <1>l, <2>1 DEF Accepted
  <2>3. /\ UNCHANGED <<handler, alive, clientID>>
        /\ reply'[enc] \in {reply[enc], NoMsg}
    <3>1. CASE UNCHANGED csVars
      BY <3>1 DEF csVars, sessVars
    <3>2. ASSUME NEW m, Send(enc, m)
          PROVE  UNCHANGED <<handler, alive, clientID, reply>>
      BY <1>i, <2>2, <3>2, PeerEffect
    <3>3. ASSUME NEW ok, Acked(u, ok)
          PROVE  UNCHANGED <<handler, alive, clientID>> /\ reply'[enc] \in {reply[enc], NoMsg}
      <4>1. via \in Sessions /\ Receive(via)
        BY <3>3, AckedContents
      <4>. QED
        BY <1>i, <2>2, <4>1, PeerEffect
    <3>4. \/ UNCHANGED csVars
          \/ \E m : Send(enc, m)
          \/ \E ok : Acked(u, ok)
      BY <1>9 DEF CommandStarts, CallerStep, fetchAllow, WhitelistSet, WhitelistAddRemove,
         UpdateWhitelist, SendUpdate, UpdateAcked, UpdateFails, Transmit, Failed
    <3>. QED
      BY <3>1, <3>2, <3>3, <3>4
  <2>4. Accepted
    BY <2>1, <2>3, Acks DEF Accepted
  <2>. QED
    BY <1>1, <2>1, <2>3, <2>4
<1>. QED
  BY <1>2, <1>3, <1>4, <1>5, <1>6, <1>7, <1>8, <1>9
     DEF ClientNext, MainStep, ServerStep, NetworkLoss

(* Client.session and handleSession: while the session lives, both sides   *)
(* agree on where it stands.                                               *)
THEOREM SessionInvariant == ClientSpec => []InSession
<1>1. ClientInit => InSession
  BY ClientAssumption DEF ClientInit, InSession, Accepted
<1>2. SysInv /\ InSession /\ [ClientNext]_sysVars => InSession'
  <2> SUFFICES ASSUME SysInv, InSession, [ClientNext]_sysVars PROVE InSession'
    OBVIOUS
  <2>. QED
    BY ConnectedStep, MainRequestStep, AcceptedStep DEF InSession
<1>. QED
  BY <1>1, <1>2, SystemInvariant, PTL DEF ClientSpec

-----------------------------------------------------------------------------
(* Why a clean registration leaves both sides with the same lists.  From   *)
(* the copy of the lists on, and as long as clean holds: sessions other    *)
(* than the current one have nothing left to do but leave, at most one     *)
(* update is under way, what is sent is what the client has, and once the  *)
(* server has it, the client's entries are all of this session, each with  *)
(* the client's list unless the update under way is for it.                *)
Busy(u) == call[u].at \in {"stored", "waiting"}

Tracking == clean = TRUE /\ cpc \in {"register", "registering", "up", "beating"}

OthersSilent ==
  \A s \in Sessions \ {enc} : request[s] = NoMsg /\ found[s].pending = FALSE

OneUpdate ==
  /\ \A u, v \in Callers : Busy(u) /\ Busy(v) => u = v
  /\ \A u \in Callers : Busy(u) => /\ cpc \in {"up", "beating"}
                                   /\ call[u].list = whitelists[call[u].id]
  /\ sendMu # Nobody => via = enc

Copied ==
  /\ cpc = "register" => snapshot = whitelists
  /\ cpc = "registering" /\ request[enc] # NoMsg =>
       request[enc] = [type |-> "register", reg |-> currentServices(whitelists)]

Registered ==
  /\ alive[enc]
  /\ cpc \in {"up", "beating"} \/ (cpc = "registering" /\ reply[enc] = Ack(TRUE))

Own(t, id) == t \in Services /\ ID(t) = id /\ t.client = uuid

OwnEntries ==
  /\ \A t \in Services : t.client = uuid => t.sess = enc
  /\ \A i \in DOMAIN services : Sole(i) =>
       \E t : Own(t, ID(services[i])) /\ \A r : Own(r, ID(services[i])) => r = t
  /\ found[enc].pending = TRUE => found[enc].svc \in Services

Settled(id) ==
  \A u \in Callers : Busy(u) => call[u].id # id \/ (sendMu = u /\ reply[enc] = Ack(TRUE))

OwnLists ==
  \A i \in DOMAIN services : Sole(i) /\ Settled(ID(services[i])) =>
     \A t : Own(t, ID(services[i])) => allow[Object(t)] = whitelists[ID(services[i])]

Sync ==
  Tracking => OthersSilent /\ OneUpdate /\ Copied /\ (Registered => OwnEntries /\ OwnLists)

LEMMA EntryFields ==
  ASSUME NEW lists, NEW i \in DOMAIN services
  PROVE  /\ DOMAIN currentServices(lists).services = DOMAIN services
         /\ currentServices(lists).services[i].mode = services[i].mode
         /\ currentServices(lists).services[i].host = services[i].host
         /\ ID(currentServices(lists).services[i]) = ID(services[i])
         /\ currentServices(lists).services[i].allow = lists[ID(services[i])]
<1> DEFINE t == [mode |-> services[i].mode, host |-> services[i].host,
                 path |-> services[i].path, allow |-> lists[ID(services[i])]]
<1>1. /\ DOMAIN currentServices(lists).services = DOMAIN services
      /\ currentServices(lists).services[i] = t
  BY DEF currentServices
<1>2. t.mode = services[i].mode /\ t.host = services[i].host
  OBVIOUS
<1>3. /\ ID(currentServices(lists).services[i]) = ID(services[i])
      /\ currentServices(lists).services[i].allow = lists[ID(services[i])]
  BY <1>1, RegistrationLists
<1>. QED
  BY <1>1, <1>2, <1>3

(* The configuration is a sequence: its registration is. *)
LEMMA ServicesDomain ==
  ASSUME NEW lists \in [IDs -> Lists]
  PROVE  DOMAIN services \subseteq Nat
<1>1. currentServices(lists) \in RegisterMsg
  BY ClientAssumption, MessageAssumption
<1>2. currentServices(lists).services \in Seq(ServiceReg)
  BY <1>1 DEF RegisterMsg
<1>3. DOMAIN currentServices(lists).services = DOMAIN services
  BY DEF currentServices
<1>. QED
  BY <1>2, <1>3, SMTT(30)

(* A committed registration publishes every sole entry, once. *)
LEMMA CommitSole ==
  ASSUME IInv, ObjectsDistinct, NEW lists \in [IDs -> Lists], NEW s,
         RegisterCommit(uuid, s, currentServices(lists))
  PROVE  /\ \A t \in Services' : t.client = uuid => t.sess = s
         /\ \A i \in DOMAIN services : Sole(i) =>
              \E t : /\ Own(t, ID(services[i]))'
                     /\ \A r : Own(r, ID(services[i]))' => r = t
         /\ \A i \in DOMAIN services : \A t :
              Own(t, ID(services[i]))' => allow'[Object(t)] = lists[ID(services[i])]
<1> DEFINE reg == currentServices(lists)
           svcs == reg.services
           g == version + 1
<1>1. ASSUME NEW t \in Services', t.client = uuid
      PROVE  /\ t.idx \in DOMAIN services /\ t = NewService(uuid, s, svcs, t.idx, g)
             /\ t.sess = s /\ ID(t) = ID(services[t.idx])
             /\ allow'[Object(t)] = lists[ID(services[t.idx])]
  <2>1. /\ t.idx \in DOMAIN svcs /\ t = NewService(uuid, s, svcs, t.idx, g)
        /\ t.sess = s /\ ID(t) = ID(svcs[t.idx]) /\ allow'[Object(t)] = svcs[t.idx].allow
    BY <1>1, CommitLists, SMTT(30)
  <2>. QED
    BY <2>1, RegistrationLists
<1>2. ASSUME NEW i \in DOMAIN services, Sole(i)
      PROVE  \E t : /\ Own(t, ID(services[i]))'
                    /\ \A r : Own(r, ID(services[i]))' => r = t
  <2>0. PICK t : t = NewService(uuid, s, svcs, i, g)
    OBVIOUS
  <2>1. DOMAIN svcs = DOMAIN services /\ DOMAIN services \subseteq Nat
    BY EntryFields, ServicesDomain
  <2>2. \A j \in DOMAIN services : svcs[j].mode = services[j].mode /\ svcs[j].host = services[j].host
    BY EntryFields
  <2>3. \A j \in DOMAIN svcs : j > i => ~(isRaw(svcs[j].mode) /\ svcs[j].host = svcs[i].host)
                                        \/ ~isRaw(svcs[i].mode)
    <3> SUFFICES ASSUME NEW j \in DOMAIN services, j > i
                 PROVE  ~(isRaw(svcs[j].mode) /\ svcs[j].host = svcs[i].host)
                        \/ ~isRaw(svcs[i].mode)
      BY <2>1
    <3>1. j \in DOMAIN services \ {i}
      BY <2>1, SMTT(30)
    <3>. QED
      BY <1>2, <2>2, <3>1 DEF Sole
  <2>4. t \in NewRaw(uuid, s, svcs, g) \cup NewHTTP(uuid, s, svcs, g)
    <3>1. CASE isRaw(svcs[i].mode)
      BY <2>0, <2>1, <2>3, <3>1 DEF NewRaw
    <3>2. CASE ~isRaw(svcs[i].mode)
      BY <2>0, <2>1, <3>2 DEF NewHTTP
    <3>. QED
      BY <3>1, <3>2
  <2>5. t \in Services'
    BY <2>4 DEF RegisterCommit, Services
  <2>6. t.client = uuid /\ t.idx = i
    BY <2>0 DEF NewService
  <2>7. Own(t, ID(services[i]))'
    <3>1. ID(t) = ID(services[i])
      BY <1>1, <2>5, <2>6
    <3>. QED
      BY <2>5, <2>6, <3>1 DEF Own
  <2>8. ASSUME NEW r, Own(r, ID(services[i]))' PROVE r = t
    <3>1. r \in Services' /\ ID(r) = ID(services[i]) /\ r.client = uuid
      BY <2>8 DEF Own
    <3>2. /\ r.idx \in DOMAIN services /\ r = NewService(uuid, s, svcs, r.idx, g)
          /\ ID(services[r.idx]) = ID(services[i])
      BY <1>1, <3>1
    <3>3. r.idx = i
      BY <1>2, <3>2 DEF Sole
    <3>. QED
      BY <2>0, <3>2, <3>3
  <2>. QED
    BY <2>7, <2>8
<1>3. ASSUME NEW i \in DOMAIN services, NEW t, Own(t, ID(services[i]))'
      PROVE  allow'[Object(t)] = lists[ID(services[i])]
  <2>1. t \in Services' /\ ID(t) = ID(services[i]) /\ t.client = uuid
    BY <1>3, SMTT(30) DEF Own
  <2>. QED
    BY <1>1, <2>1
<1>. QED
  BY <1>1, <1>2, <1>3

(* The handler of a session with nothing to do can only take its own down. *)
LEMMA SilentHandler ==
  ASSUME CSInv, NEW s \in Sessions, HandlerStep(s) \/ AcceptControl(s),
         request[s] = NoMsg, found[s].pending = FALSE
  PROVE  /\ allow' = allow /\ found' = found
         /\ Services' \subseteq Services
         /\ \A t \in Services : t.sess # s => t \in Services'
<1>1. CASE \/ AcceptControl(s) \/ AcceptControlError(s) \/ DecodeError(s)
           \/ DeferredClose(s)
  BY <1>1 DEF AcceptControl, AcceptControlError, DecodeError, DeferredClose, regVars, Services
<1>2. CASE HandleUnauthenticated(s)
  BY <1>2 DEF HandleUnauthenticated
<1>3. CASE HandleAuth(s) \/ HandleRegister(s) \/ HandleUpdateWhitelist(s) \/ HandlePlain(s)
  BY <1>3, NoMessage DEF HandleAuth, HandleRegister, HandleUpdateWhitelist, HandlePlain, Decoded
<1>4. CASE FinishUpdateWhitelist(s)
  BY <1>4 DEF FinishUpdateWhitelist, UpdateWhitelistReplace
<1>5. CASE DeferredRemove(s)
  BY <1>5 DEF DeferredRemove, RemoveSession, NotOf, Services
<1>. QED
  BY <1>1, <1>2, <1>3, <1>4, <1>5 DEF HandlerStep

LEMMA RegisterAnswered ==
  ASSUME CSInv, ServerSide, NEW s \in Sessions, HandlerStep(s), request[s].type = "register",
         clientID[s] = uuid, reply[s] # Ack(TRUE), reply'[s] = Ack(TRUE)
  PROVE  RegisterCommit(uuid, s, request[s].reg)
<1>t. DOMAIN reply = Sessions
  BY DEF CSInv, SessTypeOK
<1>0. uuid # NoClient
  BY ClientAssumption, OwnersDistinct
<1>1. CASE AcceptControlError(s) \/ DecodeError(s) \/ DeferredRemove(s) \/ DeferredClose(s)
  BY <1>1 DEF AcceptControlError, DecodeError, DeferredRemove, DeferredClose
<1>2. CASE HandleUnauthenticated(s)
  BY <1>0, <1>2 DEF HandleUnauthenticated
<1>3. CASE HandleAuth(s) \/ HandleUpdateWhitelist(s) \/ HandlePlain(s)
  BY <1>3 DEF HandleAuth, HandleUpdateWhitelist, HandlePlain, Decoded
<1>4. CASE FinishUpdateWhitelist(s)
  BY <1>4 DEF FinishUpdateWhitelist, ServerSide, UpdatesRequest
<1>5. CASE HandleRegister(s)
  <2>1. Answer(s, FALSE) => reply'[s] = Ack(FALSE)
    BY <1>t DEF Answer
  <2>. QED
    BY <1>5, <2>1, Acks DEF HandleRegister
<1>. QED
  BY <1>1, <1>2, <1>3, <1>4, <1>5 DEF HandlerStep

(* What the handler of the current session can do once it has registered. *)
LEMMA CurrentHandler ==
  ASSUME CSInv, ServerSide, NEW s \in Sessions, HandlerStep(s), alive'[s],
         handler[s] \in {"loop", "updating"}, clientID[s] = uuid,
         request[s].type \in {"none", "heartbeat", "update_whitelist"}
  PROVE  \/ /\ UNCHANGED <<raw, http, allow, found>>
            /\ \/ reply'[s] = reply[s]
               \/ request[s].type = "heartbeat"
               \/ reply'[s] = Ack(FALSE)
         \/ /\ request[s].type = "update_whitelist"
            /\ UNCHANGED <<raw, http, allow, reply>>
            /\ found'[s].svc \in Services
         \/ /\ request[s].type = "update_whitelist" /\ handler[s] = "updating"
            /\ UpdateWhitelistReplace(s)
            /\ reply'[s] = Ack(request[s].allow # BadAllow)
            /\ found'[s].pending = FALSE
<1>t. /\ DOMAIN reply = Sessions /\ DOMAIN found = Sessions
  BY DEF CSInv, SessTypeOK, IInv, RegTypeOK
<1>0. uuid # NoClient
  BY ClientAssumption, OwnersDistinct
<1>1. CASE AcceptControlError(s) \/ DecodeError(s) \/ DeferredRemove(s) \/ DeferredClose(s)
  BY <1>1 DEF AcceptControlError, DecodeError, DeferredRemove, DeferredClose
<1>2. CASE HandleUnauthenticated(s)
  BY <1>0, <1>2 DEF HandleUnauthenticated
<1>3. CASE HandleAuth(s) \/ HandleRegister(s)
  BY <1>3 DEF HandleAuth, HandleRegister, Decoded
<1>4. CASE HandlePlain(s)
  BY <1>4 DEF HandlePlain, Decoded, regVars
<1>5. CASE HandleUpdateWhitelist(s)
  <2>1. request[s].type = "update_whitelist"
    BY <1>5 DEF HandleUpdateWhitelist, Decoded
  <2>2. CASE UpdateWhitelistFind(clientID[s], s, request[s].id, request[s].allow)
             /\ UNCHANGED <<request, reply>>
    <3>1. PICK v \in FindService(request[s].id) :
            found' = [found EXCEPT ![s] = [pending |-> TRUE, svc |-> v,
                                           allow |-> request[s].allow]]
      BY <2>2 DEF UpdateWhitelistFind
    <3>2. v \in Services /\ found'[s].svc = v
      BY <1>t, <3>1 DEF FindService
    <3>. QED
      BY <2>1, <2>2, <3>2 DEF UpdateWhitelistFind
  <2>3. CASE UpdateWhitelistRefused(clientID[s], s, request[s].id) /\ Answer(s, FALSE)
    BY <1>t, <2>3 DEF UpdateWhitelistRefused, Answer, regVars
  <2>. QED
    BY <1>5, <2>2, <2>3 DEF HandleUpdateWhitelist
<1>6. CASE FinishUpdateWhitelist(s)
  <2>1. request[s].type = "update_whitelist"
    BY <1>6 DEF FinishUpdateWhitelist, ServerSide, UpdatesRequest
  <2>2. NoUpdate.pending = FALSE
    BY DEF NoUpdate
  <2>3. found'[s] = NoUpdate /\ reply'[s] = Ack(request[s].allow # BadAllow)
    BY <1>6, <1>t DEF FinishUpdateWhitelist, UpdateWhitelistReplace, Answer
  <2>. QED
    BY <1>6, <2>1, <2>2, <2>3 DEF FinishUpdateWhitelist
<1>. QED
  BY <1>1, <1>2, <1>3, <1>4, <1>5, <1>6 DEF HandlerStep

LEMMA SilentStep ==
  ASSUME SysInv, Sync, Tracking, UNCHANGED clientVars,
         NEW s \in Sessions, HandlerStep(s) \/ AcceptControl(s)
  PROVE  OthersSilent' /\ OneUpdate' /\ Copied'
<1>i. CSInv /\ UpdatesRequest /\ OthersSilent /\ OneUpdate /\ Copied
  BY DEF SysInv, ServerSide, Sync
<1>c. UNCHANGED <<cpc, enc, whitelists, snapshot, sendMu, via, call>>
  BY DEF clientVars
<1>e. enc \in Sessions
  BY DEF SysInv, ClientInv, Locking, ClientTypeOK, Tracking
<1>1. OthersSilent'
  <2> SUFFICES ASSUME NEW t \in Sessions \ {enc}
               PROVE  request'[t] = NoMsg /\ found'[t].pending = FALSE
    BY <1>c DEF OthersSilent
  <2>1. request[t] = NoMsg /\ found[t].pending = FALSE
    BY <1>i DEF OthersSilent
  <2>2. CASE t # s
    BY <1>i, <2>1, <2>2, HandlerEffect
  <2>3. CASE t = s
    BY <1>i, <2>1, <2>3, HandlerEffect, SilentHandler
  <2>. QED
    BY <2>2, <2>3
<1>2. OneUpdate'
  BY <1>c, <1>i DEF OneUpdate, Busy
<1>3. request'[enc] \in {request[enc], NoMsg}
  BY <1>e, <1>i, HandlerEffect
<1>4. Copied'
  BY <1>3, <1>c, <1>i DEF Copied
<1>. QED
  BY <1>1, <1>2, <1>4

(* Another session's handler leaves the client's entries alone. *)
LEMMA OtherHandlerStep ==
  ASSUME SysInv, InSession, Sync, Tracking, UNCHANGED clientVars,
         NEW s \in Sessions, HandlerStep(s) \/ AcceptControl(s), s # enc, Registered'
  PROVE  OwnEntries' /\ OwnLists'
<1>i. CSInv /\ UpdatesRequest /\ UpdateOwnService
  BY DEF SysInv, ServerSide, CSInv
<1>c. UNCHANGED <<cpc, enc, whitelists, sendMu, call>>
  BY DEF clientVars
<1>e. enc \in Sessions
  BY DEF SysInv, ClientInv, Locking, ClientTypeOK, Tracking
<1>1. /\ alive'[enc] = alive[enc] /\ reply'[enc] = reply[enc]
  BY <1>e, <1>i, HandlerEffect
<1>2. OthersSilent /\ OwnEntries /\ OwnLists /\ alive[enc]
  BY <1>1, <1>c DEF Registered, Sync
<1>3. request[s] = NoMsg /\ found[s].pending = FALSE
  BY <1>2 DEF OthersSilent
<1>4. /\ allow' = allow /\ found' = found
      /\ Services' \subseteq Services
      /\ \A t \in Services : t.sess # s => t \in Services'
  BY <1>3, <1>i, SilentHandler
<1>5. \A t \in Services : t.client = uuid => t \in Services'
  BY <1>2, <1>4 DEF OwnEntries
<1>6. \A t, id : Own(t, id)' <=> Own(t, id)
  <2> SUFFICES ASSUME NEW t, NEW id PROVE Own(t, id)' <=> Own(t, id)
    OBVIOUS
  <2>. QED
    BY <1>4, <1>5 DEF Own
<1>7. found[enc].pending = TRUE => found[enc].svc \in Services'
  <2> SUFFICES ASSUME found[enc].pending = TRUE PROVE found[enc].svc \in Services'
    OBVIOUS
  <2>1. found[enc].svc \in Services
    BY <1>2 DEF OwnEntries
  <2>2. found[enc].svc.client = clientID[enc]
    BY <1>e, <1>i DEF UpdateOwnService
  <2>3. clientID[enc] = uuid
    BY <1>2 DEF InSession, Accepted, Tracking
  <2>. QED
    BY <1>5, <2>1, <2>2, <2>3
<1>8. OwnEntries'
  <2>1. \A t \in Services' : t.client = uuid => t.sess = enc
    BY <1>2, <1>4 DEF OwnEntries
  <2>2. ASSUME NEW i \in DOMAIN services, Sole(i)
        PROVE  \E t : Own(t, ID(services[i]))' /\ \A r : Own(r, ID(services[i]))' => r = t
    <3>1. PICK t : Own(t, ID(services[i])) /\ \A r : Own(r, ID(services[i])) => r = t
      BY <1>2, <2>2 DEF OwnEntries
    <3>. QED
      BY <1>6, <3>1
  <2>. QED
    BY <1>4, <1>7, <1>c, <2>1, <2>2 DEF OwnEntries
<1>9. OwnLists'
  <2> SUFFICES ASSUME NEW i \in DOMAIN services, Sole(i), Settled(ID(services[i]))',
                      NEW t, Own(t, ID(services[i]))'
               PROVE  allow'[Object(t)] = whitelists'[ID(services[i])]
    BY DEF OwnLists
  <2>1. Settled(ID(services[i]))
    BY <1>1, <1>c DEF Settled, Busy
  <2>. QED
    BY <1>2, <1>4, <1>6, <1>c, <2>1 DEF OwnLists
<1>. QED
  BY <1>8, <1>9

(* The server takes the registration. *)
LEMMA RegisteringStep ==
  ASSUME SysInv, InSession, Sync, Tracking, UNCHANGED clientVars,
         HandlerStep(enc), ~Registered, Registered'
  PROVE  OwnEntries' /\ OwnLists'
<1>i. /\ CSInv /\ ServerSide /\ UpdatesRequest /\ IInv /\ ObjectsDistinct /\ UpdateOwnService
      /\ whitelists \in [IDs -> Lists]
  BY DEF SysInv, ServerSide, CSInv, ClientInv, ClientTypeOK
<1>c. UNCHANGED <<cpc, enc, whitelists, sendMu, call>>
  BY DEF clientVars
<1>e. enc \in Sessions
  BY DEF SysInv, ClientInv, Locking, ClientTypeOK, Tracking
<1>1. alive[enc]
  BY <1>c, <1>e, <1>i, HandlerEffect DEF Registered
<1>2. cpc = "registering" /\ reply[enc] # Ack(TRUE) /\ reply'[enc] = Ack(TRUE)
  BY <1>1, <1>c DEF Registered
<1>3. request[enc] # NoMsg
  BY <1>2, <1>e, <1>i, HandlerEffect
<1>4. request[enc] = [type |-> "register", reg |-> currentServices(whitelists)]
  BY <1>2, <1>3 DEF Sync, Copied
<1>5. request[enc].type = "register" /\ request[enc].reg = currentServices(whitelists)
  BY <1>4, SMTT(30)
<1>6. clientID[enc] = uuid
  BY <1>1, <1>2 DEF InSession, Accepted
<1>7. RegisterCommit(uuid, enc, currentServices(whitelists))
  BY <1>2, <1>5, <1>6, <1>e, <1>i, RegisterAnswered
<1>8. found' = found /\ found[enc].pending # TRUE
  <2>1. handler[enc] # "updating"
    BY <1>5, <1>e, <1>i DEF UpdatesRequest
  <2>. QED
    BY <1>7, <1>e, <1>i, <2>1 DEF RegisterCommit, UpdateOwnService
<1>9. /\ \A t \in Services' : t.client = uuid => t.sess = enc
      /\ \A i \in DOMAIN services : Sole(i) =>
           \E t : /\ Own(t, ID(services[i]))'
                  /\ \A r : Own(r, ID(services[i]))' => r = t
      /\ \A i \in DOMAIN services : \A t :
           Own(t, ID(services[i]))' => allow'[Object(t)] = whitelists[ID(services[i])]
  BY <1>7, <1>i, CommitSole
<1>. QED
  BY <1>8, <1>9, <1>c DEF OwnEntries, OwnLists

(* What the server may find on the stream of a registered session. *)
LEMMA RegisteredRequest ==
  ASSUME SysInv, InSession, Tracking, Registered, enc \in Sessions
  PROVE  /\ request[enc].type \in {"none", "heartbeat", "update_whitelist"}
         /\ request[enc].type = "heartbeat" => sendMu \notin Callers
         /\ request[enc].type = "update_whitelist" =>
              /\ sendMu \in Callers /\ via = enc
              /\ request[enc].id = call[sendMu].id /\ request[enc].allow = call[sendMu].list
<1>0. Main \notin Callers
  BY ClientAssumption
<1>1. CASE request[enc] = NoMsg
  BY <1>1, NoMessage
<1>2. CASE request[enc] # NoMsg
  <2>1. cpc \in {"up", "beating"}
    BY <1>2, Acks DEF SysInv, ServerSide, AnsweredOnce, Registered
  <2>2. sendMu # Nobody /\ via = enc
    BY <1>2 DEF SysInv, Quiet, Registered
  <2>3. sendMu \in Callers \/ sendMu = Main
    BY <2>2 DEF SysInv, ClientInv, ClientTypeOK
  <2>4. CASE sendMu = Main
    <3>1. request[enc].type \in {"auth", "register", "heartbeat"}
      BY <1>2, <2>2, <2>4 DEF InSession
    <3>2. cpc = CASE request[enc].type = "auth" -> "authing"
                  [] request[enc].type = "register" -> "registering"
                  [] OTHER -> "beating"
      BY <1>2, <2>2, <2>4 DEF SysInv, RequestOfHolder
    <3>. QED
      BY <1>0, <2>1, <2>4, <3>1, <3>2
  <2>5. CASE sendMu \in Callers
    <3>1. request[enc] = [type |-> "update_whitelist", id |-> call[sendMu].id,
                          allow |-> call[sendMu].list]
      BY <1>2, <2>2, <2>5 DEF SysInv, RequestOfHolder
    <3>. QED
      BY <2>2, <2>5, <3>1, SMTT(30)
  <2>. QED
    BY <2>3, <2>4, <2>5
<1>. QED
  BY <1>1, <1>2

(* The current session's handler, registered: a heartbeat or an update. *)
LEMMA RegisteredStep ==
  ASSUME SysInv, InSession, Sync, Tracking, UNCHANGED clientVars,
         HandlerStep(enc), Registered, Registered'
  PROVE  OwnEntries' /\ OwnLists'
<1>i. /\ CSInv /\ ServerSide /\ UpdatesRequest /\ IInv /\ ObjectsDistinct /\ UpdateOwnService
      /\ OneUpdate /\ OwnEntries /\ OwnLists
  BY DEF SysInv, ServerSide, CSInv, Sync
<1>c. UNCHANGED <<cpc, enc, whitelists, sendMu, call>>
  BY DEF clientVars
<1>e. enc \in Sessions
  BY DEF SysInv, ClientInv, Locking, ClientTypeOK, Tracking
<1>r. /\ request[enc].type \in {"none", "heartbeat", "update_whitelist"}
      /\ request[enc].type = "heartbeat" => sendMu \notin Callers
      /\ request[enc].type = "update_whitelist" =>
           /\ sendMu \in Callers /\ via = enc
           /\ request[enc].id = call[sendMu].id /\ request[enc].allow = call[sendMu].list
  BY <1>e, RegisteredRequest
<1>h. handler[enc] \in {"loop", "updating"} /\ clientID[enc] = uuid /\ alive'[enc]
  BY <1>c DEF InSession, Accepted, Tracking, Registered
<1>1. ASSUME UNCHANGED <<raw, http>>,
             found'[enc].pending = TRUE => found'[enc].svc \in Services
      PROVE  OwnEntries' /\ \A t, id : Own(t, id)' <=> Own(t, id)
  <2>1. Services' = Services
    BY <1>1 DEF Services
  <2>2. ASSUME NEW t, NEW id PROVE Own(t, id)' <=> Own(t, id)
    BY <2>1 DEF Own
  <2>3. ASSUME NEW i \in DOMAIN services, Sole(i)
        PROVE  \E t : Own(t, ID(services[i]))' /\ \A r : Own(r, ID(services[i]))' => r = t
    <3>1. PICK t : Own(t, ID(services[i])) /\ \A r : Own(r, ID(services[i])) => r = t
      BY <1>i, <2>3 DEF OwnEntries
    <3>. QED
      BY <2>2, <3>1
  <2>4. \A t \in Services' : t.client = uuid => t.sess = enc
    BY <1>i, <2>1 DEF OwnEntries
  <2>5. OwnEntries'
    BY <1>1, <1>c, <2>1, <2>3, <2>4 DEF OwnEntries
  <2>. QED
    BY <2>2, <2>5
<1>2. ASSUME UNCHANGED <<raw, http, allow>>,
             \/ reply'[enc] = reply[enc] \/ sendMu \notin Callers \/ reply'[enc] = Ack(FALSE),
             \A t, id : Own(t, id)' <=> Own(t, id)
      PROVE  OwnLists'
  <2> SUFFICES ASSUME NEW i \in DOMAIN services, Sole(i), Settled(ID(services[i]))',
                      NEW t, Own(t, ID(services[i]))'
               PROVE  allow'[Object(t)] = whitelists'[ID(services[i])]
    BY DEF OwnLists
  <2>1. Settled(ID(services[i]))
    BY <1>2, <1>c, Acks DEF Settled, Busy
  <2>. QED
    BY <1>2, <1>c, <1>i, <2>1 DEF OwnLists
<1>3. CASE /\ UNCHANGED <<raw, http, allow, found>>
           /\ \/ reply'[enc] = reply[enc]
              \/ request[enc].type = "heartbeat"
              \/ reply'[enc] = Ack(FALSE)
  <2>1. found'[enc].pending = TRUE => found'[enc].svc \in Services
    BY <1>3, <1>i DEF OwnEntries
  <2>. QED
    BY <1>1, <1>2, <1>3, <1>r, <2>1
<1>4. CASE UNCHANGED <<raw, http, allow, reply>> /\ found'[enc].svc \in Services
  BY <1>1, <1>2, <1>4
<1>5. CASE /\ request[enc].type = "update_whitelist" /\ handler[enc] = "updating"
           /\ UpdateWhitelistReplace(enc)
           /\ reply'[enc] = Ack(request[enc].allow # BadAllow)
           /\ found'[enc].pending = FALSE
  <2>1. /\ found[enc].allow = request[enc].allow /\ ID(found[enc].svc) = request[enc].id
        /\ found[enc].pending = TRUE /\ found[enc].svc.client = uuid
    <3>1. found[enc].pending
      BY <1>5 DEF UpdateWhitelistReplace
    <3>2. found[enc].pending = TRUE
      <4>1. found[enc] \in Update \cup {NoUpdate}
        BY <1>e, <1>i DEF IInv, RegTypeOK
      <4>2. (\A u \in Update : u.pending = TRUE) /\ NoUpdate.pending = FALSE
        BY DEF Update, NoUpdate
      <4>. QED
        BY <3>1, <4>1, <4>2
    <3>. QED
      BY <1>5, <1>e, <1>h, <1>i, <3>1, <3>2 DEF UpdatesRequest, UpdateOwnService
  <2>2. /\ UNCHANGED <<raw, http>>
        /\ found[enc].allow = BadAllow => allow' = allow
        /\ found[enc].allow # BadAllow =>
             /\ allow'[Object(found[enc].svc)] = found[enc].allow
             /\ \A t \in Services : t # found[enc].svc => allow'[Object(t)] = allow[Object(t)]
    BY <1>5, <1>e, <1>i, ReplaceLists
  <2>3. OwnEntries' /\ \A t, id : Own(t, id)' <=> Own(t, id)
    BY <1>1, <1>5, <2>2
  <2>4. CASE request[enc].allow = BadAllow
    BY <1>2, <1>5, <2>1, <2>2, <2>3, <2>4
  <2>5. CASE request[enc].allow # BadAllow
    <3> SUFFICES ASSUME NEW i \in DOMAIN services, Sole(i), Settled(ID(services[i]))',
                        NEW t, Own(t, ID(services[i]))'
                 PROVE  allow'[Object(t)] = whitelists'[ID(services[i])]
      BY <2>3 DEF OwnLists
    <3>1. Own(t, ID(services[i])) /\ t \in Services /\ ID(t) = ID(services[i])
      BY <2>3 DEF Own
    <3>2. Busy(sendMu) /\ sendMu \in Callers
      BY <1>5, <1>r DEF SysInv, ClientInv, Locking, Busy
    <3>3. CASE request[enc].id = ID(services[i])
      <4>1. found[enc].svc \in Services
        BY <1>i, <2>1 DEF OwnEntries
      <4>2. Own(found[enc].svc, ID(services[i]))
        BY <2>1, <3>3, <4>1 DEF Own
      <4>3. t = found[enc].svc
        <5>1. PICK o : \A r : Own(r, ID(services[i])) => r = o
          BY <1>i DEF OwnEntries
        <5>. QED
          BY <3>1, <4>2, <5>1
      <4>4. call[sendMu].list = whitelists[call[sendMu].id]
        BY <1>i, <3>2 DEF OneUpdate
      <4>. QED
        BY <1>5, <1>c, <1>r, <2>1, <2>2, <2>5, <3>3, <4>3, <4>4, SMTT(30)
    <3>4. CASE request[enc].id # ID(services[i])
      <4>1. t # found[enc].svc
        BY <2>1, <3>1, <3>4
      <4>2. allow'[Object(t)] = allow[Object(t)]
        BY <2>1, <2>2, <2>5, <3>1, <4>1
      <4>3. Settled(ID(services[i]))
        BY <1>5, <1>i, <1>r, <3>2, <3>4 DEF Settled, OneUpdate
      <4>. QED
        BY <1>c, <1>i, <3>1, <4>2, <4>3 DEF OwnLists
    <3>. QED
      BY <3>3, <3>4
  <2>. QED
    BY <2>3, <2>4, <2>5
<1>. QED
  BY <1>3, <1>4, <1>5, <1>e, <1>h, <1>i, <1>r, CurrentHandler

(* Steps that leave the server's side as it is keep the client's entries. *)
LEMMA SameEntries ==
  ASSUME OwnEntries, UNCHANGED <<raw, http, allow, found, enc>>
  PROVE  OwnEntries' /\ \A t, id : Own(t, id)' <=> Own(t, id)
<1>1. Services' = Services
  BY DEF Services
<1>2. ASSUME NEW t, NEW id PROVE Own(t, id)' <=> Own(t, id)
  BY <1>1 DEF Own
<1>3. ASSUME NEW i \in DOMAIN services, Sole(i)
      PROVE  \E t : Own(t, ID(services[i]))' /\ \A r : Own(r, ID(services[i]))' => r = t
  <2>1. PICK t : Own(t, ID(services[i])) /\ \A r : Own(r, ID(services[i])) => r = t
    BY <1>3 DEF OwnEntries
  <2>. QED
    BY <1>2, <2>1
<1>4. (\A t \in Services' : t.client = uuid => t.sess = enc)
      /\ (found'[enc].pending = TRUE => found'[enc].svc \in Services')
  BY <1>1 DEF OwnEntries
<1>. QED
  BY <1>2, <1>3, <1>4 DEF OwnEntries

LEMMA SameLists ==
  ASSUME OwnEntries, OwnLists, UNCHANGED <<raw, http, allow, found, enc>>,
         \A i \in DOMAIN services : Settled(ID(services[i]))' =>
            /\ Settled(ID(services[i]))
            /\ whitelists'[ID(services[i])] = whitelists[ID(services[i])]
  PROVE  OwnEntries' /\ OwnLists'
<1>1. OwnEntries' /\ \A t, id : Own(t, id)' <=> Own(t, id)
  BY SameEntries
<1>2. ASSUME NEW i \in DOMAIN services, Sole(i), Settled(ID(services[i]))',
             NEW t, Own(t, ID(services[i]))'
      PROVE  allow'[Object(t)] = whitelists'[ID(services[i])]
  BY <1>1, <1>2 DEF OwnLists
<1>. QED
  BY <1>1, <1>2 DEF OwnLists

LEMMA SyncServerStep ==
  ASSUME SysInv, InSession, Sync, UNCHANGED clientVars, NEW s \in Sessions,
         HandlerStep(s) \/ AcceptControl(s) \/ SessionLost(s)
  PROVE  Sync'
<1> SUFFICES ASSUME Tracking'
             PROVE  /\ OthersSilent' /\ OneUpdate' /\ Copied'
                    /\ Registered' => OwnEntries' /\ OwnLists'
  BY DEF Sync
<1>i. CSInv /\ UpdatesRequest
  BY DEF SysInv, ServerSide
<1>c. UNCHANGED <<cpc, enc, whitelists, snapshot, sendMu, via, call>>
  BY DEF clientVars
<1>0. Tracking
  BY DEF Tracking, clientVars
<1>e. enc \in Sessions
  BY <1>0 DEF SysInv, ClientInv, Locking, ClientTypeOK, Tracking
<1>1. CASE HandlerStep(s) \/ AcceptControl(s)
  <2>1. OthersSilent' /\ OneUpdate' /\ Copied'
    BY <1>0, <1>1, SilentStep
  <2>2. ASSUME s # enc, Registered' PROVE OwnEntries' /\ OwnLists'
    BY <1>0, <1>1, <2>2, OtherHandlerStep
  <2>3. ASSUME s = enc, HandlerStep(s), Registered' PROVE OwnEntries' /\ OwnLists'
    BY <1>0, <2>3, RegisteringStep, RegisteredStep
  <2>4. ASSUME s = enc, AcceptControl(s), Registered' PROVE FALSE
    <3>1. handler[enc] = "accepting" /\ alive[enc]
      BY <2>4 DEF AcceptControl
    <3>. QED
      BY <1>0, <3>1 DEF InSession, Accepted, Tracking
  <2>. QED
    BY <1>1, <2>1, <2>2, <2>3, <2>4
<1>2. CASE SessionLost(s)
  <2>1. /\ UNCHANGED <<raw, http, allow, found, request, reply>>
        /\ \A t \in Sessions : alive'[t] => alive[t]
    <3>1. UNCHANGED <<regVars, request, reply>>
      BY <1>2, <1>i, PeerEffect
    <3>2. \A t \in Sessions : alive'[t] => alive[t]
      BY <1>2, <1>i, PeerEffect
    <3>. QED
      BY <3>1, <3>2 DEF regVars
  <2>2. OthersSilent' /\ OneUpdate' /\ Copied'
    BY <1>0, <1>c, <2>1 DEF Sync, OthersSilent, OneUpdate, Copied, Busy
  <2>3. ASSUME Registered' PROVE OwnEntries' /\ OwnLists'
    <3>1. Registered
      BY <1>c, <1>e, <2>1, <2>3 DEF Registered
    <3>2. OwnEntries /\ OwnLists
      BY <1>0, <3>1 DEF Sync
    <3>3. \A i \in DOMAIN services : Settled(ID(services[i]))' => Settled(ID(services[i]))
      BY <1>c, <2>1 DEF Settled, Busy
    <3>. QED
      BY <1>c, <2>1, <3>2, <3>3, SameLists
  <2>. QED
    BY <2>2, <2>3
<1>. QED
  BY <1>1, <1>2

LEMMA SnapshotStep ==
  ASSUME SysInv, Snapshot
  PROVE  Sync'
<1> SUFFICES ASSUME Tracking'
             PROVE  OthersSilent' /\ OneUpdate' /\ Copied' /\ ~Registered'
  BY DEF Sync
<1>1. /\ cpc = "snapshot" /\ cpc' = "register" /\ snapshot' = whitelists
      /\ UNCHANGED <<csVars, enc, whitelists, sendMu, via, call>>
      /\ clean' = (/\ \A u \in Callers : call[u].at \notin {"stored", "waiting"}
                   /\ \A s \in Sessions \ {enc} : request[s] = NoMsg /\ ~found[s].pending)
  BY DEF Snapshot
<1>2. /\ \A u \in Callers : ~Busy(u)
      /\ \A s \in Sessions \ {enc} : request[s] = NoMsg /\ ~found[s].pending
  BY <1>1 DEF Tracking, Busy
<1>3. request' = request /\ found' = found
  BY <1>1 DEF csVars, regVars, sessVars
<1>4. \A s \in Sessions : found[s].pending \in BOOLEAN
  <2> SUFFICES ASSUME NEW s \in Sessions PROVE found[s].pending \in BOOLEAN
    OBVIOUS
  <2>1. found[s] \in Update \cup {NoUpdate}
    BY DEF SysInv, CSInv, IInv, RegTypeOK
  <2>2. (\A u \in Update : u.pending = TRUE) /\ NoUpdate.pending = FALSE
    BY DEF Update, NoUpdate
  <2>. QED
    BY <2>1, <2>2
<1>5. OthersSilent'
  BY <1>1, <1>2, <1>3, <1>4 DEF OthersSilent
<1>6. sendMu = Nobody
  BY <1>1, <1>2 DEF Busy, SysInv, ClientInv, Locking, ClientTypeOK
<1>7. OneUpdate'
  BY <1>1, <1>2, <1>6 DEF OneUpdate, Busy
<1>. QED
  BY <1>1, <1>5, <1>7 DEF Copied, Registered

LEMMA MainSyncStep ==
  ASSUME SysInv, Sync, MainSends \/ MainAcked
  PROVE  Sync'
<1> SUFFICES ASSUME Tracking'
             PROVE  /\ OthersSilent' /\ OneUpdate' /\ Copied'
                    /\ Registered' => OwnEntries' /\ OwnLists'
  BY DEF Sync
<1>i. CSInv
  BY DEF SysInv
<1>0. Main # Nobody /\ Main \notin Callers /\ Nobody \notin Callers
  BY ClientAssumption
<1>c. UNCHANGED <<enc, whitelists, call, clean>>
  BY DEF MainSends, MainAcked
<1>1. CASE MainSends
  <2>1. SendRegister \/ Heartbeat
    BY <1>1 DEF MainSends, SendAuth, Tracking
  <2>2. Tracking
    BY <1>c, <2>1 DEF Tracking, SendRegister, Heartbeat
  <2>3. enc \in Sessions
    BY <2>2 DEF SysInv, ClientInv, Locking, ClientTypeOK, Tracking
  <2>4. PICK m : Send(enc, m) /\ sendMu = Nobody /\ sendMu' = Main /\ via' = enc
    BY <2>1 DEF SendRegister, Heartbeat, Transmit
  <2>5. /\ UNCHANGED <<regVars, alive, reply>> /\ reply[enc] = NoMsg
        /\ \A s \in Sessions \ {enc} : request'[s] = request[s]
    BY <1>i, <2>3, <2>4, PeerEffect
  <2>6. UNCHANGED <<raw, http, allow, found>>
    BY <2>5 DEF regVars
  <2>7. OthersSilent'
    BY <1>c, <2>2, <2>5, <2>6 DEF Sync, OthersSilent
  <2>8. CASE SendRegister
    <3>1. cpc = "register" /\ cpc' = "registering"
      BY <2>8 DEF SendRegister
    <3>2. Send(enc, [type |-> "register", reg |-> currentServices(snapshot)])
      BY <2>8 DEF SendRegister, Transmit
    <3>3. request'[enc] = [type |-> "register", reg |-> currentServices(snapshot)]
      BY <1>i, <2>3, <3>2, PeerEffect
    <3>4. snapshot = whitelists
      BY <2>2, <3>1 DEF Sync, Copied
    <3>5. Copied'
      BY <1>c, <3>1, <3>3, <3>4 DEF Copied
    <3>6. OneUpdate'
      BY <1>c, <2>2, <2>4, <3>1 DEF Sync, OneUpdate, Busy
    <3>7. ~Registered'
      BY <1>c, <2>5, <3>1, Acks DEF Registered
    <3>. QED
      BY <2>7, <3>5, <3>6, <3>7
  <2>9. CASE Heartbeat
    <3>1. cpc = "up" /\ cpc' = "beating"
      BY <2>9 DEF Heartbeat
    <3>2. OneUpdate' /\ Copied'
      BY <1>c, <2>2, <2>4, <3>1 DEF Sync, OneUpdate, Busy, Copied
    <3>3. ASSUME Registered' PROVE OwnEntries' /\ OwnLists'
      <4>1. OwnEntries /\ OwnLists
        BY <1>c, <2>2, <2>5, <3>1, <3>3 DEF Sync, Registered
      <4>2. \A i \in DOMAIN services : Settled(ID(services[i]))' => Settled(ID(services[i]))
        BY <1>0, <1>c, <2>4 DEF Settled, Busy
      <4>. QED
        BY <1>c, <2>6, <4>1, <4>2, SameLists
    <3>. QED
      BY <2>7, <3>2, <3>3
  <2>. QED
    BY <2>1, <2>8, <2>9
<1>2. CASE MainAcked
  <2>1. PICK ok \in BOOLEAN : /\ Acked(Main, ok)
                              /\ cpc' = IF ~ok THEN "ending"
                                        ELSE IF cpc = "authing" THEN "snapshot" ELSE "up"
    BY <1>2 DEF MainAcked
  <2>2. ok = TRUE /\ cpc \in {"registering", "beating"} /\ cpc' = "up" /\ Tracking
    BY <1>2, <1>c, <2>1 DEF Tracking, MainAcked
  <2>3. /\ via \in Sessions /\ Receive(via) /\ sendMu = Main /\ sendMu' = Nobody
        /\ reply[via] = Ack(TRUE) /\ via = enc
    BY <2>1, <2>2, AckedContents DEF SysInv, ClientInv, Locking
  <2>4. UNCHANGED <<regVars, alive, request>>
    BY <1>i, <2>3, PeerEffect
  <2>5. UNCHANGED <<raw, http, allow, found>>
    BY <2>4 DEF regVars
  <2>6. OthersSilent' /\ OneUpdate' /\ Copied'
    BY <1>c, <2>2, <2>3, <2>4, <2>5 DEF Sync, OthersSilent, OneUpdate, Busy, Copied
  <2>7. ASSUME Registered' PROVE OwnEntries' /\ OwnLists'
    <3>1. OwnEntries /\ OwnLists
      BY <1>c, <2>2, <2>3, <2>4, <2>7 DEF Sync, Registered
    <3>2. \A i \in DOMAIN services : Settled(ID(services[i]))' => Settled(ID(services[i]))
      BY <1>0, <1>c, <2>3 DEF Settled, Busy
    <3>. QED
      BY <1>c, <2>5, <3>1, <3>2, SameLists
  <2>. QED
    BY <2>6, <2>7
<1>. QED
  BY <1>1, <1>2

LEMMA FetchSyncStep ==
  ASSUME SysInv, Sync, NEW u \in Callers, NEW id \in IDs, fetchAllow(u, id)
  PROVE  Sync'
<1> SUFFICES ASSUME Tracking'
             PROVE  /\ OthersSilent' /\ OneUpdate' /\ Copied'
                    /\ Registered' => OwnEntries' /\ OwnLists'
  BY DEF Sync
<1>1. /\ UNCHANGED <<csVars, cpc, enc, whitelists, snapshot, sendMu, via, clean>>
      /\ call' = [call EXCEPT ![u] = [at |-> "fetched", id |-> id, list |-> whitelists[id]]]
      /\ call[u] = NoCall
  BY DEF fetchAllow
<1>2. UNCHANGED <<raw, http, allow, found, alive, request, reply>>
  BY <1>1 DEF csVars, regVars, sessVars
<1>3. DOMAIN call = Callers
  BY DEF SysInv, ClientInv, ClientTypeOK
<1>4. \A v \in Callers : /\ Busy(v)' <=> Busy(v)
                         /\ Busy(v) => call'[v] = call[v]
  <2> SUFFICES ASSUME NEW v \in Callers
               PROVE  (Busy(v)' <=> Busy(v)) /\ (Busy(v) => call'[v] = call[v])
    OBVIOUS
  <2>1. CASE v = u
    BY <1>1, <1>3, <2>1, IdleCall DEF Busy
  <2>2. CASE v # u
    BY <1>1, <1>3, <2>2 DEF Busy
  <2>. QED
    BY <2>1, <2>2
<1>5. Tracking
  BY <1>1 DEF Tracking
<1>6. OthersSilent' /\ Copied'
  BY <1>1, <1>2, <1>5 DEF Sync, OthersSilent, Copied
<1>7. OneUpdate'
  BY <1>1, <1>4, <1>5 DEF Sync, OneUpdate
<1>8. ASSUME Registered' PROVE OwnEntries' /\ OwnLists'
  <2>1. OwnEntries /\ OwnLists
    BY <1>1, <1>2, <1>5, <1>8 DEF Sync, Registered
  <2>2. \A i \in DOMAIN services : Settled(ID(services[i]))' => Settled(ID(services[i]))
    BY <1>1, <1>2, <1>4 DEF Settled
  <2>. QED
    BY <1>1, <1>2, <2>1, <2>2, SameLists
<1>. QED
  BY <1>6, <1>7, <1>8

(* A list is stored: the one update under way is for it. *)
LEMMA UpdateSyncStep ==
  ASSUME SysInv, InSession, Sync, NEW u \in Callers, NEW id \in IDs, NEW list \in Lists,
         UpdateWhitelist(u, id, list)
  PROVE  Sync'
<1> SUFFICES ASSUME Tracking'
             PROVE  /\ OthersSilent' /\ OneUpdate' /\ Copied'
                    /\ Registered' => OwnEntries' /\ OwnLists'
  BY DEF Sync
<1>1. /\ UNCHANGED <<csVars, cpc, enc, connected, snapshot, sendMu, via>>
      /\ whitelists' = [whitelists EXCEPT ![id] = list]
      /\ call' = [call EXCEPT ![u] =
           IF connected THEN [at |-> "stored", id |-> id, list |-> list] ELSE NoCall]
      /\ clean' = (/\ clean /\ cpc \notin {"register", "registering"}
                   /\ \A v \in Callers : call[v].at \notin {"stored", "waiting"})
  BY DEF UpdateWhitelist
<1>2. UNCHANGED <<raw, http, allow, found, alive, request, reply>>
  BY <1>1 DEF csVars, regVars, sessVars
<1>3. DOMAIN call = Callers /\ DOMAIN whitelists = IDs /\ clean \in BOOLEAN
  BY DEF SysInv, ClientInv, ClientTypeOK
<1>4. clean = TRUE /\ cpc \in {"up", "beating"} /\ \A v \in Callers : ~Busy(v)
  BY <1>1, <1>3 DEF Tracking, Busy
<1>5. Tracking /\ connected = TRUE
  BY <1>4 DEF Tracking, InSession
<1>6. /\ call'[u] = [at |-> "stored", id |-> id, list |-> list]
      /\ \A v \in Callers \ {u} : call'[v] = call[v]
      /\ whitelists'[id] = list /\ \A i \in IDs \ {id} : whitelists'[i] = whitelists[i]
  BY <1>1, <1>3, <1>5
<1>7. /\ call'[u].at = "stored" /\ call'[u].id = id /\ call'[u].list = list
  BY <1>6, SMTT(30)
<1>8. Busy(u)' /\ \A v \in Callers : Busy(v)' => v = u
  BY <1>4, <1>6, <1>7 DEF Busy
<1>9. sendMu # u
  BY <1>4 DEF SysInv, ClientInv, Locking, Busy
<1>10. OthersSilent' /\ Copied'
  BY <1>1, <1>2, <1>4, <1>5 DEF Sync, OthersSilent, Copied
<1>11. OneUpdate'
  BY <1>1, <1>4, <1>5, <1>6, <1>7, <1>8 DEF Sync, OneUpdate
<1>12. ASSUME Registered' PROVE OwnEntries' /\ OwnLists'
  <2>1. OwnEntries /\ OwnLists
    BY <1>1, <1>2, <1>5, <1>12 DEF Sync, Registered
  <2>2. ASSUME NEW i \in DOMAIN services, Settled(ID(services[i]))'
        PROVE  /\ Settled(ID(services[i]))
               /\ whitelists'[ID(services[i])] = whitelists[ID(services[i])]
    <3>1. ID(services[i]) # id
      BY <1>1, <1>7, <1>8, <1>9, <2>2 DEF Settled
    <3>2. ID(services[i]) \in IDs
      BY DEF IDs
    <3>. QED
      BY <1>4, <1>6, <3>1, <3>2 DEF Settled
  <2>. QED
    BY <1>1, <1>2, <2>1, <2>2, SameLists
<1>. QED
  BY <1>10, <1>11, <1>12

LEMMA SendUpdateSyncStep ==
  ASSUME SysInv, Sync, NEW u \in Callers, SendUpdate(u)
  PROVE  Sync'
<1> SUFFICES ASSUME Tracking'
             PROVE  /\ OthersSilent' /\ OneUpdate' /\ Copied'
                    /\ Registered' => OwnEntries' /\ OwnLists'
  BY DEF Sync
<1>1. /\ UNCHANGED <<cpc, enc, whitelists, snapshot, clean>>
      /\ call[u].at = "stored" /\ call' = [call EXCEPT ![u].at = "waiting"]
      /\ sendMu = Nobody /\ sendMu' = u /\ via' = enc
      /\ \E m : Send(enc, m)
  BY DEF SendUpdate, Transmit
<1>i. CSInv /\ ClientInv /\ DOMAIN call = Callers
  BY DEF SysInv, ClientInv, ClientTypeOK
<1>2. Tracking
  BY <1>1 DEF Tracking
<1>3. enc \in Sessions
  BY <1>2, <1>i DEF ClientInv, Locking, ClientTypeOK, Tracking
<1>4. /\ UNCHANGED <<regVars, alive, reply>> /\ reply[enc] = NoMsg
      /\ \A s \in Sessions \ {enc} : request'[s] = request[s]
  BY <1>1, <1>3, <1>i, PeerEffect
<1>5. UNCHANGED <<raw, http, allow, found>>
  BY <1>4 DEF regVars
<1>6. /\ call'[u].at = "waiting" /\ call'[u].id = call[u].id /\ call'[u].list = call[u].list
      /\ \A v \in Callers \ {u} : call'[v] = call[v]
  <2>1. call[u] \in [at : {"fetched", "stored", "waiting"}, id : IDs, list : Lists]
    BY <1>1, <1>i, CallContents DEF ClientInv
  <2>. QED
    BY <1>1, <1>i, <2>1
<1>7. \A v \in Callers : /\ Busy(v)' <=> Busy(v)
                         /\ call'[v].id = call[v].id \/ ~Busy(v)
                         /\ call'[v].list = call[v].list \/ ~Busy(v)
  <2> SUFFICES ASSUME NEW v \in Callers
               PROVE  /\ Busy(v)' <=> Busy(v)
                      /\ call'[v].id = call[v].id \/ ~Busy(v)
                      /\ call'[v].list = call[v].list \/ ~Busy(v)
    OBVIOUS
  <2>1. CASE v = u
    BY <1>1, <1>6, <2>1 DEF Busy
  <2>2. CASE v # u
    BY <1>6, <2>2 DEF Busy
  <2>. QED
    BY <2>1, <2>2
<1>8. Busy(u) /\ cpc \in {"up", "beating"}
  BY <1>1, <1>2 DEF Busy, Sync, OneUpdate
<1>9. OthersSilent' /\ Copied'
  BY <1>1, <1>2, <1>4, <1>5, <1>8 DEF Sync, OthersSilent, Copied
<1>10. OneUpdate'
  BY <1>1, <1>2, <1>7 DEF Sync, OneUpdate
<1>11. ASSUME Registered' PROVE OwnEntries' /\ OwnLists'
  <2>1. OwnEntries /\ OwnLists
    BY <1>1, <1>2, <1>4, <1>11 DEF Sync, Registered
  <2>2. \A i \in DOMAIN services : Settled(ID(services[i]))' => Settled(ID(services[i]))
    BY <1>1, <1>4, <1>7, Acks DEF Settled
  <2>. QED
    BY <1>1, <1>5, <2>1, <2>2, SameLists
<1>. QED
  BY <1>9, <1>10, <1>11

(* The server has taken the update: its ack came back positive. *)
LEMMA UpdateAckedSyncStep ==
  ASSUME SysInv, Sync, NEW u \in Callers, UpdateAcked(u)
  PROVE  Sync'
<1> SUFFICES ASSUME Tracking'
             PROVE  /\ OthersSilent' /\ OneUpdate' /\ Copied'
                    /\ Registered' => OwnEntries' /\ OwnLists'
  BY SMTT(30) DEF Sync
<1>1. PICK ok \in BOOLEAN : Acked(u, ok) /\ clean' = (clean /\ ok)
  BY DEF UpdateAcked
<1>2. /\ UNCHANGED <<cpc, enc, whitelists, snapshot>>
      /\ call[u].at = "waiting" /\ call' = [call EXCEPT ![u] = NoCall]
  BY DEF UpdateAcked
<1>i. CSInv /\ DOMAIN call = Callers /\ clean \in BOOLEAN
  BY DEF SysInv, ClientInv, ClientTypeOK
<1>3. ok = TRUE /\ Tracking
  BY <1>1, <1>2, <1>i DEF Tracking
<1>4. /\ via \in Sessions /\ Receive(via) /\ sendMu = u /\ sendMu' = Nobody
      /\ reply[via] = Ack(TRUE)
  BY <1>1, <1>3, AckedContents
<1>5. via = enc
  <2>1. u # Nobody
    BY ClientAssumption
  <2>. QED
    BY <1>3, <1>4, <2>1 DEF Sync, OneUpdate
<1>6. UNCHANGED <<regVars, alive, request>>
  BY <1>4, <1>i, PeerEffect
<1>7. UNCHANGED <<raw, http, allow, found>>
  BY <1>6 DEF regVars
<1>8. \A v \in Callers : ~Busy(v)'
  <2>1. Busy(u) /\ \A v \in Callers : Busy(v) => v = u
    BY <1>2, <1>3 DEF Busy, Sync, OneUpdate
  <2>2. call'[u] = NoCall /\ \A v \in Callers \ {u} : call'[v] = call[v]
    BY <1>2, <1>i
  <2>. QED
    BY <2>1, <2>2, IdleCall DEF Busy
<1>9. OthersSilent' /\ Copied'
  BY <1>2, <1>3, <1>6, <1>7 DEF Sync, OthersSilent, Copied
<1>10. OneUpdate'
  BY <1>4, <1>8 DEF OneUpdate
<1>11. ASSUME Registered' PROVE OwnEntries' /\ OwnLists'
  <2>1. cpc \in {"up", "beating"}
    BY <1>2, <1>3 DEF Busy, Sync, OneUpdate
  <2>2. OwnEntries /\ OwnLists
    BY <1>2, <1>3, <1>6, <1>11, <2>1 DEF Sync, Registered
  <2>3. \A id : Settled(id)
    BY <1>2, <1>3, <1>4, <1>5 DEF Settled, Busy, Sync, OneUpdate
  <2>. QED
    BY <1>2, <1>7, <2>2, <2>3, SameLists
<1>. QED
  BY <1>9, <1>10, <1>11

LEMMA SyncStep ==
  ASSUME SysInv, InSession, Sync, [ClientNext]_sysVars
  PROVE  Sync'
<1>1. CASE UNCHANGED sysVars
  <2>1. /\ UNCHANGED <<cpc, enc, whitelists, snapshot, sendMu, via, call, clean>>
        /\ UNCHANGED <<raw, http, allow, found, alive, request, reply>>
    BY <1>1 DEF sysVars, clientVars, csVars, regVars, sessVars
  <2>2. Tracking' => Tracking /\ OthersSilent' /\ OneUpdate' /\ Copied'
    BY <2>1 DEF Sync, Tracking, OthersSilent, OneUpdate, Copied, Busy
  <2>3. ASSUME Tracking', Registered' PROVE OwnEntries' /\ OwnLists'
    <3>1. OwnEntries /\ OwnLists
      BY <2>1, <2>2, <2>3 DEF Sync, Registered
    <3>2. \A i \in DOMAIN services : Settled(ID(services[i]))' => Settled(ID(services[i]))
      BY <2>1 DEF Settled, Busy
    <3>. QED
      BY <2>1, <3>1, <3>2, SameLists
  <2>. QED
    BY <2>2, <2>3 DEF Sync
<1>2. ASSUME NEW s \in Sessions, ServerStep(s) \/ NetworkLoss(s) PROVE Sync'
  BY <1>2, SyncServerStep DEF ServerStep, NetworkLoss
<1>3. CASE \/ \E s \in Sessions : Connect(s)
           \/ DialFails \/ Disconnect \/ Close \/ Retry \/ CarrierClosed \/ MainFails
  <2>1. cpc' \notin {"register", "registering", "up", "beating"}
    BY <1>3 DEF Connect, DialFails, Disconnect, Close, Retry, CarrierClosed, MainFails
  <2>. QED
    BY <2>1 DEF Sync, Tracking
<1>4. CASE Snapshot \/ MainSends \/ MainAcked
  BY <1>4, SnapshotStep, MainSyncStep
<1>5. ASSUME NEW u \in Callers, CommandStarts(u) PROVE Sync'
  BY <1>5, FetchSyncStep, UpdateSyncStep DEF CommandStarts, WhitelistSet
<1>6. ASSUME NEW u \in Callers, WhitelistAddRemove(u) PROVE Sync'
  <2>1. call[u].id \in IDs /\ call[u].list \in Lists
    BY <1>6, CallContents DEF WhitelistAddRemove, SysInv, ClientInv
  <2>2. PICK src \in Sources : \E list \in Edited(call[u].list, src) :
           UpdateWhitelist(u, call[u].id, list)
    BY <1>6 DEF WhitelistAddRemove
  <2>3. PICK list \in Lists : UpdateWhitelist(u, call[u].id, list)
    BY <2>1, <2>2, EditedType
  <2>. QED
    BY <2>1, <2>3, UpdateSyncStep
<1>7. ASSUME NEW u \in Callers, UpdateFails(u) PROVE Sync'
  BY <1>7 DEF UpdateFails, Sync, Tracking
<1>8. ASSUME NEW u \in Callers, CallerStep(u) PROVE Sync'
  BY <1>6, <1>7, <1>8, SendUpdateSyncStep, UpdateAckedSyncStep DEF CallerStep
<1>. QED
  BY <1>1, <1>2, <1>3, <1>4, <1>5, <1>8 DEF ClientNext, MainStep

(* "The new list persists locally and is replayed on reconnect"            *)
(* (Client.UpdateWhitelist): once a session is registered and as long as   *)
(* it lives, the server enforces the client's own lists, unless an update  *)
(* overlapped the registration or another update, or failed; for any       *)
(* number of sessions, commands and services.                              *)
THEOREM InSyncHolds == ClientSpec => []InSync
<1>1. ClientInit => Sync
  BY DEF ClientInit, Sync, Tracking
<1>2. SysInv /\ InSession /\ Sync /\ [ClientNext]_sysVars => Sync'
  BY SyncStep
<1>3. SysInv /\ Sync => InSync
  <2> SUFFICES ASSUME SysInv, Sync, cpc \in {"up", "beating"}, alive[enc], clean,
                      \A u \in Callers : call[u].at \notin {"stored", "waiting"},
                      NEW i \in DOMAIN services, Sole(i)
               PROVE  Published(ID(services[i])) = {whitelists[ID(services[i])]}
    BY DEF InSync
  <2> DEFINE id == ID(services[i])
  <2>1. Tracking /\ Registered
    BY DEF Tracking, Registered, SysInv, ClientInv, ClientTypeOK
  <2>2. OwnEntries /\ OwnLists
    BY <2>1 DEF Sync
  <2>3. Settled(id)
    BY DEF Settled, Busy
  <2>4. \A t : Own(t, id) => allow[Object(t)] = whitelists[id]
    BY <2>2, <2>3 DEF OwnLists
  <2>5. \E t : Own(t, id)
    BY <2>2 DEF OwnEntries
  <2>6. \A x : x \in Published(id) <=> \E t : Own(t, id) /\ x = allow[Object(t)]
    BY PublishedElements, SMTT(30) DEF Own
  <2> HIDE DEF id
  <2>7. \A x : x \in Published(id) <=> x = whitelists[id]
    BY <2>4, <2>5, <2>6
  <2>. QED
    BY <2>7, SMTT(30) DEF id
<1>. QED
  BY <1>1, <1>2, <1>3, SystemInvariant, SessionInvariant, PTL DEF ClientSpec
=============================================================================
