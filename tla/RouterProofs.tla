---------------------------- MODULE RouterProofs ----------------------------
(***************************************************************************)
(* Proofs about Router.  Two facts about the registry are enough: while    *)
(* its version stands still it only loses services, and a service found    *)
(* for a host is a service of that host.                                   *)
(***************************************************************************)
EXTENDS Router, RegistryProofs

(* Zenon is asked for every step that does not name another prover. *)
USE Zenon

(* The states before a request, and those before a target is known. *)
Idle == {"new", "raw?", "http?", "allowed?", "pushed", "serving"}

Whole == {"handleRaw", "rawCert", "dialRaw"}

Searching == Idle \cup {"request", "version?", "handler?", "serve"}

(* What the variables of a connection hold on its way through the code. *)
Stages ==
  \A x \in Conns :
     /\ pc[x] \in Idle \cup Whole => req[x] = NoRequest
     /\ pc[x] \in Idle => services[x].routes = {}
     /\ pc[x] \in Searching => target[x] = {}
     /\ pc[x] \in {"version?", "handler?"} => services[x].routes # {}

OwnHost ==
  /\ \A x \in Conns : \A s \in services[x].routes : s.host = req[x].host
  /\ \A h \in DOMAIN handlers : \A s \in handlers[h].routes : s.host = h

(* Versions that were read are not ahead of the registry. *)
Past(c) == c.snap <= version /\ c.version <= version

Versions ==
  /\ \A x \in Conns : Past(services[x])
  /\ \A h \in DOMAIN handlers : Past(handlers[h])

(* Services just read are all the host has until the version changes. *)
Fresh ==
  /\ \A h \in DOMAIN handlers : Complete(h, handlers[h])
  /\ \A x \in Conns :
       /\ pc[x] = "version?" /\ services[x].snap = version
            => HTTPServices(req[x].host) \subseteq services[x].routes
       /\ pc[x] \in {"handler?", "serve"} => Complete(req[x].host, services[x])

ConnTypeOK ==
  /\ pc \in [Conns -> PCs]
  /\ hello \in [Conns -> [sni : Hosts \cup {NoHost}, src : Sources]]
  /\ gap \in [Conns -> SUBSET Kinds]
  /\ req \in [Conns -> [host : Hosts \cup {NoHost}, path : Paths]]
  /\ services \in [Conns -> ServiceSet]
  /\ target \in [Conns -> SUBSET Service]
  /\ DOMAIN handlers \subseteq Hosts
  /\ \A h \in DOMAIN handlers : handlers[h] \in ServiceSet

RInv == IInv /\ ConnTypeOK /\ Stages /\ OwnHost /\ RightHost /\ Versions /\ Fresh

-----------------------------------------------------------------------------
LEMMA NoRequestType == NoRequest \in [host : Hosts \cup {NoHost}, path : Paths]
BY PathAssumption DEF NoRequest

LEMMA NoServicesType == NoServices \in ServiceSet
BY DEF NoServices, ServiceSet

LEMMA RouterInitInv == RouterInit => RInv
<1> SUFFICES ASSUME RouterInit PROVE RInv
  OBVIOUS
<1>1. IInv
  BY InitIInv DEF RouterInit
<1>2. version \in Nat
  BY <1>1 DEF IInv, RegTypeOK
<1>3. ConnTypeOK
  BY NoRequestType, NoServicesType, RouteAssumption DEF RouterInit, ConnTypeOK, PCs
<1>4. Stages /\ OwnHost /\ RightHost
  BY DEF RouterInit, Stages, OwnHost, RightHost, NoServices
<1>5. Versions /\ Fresh
  BY <1>2, SMTT(30) DEF RouterInit, Versions, Fresh, Past, NoServices
<1>. QED
  BY <1>1, <1>3, <1>4, <1>5 DEF RInv

(* While the version stands still, http services only go away. *)
LEMMA VersionStep ==
  ASSUME IInv, RegStep
  PROVE  version' \in Nat /\ (version' > version \/ (version' = version /\ http' \subseteq http))
<1>0. version \in Nat
  BY DEF IInv, RegTypeOK
<1>1. ASSUME NEW c, NEW s, NEW reg, Register(c, s, reg)
      PROVE  \/ version' = version + 1
             \/ version' = version /\ http' \subseteq http
  BY <1>1 DEF Register, RegisterParseError, RegisterConflict, RegisterCommit,
       removeClientLocked, Others, regVars
<1>2. ASSUME NEW s, RemoveSession(s)
      PROVE  \/ version' = version + 1
             \/ version' = version /\ http' \subseteq http
  BY <1>2 DEF RemoveSession, NotOf
<1>3. ASSUME NEW c, NEW s, NEW id, NEW list,
             \/ UpdateWhitelistFind(c, s, id, list)
             \/ UpdateWhitelistRefused(c, s, id)
             \/ UpdateWhitelistReplace(s)
      PROVE  \/ version' = version + 1
             \/ version' = version /\ http' \subseteq http
  BY <1>3 DEF UpdateWhitelistFind, UpdateWhitelistRefused, UpdateWhitelistReplace, regVars
<1>4. \/ version' = version + 1
      \/ version' = version /\ http' \subseteq http
  BY <1>1, <1>2, <1>3 DEF RegStep
<1>. QED
  BY <1>0, <1>4, SMTT(30)

LEMMA RegistryStepInv == RInv /\ RegistryStep => RInv'
<1> SUFFICES ASSUME RInv, RegistryStep PROVE RInv'
  OBVIOUS
<1>1. RegStep
  BY DEF RegistryStep
<1>2. IInv'
  BY <1>1, NextIInv DEF RInv
<1>3. UNCHANGED <<pc, hello, req, services, target, handlers>>
  BY DEF RegistryStep
<1>4. ConnTypeOK'
  <2>1. \A h : Absent(h)' \subseteq Kinds
    BY DEF Absent
  <2>2. \A x \in Conns : Absent(hello[x].sni)' \subseteq Kinds
    BY <1>3, <2>1
  <2>3. gap' \in [Conns -> SUBSET Kinds]
    BY <2>2 DEF RegistryStep, RInv, ConnTypeOK
  <2>. QED
    BY <1>3, <2>3 DEF RInv, ConnTypeOK
<1>5. (Stages /\ OwnHost /\ RightHost)'
  <2>1. Stages'
    BY <1>3 DEF RInv, Stages
  <2>2. OwnHost'
    BY <1>3 DEF RInv, OwnHost
  <2>3. RightHost'
    BY <1>3 DEF RInv, RightHost
  <2>. QED
    BY <2>1, <2>2, <2>3
<1>6. version \in Nat
  BY DEF RInv, IInv, RegTypeOK
<1>7. \A c \in ServiceSet : c.snap \in Nat /\ c.version \in Nat
  BY DEF ServiceSet
<1>8. /\ \A x \in Conns : services[x].snap \in Nat /\ services[x].version \in Nat
      /\ \A h \in DOMAIN handlers : handlers[h].snap \in Nat /\ handlers[h].version \in Nat
  BY <1>7 DEF RInv, ConnTypeOK
<1>9. version' \in Nat /\ (version' > version \/ (version' = version /\ http' \subseteq http))
  BY <1>1, VersionStep DEF RInv
<1>10. Versions'
  BY <1>3, <1>6, <1>8, <1>9, SMTT(30) DEF RInv, Versions, Past
<1>11. CASE version' > version
  <2>1. /\ \A x \in Conns : services[x].snap # version' /\ services[x].version # version'
        /\ \A h \in DOMAIN handlers : handlers[h].version # version'
    BY <1>6, <1>8, <1>9, <1>11, SMTT(30) DEF RInv, Versions, Past
  <2>2. Fresh'
    BY <1>3, <2>1 DEF Fresh, Complete
  <2>. QED
    BY <1>2, <1>4, <1>5, <1>10, <2>2 DEF RInv
<1>12. CASE version' = version /\ http' \subseteq http
  <2>1. \A h : HTTPServices(h)' \subseteq HTTPServices(h)
    BY <1>12 DEF HTTPServices
  <2>2. Fresh'
    BY <1>3, <1>12, <2>1 DEF RInv, Fresh, Complete
  <2>. QED
    BY <1>2, <1>4, <1>5, <1>10, <2>2, SMTT(30) DEF RInv
<1>. QED
  BY <1>9, <1>11, <1>12

-----------------------------------------------------------------------------
(* Steps of a connection leave the registry alone. *)

LEMMA ConnRegistry ==
  ASSUME RInv, UNCHANGED regVars
  PROVE  /\ IInv' /\ version' = version /\ version \in Nat
         /\ \A h : HTTPServices(h)' = HTTPServices(h)
<1>1. IInv'
  BY NextIInv DEF RInv
<1>2. version' = version /\ http' = http
  BY DEF regVars
<1>. QED
  BY <1>1, <1>2 DEF HTTPServices, RInv, IInv, RegTypeOK

(* The steps that only move on. *)
LEMMA MoveInv ==
  ASSUME RInv, NEW x \in Conns,
         \/ PeekError(x) \/ LookupHTTP(x) \/ CheckHost(x) \/ CheckRaw(x)
         \/ HandshakeRaw(x) \/ DialRaw(x) \/ Handshake(x) \/ Disconnect(x)
  PROVE  RInv'
<1>1. /\ UNCHANGED <<regVars, hello, req, services, target, handlers>>
      /\ gap' \in [Conns -> SUBSET Kinds]
  BY DEF PeekError, LookupHTTP, CheckHost, CheckRaw, HandshakeRaw, DialRaw, Handshake,
       Disconnect, RInv, ConnTypeOK
<1>2. IInv' /\ version' = version /\ \A h : HTTPServices(h)' = HTTPServices(h)
  BY <1>1, ConnRegistry
<1>3. PICK st : /\ Go(x, st)
                /\ \/ pc[x] \in Idle /\ st \in {"allowed?", "pushed", "serving"}
                   \/ pc[x] \in Whole /\ st \in Whole
                   \/ st \in {"reality", "closed", "piped"}
  <2>. USE DEF Idle, Whole
  <2>1. CASE PeekError(x)
    BY <2>1 DEF PeekError
  <2>2. CASE LookupHTTP(x)
    BY <2>2 DEF LookupHTTP
  <2>3. CASE CheckHost(x)
    BY <2>3 DEF CheckHost
  <2>4. CASE CheckRaw(x)
    BY <2>4 DEF CheckRaw
  <2>5. CASE HandshakeRaw(x)
    BY <2>5 DEF HandshakeRaw
  <2>6. CASE DialRaw(x)
    BY <2>6 DEF DialRaw
  <2>7. CASE Handshake(x)
    BY <2>7 DEF Handshake
  <2>8. CASE Disconnect(x)
    BY <2>8 DEF Disconnect
  <2>. QED
    BY <2>1, <2>2, <2>3, <2>4, <2>5, <2>6, <2>7, <2>8
<1>4. /\ pc' \in [Conns -> PCs]
      /\ pc'[x] = st
      /\ \A y \in Conns : y # x => pc'[y] = pc[y]
  BY <1>3 DEF Go, RInv, ConnTypeOK, PCs, Whole
<1>5. ConnTypeOK'
  BY <1>1, <1>4 DEF RInv, ConnTypeOK
<1>6. Stages'
  BY <1>1, <1>3, <1>4 DEF RInv, Stages, Idle, Whole, Searching
<1>7. (OwnHost /\ RightHost)'
  <2>1. OwnHost'
    BY <1>1 DEF RInv, OwnHost
  <2>2. RightHost'
    BY <1>1 DEF RInv, RightHost
  <2>. QED
    BY <2>1, <2>2
<1>8. Versions'
  BY <1>1, <1>2 DEF RInv, Versions, Past
<1>9. Fresh'
  BY <1>1, <1>2, <1>3, <1>4 DEF RInv, Fresh, Complete, Idle, Whole
<1>. QED
  BY <1>2, <1>5, <1>6, <1>7, <1>8, <1>9 DEF RInv

LEMMA PeekInv ==
  ASSUME RInv, NEW x \in Conns, NEW h \in Hosts \cup {NoHost}, NEW a \in Sources,
         PeekSNI(x, h, a)
  PROVE  RInv'
<1>1. UNCHANGED <<regVars, req, services, target, handlers>>
  BY DEF PeekSNI
<1>2. IInv' /\ version' = version /\ \A g : HTTPServices(g)' = HTTPServices(g)
  BY <1>1, ConnRegistry
<1>3. /\ pc[x] = "new" /\ pc'[x] = "raw?"
      /\ \A y \in Conns : y # x => pc'[y] = pc[y] /\ hello'[y] = hello[y]
  BY DEF PeekSNI, Go, RInv, ConnTypeOK
<1>4. ConnTypeOK'
  <2>1. Absent(h) \in SUBSET Kinds
    BY DEF Absent
  <2>2. gap' \in [Conns -> SUBSET Kinds]
    BY <2>1 DEF PeekSNI, RInv, ConnTypeOK
  <2>. QED
    BY <1>1, <2>2 DEF PeekSNI, Go, RInv, ConnTypeOK, PCs
<1>5. Stages'
  BY <1>1, <1>3 DEF RInv, Stages, Idle, Whole, Searching
<1>6. target[x] = {}
  BY <1>3 DEF RInv, Stages, Idle, Searching
<1>7. (OwnHost /\ RightHost)'
  <2>1. OwnHost'
    BY <1>1, <1>3, <1>6 DEF RInv, OwnHost
  <2>2. RightHost'
    BY <1>1, <1>3, <1>6 DEF RInv, RightHost
  <2>. QED
    BY <2>1, <2>2
<1>8. Versions' /\ Fresh'
  <2>1. Versions'
    BY <1>1, <1>2, <1>3 DEF RInv, Versions, Past
  <2>2. Fresh'
    BY <1>1, <1>2, <1>3 DEF RInv, Fresh, Complete
  <2>. QED
    BY <2>1, <2>2
<1>. QED
  BY <1>2, <1>4, <1>5, <1>7, <1>8 DEF RInv

LEMMA LookupRawInv ==
  ASSUME RInv, NEW x \in Conns, LookupRaw(x)
  PROVE  RInv'
<1>1. UNCHANGED <<regVars, hello, gap, req, services, handlers>>
  BY DEF LookupRaw
<1>2. IInv' /\ version' = version /\ \A g : HTTPServices(g)' = HTTPServices(g)
  BY <1>1, ConnRegistry
<1>3. /\ pc[x] = "raw?" /\ target'[x] = RawService(hello[x].sni)
      /\ \/ pc'[x] = "handleRaw"
         \/ pc'[x] = "http?" /\ target'[x] = {}
      /\ \A y \in Conns : y # x => pc'[y] = pc[y] /\ target'[y] = target[y]
  BY DEF LookupRaw, Go, RInv, ConnTypeOK
<1>4. ConnTypeOK'
  <2>1. RawService(hello[x].sni) \in SUBSET Service
    BY DEF RawService, RInv, IInv, RegTypeOK
  <2>. QED
    BY <1>1, <2>1 DEF LookupRaw, Go, RInv, ConnTypeOK, PCs
<1>5. Stages'
  BY <1>1, <1>3 DEF RInv, Stages, Idle, Whole, Searching
<1>6. req[x].host = NoHost
  <2>1. req[x] = NoRequest
    BY <1>3 DEF RInv, Stages, Idle
  <2>. QED
    BY <2>1, SMTT(30) DEF NoRequest
<1>7. (OwnHost /\ RightHost)'
  <2>1. OwnHost'
    BY <1>1, <1>3, <1>6 DEF RInv, OwnHost
  <2>2. RightHost'
    <3>1. ASSUME NEW s \in target'[x] PROVE s.host = hello[x].sni
      BY <1>3, <3>1 DEF RawService
    <3>. QED
      BY <1>1, <1>3, <1>6, <3>1, SMTT(30) DEF RInv, RightHost
  <2>. QED
    BY <2>1, <2>2
<1>8. Versions' /\ Fresh'
  <2>1. Versions'
    BY <1>1, <1>2, <1>3 DEF RInv, Versions, Past
  <2>2. Fresh'
    BY <1>1, <1>2, <1>3 DEF RInv, Fresh, Complete
  <2>. QED
    BY <2>1, <2>2
<1>. QED
  BY <1>2, <1>4, <1>5, <1>7, <1>8 DEF RInv

LEMMA RequestInv ==
  ASSUME RInv, NEW x \in Conns, NEW h \in Hosts \cup {NoHost}, NEW p \in Paths,
         Request(x, h, p)
  PROVE  RInv'
<1>1. UNCHANGED <<regVars, hello, gap, services, target, handlers>>
  BY DEF Request
<1>2. IInv' /\ version' = version /\ \A g : HTTPServices(g)' = HTTPServices(g)
  BY <1>1, ConnRegistry
<1>3. /\ pc[x] = "serving" /\ pc'[x] = "request"
      /\ \A y \in Conns : y # x => pc'[y] = pc[y] /\ req'[y] = req[y]
  BY DEF Request, Go, RInv, ConnTypeOK
<1>4. ConnTypeOK'
  BY <1>1 DEF Request, Go, RInv, ConnTypeOK, PCs, dispatchHost
<1>5. Stages'
  BY <1>1, <1>3 DEF RInv, Stages, Idle, Whole, Searching
<1>6. target[x] = {} /\ services[x].routes = {}
  BY <1>3 DEF RInv, Stages, Idle, Searching
<1>7. (OwnHost /\ RightHost)'
  <2>1. OwnHost'
    <3>1. ASSUME NEW y \in Conns, NEW r \in services[y].routes PROVE r.host = req'[y].host
      BY <1>3, <1>6, <3>1, SMTT(30) DEF RInv, OwnHost
    <3>. QED
      BY <1>1, <3>1 DEF RInv, OwnHost
  <2>2. RightHost'
    BY <1>1, <1>3, <1>6 DEF RInv, RightHost
  <2>. QED
    BY <2>1, <2>2, SMTT(30)
<1>8. Versions' /\ Fresh'
  <2>1. Versions'
    BY <1>1, <1>2, <1>3 DEF RInv, Versions, Past
  <2>2. Fresh'
    BY <1>1, <1>2, <1>3 DEF RInv, Fresh, Complete
  <2>. QED
    BY <2>1, <2>2, SMTT(30)
<1>. QED
  BY <1>2, <1>4, <1>5, <1>7, <1>8, SMTT(30) DEF RInv

(* Answering a request forgets it. *)
LEMMA RespondInv ==
  ASSUME RInv, NEW x \in Conns, Respond(x), UNCHANGED <<regVars, hello, gap, handlers>>
  PROVE  RInv'
<1>1. IInv' /\ version' = version /\ version \in Nat
      /\ \A g : HTTPServices(g)' = HTTPServices(g)
  BY ConnRegistry
<1>2. /\ pc'[x] = "serving" /\ req'[x] = NoRequest /\ services'[x] = NoServices
      /\ target'[x] = {}
      /\ \A y \in Conns : y # x => /\ pc'[y] = pc[y] /\ req'[y] = req[y]
                                  /\ services'[y] = services[y] /\ target'[y] = target[y]
  BY DEF Respond, Go, RInv, ConnTypeOK
<1>3. ConnTypeOK'
  BY NoRequestType, NoServicesType DEF Respond, Go, RInv, ConnTypeOK, PCs
<1>4. Stages'
  BY <1>2, SMTT(30) DEF RInv, Stages, Idle, Whole, Searching, NoServices
<1>5. (OwnHost /\ RightHost)'
  <2>1. OwnHost'
    BY <1>2, SMTT(30) DEF RInv, OwnHost, NoServices
  <2>2. RightHost'
    BY <1>2, SMTT(30) DEF RInv, RightHost, NoServices
  <2>. QED
    BY <2>1, <2>2
<1>6. Versions' /\ Fresh'
  <2>1. Versions'
    BY <1>1, <1>2, SMTT(30) DEF RInv, Versions, Past, NoServices
  <2>2. Fresh'
    BY <1>1, <1>2 DEF RInv, Fresh, Complete, NoServices
  <2>. QED
    BY <2>1, <2>2
<1>. QED
  BY <1>1, <1>3, <1>4, <1>5, <1>6 DEF RInv

LEMMA ReadServicesInv ==
  ASSUME RInv, NEW x \in Conns, ReadServices(x)
  PROVE  RInv'
<1> DEFINE svcs == HTTPServices(req[x].host)
           got  == [routes |-> svcs, snap |-> version, version |-> 0]
<1>0. UNCHANGED <<regVars, hello, gap, handlers>>
  BY DEF ReadServices
<1>1. CASE Respond(x)
  BY <1>0, <1>1, RespondInv
<1>2. CASE /\ svcs # {} /\ services' = [services EXCEPT ![x] = got]
           /\ Go(x, "version?") /\ UNCHANGED <<req, target>>
  <2>1. IInv' /\ version' = version /\ version \in Nat
        /\ \A g : HTTPServices(g)' = HTTPServices(g)
    BY <1>0, ConnRegistry
  <2>2. /\ pc[x] = "request" /\ pc'[x] = "version?" /\ services'[x] = got
        /\ \A y \in Conns : y # x => pc'[y] = pc[y] /\ services'[y] = services[y]
    BY <1>2 DEF ReadServices, Go, RInv, ConnTypeOK
  <2>3. svcs \in SUBSET Service /\ \A s \in svcs : s.host = req[x].host
    BY DEF HTTPServices, RInv, IInv, RegTypeOK
  <2>4. got \in ServiceSet
    BY <2>1, <2>3 DEF ServiceSet
  <2>5. got.routes = svcs /\ got.snap = version /\ got.version = 0
    OBVIOUS
  <2> HIDE DEF got
  <2>6. ConnTypeOK'
    BY <1>0, <1>2, <2>4 DEF Go, RInv, ConnTypeOK, PCs
  <2>7. Stages'
    BY <1>0, <1>2, <2>2, <2>5, SMTT(30) DEF RInv, Stages, Idle, Whole, Searching
  <2>8. (OwnHost /\ RightHost)'
    <3>1. OwnHost'
      <4>1. ASSUME NEW y \in Conns, NEW r \in services'[y].routes PROVE r.host = req[y].host
        BY <2>2, <2>3, <2>5, <4>1, SMTT(30) DEF RInv, OwnHost
      <4>. QED
        BY <1>0, <1>2, <4>1 DEF RInv, OwnHost
    <3>2. RightHost'
      BY <1>0, <1>2, <2>2, <2>3, <2>5 DEF RInv, RightHost
    <3>. QED
      BY <3>1, <3>2, SMTT(30)
  <2>9. Versions'
    <3>1. got.snap <= version /\ got.version <= version
      BY <2>1, <2>5, SMTT(30)
    <3>2. ASSUME NEW y \in Conns
          PROVE  services'[y].snap <= version /\ services'[y].version <= version
      BY <2>2, <3>1 DEF RInv, Versions, Past
    <3>. QED
      BY <1>0, <2>1, <3>2 DEF RInv, Versions, Past
  <2>10. Fresh'
    <3>1. \A h \in DOMAIN handlers : Complete(h, handlers[h])'
      BY <1>0, <2>1 DEF RInv, Fresh, Complete
    <3>2. ASSUME NEW y \in Conns, y # x
          PROVE  /\ pc'[y] = "version?" /\ services'[y].snap = version'
                      => HTTPServices(req[y].host)' \subseteq services'[y].routes
                 /\ pc'[y] \in {"handler?", "serve"} => Complete(req[y].host, services[y])'
      BY <1>2, <2>1, <2>2, <3>2 DEF RInv, Fresh, Complete
    <3>3. /\ HTTPServices(req[x].host)' \subseteq services'[x].routes
          /\ pc'[x] = "version?"
      BY <1>2, <2>1, <2>2, <2>5
    <3>. QED
      BY <1>0, <3>1, <3>2, <3>3 DEF Fresh
  <2>. QED
    BY <2>1, <2>6, <2>7, <2>8, <2>9, <2>10 DEF RInv
<1>. QED
  BY <1>1, <1>2 DEF ReadServices

LEMMA ReadVersionInv ==
  ASSUME RInv, NEW x \in Conns, ReadVersion(x)
  PROVE  RInv'
<1>0. UNCHANGED <<regVars, hello, gap, req, target, handlers>>
  BY DEF ReadVersion
<1>1. IInv' /\ version' = version /\ version \in Nat
      /\ \A g : HTTPServices(g)' = HTTPServices(g)
  BY <1>0, ConnRegistry
<1>2. services[x] \in ServiceSet
  BY DEF RInv, ConnTypeOK
<1>3. /\ services'[x].routes = services[x].routes /\ services'[x].snap = services[x].snap
      /\ services'[x].version = version /\ services'[x] \in ServiceSet
  BY <1>1, <1>2 DEF ReadVersion, RInv, ConnTypeOK, ServiceSet
<1>4. /\ pc[x] = "version?" /\ pc'[x] = "handler?"
      /\ \A y \in Conns : y # x => pc'[y] = pc[y] /\ services'[y] = services[y]
  BY DEF ReadVersion, Go, RInv, ConnTypeOK
<1>5. ConnTypeOK'
  <2>1. services' \in [Conns -> ServiceSet]
    BY <1>3 DEF ReadVersion, RInv, ConnTypeOK
  <2>. QED
    BY <1>0, <2>1 DEF ReadVersion, Go, RInv, ConnTypeOK, PCs
<1>6. Stages'
  BY <1>0, <1>3, <1>4 DEF RInv, Stages, Idle, Whole, Searching
<1>7. (OwnHost /\ RightHost)'
  <2>1. OwnHost'
    <3>1. ASSUME NEW y \in Conns PROVE services'[y].routes = services[y].routes
      BY <1>3, <1>4
    <3>. QED
      BY <1>0, <3>1 DEF RInv, OwnHost
  <2>2. RightHost'
    BY <1>0, <1>3, <1>4 DEF RInv, RightHost
  <2>. QED
    BY <2>1, <2>2, SMTT(30)
<1>8. Versions'
  <2>1. Versions
    BY DEF RInv
  <2>2. services'[x].snap <= version' /\ services'[x].version <= version'
    <3>1. services[x].snap <= version
      BY <2>1 DEF Versions, Past
    <3>2. version' = version /\ version <= version
      BY <1>1, SMTT(30)
    <3>. QED
      BY <1>3, <3>1, <3>2
  <2>3. ASSUME NEW y \in Conns, y # x PROVE Past(services[y])'
    BY <1>1, <1>4, <2>1, <2>3 DEF Versions, Past
  <2>4. ASSUME NEW g \in DOMAIN handlers' PROVE Past(handlers[g])'
    BY <1>0, <1>1, <2>1, <2>4 DEF Versions, Past
  <2>. QED
    BY <2>2, <2>3, <2>4 DEF Versions, Past
<1>9. Fresh'
  BY <1>0, <1>1, <1>3, <1>4, SMTT(30) DEF RInv, Fresh, Complete
<1>. QED
  BY <1>1, <1>5, <1>6, <1>7, <1>8, <1>9, SMTT(30) DEF RInv

LEMMA handlerForInv ==
  ASSUME RInv, NEW x \in Conns, handlerFor(x)
  PROVE  RInv'
<1> DEFINE h == req[x].host
<1>0. UNCHANGED <<regVars, hello, gap, req, target>>
  BY DEF handlerFor
<1>1. IInv' /\ version' = version /\ \A g : HTTPServices(g)' = HTTPServices(g)
  BY <1>0, ConnRegistry
<1>2. /\ pc[x] = "handler?" /\ pc'[x] = "serve" /\ pc' \in [Conns -> PCs]
      /\ \A y \in Conns : y # x => pc'[y] = pc[y]
  BY DEF handlerFor, Go, RInv, ConnTypeOK, PCs
<1>3. Stages'
  <2>1. \A y \in Conns : y # x => services'[y] = services[y]
    BY DEF handlerFor, RInv, ConnTypeOK
  <2>. QED
    BY <1>0, <1>2, <2>1 DEF RInv, Stages, Idle, Whole, Searching
<1>4. RightHost'
  BY <1>0 DEF RInv, RightHost
<1>5. CASE /\ h \in DOMAIN handlers /\ services' = [services EXCEPT ![x] = handlers[h]]
           /\ handlers' = handlers
  <2>1. /\ services'[x] = handlers[h]
        /\ \A y \in Conns : y # x => services'[y] = services[y]
    BY <1>5 DEF RInv, ConnTypeOK
  <2>2. ConnTypeOK'
    BY <1>0, <1>2, <1>5 DEF RInv, ConnTypeOK
  <2>3. OwnHost' /\ Versions'
    <3>1. OwnHost'
      BY <1>0, <1>1, <1>5, <2>1, SMTT(30) DEF RInv, OwnHost
    <3>2. Versions'
      BY <1>0, <1>1, <1>5, <2>1 DEF RInv, Versions, Past
    <3>. QED
      BY <3>1, <3>2, SMTT(30)
  <2>4. Fresh'
    <3>1. \A g \in DOMAIN handlers : Complete(g, handlers[g])'
      BY <1>1, <1>5 DEF RInv, Fresh, Complete
    <3>2. ASSUME NEW y \in Conns, y # x
          PROVE  /\ pc'[y] = "version?" /\ services'[y].snap = version'
                      => HTTPServices(req[y].host)' \subseteq services'[y].routes
                 /\ pc'[y] \in {"handler?", "serve"} => Complete(req[y].host, services[y])'
      BY <1>0, <1>1, <1>2, <2>1, <3>2 DEF RInv, Fresh, Complete
    <3>3. Complete(req[x].host, services[x])' /\ pc'[x] = "serve"
      BY <1>0, <1>1, <1>2, <1>5, <2>1 DEF RInv, Fresh, Complete
    <3>. QED
      BY <1>5, <3>1, <3>2, <3>3 DEF Fresh
  <2>. QED
    BY <1>1, <1>3, <1>4, <2>2, <2>3, <2>4 DEF RInv
<1>6. CASE /\ handlers' = [g \in DOMAIN handlers \cup {h} |->
                              IF g = h THEN services[x] ELSE handlers[g]]
           /\ services' = services
  <2>1. /\ DOMAIN handlers' = DOMAIN handlers \cup {h} /\ handlers'[h] = services[x]
        /\ \A g \in DOMAIN handlers : g # h => handlers'[g] = handlers[g]
    BY <1>6
  <2>2. h \in Hosts
    <3>1. services[x].routes # {}
      BY <1>2 DEF RInv, Stages
    <3>2. PICK r \in services[x].routes : TRUE
      BY <3>1
    <3>3. r.host = h
      BY DEF RInv, OwnHost
    <3>4. services[x].routes \subseteq Service
      BY DEF RInv, ConnTypeOK, ServiceSet
    <3>. QED
      BY <3>3, <3>4 DEF Service
  <2>3. ConnTypeOK'
    BY <1>0, <1>2, <1>6, <2>1, <2>2 DEF RInv, ConnTypeOK
  <2>4. OwnHost' /\ Versions'
    <3>1. OwnHost'
      BY <1>0, <1>1, <1>6, <2>1 DEF RInv, OwnHost
    <3>2. Versions'
      BY <1>0, <1>1, <1>6, <2>1 DEF RInv, Versions, Past
    <3>. QED
      BY <3>1, <3>2, SMTT(30)
  <2>5. Fresh'
    BY <1>0, <1>1, <1>2, <1>6, <2>1 DEF RInv, Fresh, Complete
  <2>. QED
    BY <1>1, <1>3, <1>4, <2>3, <2>4, <2>5, SMTT(30) DEF RInv
<1>. QED
  BY <1>5, <1>6 DEF handlerFor, Cached

(* The steps after the handler is known: respond, or go on to the target. *)
LEMMA ServeInv ==
  ASSUME RInv, NEW x \in Conns, ServeHTTP(x)
  PROVE  RInv'
<1> DEFINE rh == match(services[x].routes, req[x].path)
<1>0. UNCHANGED <<regVars, hello, gap, handlers>>
  BY DEF ServeHTTP
<1>1. CASE Respond(x)
  BY <1>0, <1>1, RespondInv, SMTT(30)
<1>2. CASE /\ target' = [target EXCEPT ![x] = rh] /\ Go(x, "forward")
           /\ UNCHANGED <<req, services>>
  <2>1. IInv' /\ version' = version /\ \A g : HTTPServices(g)' = HTTPServices(g)
    BY <1>0, ConnRegistry
  <2>2. rh \subseteq services[x].routes
    BY DEF match, First
  <2> HIDE DEF rh
  <2>3. /\ pc[x] = "serve" /\ pc'[x] = "forward" /\ target'[x] = rh
        /\ \A y \in Conns : y # x => pc'[y] = pc[y] /\ target'[y] = target[y]
    BY <1>2 DEF ServeHTTP, Go, RInv, ConnTypeOK
  <2>4. services[x].routes \subseteq Service
    BY DEF RInv, ConnTypeOK, ServiceSet
  <2>5. ConnTypeOK'
    BY <1>0, <1>2, <2>2, <2>4 DEF Go, RInv, ConnTypeOK, PCs
  <2>6. Stages'
    BY <1>0, <1>2, <2>3 DEF RInv, Stages, Idle, Whole, Searching
  <2>7. \A s \in rh : s.host = req[x].host /\ s.host # NoHost
    <3>1. ASSUME NEW r \in Service PROVE r.host # NoHost
      BY RouteAssumption DEF Service
    <3>2. ASSUME NEW r \in rh PROVE r \in Service /\ r.host = req[x].host
      BY <2>2, <2>4, <3>2 DEF RInv, OwnHost
    <3>. QED
      BY <3>1, <3>2
  <2>8. (OwnHost /\ RightHost)'
    <3>1. OwnHost'
      BY <1>0, <1>2, <2>3, <2>7 DEF RInv, OwnHost
    <3>2. RightHost'
      BY <1>0, <1>2, <2>3, <2>7, SMTT(30) DEF RInv, RightHost
    <3>. QED
      BY <3>1, <3>2, SMTT(30)
  <2>9. Versions' /\ Fresh'
    <3>1. Versions'
      BY <1>0, <1>2, <2>1, <2>3 DEF RInv, Versions, Past
    <3>2. Fresh'
      BY <1>0, <1>2, <2>1, <2>3 DEF RInv, Fresh, Complete
    <3>. QED
      BY <3>1, <3>2, SMTT(30)
  <2>. QED
    BY <2>1, <2>5, <2>6, <2>8, <2>9, SMTT(30) DEF RInv
<1>. QED
  BY <1>1, <1>2 DEF ServeHTTP

LEMMA ForwardInv ==
  ASSUME RInv, NEW x \in Conns, Forward(x)
  PROVE  RInv'
<1>0. UNCHANGED <<regVars, hello, gap, handlers>>
  BY DEF Forward
<1>1. CASE Respond(x)
  BY <1>0, <1>1, RespondInv, SMTT(30)
<1>2. CASE Go(x, "piped") /\ UNCHANGED <<req, services, target>>
  <2>1. IInv' /\ version' = version /\ \A g : HTTPServices(g)' = HTTPServices(g)
    BY <1>0, ConnRegistry, SMTT(30)
  <2>2. pc'[x] = "piped" /\ \A y \in Conns : y # x => pc'[y] = pc[y]
    BY <1>2 DEF Go, RInv, ConnTypeOK
  <2>3. ConnTypeOK'
    BY <1>0, <1>2 DEF Go, RInv, ConnTypeOK, PCs
  <2>4. Stages' /\ OwnHost' /\ RightHost'
    <3>1. Stages'
      BY <1>0, <1>2, <2>2 DEF RInv, Stages, Idle, Whole, Searching
    <3>2. OwnHost'
      BY <1>0, <1>2, <2>2 DEF RInv, OwnHost
    <3>3. RightHost'
      BY <1>0, <1>2, <2>2 DEF RInv, RightHost
    <3>. QED
      BY <3>1, <3>2, <3>3
  <2>5. Versions' /\ Fresh'
    <3>1. Versions'
      BY <1>0, <1>2, <2>1, <2>2 DEF RInv, Versions, Past
    <3>2. Fresh'
      BY <1>0, <1>2, <2>1, <2>2 DEF RInv, Fresh, Complete
    <3>. QED
      BY <3>1, <3>2, SMTT(30)
  <2>. QED
    BY <2>1, <2>3, <2>4, <2>5 DEF RInv
<1>. QED
  BY <1>1, <1>2 DEF Forward

LEMMA StutterInv == RInv /\ UNCHANGED routerVars => RInv'
<1> SUFFICES ASSUME RInv, UNCHANGED routerVars PROVE RInv'
  OBVIOUS
<1>1. IInv' /\ version' = version /\ \A g : HTTPServices(g)' = HTTPServices(g)
  BY ConnRegistry DEF routerVars
<1>2. UNCHANGED <<pc, hello, gap, req, services, target, handlers>>
  BY DEF routerVars, connVars
<1>3. ConnTypeOK'
  BY <1>2 DEF RInv, ConnTypeOK
<1>4. Stages'
  BY <1>2 DEF RInv, Stages
<1>5. OwnHost'
  BY <1>2 DEF RInv, OwnHost
<1>6. RightHost'
  BY <1>2 DEF RInv, RightHost
<1>7. Versions'
  BY <1>1, <1>2 DEF RInv, Versions, Past
<1>8. Fresh'
  BY <1>1, <1>2 DEF RInv, Fresh, Complete
<1>. QED
  BY <1>1, <1>3, <1>4, <1>5, <1>6, <1>7, <1>8 DEF RInv

-----------------------------------------------------------------------------
(* The inductive invariant of the router. *)
THEOREM RouterInvariant == RouterSpec => []RInv
<1>1. ASSUME RInv, NEW x \in Conns, ConnStep(x) PROVE RInv'
  BY <1>1, MoveInv, PeekInv, LookupRawInv, RequestInv, ReadServicesInv, ReadVersionInv,
     handlerForInv, ServeInv, ForwardInv DEF ConnStep
<1>2. RInv /\ [RouterNext]_routerVars => RInv'
  BY <1>1, RegistryStepInv, StutterInv DEF RouterNext
<1>. QED
  BY <1>2, RouterInitInv, PTL DEF RouterSpec

(* The state of every connection and the cache are well formed. *)
THEOREM RouterTypeOKHolds == RouterSpec => []RouterTypeOK
<1>1. RInv => RouterTypeOK
  BY DEF RInv, IInv, ConnTypeOK, RouterTypeOK
<1>. QED
  BY <1>1, RouterInvariant, PTL

(* Connections and requests reach only services of the host they name, for *)
(* any number of connections, hosts, clients and registrations.            *)
THEOREM RightHostHolds == RouterSpec => []RightHost
<1>1. RInv => RightHost
  BY DEF RInv
<1>. QED
  BY <1>1, RouterInvariant, PTL

(* A cached handler built without a race misses no service of its host     *)
(* while its version is the registry's.                                    *)
THEOREM UnracedCacheCompleteHolds == RouterSpec => []UnracedCacheComplete
<1>1. RInv => UnracedCacheComplete
  BY DEF RInv, Fresh, UnracedCacheComplete
<1>. QED
  BY <1>1, RouterInvariant, PTL
-----------------------------------------------------------------------------
(* While a connection is between its two lookups the history misses        *)
(* nothing its host lacks, and a failed lookup has left its mark there.    *)
Gaps ==
  \A x \in Conns :
     /\ pc[x] \in {"raw?", "http?"} => Absent(hello[x].sni) \subseteq gap[x]
     /\ pc[x] = "http?" => "raw" \in gap[x]
     /\ pc[x] = "reality" => gap[x] = Kinds

LEMMA AbsentRaw == \A h : ("raw" \in Absent(h)) <=> RawService(h) = {}
BY DEF Absent, Kinds

LEMMA AbsentHTTP == \A h : ("http" \in Absent(h)) <=> ~HasHTTPHost(h)
BY DEF Absent, Kinds

LEMMA GapsRegistry == ConnTypeOK /\ Gaps /\ RegistryStep => Gaps'
<1> SUFFICES ASSUME ConnTypeOK, Gaps, RegistryStep, NEW x \in Conns
    PROVE  /\ pc[x] \in {"raw?", "http?"} => Absent(hello[x].sni)' \subseteq gap'[x]
           /\ pc[x] = "http?" => "raw" \in gap'[x]
           /\ pc[x] = "reality" => gap'[x] = Kinds
  BY DEF Gaps, RegistryStep
<1>1. gap'[x] = IF pc[x] \in {"raw?", "http?"} THEN gap[x] \cup Absent(hello[x].sni)' ELSE gap[x]
  BY DEF RegistryStep
<1>2. pc[x] = "http?" => "raw" \in gap[x]
  BY DEF Gaps
<1>3. pc[x] = "reality" => gap[x] = Kinds
  BY DEF Gaps
<1>. QED
  BY <1>1, <1>2, <1>3

(* Steps of a connection leave the registry, and what hosts lack, alone. *)
LEMMA GapsConn ==
  ASSUME ConnTypeOK, Gaps, NEW x \in Conns, ConnStep(x)
  PROVE  Gaps'
<1>1. UNCHANGED regVars
  BY DEF ConnStep, PeekSNI, PeekError, LookupRaw, LookupHTTP, CheckHost, CheckRaw,
       HandshakeRaw, DialRaw, Handshake, Disconnect, Request, ReadServices, ReadVersion,
       handlerFor, ServeHTTP, Forward
<1>2. \A h : Absent(h)' = Absent(h)
  BY <1>1 DEF regVars, Absent, RawService, HasHTTPHost, HTTPServices
<1> DEFINE Rest == \A y \in Conns \ {x} :
                     pc'[y] = pc[y] /\ gap'[y] = gap[y] /\ hello'[y] = hello[y]
<1>3. ASSUME Rest,
             pc'[x] \in {"raw?", "http?"} => Absent(hello'[x].sni) \subseteq gap'[x],
             pc'[x] = "http?" => "raw" \in gap'[x],
             pc'[x] = "reality" => gap'[x] = Kinds
      PROVE  Gaps'
  BY <1>2, <1>3 DEF Gaps
<1> HIDE DEF Rest
<1>4. ASSUME NEW h \in Hosts \cup {NoHost}, NEW a \in Sources, PeekSNI(x, h, a)
      PROVE  Gaps'
  <2>1. Rest
    BY <1>4 DEF PeekSNI, Go, ConnTypeOK, Rest
  <2>2. pc'[x] = "raw?" /\ hello'[x].sni = h /\ gap'[x] = Absent(h)
    BY <1>4 DEF PeekSNI, Go, ConnTypeOK
  <2>. QED
    BY <1>3, <2>1, <2>2
<1>5. CASE PeekError(x)
  <2>1. Rest /\ pc'[x] = "reality" /\ gap'[x] = Kinds
    BY <1>5 DEF PeekError, Go, ConnTypeOK, Rest
  <2>. QED
    BY <1>3, <2>1
<1>6. CASE LookupRaw(x)
  <2>1. Rest /\ gap'[x] = gap[x] /\ hello'[x] = hello[x] /\ pc[x] = "raw?"
    BY <1>6 DEF LookupRaw, Go, ConnTypeOK, Rest
  <2>2. \/ pc'[x] = "handleRaw"
        \/ pc'[x] = "http?" /\ RawService(hello[x].sni) = {}
    BY <1>6 DEF LookupRaw, Go, ConnTypeOK
  <2>3. Absent(hello[x].sni) \subseteq gap[x]
    BY <2>1 DEF Gaps
  <2>. QED
    BY <1>3, <2>1, <2>2, <2>3, AbsentRaw
<1>7. CASE LookupHTTP(x)
  <2>1. Rest /\ gap'[x] = gap[x] /\ pc[x] = "http?"
    BY <1>7 DEF LookupHTTP, Go, ConnTypeOK, Rest
  <2>2. \/ pc'[x] = "allowed?"
        \/ pc'[x] = "reality" /\ ~HasHTTPHost(hello[x].sni)
    BY <1>7 DEF LookupHTTP, Go, ConnTypeOK
  <2>3. Absent(hello[x].sni) \subseteq gap[x] /\ "raw" \in gap[x]
    BY <2>1 DEF Gaps
  <2>4. gap[x] \subseteq Kinds
    BY DEF ConnTypeOK
  <2>. QED
    BY <1>3, <2>1, <2>2, <2>3, <2>4, AbsentHTTP DEF Kinds
<1>8. ASSUME \/ CheckHost(x) \/ CheckRaw(x) \/ HandshakeRaw(x) \/ DialRaw(x)
             \/ Handshake(x) \/ Disconnect(x)
             \/ \E h \in Hosts \cup {NoHost}, p \in Paths \ {""} : Request(x, h, p)
             \/ ReadServices(x) \/ ReadVersion(x) \/ handlerFor(x)
             \/ ServeHTTP(x) \/ Forward(x)
      PROVE  Gaps'
  <2>1. PICK st : Go(x, st) /\ st \notin {"raw?", "http?", "reality"}
    <3>1. CASE CheckHost(x)
      <4>1. Go(x, "pushed") \/ Go(x, "closed")
        BY <3>1 DEF CheckHost
      <4>. QED
        BY <4>1, SMTT(30)
    <3>2. CASE CheckRaw(x)
      <4>1. Go(x, "rawCert") \/ Go(x, "closed")
        BY <3>2 DEF CheckRaw
      <4>. QED
        BY <4>1, SMTT(30)
    <3>3. CASE HandshakeRaw(x)
      <4>1. Go(x, "dialRaw") \/ Go(x, "closed")
        BY <3>3 DEF HandshakeRaw
      <4>. QED
        BY <4>1, SMTT(30)
    <3>4. CASE DialRaw(x)
      <4>1. Go(x, "piped") \/ Go(x, "closed")
        BY <3>4 DEF DialRaw
      <4>. QED
        BY <4>1, SMTT(30)
    <3>5. CASE Handshake(x) \/ Disconnect(x)
      <4>1. Go(x, "serving") \/ Go(x, "closed")
        BY <3>5 DEF Handshake, Disconnect
      <4>. QED
        BY <4>1, SMTT(30)
    <3>6. CASE \E h \in Hosts \cup {NoHost}, p \in Paths \ {""} : Request(x, h, p)
      <4>1. Go(x, "request")
        BY <3>6 DEF Request
      <4>. QED
        BY <4>1, SMTT(30)
    <3>7. CASE ReadServices(x)
      <4>1. Go(x, "serving") \/ Go(x, "version?")
        BY <3>7 DEF ReadServices, Respond
      <4>. QED
        BY <4>1, SMTT(30)
    <3>8. CASE ReadVersion(x) \/ handlerFor(x)
      <4>1. Go(x, "handler?") \/ Go(x, "serve")
        BY <3>8 DEF ReadVersion, handlerFor
      <4>. QED
        BY <4>1, SMTT(30)
    <3>9. CASE ServeHTTP(x) \/ Forward(x)
      <4>1. Go(x, "serving") \/ Go(x, "forward") \/ Go(x, "piped")
        BY <3>9 DEF ServeHTTP, Forward, Respond
      <4>. QED
        BY <4>1, SMTT(30)
    <3>. QED
      BY <1>8, <3>1, <3>2, <3>3, <3>4, <3>5, <3>6, <3>7, <3>8, <3>9
  <2>2. UNCHANGED <<hello, gap>>
    BY <1>8 DEF CheckHost, CheckRaw, HandshakeRaw, DialRaw, Handshake, Disconnect, Request,
         ReadServices, ReadVersion, handlerFor, ServeHTTP, Forward
  <2>3. Rest /\ pc'[x] = st
    BY <2>1, <2>2 DEF Go, ConnTypeOK, Rest
  <2>. QED
    BY <1>3, <2>1, <2>3
<1>. QED
  BY <1>4, <1>5, <1>6, <1>7, <1>8 DEF ConnStep

(* A host is handed to REALITY only if it lacked a raw service at some     *)
(* moment since the ClientHello and an http service at some moment too,    *)
(* for any registrations, removals and whitelist changes between lookups.  *)
THEOREM PublishedNotToRealityHolds == RouterSpec => []PublishedNotToReality
<1>1. RouterInit => Gaps
  BY DEF RouterInit, Gaps
<1>2. RInv /\ Gaps /\ [RouterNext]_routerVars => Gaps'
  <2>1. CASE UNCHANGED routerVars
    <3>1. UNCHANGED <<pc, hello, gap>> /\ UNCHANGED regVars
      BY <2>1 DEF routerVars, connVars
    <3>2. \A h : Absent(h)' = Absent(h)
      BY <3>1 DEF regVars, Absent, RawService, HasHTTPHost, HTTPServices
    <3>. QED
      BY <3>1, <3>2 DEF Gaps
  <2>. QED
    BY <2>1, GapsRegistry, GapsConn DEF RouterNext, RInv
<1>3. Gaps => PublishedNotToReality
  BY DEF Gaps, PublishedNotToReality
<1>. QED
  BY <1>1, <1>2, <1>3, RouterInvariant, PTL DEF RouterSpec
=============================================================================
