------------------------------ MODULE Registry ------------------------------
(***************************************************************************)
(* The server's registry of published services and certificates            *)
(* (internal/control/registry.go).  Clients publish services for a host    *)
(* ("tcp" and "socks5" own the whole host, "http" and "ws" own a path of   *)
(* it) over their control session; the router looks services up by host.   *)
(*                                                                         *)
(* The maps raw and http and the list certs are sets of records.  The Go   *)
(* slices are ordered by insertion, and so are the records: gen is the     *)
(* registry version at which a record was committed and idx its place in   *)
(* the message that carried it.  The pair <<gen, idx>> is also the         *)
(* identity of the *Service object: its allow list is shared by every      *)
(* holder of the pointer, so it is kept apart, in allow.                   *)
(***************************************************************************)
EXTENDS Integers, Sequences

CONSTANTS
  Clients,        \* authenticated client ids (UUIDs)
  ServerOwnerID,  \* the owner of services the server publishes itself
  NoClient,       \* "", the owner of server-provided certificates
  Sessions,       \* yamux sessions, one per control connection
  NoSession,      \* nil, the session of server-owned services
  Hosts,
  Paths,          \* request paths, "" and "/" among them
  Sources,        \* remote addresses
  CertNames,      \* certificates a client or the server may supply
  ExactHosts,     \* ExactHosts[c]: hosts named literally by certificate c
  WildHosts,      \* WildHosts[c]: hosts covered by a *.domain name of c
  BadCert,        \* PEM text that does not parse
  BadAllow,       \* an allow list that does not parse
  ServerCerts,    \* the certificates of the server's configuration
  ServerServices, \* the services of the server's configuration
  Registrations,  \* the register messages clients may send
  MaxVersion      \* bound on the version counter

VARIABLES
  certs,    \* parsedCert records
  raw,      \* whole-host services
  http,     \* http and ws services
  allow,    \* allow list of every Service object ever committed
  version,
  found     \* found[s]: the update that session s's handler is applying

regVars == <<certs, raw, http, allow, version, found>>

-----------------------------------------------------------------------------
(* Types *)

Modes == {"http", "ws", "tcp", "socks5"}

Owners == Clients \cup {ServerOwnerID}

(* An allow list is the set of addresses its CIDRs cover; empty means all. *)
AllowLists == SUBSET Sources

ServiceReg == [mode : Modes \cup {"other"}, host : Hosts, path : Paths,
               allow : {BadAllow} \cup AllowLists]

RegisterMsg == [certs : Seq(CertNames \cup {BadCert}), services : Seq(ServiceReg)]

Service == [mode : Modes, host : Hosts, path : Paths, client : Owners,
            sess : Sessions \cup {NoSession}, gen : Nat, idx : Nat]

ParsedCert == [name : CertNames, client : Clients \cup {NoClient},
               sess : Sessions \cup {NoSession}, gen : Nat, idx : Nat]

NoUpdate == [pending |-> FALSE]

Update == [pending : {TRUE}, svc : Service, allow : {BadAllow} \cup AllowLists]

ASSUME OwnersDistinct ==
  /\ ServerOwnerID \notin Clients
  /\ NoClient \notin Clients
  /\ NoSession \notin Sessions

ASSUME PathAssumption == {"", "/"} \subseteq Paths

ASSUME AllowAssumption == \A a \in AllowLists : a # BadAllow

ASSUME MessageAssumption ==
  /\ Registrations \subseteq RegisterMsg
  /\ ServerCerts \in Seq(CertNames)
  /\ ServerServices \in Seq(ServiceReg)
  /\ \A i \in DOMAIN ServerServices :
        ServerServices[i].mode \in Modes /\ ServerServices[i].allow \in AllowLists

ASSUME BoundAssumption == MaxVersion \in Nat

-----------------------------------------------------------------------------
(* Helpers of registry.go and proto.go *)

isRaw(mode) == mode \in {"tcp", "socks5"}

normPath(p) == IF p = "" THEN "/" ELSE p

samePath(a, b) == normPath(a) = normPath(b)

ServiceID(mode, host, path) ==
  CASE mode = "tcp"    -> <<"tcp", host, "">>
    [] mode = "socks5" -> <<"socks5", host, "">>
    [] mode = "ws"     -> <<"wss", host, normPath(path)>>
    [] OTHER           -> <<"https", host, normPath(path)>>

ID(s) == ServiceID(s.mode, s.host, s.path)

Object(s) == <<s.gen, s.idx>>

Before(a, b) == a.gen < b.gen \/ (a.gen = b.gen /\ a.idx < b.idx)

Services == raw \cup http

(* The Service object built for entry i of a register message. *)
NewService(c, sess, svcs, i, g) ==
  [mode |-> svcs[i].mode, host |-> svcs[i].host,
   path |-> IF isRaw(svcs[i].mode) THEN "" ELSE normPath(svcs[i].path),
   client |-> c, sess |-> sess, gen |-> g, idx |-> i]

(* raw[host] = s overwrites: of several raw entries for a host the last stays. *)
NewRaw(c, sess, svcs, g) ==
  {NewService(c, sess, svcs, i, g) : i \in
     {i \in DOMAIN svcs :
        /\ isRaw(svcs[i].mode)
        /\ \A j \in DOMAIN svcs :
             j > i => ~(isRaw(svcs[j].mode) /\ svcs[j].host = svcs[i].host)}}

NewHTTP(c, sess, svcs, g) ==
  {NewService(c, sess, svcs, i, g) : i \in {i \in DOMAIN svcs : ~isRaw(svcs[i].mode)}}

NewAllow(svcs, g) ==
  [o \in DOMAIN allow \cup {<<g, i>> : i \in DOMAIN svcs} |->
     IF o \in DOMAIN allow THEN allow[o] ELSE svcs[o[2]].allow]

-----------------------------------------------------------------------------
(* Startup: AddServerCert for every configured certificate, then            *)
(* RegisterServer when services are configured.                             *)

InitVersion == Len(ServerCerts) + (IF ServerServices = <<>> THEN 0 ELSE 1)

RegInit ==
  /\ certs = {[name |-> ServerCerts[i], client |-> NoClient, sess |-> NoSession,
               gen |-> 0, idx |-> i] : i \in DOMAIN ServerCerts}
  /\ raw = NewRaw(ServerOwnerID, NoSession, ServerServices, InitVersion)
  /\ http = NewHTTP(ServerOwnerID, NoSession, ServerServices, InitVersion)
  /\ allow = [o \in {<<InitVersion, i>> : i \in DOMAIN ServerServices} |->
                ServerServices[o[2]].allow]
  /\ version = InitVersion
  /\ found = [s \in Sessions |-> NoUpdate]

-----------------------------------------------------------------------------
(* Register *)

(* Every certificate and every allow list of the message parses. *)
Parses(reg) ==
  /\ \A i \in DOMAIN reg.certs : reg.certs[i] # BadCert
  /\ \A i \in DOMAIN reg.services : reg.services[i].allow # BadAllow

(* Mutation of Others: the old entries of the client stay. *)
MutOthersKept(S, c) == S

(* Mutation of Others: the entries of every client go. *)
MutOthersAll(S, c) == {s \in S : s.client \notin Clients}

(* removeClientLocked *)
Others(S, c) == {s \in S : s.client # c}

removeClientLocked(c) ==
  /\ certs' = Others(certs, c)
  /\ raw' = Others(raw, c)
  /\ http' = Others(http, c)

(* Mutation of Conflicts: an http entry is not checked against raw hosts. *)
MutConflicts(c, sr) ==
  \/ isRaw(sr.mode) /\ \E ex \in Others(raw, c) \cup Others(http, c) : ex.host = sr.host
  \/ \E ex \in Others(http, c) : ex.host = sr.host /\ samePath(ex.path, sr.path)
  \/ sr.mode \notin Modes

(* The conflict checks, made against what removeClientLocked has left. *)
Conflicts(c, sr) ==
  \/ /\ isRaw(sr.mode)
     /\ \E ex \in Others(raw, c) \cup Others(http, c) : ex.host = sr.host
  \/ /\ sr.mode \in {"http", "ws"}
     /\ \/ \E ex \in Others(raw, c) : ex.host = sr.host
        \/ \E ex \in Others(http, c) : ex.host = sr.host /\ samePath(ex.path, sr.path)
  \/ sr.mode \notin Modes

RegisterParseError(c, reg) ==
  /\ ~Parses(reg)
  /\ UNCHANGED regVars

(* A conflict is reported after the client's own entries are gone, and     *)
(* before the version is bumped.                                           *)
RegisterConflict(c, reg) ==
  /\ Parses(reg)
  /\ \E i \in DOMAIN reg.services : Conflicts(c, reg.services[i])
  /\ removeClientLocked(c)
  /\ UNCHANGED <<allow, version, found>>

RegisterCommit(c, sess, reg) ==
  LET g == version + 1 IN
  /\ Parses(reg)
  /\ \A i \in DOMAIN reg.services : ~Conflicts(c, reg.services[i])
  /\ certs' = Others(certs, c) \cup
       {[name |-> reg.certs[i], client |-> c, sess |-> sess, gen |-> g, idx |-> i] :
          i \in DOMAIN reg.certs}
  /\ raw' = Others(raw, c) \cup NewRaw(c, sess, reg.services, g)
  /\ http' = Others(http, c) \cup NewHTTP(c, sess, reg.services, g)
  /\ allow' = NewAllow(reg.services, g)
  /\ version' = g
  /\ UNCHANGED found

Register(c, sess, reg) ==
  \/ RegisterParseError(c, reg)
  \/ RegisterConflict(c, reg)
  \/ RegisterCommit(c, sess, reg)

-----------------------------------------------------------------------------
(* RemoveSession *)

NotOf(S, sess) == {s \in S : s.sess # sess}

RemoveSession(sess) ==
  /\ certs' = NotOf(certs, sess)
  /\ raw' = NotOf(raw, sess)
  /\ http' = NotOf(http, sess)
  /\ version' = IF <<certs, raw, http>>' = <<certs, raw, http>>
                  THEN version ELSE version + 1
  /\ UNCHANGED <<allow, found>>

-----------------------------------------------------------------------------
(* UpdateWhitelist: the service is found under the read lock, its list is  *)
(* replaced after the lock is gone.                                        *)

(* findServiceLocked: the first service with the id, if there is one. *)
FindService(id) ==
  {s \in Services : /\ ID(s) = id
                    /\ \A t \in Services : ID(t) = id => t = s \/ Before(s, t)}

UpdateWhitelistFind(c, sess, id, list) ==
  /\ ~found[sess].pending
  /\ \E s \in FindService(id) :
       /\ s.client = c
       /\ found' = [found EXCEPT ![sess] = [pending |-> TRUE, svc |-> s, allow |-> list]]
  /\ UNCHANGED <<certs, raw, http, allow, version>>

(* "not registered" and "not owned by this client" *)
UpdateWhitelistRefused(c, sess, id) ==
  /\ ~found[sess].pending
  /\ \A s \in FindService(id) : s.client # c
  /\ UNCHANGED regVars

(* Allow.Replace and the version bump; a list that does not parse changes  *)
(* nothing.                                                                *)
UpdateWhitelistReplace(sess) ==
  /\ found[sess].pending
  /\ \/ /\ found[sess].allow = BadAllow
        /\ UNCHANGED <<allow, version>>
     \/ /\ found[sess].allow # BadAllow
        /\ allow' = [allow EXCEPT ![Object(found[sess].svc)] = found[sess].allow]
        /\ version' = version + 1
  /\ found' = [found EXCEPT ![sess] = NoUpdate]
  /\ UNCHANGED <<certs, raw, http>>

-----------------------------------------------------------------------------
(* Lookups of the router *)

Allowed(s, src) == allow[Object(s)] = {} \/ src \in allow[Object(s)]

RawService(host) == {s \in raw : s.host = host}

HTTPServices(host) == {s \in http : s.host = host}

HasHTTPHost(host) == HTTPServices(host) # {}

HTTPHostAllowed(host, src) == \E s \in HTTPServices(host) : Allowed(s, src)

(* Mutation of First: the last added wins. *)
MutFirst(S) == {s \in S : \A t \in S : t = s \/ Before(t, s)}

First(S) == {s \in S : \A t \in S : t = s \/ Before(s, t)}

(* An exact name beats a wildcard; among equals the first added wins. *)
LookupCert(host) ==
  LET exact == {pc \in certs : host \in ExactHosts[pc.name]}
      wild  == {pc \in certs : host \in WildHosts[pc.name]}
  IN  First(IF exact # {} THEN exact ELSE wild)

-----------------------------------------------------------------------------
(* The ids an update may name: those of the messages, and an unknown one.  *)
KnownIDs == {ServiceID(m, h, p) : m \in Modes, h \in Hosts, p \in Paths}

(* The handler of a session is one goroutine: it registers or removes only *)
(* when it is not in the middle of an update.                              *)
RegStep ==
  \/ \E c \in Clients, s \in Sessions, reg \in Registrations :
        ~found[s].pending /\ Register(c, s, reg)
  \/ \E s \in Sessions : ~found[s].pending /\ RemoveSession(s)
  \/ \E c \in Clients, s \in Sessions, id \in KnownIDs,
        list \in {BadAllow} \cup AllowLists : UpdateWhitelistFind(c, s, id, list)
  \/ \E c \in Clients, s \in Sessions, id \in KnownIDs : UpdateWhitelistRefused(c, s, id)
  \/ \E s \in Sessions : UpdateWhitelistReplace(s)

RegSpec == RegInit /\ [][RegStep]_regVars

(* The same with the version counter capped, for model checking. *)
RegNext == version < MaxVersion /\ RegStep

RegBoundedSpec == RegInit /\ [][RegNext]_regVars

-----------------------------------------------------------------------------
(* Properties *)

(* The type invariant: every committed entry is well formed and its list   *)
(* exists.                                                                 *)
RegTypeOK ==
  /\ certs \subseteq ParsedCert
  /\ raw \subseteq Service
  /\ http \subseteq Service
  /\ \A s \in Services : Object(s) \in DOMAIN allow
  /\ \A o \in DOMAIN allow : allow[o] \in AllowLists
  /\ version \in Nat
  /\ found \in [Sessions -> Update \cup {NoUpdate}]

(* "Hosts/paths are first-come-first-served across clients": a path of a   *)
(* host has one owner, a whole-host service shares its host with nobody    *)
(* else's service, and a host has at most one whole-host service, whatever *)
(* order clients register, fail to register, re-register and leave in.     *)
FirstComeFirstServed ==
  /\ \A s, t \in http : s.host = t.host /\ s.path = t.path => s.client = t.client
  /\ \A s \in raw, t \in Services : s.host = t.host => s.client = t.client
  /\ \A s, t \in raw : s.host = t.host => s = t

(* "Register replaces a client's certs and services": what a client has    *)
(* published always comes from one register message of one session, never  *)
(* from a mixture of its old and its new session.                          *)
OneRegistrationPerClient ==
  \A s, t \in Services \cup {pc \in certs : pc.client # NoClient} :
     s.client = t.client => s.gen = t.gen /\ s.sess = t.sess

Owned(o) == {s \in Services : s.client = o}

(* Services and certificates of the server are "permanent for the process  *)
(* lifetime": no registration or disconnection of a client adds to them or *)
(* takes from them.                                                        *)
ServerEntriesPermanent ==
  [][/\ Owned(ServerOwnerID)' = Owned(ServerOwnerID)
     /\ {pc \in certs : pc.client = NoClient}'
          = {pc \in certs : pc.client = NoClient}]_regVars

(* A registration that publishes something for one owner takes nothing     *)
(* from any other owner.                                                   *)
NoTakeover ==
  [][\A o, p \in Owners :
       o # p /\ ~(Owned(o)' \subseteq Owned(o)) => Owned(p)' = Owned(p)]_regVars

(* A certificate of the server that names a host exactly goes on being the *)
(* one LookupCert serves for it, whatever certificates clients upload.     *)
ServerCertWins ==
  [][\A h \in Hosts :
       (\E pc \in certs : pc.client = NoClient /\ h \in ExactHosts[pc.name])
         => LookupCert(h)' = LookupCert(h)]_regVars
=============================================================================
