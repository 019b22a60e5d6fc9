------------------------------- MODULE Router -------------------------------
(***************************************************************************)
(* The L4 router (internal/l4router/router.go) and the publish handler it  *)
(* dispatches to (internal/publish/handler.go), over a changing Registry.  *)
(* Every connection is a goroutine.  Each lookup it makes takes and leaves *)
(* the registry's lock, so clients register, leave and change whitelists   *)
(* between any two of them.  A connection carries one request at a time;   *)
(* requests of different connections share the handler cache.              *)
(***************************************************************************)
EXTENDS Registry

CONSTANTS
  Conns,     \* accepted connections
  NoHost,    \* no SNI or no Host header
  Prefixes,  \* Prefixes[p]: the paths q with pathHasPrefix(p, q)
  PathLen    \* PathLen[p]: the length of p

ASSUME RouteAssumption ==
  /\ NoHost \notin Hosts /\ Sources # {}
  /\ Prefixes \in [Paths -> SUBSET Paths]
  /\ PathLen \in [Paths -> Nat]

VARIABLES
  pc,        \* where the goroutine of a connection is
  hello,     \* its remote address and the SNI it asked for
  gap,       \* history: the kinds of service its host lacked since
  req,       \* the host and path of the request it is serving
  services,  \* serveHTTP's services, with the versions they were read at
  target,    \* the service it will dial
  handlers   \* the Router's handler map: host -> cachedHandler

connVars == <<pc, hello, gap, req, services, target, handlers>>

routerVars == <<regVars, connVars>>

-----------------------------------------------------------------------------
PCs ==
  {"new",       \* accepted, the ClientHello not yet read
   "raw?",      \* about to call RawService
   "http?",     \* about to call HasHTTPHost
   "allowed?",  \* about to call HTTPHostAllowed
   "handleRaw", \* about to check the whitelist of the whole-host service
   "rawCert",   \* about to look its certificate up
   "dialRaw",   \* TLS is up, about to dial the service
   "piped",     \* spliced to the service
   "pushed",    \* handed to the publish server, TLS handshake to come
   "serving",   \* TLS is up, between two requests
   "request",   \* serveHTTP called
   "version?",  \* has the services, about to read the registry's version
   "handler?",  \* about to take the Router's lock in handlerFor
   "serve",     \* Handler.ServeHTTP called
   "forward",   \* past the checks, about to dial the service
   "reality",   \* spliced to the REALITY inbound
   "closed"}

NoRequest == [host |-> NoHost, path |-> "/"]

NoServices == [routes |-> {}, snap |-> 0, version |-> 0]

RouterInit ==
  /\ RegInit
  /\ pc = [x \in Conns |-> "new"]
  /\ hello = [x \in Conns |-> [sni |-> NoHost, src |-> CHOOSE a \in Sources : TRUE]]
  /\ gap = [x \in Conns |-> {}]
  /\ req = [x \in Conns |-> NoRequest]
  /\ services = [x \in Conns |-> NoServices]
  /\ target = [x \in Conns |-> {}]
  /\ handlers = [h \in {} |-> NoServices]

Kinds == {"raw", "http"}

(* The kinds of service a host lacks now. *)
Absent(h) == {m \in Kinds : IF m = "raw" THEN RawService(h) = {} ELSE ~HasHTTPHost(h)}

Go(x, st) == pc' = [pc EXCEPT ![x] = st]

-----------------------------------------------------------------------------
(* Router.handle *)

(* The ClientHello is read, and what its host lacks from then on recorded. *)
PeekSNI(x, h, a) ==
  /\ pc[x] = "new"
  /\ hello' = [hello EXCEPT ![x] = [sni |-> h, src |-> a]]
  /\ gap' = [gap EXCEPT ![x] = Absent(h)]
  /\ Go(x, "raw?")
  /\ UNCHANGED <<regVars, req, services, target, handlers>>

(* No ClientHello: a probe, handed to REALITY. *)
PeekError(x) ==
  /\ pc[x] = "new"
  /\ gap' = [gap EXCEPT ![x] = Kinds]
  /\ Go(x, "reality")
  /\ UNCHANGED <<regVars, hello, req, services, target, handlers>>

LookupRaw(x) ==
  /\ pc[x] = "raw?"
  /\ LET whole == RawService(hello[x].sni) IN
       /\ target' = [target EXCEPT ![x] = whole]
       /\ Go(x, IF whole # {} THEN "handleRaw" ELSE "http?")
  /\ UNCHANGED <<regVars, hello, gap, req, services, handlers>>

(* Mutation of LookupHTTP: a source no service admits goes to REALITY. *)
MutLookupHTTP(x) ==
  /\ pc[x] = "http?"
  /\ Go(x, IF HTTPHostAllowed(hello[x].sni, hello[x].src) THEN "pushed" ELSE "reality")
  /\ UNCHANGED <<regVars, hello, gap, req, services, target, handlers>>

LookupHTTP(x) ==
  /\ pc[x] = "http?"
  /\ Go(x, IF HasHTTPHost(hello[x].sni) THEN "allowed?" ELSE "reality")
  /\ UNCHANGED <<regVars, hello, gap, req, services, target, handlers>>

(* The coarse check: some service of the host admits the source. *)
CheckHost(x) ==
  /\ pc[x] = "allowed?"
  /\ Go(x, IF HTTPHostAllowed(hello[x].sni, hello[x].src) THEN "pushed" ELSE "closed")
  /\ UNCHANGED <<regVars, hello, gap, req, services, target, handlers>>

-----------------------------------------------------------------------------
(* Router.handleRaw *)

CheckRaw(x) ==
  /\ pc[x] = "handleRaw"
  /\ \E svc \in target[x] : Go(x, IF Allowed(svc, hello[x].src) THEN "rawCert" ELSE "closed")
  /\ UNCHANGED <<regVars, hello, gap, req, services, target, handlers>>

(* LookupCert, then the handshake, which the peer may fail. *)
HandshakeRaw(x) ==
  /\ pc[x] = "rawCert"
  /\ \/ \E svc \in target[x] : LookupCert(svc.host) # {} /\ Go(x, "dialRaw")
     \/ Go(x, "closed")
  /\ UNCHANGED <<regVars, hello, gap, req, services, target, handlers>>

DialRaw(x) ==
  /\ pc[x] = "dialRaw"
  /\ \E st \in {"piped", "closed"} : Go(x, st)
  /\ UNCHANGED <<regVars, hello, gap, req, services, target, handlers>>

-----------------------------------------------------------------------------
(* The publish server: getCertificate, then serveHTTP for every request *)

Handshake(x) ==
  /\ pc[x] = "pushed"
  /\ \/ LookupCert(hello[x].sni) # {} /\ Go(x, "serving")
     \/ Go(x, "closed")
  /\ UNCHANGED <<regVars, hello, gap, req, services, target, handlers>>

(* The Host header names the virtual host, the SNI only when it is absent. *)
dispatchHost(x, h) == IF h = NoHost THEN hello[x].sni ELSE h

Request(x, h, p) ==
  /\ pc[x] = "serving"
  /\ req' = [req EXCEPT ![x] = [host |-> dispatchHost(x, h), path |-> p]]
  /\ Go(x, "request")
  /\ UNCHANGED <<regVars, hello, gap, services, target, handlers>>

Disconnect(x) ==
  /\ pc[x] = "serving"
  /\ Go(x, "closed")
  /\ UNCHANGED <<regVars, hello, gap, req, services, target, handlers>>

(* The response is out: the goroutine forgets the request. *)
Respond(x) ==
  /\ Go(x, "serving")
  /\ req' = [req EXCEPT ![x] = NoRequest]
  /\ services' = [services EXCEPT ![x] = NoServices]
  /\ target' = [target EXCEPT ![x] = {}]

ReadServices(x) ==
  /\ pc[x] = "request"
  /\ LET svcs == HTTPServices(req[x].host) IN
       \/ /\ svcs = {}
          /\ Respond(x)
       \/ /\ svcs # {}
          /\ services' = [services EXCEPT ![x] = [routes |-> svcs, snap |-> version,
                                                  version |-> 0]]
          /\ Go(x, "version?")
          /\ UNCHANGED <<req, target>>
  /\ UNCHANGED <<regVars, hello, gap, handlers>>

ReadVersion(x) ==
  /\ pc[x] = "version?"
  /\ services' = [services EXCEPT ![x].version = version]
  /\ Go(x, "handler?")
  /\ UNCHANGED <<regVars, hello, gap, req, target, handlers>>

Cached(h, v) == h \in DOMAIN handlers /\ handlers[h].version = v

(* Mutation of handlerFor: the cache is keyed by the connection's SNI. *)
MutHandlerFor(x) ==
  /\ pc[x] = "handler?"
  /\ LET h == hello[x].sni IN
       \/ /\ Cached(h, services[x].version)
          /\ services' = [services EXCEPT ![x] = handlers[h]]
          /\ UNCHANGED handlers
       \/ /\ ~Cached(h, services[x].version)
          /\ handlers' = [g \in DOMAIN handlers \cup {h} |->
                            IF g = h THEN services[x] ELSE handlers[g]]
          /\ UNCHANGED services
  /\ Go(x, "serve")
  /\ UNCHANGED <<regVars, hello, gap, req, target>>

(* Mutation of handlerFor: an outdated entry gets the new version but is *)
(* not rebuilt.                                                          *)
MutHandlerForKept(x) ==
  /\ pc[x] = "handler?"
  /\ LET h == req[x].host
         c == IF h \in DOMAIN handlers
                THEN [services[x] EXCEPT !.routes = handlers[h].routes] ELSE services[x]
     IN  /\ handlers' = [g \in DOMAIN handlers \cup {h} |-> IF g = h THEN c ELSE handlers[g]]
         /\ services' = [services EXCEPT ![x] = c]
  /\ Go(x, "serve")
  /\ UNCHANGED <<regVars, hello, gap, req, target>>

(* handlerFor, under the Router's lock: the cached handler when it has the *)
(* version just read, otherwise a new one from the services read before.   *)
handlerFor(x) ==
  /\ pc[x] = "handler?"
  /\ LET h == req[x].host IN
       \/ /\ Cached(h, services[x].version)
          /\ services' = [services EXCEPT ![x] = handlers[h]]
          /\ UNCHANGED handlers
       \/ /\ ~Cached(h, services[x].version)
          /\ handlers' = [g \in DOMAIN handlers \cup {h} |->
                            IF g = h THEN services[x] ELSE handlers[g]]
          /\ UNCHANGED services
  /\ Go(x, "serve")
  /\ UNCHANGED <<regVars, hello, gap, req, target>>

-----------------------------------------------------------------------------
(* Handler.ServeHTTP *)

(* Handler.match: the longest prefix of the path, the first of equals. *)
match(routes, p) ==
  LET hits == {s \in routes : s.path \in Prefixes[p]}
  IN  First({s \in hits : \A t \in hits : PathLen[t.path] <= PathLen[s.path]})

(* Not found, banned (the Banner decides) or not in the whitelist of the   *)
(* one service that matched; otherwise the request is forwarded.           *)
ServeHTTP(x) ==
  /\ pc[x] = "serve"
  /\ LET rh == match(services[x].routes, req[x].path) IN
       \/ Respond(x)
       \/ /\ \E svc \in rh : Allowed(svc, hello[x].src)
          /\ target' = [target EXCEPT ![x] = rh]
          /\ Go(x, "forward")
          /\ UNCHANGED <<req, services>>
  /\ UNCHANGED <<regVars, hello, gap, handlers>>

(* svc.Dial succeeds or not; either way the request is answered.  A bridged *)
(* WebSocket, or an upgrade the reverse proxy passes on, takes over the     *)
(* connection.                                                              *)
Forward(x) ==
  /\ pc[x] = "forward"
  /\ \/ Respond(x)
     \/ Go(x, "piped") /\ UNCHANGED <<req, services, target>>
  /\ UNCHANGED <<regVars, hello, gap, handlers>>

-----------------------------------------------------------------------------
ConnStep(x) ==
  \/ \E h \in Hosts \cup {NoHost}, a \in Sources : PeekSNI(x, h, a)
  \/ PeekError(x)
  \/ LookupRaw(x) \/ LookupHTTP(x) \/ CheckHost(x)
  \/ CheckRaw(x) \/ HandshakeRaw(x) \/ DialRaw(x)
  \/ Handshake(x) \/ Disconnect(x)
  \/ \E h \in Hosts \cup {NoHost}, p \in Paths \ {""} : Request(x, h, p)
  \/ ReadServices(x) \/ ReadVersion(x) \/ handlerFor(x)
  \/ ServeHTTP(x) \/ Forward(x)

(* The registry changes; what it no longer has is recorded. *)
RegistryStep ==
  /\ RegStep
  /\ UNCHANGED <<pc, hello, req, services, target, handlers>>
  /\ gap' = [x \in Conns |->
               IF pc[x] \in {"raw?", "http?"} THEN gap[x] \cup Absent(hello[x].sni)'
                                             ELSE gap[x]]

RouterNext == RegistryStep \/ \E x \in Conns : ConnStep(x)

RouterSpec == RouterInit /\ [][RouterNext]_routerVars

(* The same with the version counter capped, for model checking. *)
RouterBoundedNext ==
  \/ version < MaxVersion /\ RegistryStep
  \/ \E x \in Conns : ConnStep(x)

RouterBoundedSpec == RouterInit /\ [][RouterBoundedNext]_routerVars

-----------------------------------------------------------------------------
(* Properties *)

ServiceSet == [routes : SUBSET Service, snap : Nat, version : Nat]

(* The type invariant. *)
RouterTypeOK ==
  /\ RegTypeOK
  /\ pc \in [Conns -> PCs]
  /\ hello \in [Conns -> [sni : Hosts \cup {NoHost}, src : Sources]]
  /\ gap \in [Conns -> SUBSET Kinds]
  /\ req \in [Conns -> [host : Hosts \cup {NoHost}, path : Paths]]
  /\ services \in [Conns -> ServiceSet]
  /\ target \in [Conns -> SUBSET Service]
  /\ DOMAIN handlers \subseteq Hosts
  /\ \A h \in DOMAIN handlers : handlers[h] \in ServiceSet

(* A connection is spliced, and a request is forwarded, only to a service  *)
(* published for the host it asked for: also when one connection carries   *)
(* requests for several hosts and connections share cached handlers.       *)
RightHost ==
  \A x \in Conns : \A s \in target[x] :
     s.host = IF req[x].host = NoHost THEN hello[x].sni ELSE req[x].host

(* A set of services that was read at the version it is filed under lacks  *)
(* none of the host's services as long as that is the registry's version.  *)
Complete(h, c) ==
  c.snap = c.version /\ c.version = version => HTTPServices(h) \subseteq c.routes

(* "a cached publish handler for the host, rebuilt whenever the registry   *)
(* changes": a handler whose services and version were read with no change *)
(* between the two misses no service published for its host, for as long   *)
(* as the cache considers it current.                                      *)
UnracedCacheComplete ==
  /\ \A h \in DOMAIN handlers : Complete(h, handlers[h])
  /\ \A x \in Conns : pc[x] = "serve" => Complete(req[x].host, services[x])

(* Router.handle leaves to REALITY a "mimic host, unknown SNI, or empty    *)
(* SNI": never a host that had a raw service, or an http service, all the  *)
(* time from the ClientHello on, whatever else was registered and removed  *)
(* between its lookups.  (A host that moves from http to raw between the   *)
(* two lookups is missed by both.)                                         *)
PublishedNotToReality ==
  \A x \in Conns : pc[x] = "reality" => gap[x] = Kinds

(* handlerFor's comment: the cached handler of a host is rebuilt "whenever *)
(* the registry changes (tracked by Version)", so one that is filed under  *)
(* the registry's version has the services the host has now.               *)
CacheFresh ==
  \A h \in DOMAIN handlers :
     handlers[h].version = version /\ HasHTTPHost(h) => handlers[h].routes = HTTPServices(h)
=============================================================================
