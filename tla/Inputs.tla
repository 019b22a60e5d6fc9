------------------------------- MODULE Inputs -------------------------------
(* The functions of Names and Hello over bounded inputs, each against a     *)
(* definition of its own: paths and host names by their segments and        *)
(* labels, rules and requests by the structure they are written from.       *)
EXTENDS Names, Hello

CONSTANTS
  Routes,    \* services of one host: [path, strip, add]
  Paths,     \* request paths
  Certs,     \* certificates: [dns, cn, readable]
  SNIs,      \* server names
  URLs,      \* published URLs: [scheme, host, path]
  Entries,   \* destination rules: [kind, host, port (its digits), n (its value)]
  Dests,     \* destinations: [type, bytes, text] of a SOCKS5 request
  Ports,     \* destination ports
  Hellos,    \* ClientHellos: [sid, before, names]
  MaxList    \* bound on the length of the lists of routes, certificates, URLs and rules

VARIABLE input  \* what is matched or parsed: its kind and its data

None == <<"none">>

InputsInit == input = None

Lists(S) == BoundedSeq(S, MaxList)

HTTPRequest == \E rs \in Lists(Routes), p \in Paths : input' = <<"request", [routes |-> rs, path |-> p]>>

TLSConnect == \E cs \in Lists(Certs), h \in SNIs : input' = <<"cert", [certs |-> cs, sni |-> h]>>

Publish == \E us \in Lists(URLs) : input' = <<"publish", us>>

Socks ==
  \E es \in Lists(Entries), d \in Dests, p \in Ports, cmd \in {1, 2} :
    input' = <<"socks", [entries |-> es, dest |-> d, port |-> p, cmd |-> cmd]>>

ClientHello == \E h \in Hellos : input' = <<"hello", h>>

InputsNext == input = None /\ (HTTPRequest \/ TLSConnect \/ Publish \/ Socks \/ ClientHello)

InputsSpec == InputsInit /\ [][InputsNext]_input

Of(kind) == input[1] = kind

-----------------------------------------------------------------------------
(* The pieces of a text between the occurrences of c.                      *)
Pieces(s, c) ==
  LET cuts == SetToSortSeq({0, Len(s) + 1} \cup {i \in DOMAIN s : s[i] = c}, <)
  IN [k \in 1..Len(cuts) - 1 |-> SubSeq(s, cuts[k] + 1, cuts[k + 1] - 1)]

Segments(path) == IF path \in {<<>>, <<"/">>} THEN <<<<>>>> ELSE Pieces(TrimSuffix(path, <<"/">>), "/")

Under(path, prefix) == IsPrefix(Segments(prefix), Pieces(path, "/"))

RoutesBySegment ==
  Of("request") =>
    LET rs == input[2].routes
        path == input[2].path
        m == match(rs, path)
        fits == {i \in DOMAIN rs : Under(path, rs[i].path)}
    IN /\ m = 0 <=> fits = {}
       /\ m # 0 => /\ m \in fits
                   /\ \A i \in fits : Len(Segments(rs[i].path)) <= Len(Segments(rs[m].path))
                   /\ rs[m].path = Reverse(rs)[match(Reverse(rs), path)].path

RewriteKeepsRest ==
  Of("request") =>
    LET rs == input[2].routes
        path == input[2].path
        svc == rs[match(rs, path)]
        out == TrimPrefix(applyRequestRewrite(path, svc), TrimSuffix(svc.add, <<"/">>))
    IN match(rs, path) # 0 =>
         /\ IsPrefix(TrimSuffix(svc.add, <<"/">>), applyRequestRewrite(path, svc))
         /\ IF svc.strip
            THEN /\ IsPrefix(<<"/">>, out)
                 /\ TrimSuffix(svc.path, <<"/">>) \o out \in {path, Append(path, "/")}
            ELSE out = path

(* match gives a request to the route whose path segments are the longest  *)
(* prefix of the request's, never to one that only shares characters       *)
(* ("/ab" is not under "/a"), and to the same path whatever order the      *)
(* routes of the host, often of several clients, stand in.  Stripping that *)
(* prefix then loses nothing: the service's path followed by what the      *)
(* upstream sees is the request's path, at most a final "/" added, and an  *)
(* added prefix is followed by exactly that.                               *)
RequestReachesPath == RoutesBySegment /\ RewriteKeepsRest

Labels(host) == Pieces(ToLower(host), ".")

CoversLabels(name, host) ==
  LET n == Labels(name)
      h == Labels(host)
  IN \/ n = h
     \/ /\ Len(n) > 1 /\ n[1] = <<"*">> /\ Len(n) = Len(h) /\ h[1] # <<>>
        /\ Tail(n) = Tail(h)

Covers(c, sni) == \E n \in ToSet(certDNSNames(c)) : CoversLabels(n, TrimSpace(sni))

(* The two copies of the certificate matching agree with each other and    *)
(* with the labels: the registry serves a name exactly when a certificate  *)
(* covers it, and a TUIC block that validateServerTuic accepts finds a     *)
(* covering certificate when the inbound is built from it.                 *)
CertsAgree ==
  Of("cert") =>
    LET cs == input[2].certs
        sni == input[2].sni
        covering == {i \in DOMAIN cs : Covers(cs[i], sni)}
        used == FindCertForSAN(cs, sni)
    IN /\ IF covering = {} THEN LookupCert(cs, sni) = 0 ELSE LookupCert(cs, sni) \in covering
       /\ (used # 0 \/ validateServerTuic(cs, sni)) => used \in covering

Services(urls) == SelectSeq([i \in DOMAIN urls |-> Parse(urls[i])], LAMBDA s : s # NotAService)

(* The id the server writes on a reverse stream is one the owning client   *)
(* knows, and names a service of the same mode, host and path: the id is   *)
(* computed on both sides, from the published URL by the client and from   *)
(* what the registry kept by the server.                                   *)
StreamFindsService ==
  Of("publish") =>
    LET services == Services(input[2])
    IN \A i \in DOMAIN services :
         /\ serviceByID(services, services[i]) # {}
         /\ \A j \in serviceByID(services, services[i]) : services[j] = services[i]

-----------------------------------------------------------------------------
Text(e) ==
  LET host == CASE e.kind = "any"   -> <<"*">>
                [] e.kind = "under" -> <<"*", ".">> \o e.host
                [] e.kind = "host" /\ Contains(e.host, ":") /\ e.port # <<>> -> <<"[">> \o e.host \o <<"]">>
                [] OTHER            -> e.host
  IN IF e.port = <<>> THEN host ELSE host \o <<":">> \o e.port

WellFormed(e) == e.port = <<>> \/ e.n \in 1..65535

DestLabels(text) == Labels(TrimSuffix(text, <<".">>))

Means(e, text, port) ==
  /\ e.n \in {0, port}
  /\ CASE e.kind = "any"   -> TRUE
       [] e.kind = "host"  -> DestLabels(text) = Labels(e.host)
       [] e.kind = "under" -> IsStrictSuffix(Labels(e.host), DestLabels(text))
       [] e.kind = "cidr"  -> text \in DOMAIN Addrs /\ Addrs[text] \in CIDRs[e.host]

Permits(entries, text, port) ==
  /\ \A i \in DOMAIN entries : WellFormed(entries[i])
  /\ \E i \in DOMAIN entries : Means(entries[i], text, port)

Texts(entries) == [i \in DOMAIN entries |-> Text(entries[i])]

Written(host) == (CHOOSE d \in Dests : <<d.type, d.bytes>> = host).text

Byte2(n) == <<n \div 256, n % 256>>

Wire(i) ==
  <<5, 1, 0>> \o <<5, i.cmd, 0, i.dest.type>>
    \o (IF i.dest.type = 3 THEN <<Len(i.dest.bytes)>> ELSE <<>>) \o i.dest.bytes \o Byte2(i.port)

(* Wherever the request is cut, Serve dials the destination that was asked *)
(* for or none, and only one the rules permit; a whole request is answered *)
(* with exactly one reply.  A list of rules, written in the forms the      *)
(* package documents, permits the destinations those forms name and no     *)
(* other, and one bad rule denies everything.                              *)
SocksServesRequest ==
  Of("socks") =>
    LET i == input[2]
        allowed == {a \in {<<d.type, d.bytes>> : d \in Dests} \X (0..65535) :
                      Allowed(New(Texts(i.entries)), Written(a[1]), a[2])}
        ok == i.cmd = 1 /\ Permits(i.entries, i.dest.text, i.port)
        asked == <<<<i.dest.type, i.dest.bytes>>, i.port>>
        answer == IF i.cmd # 1 THEN "cmdNotSupported"
                  ELSE IF ok THEN "success" ELSE "notAllowed"
    IN /\ \A k \in 0..Len(Wire(i)) :
            Serve(SubSeq(Wire(i), 1, k), allowed, TRUE).dialled \subseteq (IF ok THEN {asked} ELSE {})
       /\ Serve(Wire(i), allowed, TRUE).replies = <<"noAuth", answer>>

-----------------------------------------------------------------------------
Vector8(b) == <<Len(b)>> \o b

Vector16(b) == Byte2(Len(b)) \o b

Extension(type, b) == Byte2(type) \o Vector16(b)

NameEntry(n) == <<n.type>> \o Vector16(n.name)

Body(h) ==
  <<1, 0, 0, 0, 3, 3>> \o Zeros(32) \o Vector8(Zeros(h.sid)) \o Vector16(<<19, 1>>) \o Vector8(<<0>>)
    \o Vector16(FlattenSeq([i \in DOMAIN h.before |-> Extension(h.before[i], <<0>>)])
                \o Extension(0, Vector16(FlattenSeq([i \in DOMAIN h.names |-> NameEntry(h.names[i])])))
                \o Extension(43, <<3, 4>>))

NameIn(h) ==
  LET i == SelectInSeq(h.names, LAMBDA n : n.type = 0) IN IF i = 0 THEN <<>> ELSE h.names[i].name

SNIRight ==
  Of("hello") =>
    LET b == Body(input[2])
    IN /\ parseSNIFromHandshake(b) = NameIn(input[2])
       /\ \A k \in 0..Len(b) : parseSNIFromHandshake(SubSeq(b, 1, k)) \in {<<>>, NameIn(input[2])}

Record(type, b) == <<type, 3, 1>> \o Vector16(b)

ReplayExact ==
  Of("hello") =>
    \A k \in 0..Len(Body(input[2])), type \in {22, 23} :
      LET conn == Record(type, SubSeq(Body(input[2]), 1, k)) \o <<20, 21>>
      IN newPrefixConn(conn) = conn

(* The name the router routes by is the host name of the ClientHello,      *)
(* whatever stands around it; of a ClientHello that continues in another   *)
(* record it is that name or none, never a part of it or other bytes.  And *)
(* what is read to find the name is replayed byte for byte before the rest *)
(* of the connection, for a whole first record of any type and length.     *)
(* A first record that the end of the connection or the read deadline cuts *)
(* short is not among the inputs: its replay is not exact.                 *)
HelloPassedOn == SNIRight /\ ReplayExact
=============================================================================
