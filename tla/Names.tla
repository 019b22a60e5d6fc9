------------------------------- MODULE Names --------------------------------
(* The texts the server and the client match: request paths against routes, *)
(* host names against certificates, published URLs against service ids and  *)
(* SOCKS5 destinations against rules.  A text is the sequence of its        *)
(* characters.                                                              *)
EXTENDS Naturals, Sequences, FiniteSets, SequencesExt

CONSTANTS
  Addrs,  \* netip.ParseAddr: text of an IP address -> the address, unmapped
  CIDRs   \* netip.ParsePrefix: text of a CIDR -> the addresses in it

Letters == [A |-> "a", B |-> "b", C |-> "c"]

Digits == <<"0", "1", "2", "3", "4", "5", "6", "7", "8", "9">>

ToLower(s) == [i \in DOMAIN s |-> IF s[i] \in DOMAIN Letters THEN Letters[s[i]] ELSE s[i]]

TrimSuffix(s, x) == IF IsSuffix(x, s) THEN SubSeq(s, 1, Len(s) - Len(x)) ELSE s

TrimPrefix(s, x) == IF IsPrefix(x, s) THEN SubSeq(s, Len(x) + 1, Len(s)) ELSE s

TrimSpace(s) ==
  LET kept == {i \in DOMAIN s : s[i] # " "}
  IN IF kept = {} THEN <<>>
     ELSE SubSeq(s, Min(kept), Max(kept))

LastIndex(s, c) == SelectLastInSeq(s, LAMBDA x : x = c)  \* 0 when absent

-----------------------------------------------------------------------------
(* Request paths: publish/handler.go and publish/rewrite.go.               *)

MutPathHasPrefix(reqPath, prefix) ==
  prefix \in {<<>>, <<"/">>} \/ IsPrefix(TrimSuffix(prefix, <<"/">>), reqPath)

pathHasPrefix(reqPath, prefix) ==
  LET p == TrimSuffix(prefix, <<"/">>) IN
  \/ prefix \in {<<>>, <<"/">>}
  \/ reqPath = p
  \/ IsPrefix(Append(p, "/"), reqPath)

(* The index of the best route, 0 for none.                                *)
match(routes, path) ==
  FoldLeftDomain(LAMBDA best, i :
                   IF pathHasPrefix(path, routes[i].path)
                      /\ (best = 0 \/ Len(routes[i].path) > Len(routes[best].path))
                   THEN i ELSE best,
                 0, routes)

Stripped(path, prefix) ==
  LET rest == TrimPrefix(path, TrimSuffix(prefix, <<"/">>))
  IN IF IsPrefix(<<"/">>, rest) THEN rest ELSE Cons("/", rest)

applyRequestRewrite(path, svc) ==
  LET p == IF svc.strip /\ svc.path \notin {<<>>, <<"/">>} THEN Stripped(path, svc.path) ELSE path
  IN IF svc.add # <<>> THEN TrimSuffix(svc.add, <<"/">>) \o p ELSE p

-----------------------------------------------------------------------------
(* Certificate names: control/registry.go for the connections the server   *)
(* terminates, config/config.go for the TUIC inbound.                      *)

certDNSNames(c) == IF c.dns = <<>> /\ c.cn # <<>> THEN <<c.cn>> ELSE c.dns

parseCert(c) == LET names == certDNSNames(c) IN [i \in DOMAIN names |-> ToLower(names[i])]

MutWildcardMatch(name, host) ==
  \/ name = host
  \/ IsPrefix(<<"*", ".">>, name) /\ IsSuffix(Tail(name), host)

wildcardMatch(name, host) ==
  \/ name = host
  \/ /\ IsPrefix(<<"*", ".">>, name)
     /\ IsSuffix(Tail(name), host)
     /\ LET label == TrimSuffix(host, Tail(name)) IN label # <<>> /\ ~Contains(label, ".")

LookupCert(certs, sni) ==
  LET host == ToLower(TrimSpace(sni))
      exact == SelectInSeq(certs, LAMBDA c : Contains(parseCert(c), host))
  IN IF exact # 0 THEN exact
     ELSE SelectInSeq(certs, LAMBDA c : \E n \in ToSet(parseCert(c)) : wildcardMatch(n, host))

coversName(names, sni) ==
  LET host == ToLower(TrimSpace(sni))
  IN \E i \in DOMAIN names :
       LET n == ToLower(names[i]) IN
       \/ n = host
       \/ /\ IsPrefix(<<"*", ".">>, n)
          /\ IsSuffix(Tail(n), host)
          /\ LET label == TrimSuffix(host, Tail(n)) IN label # <<>> /\ ~Contains(label, ".")

(* The first certificate that covers the name, provided those before it    *)
(* can be read.                                                            *)
validateServerTuic(certs, sni) ==
  /\ sni # <<>>
  /\ \E i \in DOMAIN certs : /\ \A j \in 1..i : certs[j].readable
                             /\ coversName(certDNSNames(certs[i]), sni)

FindCertForSAN(certs, sni) ==
  SelectInSeq(certs, LAMBDA c : c.readable /\ coversName(certDNSNames(c), sni))

-----------------------------------------------------------------------------
(* Published URLs and service ids: config/config.go, control/proto.go,     *)
(* control/registry.go and control/client.go.                              *)

NotAService == [mode |-> "", host |-> <<>>, path |-> <<>>]

Modes == [https |-> "http", http |-> "http", wss |-> "ws", ws |-> "ws",
          tcp |-> "tcp", tls |-> "tcp", socks5 |-> "socks5", socks |-> "socks5"]

isRaw(mode) == mode \in {"tcp", "socks5"}

normPath(p) == IF p = <<>> THEN <<"/">> ELSE p

Parse(url) ==
  LET mode == IF url.scheme \in DOMAIN Modes THEN Modes[url.scheme] ELSE ""
      path == IF isRaw(mode) THEN <<>> ELSE normPath(url.path)
  IN IF url.host = <<>> \/ mode = "" \/ (isRaw(mode) /\ url.path \notin {<<>>, <<"/">>})
     THEN NotAService
     ELSE [mode |-> mode, host |-> url.host, path |-> path]

ServiceID(s) ==
  CASE s.mode = "tcp"    -> [scheme |-> "tcp", host |-> s.host, path |-> <<>>]
    [] s.mode = "socks5" -> [scheme |-> "socks5", host |-> s.host, path |-> <<>>]
    [] s.mode = "ws"     -> [scheme |-> "wss", host |-> s.host, path |-> normPath(s.path)]
    [] OTHER             -> [scheme |-> "https", host |-> s.host, path |-> normPath(s.path)]

MutRegistered(s) ==
  [mode |-> s.mode, host |-> ToLower(s.host),
   path |-> IF isRaw(s.mode) THEN <<>> ELSE normPath(TrimSuffix(s.path, <<"/">>))]

(* What Register keeps of a service on the server.                         *)
Registered(s) ==
  [mode |-> s.mode, host |-> ToLower(s.host), path |-> IF isRaw(s.mode) THEN <<>> ELSE normPath(s.path)]

(* handleReverse's lookup: the indices of the client's services that the   *)
(* tunnel frame of a stream for service s names (the last one is served).  *)
serviceByID(services, s) == {i \in DOMAIN services : ServiceID(services[i]) = ServiceID(Registered(s))}

-----------------------------------------------------------------------------
(* Destination rules of a socks5 service: destallow/destallow.go.          *)

isDigits(s) == s # <<>> /\ \A i \in DOMAIN s : Contains(Digits, s[i])

Split(host, port) == [ok |-> TRUE, host |-> host, port |-> port]

Bad == [ok |-> FALSE, host |-> <<>>, port |-> 0]

(* strconv.ParseUint(s, 10, 16), refusing 0.                               *)
parsePort(s, host) ==
  LET n == FoldLeft(LAMBDA a, d : 10 * a + LastIndex(Digits, d) - 1, 0, s)
  IN IF isDigits(s) /\ n \in 1..65535 THEN Split(host, n) ELSE Bad

splitHostPort(s) ==
  LET i == LastIndex(s, ":")
      end == LastIndex(s, "]")
      rest == SubSeq(s, end + 1, Len(s))
  IN CASE Contains(s, "/") -> Split(s, 0)
       [] ~Contains(s, "/") /\ IsPrefix(<<"[">>, s) ->
            (IF end = 0 THEN Bad
             ELSE IF rest = <<>> THEN Split(SubSeq(s, 2, end - 1), 0)
             ELSE IF rest[1] # ":" THEN Bad
             ELSE parsePort(Tail(rest), SubSeq(s, 2, end - 1)))
       [] OTHER ->
            (IF i > 0 /\ ~Contains(SubSeq(s, 1, i - 1), ":") /\ isDigits(SubSeq(s, i + 1, Len(s)))
             THEN parsePort(SubSeq(s, i + 1, Len(s)), SubSeq(s, 1, i - 1)) ELSE Split(s, 0))

Rule(ok, kind, text, port) == [ok |-> ok, kind |-> kind, text |-> text, port |-> port]

parseRule(e) ==
  LET s == splitHostPort(e) IN
  CASE ~s.ok \/ (s.host # <<"*">> /\ Contains(s.host, "/") /\ s.host \notin DOMAIN CIDRs) ->
         Rule(FALSE, "", <<>>, 0)
    [] s.ok /\ s.host = <<"*">> -> Rule(TRUE, "any", <<>>, s.port)
    [] s.ok /\ s.host \in DOMAIN CIDRs -> Rule(TRUE, "cidr", s.host, s.port)
    [] s.ok /\ IsPrefix(<<"*", ".">>, s.host) -> Rule(TRUE, "suffix", ToLower(Tail(s.host)), s.port)
    [] OTHER -> Rule(TRUE, "exact", ToLower(s.host), s.port)

matchHost(r, host) ==
  CASE r.kind = "any"    -> TRUE
    [] r.kind = "cidr"   -> host \in DOMAIN Addrs /\ Addrs[host] \in CIDRs[r.text]
    [] r.kind = "suffix" -> IsSuffix(r.text, host)
    [] r.kind = "exact"  -> host = r.text

(* The rules of a service; a list with a bad entry denies everything.      *)
New(entries) ==
  LET texts == SelectSeq([i \in DOMAIN entries |-> TrimSpace(entries[i])], LAMBDA e : e # <<>>)
      rules == [i \in DOMAIN texts |-> parseRule(texts[i])]
  IN IF \E i \in DOMAIN rules : ~rules[i].ok THEN <<>> ELSE rules

Allowed(rules, dest, port) ==
  LET host == ToLower(TrimSuffix(dest, <<".">>))
  IN \E i \in DOMAIN rules : rules[i].port \in {0, port} /\ matchHost(rules[i], host)
=============================================================================
