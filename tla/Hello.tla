------------------------------- MODULE Hello --------------------------------
(* The bytes a visitor sends first: the TLS ClientHello the router reads    *)
(* for its server name (l4router/clienthello.go) and the request a SOCKS5   *)
(* service reads (socks5/server.go).  A connection is the sequence of bytes *)
(* that arrive before it ends or its deadline passes.                       *)
EXTENDS Integers, Sequences, SequencesExt

U8(b) == b[1]

U16(b) == 256 * b[1] + b[2]

Drop(b, n) == SubSeq(b, n + 1, Len(b))

Zeros(n) == [i \in 1..n |-> 0]

-----------------------------------------------------------------------------
(* The parser is what remains to be parsed; Short once bytes has failed.   *)

Short == <<-1>>

bytes(p, n) == IF p = Short \/ n > Len(p) THEN Short ELSE Drop(p, n)

(* A vector with a one or two byte length.                                 *)
SkipVector8(p) == IF bytes(p, 1) = Short THEN Short ELSE bytes(bytes(p, 1), U8(p))

SkipVector16(p) == IF bytes(p, 2) = Short THEN Short ELSE bytes(bytes(p, 2), U16(p))

RECURSIVE hostName(_)
hostName(p) ==
  IF Len(p) < 3 THEN <<>>
  ELSE LET n == U16(Drop(p, 1)) IN
       CASE bytes(p, 3 + n) = Short -> <<>>
         [] bytes(p, 3 + n) # Short /\ U8(p) = 0 -> SubSeq(p, 4, 3 + n)
         [] OTHER -> hostName(Drop(p, 3 + n))

parseSNIExtension(b) == IF bytes(b, 2) = Short THEN <<>> ELSE hostName(Drop(b, 2))

MutServerName(ext) ==
  IF Len(ext) < 4 \/ U16(ext) # 0 THEN <<>> ELSE parseSNIExtension(SubSeq(ext, 5, 4 + U16(Drop(ext, 2))))

RECURSIVE serverName(_)
serverName(ext) ==
  IF Len(ext) < 4 THEN <<>>
  ELSE LET n == U16(Drop(ext, 2)) IN
       CASE bytes(ext, 4 + n) = Short -> <<>>
         [] bytes(ext, 4 + n) # Short /\ U16(ext) = 0 -> parseSNIExtension(SubSeq(ext, 5, 4 + n))
         [] OTHER -> serverName(Drop(ext, 4 + n))

(* Type, length, version and random; session id, cipher suites and         *)
(* compression methods; then the extensions, of which a short block is     *)
(* dropped whole.                                                          *)
parseSNIFromHandshake(b) ==
  LET p == SkipVector8(SkipVector16(SkipVector8(bytes(b, 1 + 3 + 2 + 32))))
      ext == bytes(p, 2)
  IN IF b = <<>> \/ U8(b) # 1 \/ ext = Short \/ bytes(ext, U16(p)) = Short THEN <<>>
     ELSE serverName(SubSeq(ext, 1, U16(p)))

Peeked(sni, raw, ok) == [sni |-> sni, raw |-> raw, ok |-> ok]

(* raw is what is replayed: nothing after a short header, and after a      *)
(* short body the whole record with zeros for what did not arrive.         *)
peekClientHelloSNI(conn) ==
  LET hdr == SubSeq(conn, 1, 5)
      recLen == U16(Drop(hdr, 3))
      body == SubSeq(conn, 6, 5 + recLen)
  IN CASE Len(conn) < 5 -> Peeked(<<>>, <<>>, FALSE)
       [] Len(conn) >= 5 /\ (U8(hdr) # 22 \/ recLen = 0 \/ recLen > 16 * 1024) -> Peeked(<<>>, hdr, FALSE)
       [] Len(conn) >= 5 /\ U8(hdr) = 22 /\ recLen \in 1..16 * 1024 /\ Len(conn) < 5 + recLen ->
            Peeked(<<>>, conn \o Zeros(5 + recLen - Len(conn)), FALSE)
       [] OTHER -> Peeked(parseSNIFromHandshake(body), hdr \o body, TRUE)

(* What the terminator behind the router reads: raw, then what follows.    *)
newPrefixConn(conn) ==
  LET raw == peekClientHelloSNI(conn).raw IN raw \o Drop(conn, Len(raw))

-----------------------------------------------------------------------------
(* SOCKS5.  A step has failed with the bytes that run out; a reply code is *)
(* sent where the code sends one.                                          *)

Request(host, port, reply) == [host |-> host, port |-> port, reply |-> reply]

NoRequest(reply) == Request(<<>>, -1, reply)

MutPort(p) == 256 * p[2] + p[1]

Port(p) == 256 * p[1] + p[2]

(* The bytes after the greeting, Short when it is refused or cut.          *)
handshake(conn) ==
  IF Len(conn) < 2 \/ conn[1] # 5 THEN Short ELSE bytes(Drop(conn, 2), conn[2])

(* Address types: 1 is IPv4, 4 is IPv6, 3 a domain name with its length.   *)
AddrLen(p) == CASE p[4] = 1 -> 4 [] p[4] = 4 -> 16 [] OTHER -> IF Len(p) < 5 THEN 0 ELSE p[5]

readConnect(p) ==
  LET skip == IF p[4] = 3 THEN 5 ELSE 4
      end == skip + AddrLen(p)
  IN IF Len(p) < 4 \/ p[1] # 5 THEN NoRequest("none")
     ELSE CASE p[2] # 1 -> NoRequest("cmdNotSupported")
            [] p[2] = 1 /\ p[4] \notin {1, 3, 4} -> NoRequest("generalFailure")
            [] p[2] = 1 /\ p[4] \in {1, 3, 4} /\ Len(p) < end + 2 -> NoRequest("none")
            [] OTHER -> Request(<<p[4], SubSeq(p, skip + 1, end)>>,
                                Port(SubSeq(p, end + 1, end + 2)), "none")

(* The destination Serve dials, if any, and the replies it writes; allowed *)
(* is the set of destinations that its Allow accepts.                      *)
Serve(conn, allowed, dialOK) ==
  LET p == handshake(conn)
      req == IF p = Short THEN NoRequest("none") ELSE readConnect(p)
      hello == IF p = Short THEN <<>> ELSE <<"noAuth">>
      Done(dialled, reply) == [dialled |-> dialled, replies |-> hello \o reply]
  IN CASE req.port = -1 -> Done({}, IF req.reply = "none" THEN <<>> ELSE <<req.reply>>)
       [] req.port # -1 /\ <<req.host, req.port>> \notin allowed -> Done({}, <<"notAllowed">>)
       [] OTHER -> Done({<<req.host, req.port>>}, <<IF dialOK THEN "success" ELSE "hostUnreachable">>)
=============================================================================
