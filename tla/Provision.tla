----------------------------- MODULE Provision ------------------------------
(***************************************************************************)
(* From the server's configuration file to a client that connects: the     *)
(* commands init-server, add-client and gen-token (cmd/tbox/main.go,       *)
(* internal/app/setup.go) read and rewrite the file and print tokens       *)
(* (internal/token), the server loads the file and renders its inbounds,   *)
(* and a client renders its outbound from a token, on the desktop          *)
(* (internal/app, internal/singbox) and on Android (mobile).  Commands run *)
(* side by side, may be killed, and may fail to write the file.            *)
(*                                                                         *)
(* A REALITY key pair is a number, and so is a UUID; 0 and NoText stand   *)
(* for absent fields.  Short ids and the congestion settings travel with   *)
(* the key and are left out.                                               *)
(***************************************************************************)
EXTENDS Naturals, Sequences

CONSTANTS
  Ops,        \* commands that may run at a time
  Names,      \* names for clients
  HandMade,   \* the configuration files an operator may have written
  MaxFresh    \* bound on the keys and UUIDs that are generated

VARIABLES
  file,       \* the configuration file
  op,         \* op[o]: where command o is, and what it has loaded
  fresh,      \* the last number GenerateKeypair or GenerateUUID returned
  issued,     \* the tokens printed, with the key they were made under
  server,     \* the configuration the running server has loaded
  known,      \* history: issued when the server loaded the file
  clash       \* history: a command overwrote what it had not read

Credential == [name : Names, uuid : Nat, pw : Nat]

IsServerConfig(c) ==
  /\ c = [addr |-> c.addr, listen |-> c.listen, control |-> c.control, mimic |-> c.mimic,
          key |-> c.key, pub |-> c.pub, clients |-> c.clients,
          tuic |-> c.tuic, tuicListen |-> c.tuicListen, tuicSNI |-> c.tuicSNI]
  /\ {c.listen, c.key, c.pub, c.tuicListen} \subseteq Nat /\ c.tuic \in BOOLEAN
  /\ c.clients \in Seq(Credential)

(* A file that an operator wrote has a key pair of its own, number 1, and  *)
(* the public key in it, if there is one, is that of the private key.      *)
ASSUME ProvisionAssumption ==
  /\ MaxFresh \in Nat
  /\ \A c \in HandMade : IsServerConfig(c) /\ c.key = 1 /\ c.pub \in {0, 1}

provVars == <<file, op, fresh, issued, server, known, clash>>

(* No configuration: no file, one that is empty, or a mixture of two. *)
Absent == [no |-> "file"]

Empty == [no |-> "content"]

Mixed == [no |-> "sense"]

NotRunning == [no |-> "server"]

NoText == ""

DefaultPort == 443

(* What LoadServer returns for a file it accepts: the defaults are filled. *)
Filled(c) ==
  [c EXCEPT !.listen = IF @ = 0 THEN DefaultPort ELSE @,
            !.control = IF @ = NoText THEN "127.0.0.1:8443" ELSE @,
            !.tuicListen = IF @ = 0 /\ c.tuic THEN DefaultPort ELSE @]

LoadServer == Filled(file)

Loads == file \notin {Absent, Empty, Mixed}

NoCommand == [at |-> "idle"]

ProvInit ==
  /\ file \in {Absent} \cup HandMade
  /\ op = [o \in Ops |-> NoCommand]
  /\ fresh = 1 /\ issued = {}
  /\ server = NotRunning /\ known = {} /\ clash = FALSE

-----------------------------------------------------------------------------
(* Tokens *)

NoToken == [server |-> NoText, uuid |-> 0]

(* The last client of that name, or 0. *)
Cred(cfg, name) ==
  LET named == {i \in DOMAIN cfg.clients : cfg.clients[i].name = name} IN
  IF named = {} THEN 0 ELSE CHOOSE i \in named : \A j \in named : j <= i

Blank(cfg, uuid) ==
  [server |-> cfg.addr, port |-> cfg.listen, uuid |-> uuid, control |-> cfg.control,
   pub |-> 0, sni |-> NoText, tuicPort |-> 0, tuicPw |-> 0, tuicSNI |-> NoText, protocol |-> NoText]

(* A token of the carrier asked for, or an error.  A missing public key is *)
(* derived from the private one.                                           *)
TokenFor(cfg, name, carrier) ==
  LET i == Cred(cfg, name) IN
  IF cfg.addr = NoText \/ i = 0 \/ cfg.clients[i].uuid = 0 \/ (carrier = "tuic" /\ ~cfg.tuic) THEN NoToken
  ELSE LET c == cfg.clients[i]  t == Blank(cfg, c.uuid) IN
       IF carrier = "tuic"
         THEN [t EXCEPT !.tuicPort = cfg.tuicListen, !.tuicPw = IF c.pw = 0 THEN c.uuid ELSE c.pw,
                        !.tuicSNI = cfg.tuicSNI, !.protocol = "tuic"]
         ELSE [t EXCEPT !.pub = IF cfg.pub = 0 THEN cfg.key ELSE cfg.pub, !.sni = cfg.mimic,
                        !.protocol = "reality"]

(* "legacy reality tokens decode unchanged": they name no protocol. *)
Legacy(t) == IF t.uuid # 0 /\ t.protocol = "reality" THEN {t, [t EXCEPT !.protocol = NoText]} ELSE {t}

Issues(cfg, t) == issued' = issued \cup {[tok |-> u, key |-> cfg.key] : u \in Legacy(t) \ {NoToken}}

Carrier(t) ==
  IF t.protocol = "tuic" \/ (t.protocol = NoText /\ t.tuicPw # 0 /\ t.pub = 0) THEN "tuic" ELSE "reality"

Decodes(t) == t.uuid # 0 /\ t.server # NoText /\ (IF Carrier(t) = "tuic" THEN t.tuicPw # 0 ELSE t.pub # 0)

-----------------------------------------------------------------------------
(* Commands *)

(* InitServer refuses a file that exists, unless it is forced. *)
InitServer(o, name, force) ==
  /\ op[o] = NoCommand /\ fresh < MaxFresh
  /\ force \/ file = Absent
  /\ fresh' = fresh + 1
  /\ op' = [op EXCEPT ![o] =
       [at |-> "save", read |-> file, name |-> name, force |-> force,
        cfg |-> [addr |-> "vps", listen |-> DefaultPort, control |-> "127.0.0.1:8443", mimic |-> "mimic",
                 key |-> fresh + 1, pub |-> fresh + 1, clients |-> <<[name |-> name, uuid |-> fresh + 1, pw |-> 0]>>,
                 tuic |-> FALSE, tuicListen |-> 0, tuicSNI |-> NoText]]]
  /\ UNCHANGED <<file, issued, server, known, clash>>

(* Mutation of AddClient: the new client replaces the others. *)
MutAddClient(o, name) ==
  /\ op[o] = NoCommand /\ fresh < MaxFresh
  /\ Loads /\ Cred(LoadServer, name) = 0
  /\ fresh' = fresh + 1
  /\ op' = [op EXCEPT ![o] =
       [at |-> "save", read |-> file, name |-> name, force |-> FALSE,
        cfg |-> [LoadServer EXCEPT !.clients = <<[name |-> name, uuid |-> fresh + 1, pw |-> 0]>>]]]
  /\ UNCHANGED <<file, issued, server, known, clash>>

(* AddClient loads the file and appends a client of a new name. *)
AddClient(o, name) ==
  /\ op[o] = NoCommand /\ fresh < MaxFresh
  /\ Loads /\ Cred(LoadServer, name) = 0
  /\ fresh' = fresh + 1
  /\ op' = [op EXCEPT ![o] =
       [at |-> "save", read |-> file, name |-> name, force |-> FALSE,
        cfg |-> [LoadServer EXCEPT !.clients = Append(@, [name |-> name, uuid |-> fresh + 1, pw |-> 0])]]]
  /\ UNCHANGED <<file, issued, server, known, clash>>

(* SaveServer: os.WriteFile first empties the file, then writes it. *)
Truncate(o) ==
  /\ op[o].at = "save"
  /\ file' = Empty
  /\ clash' = (clash \/ (file # op[o].read /\ ~op[o].force) \/ \E q \in Ops : op[q].at = "write")
  /\ op' = [op EXCEPT ![o].at = "write"]
  /\ UNCHANGED <<fresh, issued, server, known>>

(* Another command may have written since: the contents overlap. *)
Write(o) ==
  /\ op[o].at = "write"
  /\ file' \in IF file = Empty THEN {op[o].cfg} ELSE {op[o].cfg, Mixed}
  /\ op' = [op EXCEPT ![o].at = "token"]
  /\ UNCHANGED <<fresh, issued, server, known, clash>>

(* The token is made after the file is written: without a server address   *)
(* the client is added and no token is printed.                            *)
PrintToken(o) ==
  /\ op[o].at = "token"
  /\ Issues(op[o].cfg, TokenFor(op[o].cfg, op[o].name, "reality"))
  /\ op' = [op EXCEPT ![o] = NoCommand]
  /\ UNCHANGED <<file, fresh, server, known, clash>>

(* The write fails, or the command is killed wherever it is. *)
Stops(o) ==
  /\ op[o] # NoCommand
  /\ op' = [op EXCEPT ![o] = NoCommand]
  /\ UNCHANGED <<file, fresh, issued, server, known, clash>>

GenToken(name, carrier) ==
  /\ Loads
  /\ Issues(LoadServer, TokenFor(LoadServer, name, carrier))
  /\ UNCHANGED <<file, op, fresh, server, known, clash>>

(* The server is started, or started again, on the file as it is. *)
StartServer ==
  /\ Loads
  /\ server' = LoadServer /\ known' = issued
  /\ UNCHANGED <<file, op, fresh, issued, clash>>

ProvNext ==
  \/ \E o \in Ops, name \in Names : AddClient(o, name) \/ \E force \in BOOLEAN : InitServer(o, name, force)
  \/ \E o \in Ops : Truncate(o) \/ Write(o) \/ PrintToken(o) \/ Stops(o)
  \/ \E name \in Names, carrier \in {"reality", "tuic"} : GenToken(name, carrier)
  \/ StartServer

ProvSpec == ProvInit /\ [][ProvNext]_provVars

-----------------------------------------------------------------------------
(* What the two sides render *)

OrDefault(v, none, d) == IF v = none THEN d ELSE v

(* What RunServer asks for: the users of the REALITY inbound, which is     *)
(* reached through the router's public port, and TUIC if it is enabled.    *)
ServerParams(cfg) ==
  [port |-> cfg.listen, mimic |-> cfg.mimic, key |-> cfg.key, tuic |-> cfg.tuic,
   tuicPort |-> cfg.tuicListen, tuicSNI |-> cfg.tuicSNI,
   users |-> {<<cfg.clients[k].uuid, 0>> : k \in DOMAIN cfg.clients},
   tuicUsers |-> {<<cfg.clients[k].uuid, OrDefault(cfg.clients[k].pw, 0, cfg.clients[k].uuid)>> :
                    k \in DOMAIN cfg.clients}]

ServerConfigJSON(p) ==
  {[type |-> "vless", port |-> p.port, sni |-> p.mimic, key |-> p.key, users |-> p.users]}
  \cup IF ~p.tuic THEN {}
       ELSE {[type |-> "tuic", port |-> p.tuicPort, sni |-> p.tuicSNI, key |-> 0, users |-> p.tuicUsers]}

Params(t) ==
  [server |-> t.server, port |-> t.port, uuid |-> t.uuid, sni |-> t.sni, carrier |-> Carrier(t),
   pub |-> 0, tuicPort |-> 0, tuicPw |-> 0, tuicSNI |-> NoText]

(* "fill only that carrier's credential set", on the desktop. *)
ClientParams(t) ==
  IF Carrier(t) = "tuic"
    THEN [Params(t) EXCEPT !.tuicPort = t.tuicPort, !.tuicPw = t.tuicPw, !.tuicSNI = t.tuicSNI]
    ELSE [Params(t) EXCEPT !.pub = t.pub]

(* The outbound and the tag that traffic is routed to. *)
ClientConfigJSON(p) ==
  IF p.carrier = "tuic"
    THEN [type |-> "tuic", tag |-> "tuic-out", final |-> "tuic-out", server |-> p.server,
          port |-> OrDefault(p.tuicPort, 0, p.port), sni |-> OrDefault(p.tuicSNI, NoText, p.sni),
          key |-> 0, user |-> <<p.uuid, p.tuicPw>>]
    ELSE [type |-> "vless", tag |-> "vless-out", final |-> "vless-out", server |-> p.server,
          port |-> p.port, sni |-> p.sni, key |-> p.pub, user |-> <<p.uuid, 0>>]

(* On Android. *)
BuildConfig(t) ==
  CASE Carrier(t) = "tuic" ->
         [Params(t) EXCEPT !.tuicPort = t.tuicPort, !.tuicPw = t.tuicPw, !.tuicSNI = t.tuicSNI]
    [] OTHER -> [Params(t) EXCEPT !.pub = t.pub]

(* TunClientConfigJSON refuses parameters without a credential. *)
Renders(p) == p.server # NoText /\ p.uuid # 0 /\ (IF p.carrier = "tuic" THEN p.tuicPw # 0 ELSE p.pub # 0)

(* Traffic and the DNS queries of the apps are both routed to the tag. *)
TunClientConfigJSON(p) ==
  LET outTag == IF p.carrier = "tuic" THEN "tuic-out" ELSE "vless-out" IN
  CASE p.carrier = "tuic" ->
         [tag |-> outTag, final |-> outTag, detour |-> outTag, server |-> p.server, type |-> "tuic",
          port |-> OrDefault(p.tuicPort, 0, p.port), sni |-> OrDefault(p.tuicSNI, NoText, p.sni),
          key |-> 0, user |-> <<p.uuid, p.tuicPw>>]
    [] OTHER ->
         [tag |-> outTag, final |-> outTag, detour |-> outTag, server |-> p.server, type |-> "vless",
          port |-> p.port, sni |-> p.sni, key |-> p.pub, user |-> <<p.uuid, 0>>]

Accepts(ib, ob) ==
  /\ ob.final = ob.tag /\ ib.type = ob.type /\ ib.port = ob.port /\ ib.sni = ob.sni /\ ib.key = ob.key
  /\ ob.user \in ib.users

-----------------------------------------------------------------------------
(* Properties *)

(* A token, of either carrier or of the older kind, that was printed       *)
(* before the server last started lets its client in, on the desktop and   *)
(* on Android: the client decodes it, routes its traffic and its DNS       *)
(* queries to an outbound that dials an inbound the server has with        *)
(* credentials it accepts, and names its control address.  The exceptions  *)
(* are a configuration made anew, and commands that ran at the same time.  *)
TokenWorks ==
  server # NotRunning /\ ~clash =>
    \A i \in known : i.key = server.key =>
      /\ Decodes(i.tok) /\ i.tok.server = server.addr /\ i.tok.control = server.control
      /\ Renders(BuildConfig(i.tok))
      /\ LET tun == TunClientConfigJSON(BuildConfig(i.tok)) IN
           /\ tun.detour = tun.tag
           /\ \E ib \in ServerConfigJSON(ServerParams(server)) :
                Accepts(ib, ClientConfigJSON(ClientParams(i.tok))) /\ Accepts(ib, tun)
      /\ \E k \in DOMAIN server.clients : server.clients[k].uuid = i.tok.uuid
=============================================================================
