------------------------------- MODULE Banner -------------------------------
(***************************************************************************)
(* The fail2ban-style throttle (internal/ban/ban.go) as the publish        *)
(* handler uses it (internal/publish/handler.go): a request asks Blocked,  *)
(* is proxied, and reports an authentication failure with Fail.  The       *)
(* banner's lock is held inside each call and not between them, so         *)
(* requests that passed Blocked may still fail after their source was      *)
(* banned.  Time is in ticks.                                              *)
(***************************************************************************)
EXTENDS Integers, Sequences, FiniteSets

CONSTANTS
  IPs,              \* remote addresses, unmapped
  Nets, NoNet,      \* /24 networks, and the answer for an IPv6 address
  Subnet,           \* Subnet[ip]: subnet(ip)
  Exempt,           \* the addresses the Exempt prefixes contain
  Methods,          \* cfg.Methods; empty means any
  Statuses,         \* cfg.Statuses
  CountedPaths,     \* the request paths that have cfg.PathPrefix
  Window, BanDuration, Threshold, SubnetThreshold,
  Requests,         \* method, path and response status of what clients send
  MaxTime,          \* bound on the clock
  MaxInflight       \* bound on the concurrent requests of an address

ASSUME ConfigAssumption ==
  /\ Window \in Nat /\ BanDuration \in Nat
  /\ Threshold \in Nat \ {0} /\ SubnetThreshold \in Nat
  /\ Subnet \in [IPs -> Nets \cup {NoNet}] /\ NoNet \notin Nets
  /\ MaxTime \in Nat /\ MaxInflight \in Nat

VARIABLES
  now,
  fails,      \* fails[ip]: times of its recent failures, oldest first
  bannedIP,   \* bannedIP[ip]: banned until, Never if it has no entry
  bannedNet,
  inflight,   \* inflight[ip]: requests past Blocked whose response is to come
  log         \* history: all failures of an address since its last ban

bannerVars == <<now, fails, bannedIP, bannedNet, inflight, log>>

Never == -1

BannerInit ==
  /\ now = 0
  /\ fails = [ip \in IPs |-> <<>>]
  /\ bannedIP = [ip \in IPs |-> Never]
  /\ bannedNet = [n \in Nets |-> Never]
  /\ inflight = [ip \in IPs |-> 0]
  /\ log = [ip \in IPs |-> <<>>]

Tick ==
  /\ now < MaxTime
  /\ now' = now + 1
  /\ UNCHANGED <<fails, bannedIP, bannedNet, inflight, log>>

-----------------------------------------------------------------------------
Counts(r) ==
  /\ r.status \in Statuses
  /\ Methods # {} => r.method \in Methods
  /\ r.path \in CountedPaths

BlockedIP(ip) == bannedIP[ip] > now

BlockedNet(ip) == Subnet[ip] # NoNet /\ bannedNet[Subnet[ip]] > now

(* Blocked: the entries it finds expired on its way are deleted. *)
Blocked(ip, blocked) ==
  IF ip \in Exempt
    THEN ~blocked /\ UNCHANGED <<bannedIP, bannedNet>>
    ELSE /\ blocked = (BlockedIP(ip) \/ BlockedNet(ip))
         /\ bannedIP' = IF BlockedIP(ip) THEN bannedIP ELSE [bannedIP EXCEPT ![ip] = Never]
         /\ bannedNet' = IF BlockedIP(ip) \/ Subnet[ip] = NoNet \/ BlockedNet(ip)
                           THEN bannedNet ELSE [bannedNet EXCEPT ![Subnet[ip]] = Never]

(* A request is refused, or goes on to the upstream. *)
Arrive(ip) ==
  /\ inflight[ip] < MaxInflight
  /\ \E blocked \in BOOLEAN :
       /\ Blocked(ip, blocked)
       /\ inflight' = IF blocked THEN inflight ELSE [inflight EXCEPT ![ip] = @ + 1]
  /\ UNCHANGED <<now, fails, log>>

-----------------------------------------------------------------------------
(* Mutation of Live: a ban ages out with the window of its failures. *)
MutLive(until) == IF until - BanDuration > now - Window THEN until ELSE Never

(* sweepLocked drops expired bans and windows without a recent failure. *)
Live(until) == IF until > now THEN until ELSE Never

(* Mutation of Recent: the window is one tick short. *)
MutRecent(t) == t > now - Window + 1

Recent(t) == t > now - Window

SweptFails ==
  [ip \in IPs |-> IF fails[ip] # <<>> /\ Recent(fails[ip][Len(fails[ip])]) THEN fails[ip] ELSE <<>>]

(* Mutation of SweptNets: networks are not swept. *)
MutSweptNets == bannedNet

SweptNets == [n \in Nets |-> Live(bannedNet[n])]

SweptIPs == [ip \in IPs |-> Live(bannedIP[ip])]

(* The suffix that starts at the first failure inside the window. *)
pruneBefore(ts) ==
  SubSeq(ts, 1 + Cardinality({i \in 1..Len(ts) : \A j \in 1..i : ~Recent(ts[j])}), Len(ts))

Crossed(times) == Len(times) >= Threshold

(* The distinct addresses of a network that are banned now. *)
BannedIn(n, banned) == {ip \in IPs : banned[ip] > now /\ Subnet[ip] = n}

Escalates(ip, banned) ==
  /\ SubnetThreshold > 0 /\ Subnet[ip] # NoNet
  /\ SweptNets[Subnet[ip]] = Never
  /\ Cardinality(BannedIn(Subnet[ip], banned)) >= SubnetThreshold

(* Threshold crossed: ban the address, reset its window, and ban its /24   *)
(* once enough of its addresses are banned.                                *)
Ban(ip) ==
  LET banned == [SweptIPs EXCEPT ![ip] = now + BanDuration] IN
  /\ fails' = [SweptFails EXCEPT ![ip] = <<>>]
  /\ bannedIP' = banned
  /\ bannedNet' = IF Escalates(ip, banned)
                    THEN [SweptNets EXCEPT ![Subnet[ip]] = now + BanDuration] ELSE SweptNets
  /\ log' = [log EXCEPT ![ip] = <<>>]

Fail(ip) ==
  LET times == Append(pruneBefore(SweptFails[ip]), now) IN
  IF ip \in Exempt
    THEN UNCHANGED <<fails, bannedIP, bannedNet, log>>
    ELSE IF Crossed(times)
    THEN Ban(ip)
    ELSE /\ fails' = [SweptFails EXCEPT ![ip] = times]
         /\ bannedIP' = SweptIPs /\ bannedNet' = SweptNets
         /\ log' = [log EXCEPT ![ip] = Append(@, now)]

(* The response is in.  It may not count; a request the whitelist refuses, *)
(* or a WebSocket, never counts.                                           *)
Respond(ip, r) ==
  /\ inflight[ip] > 0
  /\ inflight' = [inflight EXCEPT ![ip] = @ - 1]
  /\ \/ ~Counts(r) /\ UNCHANGED <<fails, bannedIP, bannedNet, log>>
     \/ Counts(r) /\ Fail(ip)
  /\ UNCHANGED now

RequestStep == \E ip \in IPs : Arrive(ip) \/ \E r \in Requests : Respond(ip, r)

BannerNext == Tick \/ RequestStep

BannerSpec == BannerInit /\ [][BannerNext]_bannerVars

-----------------------------------------------------------------------------
(* Properties *)

(* Types and bounds: a window holds fewer than Threshold failures, and no *)
(* ban outlasts BanDuration from now.                                      *)
BannerTypeOK ==
  /\ now \in Nat
  /\ fails \in [IPs -> Seq(Nat)] /\ log \in [IPs -> Seq(Nat)]
  /\ \A ip \in IPs : Len(fails[ip]) < Threshold
  /\ bannedIP \in [IPs -> Never..(now + BanDuration)]
  /\ bannedNet \in [Nets -> Never..(now + BanDuration)]
  /\ inflight \in [IPs -> 0..MaxInflight]

(* Failures of an address within one window that ends at time t. *)
InWindow(ts, t) == Cardinality({i \in DOMAIN ts : ts[i] > t - Window /\ ts[i] <= t})

NoneMissed == \A ip \in IPs : \A t \in 0..now : InWindow(log[ip], t) < Threshold

Justified ==
  \A ip \in IPs : bannedIP'[ip] > now /\ bannedIP'[ip] # bannedIP[ip] =>
    /\ ip \notin Exempt
    /\ InWindow(Append(log[ip], now), now) >= Threshold \/ Threshold = 1

(* "failures per IP within Window -> ban the IP", no more and no less: no  *)
(* address has Threshold failures in any window since its last ban without *)
(* having been banned, whatever sweeps and prunes happened between them;   *)
(* and a ban is set only when the last Threshold failures, this one        *)
(* included, lie in one window, none of them led to an earlier ban, and    *)
(* the address is not exempt.                                              *)
BansExact == [][Justified /\ NoneMissed']_bannerVars

LiveKept ==
  /\ \A ip \in IPs : bannedIP[ip] > now => bannedIP'[ip] >= bannedIP[ip]
  /\ \A n \in Nets : bannedNet[n] > now => bannedNet'[n] >= bannedNet[n]

(* A ban in force is neither lifted nor shortened: not by the deletions of *)
(* Blocked, the sweep of another address's failure, or a second ban by     *)
(* requests that were in flight when the first was set.                    *)
LiveBansKept == [][LiveKept]_bannerVars

(* The step bans an address of the network, or leaves enough of them banned. *)
BanSet(n) ==
  \E ip \in IPs : bannedIP'[ip] > now /\ bannedIP'[ip] # bannedIP[ip] /\ Subnet[ip] = n

Full(n) ==
  Cardinality({ip \in IPs : bannedIP'[ip] > now /\ Subnet[ip] = n}) >= SubnetThreshold

Escalated ==
  \A n \in Nets : SubnetThreshold > 0 =>
    /\ BanSet(n) /\ Full(n) => bannedNet'[n] > now
    /\ bannedNet'[n] > now /\ bannedNet'[n] # bannedNet[n] => Full(n)

(* "Escalate to the /24 once enough distinct IPs in it are banned": when a *)
(* ban is set and SubnetThreshold addresses of the /24 are banned, the /24 *)
(* is banned as well, also if an earlier ban of it has just run out; and a *)
(* /24 is banned only then.                                                *)
Escalation == [][Escalated]_bannerVars
=============================================================================
