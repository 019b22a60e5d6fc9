----------------------------- MODULE EdgeProofs -----------------------------
(* Proofs about what lets clients in or keeps them out: the throttle on     *)
(* failed logins (Banner) and the tokens that admit clients (Provision).    *)
EXTENDS Banner, Provision, FiniteSetTheorems, TLAPS

(* Zenon is asked for every step that does not name another prover. *)
USE Zenon

(***************************************************************************)
(* Theorems about Banner for every set of addresses, every configuration   *)
(* and every number of concurrent requests.  BannerTypeOK is inductive: it *)
(* carries the bound on ban ends that LiveBansKept needs when requests     *)
(* that were in flight ban an address for the second time.  BansExact      *)
(* needs more: what the windows have kept of the failures (BanInv).        *)
(***************************************************************************)

(* The sweep keeps the types and the ends of the bans that are in force. *)
LEMMA Sweep ==
  ASSUME BannerTypeOK
  PROVE  /\ SweptFails \in [IPs -> Seq(Nat)]
         /\ \A ip \in IPs : Len(SweptFails[ip]) < Threshold
         /\ SweptIPs \in [IPs -> Never..(now + BanDuration)]
         /\ SweptNets \in [Nets -> Never..(now + BanDuration)]
         /\ \A ip \in IPs : bannedIP[ip] > now => SweptIPs[ip] = bannedIP[ip]
         /\ \A n \in Nets : bannedNet[n] > now => SweptNets[n] = bannedNet[n]
<1>1. SweptFails \in [IPs -> Seq(Nat)]
  BY SMTT(30) DEF BannerTypeOK, SweptFails
<1>2. \A ip \in IPs : Len(SweptFails[ip]) < Threshold
  BY ConfigAssumption, SMTT(30) DEF BannerTypeOK, SweptFails
<1>3. SweptIPs \in [IPs -> Never..(now + BanDuration)]
  BY ConfigAssumption, SMTT(30) DEF BannerTypeOK, SweptIPs, Live, Never
<1>4. SweptNets \in [Nets -> Never..(now + BanDuration)]
  BY ConfigAssumption, SMTT(30) DEF BannerTypeOK, SweptNets, Live, Never
<1>5. \A ip \in IPs : bannedIP[ip] > now => SweptIPs[ip] = bannedIP[ip]
  BY DEF SweptIPs, Live
<1>6. \A n \in Nets : bannedNet[n] > now => SweptNets[n] = bannedNet[n]
  BY DEF SweptNets, Live
<1> QED BY <1>1, <1>2, <1>3, <1>4, <1>5, <1>6

(* pruneBefore returns a sequence of times. *)
LEMMA PruneType ==
  ASSUME NEW ts \in Seq(Nat)
  PROVE  pruneBefore(ts) \in Seq(Nat)
<1> DEFINE old == {i \in 1..Len(ts) : \A j \in 1..i : ~Recent(ts[j])}
<1>1. IsFiniteSet(1..Len(ts))
  BY FS_Interval, SMTT(30)
<1>2. old \subseteq 1..Len(ts)
  OBVIOUS
<1>3. IsFiniteSet(old)
  BY <1>1, <1>2, FS_Subset
<1>4. Cardinality(old) \in Nat
  BY <1>3, FS_CardinalityType
<1> HIDE DEF old
<1>5. SubSeq(ts, 1 + Cardinality(old), Len(ts)) \in Seq(Nat)
  BY <1>4, SMTT(30)
<1> QED BY <1>5 DEF pruneBefore, old

(* Init establishes the types. *)
LEMMA InitType == BannerInit => BannerTypeOK
  BY ConfigAssumption, SMTT(30) DEF BannerInit, BannerTypeOK, Never

(* The clock only loosens the bounds. *)
LEMMA TickType == BannerTypeOK /\ Tick => BannerTypeOK'
  BY ConfigAssumption, SMTT(30) DEF BannerTypeOK, Tick, Never

(* Blocked deletes entries and adds none. *)
LEMMA ArriveType ==
  ASSUME BannerTypeOK, NEW ip \in IPs, Arrive(ip)
  PROVE  BannerTypeOK'
<1>1. now' = now /\ fails' = fails /\ log' = log
  BY DEF Arrive
<1>2. inflight' \in [IPs -> 0..MaxInflight]
  BY ConfigAssumption, SMTT(30) DEF Arrive, BannerTypeOK
<1>3. bannedIP' \in [IPs -> Never..(now + BanDuration)]
  BY ConfigAssumption, SMTT(30) DEF Arrive, Blocked, BannerTypeOK, Never
<1>4. bannedNet' \in [Nets -> Never..(now + BanDuration)]
  <2>1. bannedNet' = bannedNet \/ bannedNet' = [bannedNet EXCEPT ![Subnet[ip]] = Never]
    BY DEF Arrive, Blocked
  <2>2. Never \in Never..(now + BanDuration)
    BY ConfigAssumption, SMTT(30) DEF BannerTypeOK, Never
  <2>3. bannedNet \in [Nets -> Never..(now + BanDuration)]
    BY DEF BannerTypeOK
  <2> HIDE DEF Never
  <2> QED BY <2>1, <2>2, <2>3
<1> QED BY <1>1, <1>2, <1>3, <1>4 DEF BannerTypeOK

(* A counted failure either leaves a window below the threshold or empties *)
(* it and bans the address, and its network, for BanDuration from now.     *)
LEMMA FailType ==
  ASSUME BannerTypeOK, NEW ip \in IPs, Fail(ip)
  PROVE  /\ fails' \in [IPs -> Seq(Nat)] /\ log' \in [IPs -> Seq(Nat)]
         /\ \A a \in IPs : Len(fails'[a]) < Threshold
         /\ bannedIP' \in [IPs -> Never..(now + BanDuration)]
         /\ bannedNet' \in [Nets -> Never..(now + BanDuration)]
<1> DEFINE times == Append(pruneBefore(SweptFails[ip]), now)
<1>1. times \in Seq(Nat)
  <2>1. SweptFails[ip] \in Seq(Nat)
    BY Sweep
  <2>2. pruneBefore(SweptFails[ip]) \in Seq(Nat)
    BY <2>1, PruneType
  <2> QED BY <2>2, SMTT(30) DEF BannerTypeOK
<1>2. now \in Nat /\ Threshold \in Nat \ {0} /\ BanDuration \in Nat
  BY ConfigAssumption DEF BannerTypeOK
<1>3. log' \in [IPs -> Seq(Nat)]
  <2>1. \/ log' = log \/ log' = [log EXCEPT ![ip] = <<>>]
        \/ log' = [log EXCEPT ![ip] = Append(@, now)]
    BY DEF Fail, Ban
  <2>2. log \in [IPs -> Seq(Nat)]
    BY DEF BannerTypeOK
  <2>3. Append(log[ip], now) \in Seq(Nat) /\ <<>> \in Seq(Nat)
    BY <2>2, <1>2, SMTT(30)
  <2> QED BY <2>1, <2>2, <2>3
<1> HIDE DEF times
<1>4. CASE ip \in Exempt
  BY <1>3, <1>4 DEF Fail, BannerTypeOK
<1>5. CASE ip \notin Exempt /\ Crossed(times)
  <2>1. Ban(ip)
    BY <1>5 DEF Fail, times
  <2>2. fails' = [SweptFails EXCEPT ![ip] = <<>>]
    BY <2>1 DEF Ban
  <2>3. fails' \in [IPs -> Seq(Nat)]
    BY <2>2, Sweep, SMTT(30)
  <2>4. \A a \in IPs : Len(fails'[a]) < Threshold
    BY <2>2, <1>2, Sweep, SMTT(30)
  <2>5. bannedIP' \in [IPs -> Never..(now + BanDuration)]
    BY <2>1, <1>2, Sweep, SMTT(30) DEF Ban, Never
  <2>6. bannedNet' \in [Nets -> Never..(now + BanDuration)]
    <3>1. \/ bannedNet' = SweptNets
          \/ bannedNet' = [SweptNets EXCEPT ![Subnet[ip]] = now + BanDuration]
      BY <2>1 DEF Ban
    <3>2. now + BanDuration \in Never..(now + BanDuration)
      BY <1>2, SMTT(30) DEF Never
    <3> QED BY <3>1, <3>2, Sweep
  <2> QED BY <2>3, <2>4, <2>5, <2>6, <1>3
<1>6. CASE ip \notin Exempt /\ ~Crossed(times)
  <2>1. /\ fails' = [SweptFails EXCEPT ![ip] = times]
        /\ bannedIP' = SweptIPs /\ bannedNet' = SweptNets
    BY <1>6 DEF Fail, times
  <2>2. Len(times) < Threshold
    BY <1>6, <1>1, <1>2, SMTT(30) DEF Crossed
  <2>3. fails' \in [IPs -> Seq(Nat)]
    BY <2>1, <1>1, Sweep
  <2>4. \A a \in IPs : Len(fails'[a]) < Threshold
    BY <2>1, <2>2, Sweep
  <2> QED BY <2>1, <2>3, <2>4, <1>3, Sweep
<1> QED BY <1>4, <1>5, <1>6

(* BannerTypeOK is inductive. *)
LEMMA RespondType ==
  ASSUME BannerTypeOK, NEW ip \in IPs, NEW r \in Requests, Respond(ip, r)
  PROVE  BannerTypeOK'
<1>1. now' = now /\ inflight' \in [IPs -> 0..MaxInflight]
  BY ConfigAssumption, SMTT(30) DEF Respond, BannerTypeOK
<1>2. CASE Counts(r) /\ Fail(ip)
  BY <1>1, <1>2, FailType DEF BannerTypeOK
<1>3. CASE UNCHANGED <<fails, bannedIP, bannedNet, log>>
  BY <1>1, <1>3 DEF BannerTypeOK
<1> QED BY <1>2, <1>3 DEF Respond

(* Types and bounds hold in every reachable state: no window ever reaches  *)
(* Threshold and no ban outlasts BanDuration.                              *)
THEOREM BannerTypeCorrect == BannerSpec => []BannerTypeOK
<1>1. BannerTypeOK /\ [BannerNext]_bannerVars => BannerTypeOK'
  <2> SUFFICES ASSUME BannerTypeOK, [BannerNext]_bannerVars
               PROVE  BannerTypeOK'
    OBVIOUS
  <2>1. CASE Tick
    BY <2>1, TickType
  <2>2. CASE RequestStep
    BY <2>2, ArriveType, RespondType DEF RequestStep
  <2>3. CASE UNCHANGED bannerVars
    BY <2>3 DEF bannerVars, BannerTypeOK
  <2> QED BY <2>1, <2>2, <2>3 DEF BannerNext
<1> QED BY <1>1, InitType, PTL DEF BannerSpec

-----------------------------------------------------------------------------
(* What the deletions of Blocked leave alone. *)
LEMMA ArriveKeeps ==
  ASSUME BannerTypeOK, NEW ip \in IPs, Arrive(ip)
  PROVE  /\ \A a \in IPs : bannedIP'[a] = bannedIP[a] \/ (~(bannedIP[a] > now) /\ bannedIP'[a] = Never)
         /\ \A n \in Nets : bannedNet'[n] = bannedNet[n] \/ (~(bannedNet[n] > now) /\ bannedNet'[n] = Never)
<1>1. \/ bannedIP' = bannedIP
      \/ ~(bannedIP[ip] > now) /\ bannedIP' = [bannedIP EXCEPT ![ip] = Never]
  BY DEF Arrive, Blocked, BlockedIP
<1>2. \/ bannedNet' = bannedNet
      \/ /\ ~(bannedNet[Subnet[ip]] > now)
         /\ bannedNet' = [bannedNet EXCEPT ![Subnet[ip]] = Never]
  BY DEF Arrive, Blocked, BlockedNet
<1>3. \A a \in IPs : bannedIP'[a] = bannedIP[a] \/ (~(bannedIP[a] > now) /\ bannedIP'[a] = Never)
  BY <1>1 DEF BannerTypeOK
<1>4. \A n \in Nets : bannedNet'[n] = bannedNet[n] \/ (~(bannedNet[n] > now) /\ bannedNet'[n] = Never)
  BY <1>2 DEF BannerTypeOK
<1> QED BY <1>3, <1>4

(* What Fail leaves alone: every entry but those of the failing address    *)
(* and its network is kept or swept, and theirs are only ever replaced by  *)
(* BanDuration from now, the network's only if it has none in force.       *)
LEMMA FailKeeps ==
  ASSUME BannerTypeOK, NEW ip \in IPs, Fail(ip), ip \notin Exempt
  PROVE  \/ bannedIP' = SweptIPs /\ bannedNet' = SweptNets
         \/ /\ bannedIP' = [SweptIPs EXCEPT ![ip] = now + BanDuration]
            /\ bannedNet' = IF Escalates(ip, bannedIP')
                              THEN [SweptNets EXCEPT ![Subnet[ip]] = now + BanDuration]
                              ELSE SweptNets
  BY DEF Fail, Ban

(* A failure keeps the bans in force. *)
LEMMA FailLive ==
  ASSUME BannerTypeOK, NEW ip \in IPs, Fail(ip), ip \notin Exempt
  PROVE  LiveKept
<1>1. now \in Nat /\ BanDuration \in Nat
  BY ConfigAssumption DEF BannerTypeOK
<1>2. ASSUME NEW a \in IPs, bannedIP[a] > now
      PROVE  bannedIP'[a] >= bannedIP[a]
  <2>1. SweptIPs[a] = bannedIP[a] /\ SweptIPs \in [IPs -> Never..(now + BanDuration)]
    BY <1>2, Sweep
  <2>2. bannedIP[a] \in Int /\ bannedIP[a] <= now + BanDuration
    BY <2>1, <1>1, SMTT(30) DEF Never
  <2>3. bannedIP'[a] = bannedIP[a] \/ bannedIP'[a] = now + BanDuration
    BY <2>1, FailKeeps
  <2> QED BY <2>2, <2>3, <1>1, SMTT(30)
<1>3. ASSUME NEW n \in Nets, bannedNet[n] > now
      PROVE  bannedNet'[n] >= bannedNet[n]
  <2>1. SweptNets[n] = bannedNet[n] /\ SweptNets \in [Nets -> Never..(now + BanDuration)]
    BY <1>3, Sweep
  <2>2. bannedNet[n] \in Int /\ SweptNets[n] # Never
    BY <2>1, <1>1, <1>3, SMTT(30) DEF Never
  <2>3. Escalates(ip, bannedIP') => Subnet[ip] # n
    BY <2>2 DEF Escalates
  <2>4. bannedNet'[n] = bannedNet[n]
    BY <2>1, <2>3, FailKeeps
  <2> QED BY <2>2, <2>4, SMTT(30)
<1> QED BY <1>2, <1>3 DEF LiveKept

(* No step lifts or shortens a ban that is in force. *)
THEOREM LiveBansKeptHolds == BannerSpec => LiveBansKept
<1>1. BannerTypeOK /\ [BannerNext]_bannerVars => [LiveKept]_bannerVars
  <2> SUFFICES ASSUME BannerTypeOK, BannerNext
               PROVE  LiveKept
    OBVIOUS
  <2>1. /\ \A a \in IPs : bannedIP[a] \in Int
        /\ \A n \in Nets : bannedNet[n] \in Int
    BY ConfigAssumption, SMTT(30) DEF BannerTypeOK, Never
  <2>2. ASSUME bannedIP' = bannedIP, bannedNet' = bannedNet
        PROVE  LiveKept
    BY <2>1, <2>2, SMTT(30) DEF LiveKept
  <2>3. CASE Tick
    BY <2>2, <2>3 DEF Tick
  <2>4. ASSUME NEW ip \in IPs, Arrive(ip)
        PROVE  LiveKept
    BY <2>1, <2>4, ArriveKeeps, SMTT(30) DEF LiveKept
  <2>5. ASSUME NEW ip \in IPs, NEW r \in Requests, Respond(ip, r)
        PROVE  LiveKept
    <3>1. CASE Fail(ip) /\ ip \notin Exempt
      BY <3>1, FailLive
    <3>2. CASE ~(Fail(ip) /\ ip \notin Exempt)
      BY <2>2, <2>5, <3>2 DEF Respond, Fail
    <3> QED BY <3>1, <3>2
  <2> QED BY <2>3, <2>4, <2>5 DEF BannerNext, RequestStep
<1> QED BY <1>1, BannerTypeCorrect, PTL DEF BannerSpec, LiveBansKept

-----------------------------------------------------------------------------
(* A failure bans the network exactly when its last ban fills it. *)
LEMMA FailEscalates ==
  ASSUME BannerTypeOK, NEW ip \in IPs, Fail(ip), ip \notin Exempt,
         NEW n \in Nets, SubnetThreshold > 0
  PROVE  /\ BanSet(n) /\ Full(n) => bannedNet'[n] > now
         /\ bannedNet'[n] > now /\ bannedNet'[n] # bannedNet[n] => Full(n)
<1>1. now \in Nat /\ BanDuration \in Nat /\ NoNet \notin Nets
  BY ConfigAssumption DEF BannerTypeOK
<1>2. \A a \in IPs : SweptIPs[a] = bannedIP[a] \/ ~(SweptIPs[a] > now)
  BY <1>1, SMTT(30) DEF SweptIPs, Live, Never
<1>3. SweptNets[n] = Never \/ SweptNets[n] > now
  BY DEF SweptNets, Live
<1>4. SweptNets[n] > now => SweptNets[n] = bannedNet[n]
  BY <1>1, SMTT(30) DEF SweptNets, Live, Never
<1>5. SweptIPs \in [IPs -> Never..(now + BanDuration)] /\ SweptNets \in [Nets -> Never..(now + BanDuration)]
  BY Sweep
<1>6. Full(n) <=> Cardinality(BannedIn(n, bannedIP')) >= SubnetThreshold
  BY DEF Full, BannedIn
<1>7. CASE bannedIP' = SweptIPs /\ bannedNet' = SweptNets
  <2>1. ~BanSet(n)
    BY <1>2, <1>7 DEF BanSet
  <2>2. ~(bannedNet'[n] > now /\ bannedNet'[n] # bannedNet[n])
    BY <1>4, <1>7
  <2> QED BY <2>1, <2>2
<1>8. CASE /\ bannedIP' = [SweptIPs EXCEPT ![ip] = now + BanDuration]
           /\ bannedNet' = IF Escalates(ip, bannedIP')
                             THEN [SweptNets EXCEPT ![Subnet[ip]] = now + BanDuration]
                             ELSE SweptNets
  <2>1. \A a \in IPs : a # ip => bannedIP'[a] = SweptIPs[a]
    BY <1>5, <1>8
  <2>2. bannedIP'[ip] = now + BanDuration
    BY <1>5, <1>8
  <2>3. BanSet(n) => Subnet[ip] = n /\ now + BanDuration > now
    BY <1>2, <2>1, <2>2 DEF BanSet
  <2>4. ASSUME BanSet(n), Full(n)
        PROVE  bannedNet'[n] > now
    <3>1. CASE SweptNets[n] > now
      <4>1. ~Escalates(ip, bannedIP')
        BY <2>3, <2>4, <3>1, <1>1, SMTT(30) DEF Escalates, Never
      <4> QED BY <4>1, <3>1, <1>8
    <3>2. CASE SweptNets[n] = Never
      <4>1. Escalates(ip, bannedIP')
        BY <2>3, <2>4, <3>2, <1>1, <1>6 DEF Escalates
      <4>2. bannedNet'[n] = now + BanDuration
        BY <4>1, <1>5, <1>8, <2>3, <2>4
      <4> QED BY <4>2, <2>3, <2>4
    <3> QED BY <3>1, <3>2, <1>3
  <2>5. ASSUME bannedNet'[n] > now, bannedNet'[n] # bannedNet[n]
        PROVE  Full(n)
    <3>1. bannedNet'[n] # SweptNets[n]
      BY <1>4, <2>5
    <3>2. Escalates(ip, bannedIP') /\ Subnet[ip] = n
      BY <3>1, <1>5, <1>8
    <3> QED BY <3>2, <1>6 DEF Escalates
  <2> QED BY <2>4, <2>5
<1> QED BY <1>7, <1>8, FailKeeps

(* Every ban that fills a /24 bans it, and only such a ban does. *)
THEOREM EscalationHolds == BannerSpec => Escalation
<1>1. BannerTypeOK /\ [BannerNext]_bannerVars => [Escalated]_bannerVars
  <2> SUFFICES ASSUME BannerTypeOK, BannerNext, NEW n \in Nets, SubnetThreshold > 0
               PROVE  /\ BanSet(n) /\ Full(n) => bannedNet'[n] > now
                      /\ bannedNet'[n] > now /\ bannedNet'[n] # bannedNet[n] => Full(n)
    BY DEF Escalated
  <2>1. now \in Nat
    BY DEF BannerTypeOK
  <2>2. CASE bannedIP' = bannedIP /\ bannedNet' = bannedNet
    BY <2>2 DEF BanSet
  <2>3. CASE Tick
    BY <2>2, <2>3 DEF Tick
  <2>4. ASSUME NEW ip \in IPs, Arrive(ip)
        PROVE  ~BanSet(n) /\ ~(bannedNet'[n] > now /\ bannedNet'[n] # bannedNet[n])
    BY <2>1, <2>4, ArriveKeeps, SMTT(30) DEF BanSet, Never
  <2>5. ASSUME NEW ip \in IPs, NEW r \in Requests, Respond(ip, r), ~(Fail(ip) /\ ip \notin Exempt)
        PROVE  bannedIP' = bannedIP /\ bannedNet' = bannedNet
    BY <2>5 DEF Respond, Fail
  <2> QED BY <2>2, <2>3, <2>4, <2>5, FailEscalates DEF BannerNext, RequestStep
<1> QED BY <1>1, BannerTypeCorrect, PTL DEF BannerSpec, Escalation

-----------------------------------------------------------------------------
(* What the windows keep of the log.  Times are logged in order, and the   *)
(* window of an address is the end of its log: what is missing in front    *)
(* lies before the window of any later time.                               *)
Ordered(ts, t) ==
  \A i \in 1..Len(ts) : ts[i] <= t /\ \A j \in 1..Len(ts) : i <= j => ts[i] <= ts[j]

Kept(ts, fs) ==
  /\ Len(fs) <= Len(ts)
  /\ \A i \in 1..Len(fs) : fs[i] = ts[Len(ts) - Len(fs) + i]
  /\ \A i \in 1..(Len(ts) - Len(fs)) : ~Recent(ts[i])

BanInv ==
  /\ BannerTypeOK
  /\ \A ip \in IPs : Ordered(log[ip], now) /\ Kept(log[ip], fails[ip])
  /\ NoneMissed

(* What pruneBefore counts is an initial segment. *)
LEMMA PrunedPrefix ==
  ASSUME NEW ts \in Seq(Nat), NEW c,
         c = Cardinality({i \in 1..Len(ts) : \A j \in 1..i : ~Recent(ts[j])})
  PROVE  /\ c \in Nat /\ c <= Len(ts)
         /\ \A i \in 1..c : ~Recent(ts[i])
         /\ c < Len(ts) => Recent(ts[c + 1])
<1> DEFINE old == {i \in 1..Len(ts) : \A j \in 1..i : ~Recent(ts[j])}
<1>1. Len(ts) \in Nat
  BY SMTT(30)
<1>2. IsFiniteSet(1..Len(ts)) /\ Cardinality(1..Len(ts)) = Len(ts)
  BY <1>1, FS_Interval, SMTT(30)
<1>3. old \in SUBSET (1..Len(ts)) /\ c = Cardinality(old)
  OBVIOUS
<1>o. \A i : i \in old <=> i \in 1..Len(ts) /\ \A j \in 1..i : ~Recent(ts[j])
  OBVIOUS
<1> HIDE DEF old
<1>4. IsFiniteSet(old)
  BY <1>2, <1>3, FS_Subset
<1>5. c \in Nat /\ c <= Len(ts)
  <2>1. c \in Nat
    BY <1>3, <1>4, FS_CardinalityType
  <2>2. Cardinality(old) <= Cardinality(1..Len(ts))
    BY <1>2, <1>3, FS_Subset
  <2>. QED
    BY <2>1, <2>2, <1>2, <1>3
<1>6. ASSUME NEW i \in 1..Len(ts), i \notin old
      PROVE  c < i
  <2>1. ASSUME NEW k \in old PROVE k \in 1..(i - 1)
    <3>1. k \in 1..Len(ts) /\ \A j \in 1..k : ~Recent(ts[j])
      BY <2>1, <1>o
    <3>2. PICK j \in 1..i : Recent(ts[j])
      BY <1>6, <1>o
    <3>3. j \notin 1..k
      BY <3>1, <3>2
    <3>. QED
      BY <3>1, <3>2, <3>3, <1>1, SMTT(30)
  <2>2. i - 1 \in Int /\ i - 1 >= 0 /\ i \in Int
    BY <1>1, SMTT(30)
  <2>3. IsFiniteSet(1..(i - 1)) /\ Cardinality(1..(i - 1)) = i - 1
    BY <2>2, FS_Interval, SMTT(30)
  <2>4. old \in SUBSET (1..(i - 1))
    BY <2>1
  <2>5. Cardinality(old) <= Cardinality(1..(i - 1))
    BY <2>3, <2>4, FS_Subset
  <2>. QED
    BY <2>2, <2>3, <2>5, <1>3, <1>5, SMTT(30)
<1>7. ASSUME NEW i \in old
      PROVE  i <= c
  <2>1. i \in 1..Len(ts) /\ \A j \in 1..i : ~Recent(ts[j])
    BY <1>o
  <2>2. i \in Nat /\ i <= Len(ts)
    BY <2>1, <1>1, SMTT(30)
  <2>3. ASSUME NEW k \in 1..i PROVE k \in old
    <3>1. k \in 1..Len(ts)
      BY <2>2, <1>1, SMTT(30)
    <3>2. ASSUME NEW j \in 1..k PROVE j \in 1..i
      BY <2>2, SMTT(30)
    <3>. QED
      BY <3>1, <3>2, <2>1, <1>o
  <2>4. IsFiniteSet(1..i) /\ Cardinality(1..i) = i
    BY <2>2, FS_Interval, SMTT(30)
  <2>5. Cardinality(1..i) <= Cardinality(old)
    <3>1. (1..i) \in SUBSET old
      BY <2>3
    <3>. QED
      BY <3>1, <1>4, FS_Subset
  <2>. QED
    BY <2>4, <2>5, <1>3
<1>8. ASSUME NEW i \in 1..c PROVE ~Recent(ts[i])
  <2>1. i \in 1..Len(ts) /\ ~(c < i) /\ i \in 1..i
    BY <1>1, <1>5, SMTT(30)
  <2>2. i \in old
    BY <2>1, <1>6
  <2>. QED
    BY <2>1, <2>2, <1>o
<1>9. ASSUME c < Len(ts) PROVE Recent(ts[c + 1])
  <2>1. c + 1 \in 1..Len(ts) /\ ~(c + 1 <= c)
    BY <1>1, <1>5, <1>9, SMTT(30)
  <2>2. c + 1 \notin old
    BY <2>1, <1>7
  <2>3. PICK j \in 1..(c + 1) : Recent(ts[j])
    BY <2>1, <2>2, <1>o
  <2>4. j \notin 1..c
    BY <2>3, <1>8
  <2>5. j = c + 1
    BY <2>3, <2>4, <1>5, SMTT(30)
  <2>. QED
    BY <2>3, <2>5
<1>. QED
  BY <1>5, <1>8, <1>9

(* Pruning keeps the failures inside the window and nothing else. *)
LEMMA Pruned ==
  ASSUME now \in Nat, Window \in Nat, NEW ts \in Seq(Nat), NEW fs \in Seq(Nat),
         Ordered(ts, now), Kept(ts, fs)
  PROVE  /\ pruneBefore(fs) \in Seq(Nat) /\ Kept(ts, pruneBefore(fs))
         /\ \A i \in 1..Len(pruneBefore(fs)) : Recent(pruneBefore(fs)[i])
<1>1. PICK c : c = Cardinality({i \in 1..Len(fs) : \A j \in 1..i : ~Recent(fs[j])})
  OBVIOUS
<1>2. /\ c \in Nat /\ c <= Len(fs) /\ \A i \in 1..c : ~Recent(fs[i])
      /\ c < Len(fs) => Recent(fs[c + 1])
  BY <1>1, PrunedPrefix
<1>3. PICK ps \in Seq(Nat) : ps = SubSeq(fs, c + 1, Len(fs))
  <2>1. SubSeq(fs, c + 1, Len(fs)) \in Seq(Nat)
    BY <1>2, SMTT(30)
  <2>. QED
    BY <2>1
<1>4. pruneBefore(fs) = ps
  <2>1. 1 + c = c + 1
    BY <1>2, SMTT(30)
  <2>. QED
    BY <1>1, <1>3, <2>1 DEF pruneBefore
<1>5. Len(ps) = Len(fs) - c /\ \A i \in 1..Len(ps) : ps[i] = fs[c + i]
  BY <1>2, <1>3, SMTT(30)
<1>n. Len(ts) \in Nat /\ Len(fs) \in Nat /\ Len(ps) \in Nat
  BY SMTT(30)
<1> DEFINE k == Len(ts) - Len(fs)
<1>k. /\ k \in Nat /\ \A i \in 1..Len(fs) : fs[i] = ts[k + i]
      /\ \A i \in 1..k : ~Recent(ts[i]) /\ Len(ts) = k + Len(fs) /\ Len(ts) - Len(ps) = k + c
  BY <1>n, <1>5, <1>2, SMTT(30) DEF Kept
<1>6. \A i \in 1..Len(ps) : ps[i] = ts[Len(ts) - Len(ps) + i]
  <2> SUFFICES ASSUME NEW i \in 1..Len(ps) PROVE ps[i] = ts[Len(ts) - Len(ps) + i]
    OBVIOUS
  <2>1. c + i \in 1..Len(fs) /\ Len(ts) - Len(ps) + i = k + (c + i)
    BY <1>n, <1>2, <1>5, SMTT(30)
  <2>. QED
    BY <2>1, <1>k, <1>5
<1>7. \A i \in 1..(Len(ts) - Len(ps)) : ~Recent(ts[i])
  <2> SUFFICES ASSUME NEW i \in 1..(k + c) PROVE ~Recent(ts[i])
    BY <1>n, <1>5, <1>2, SMTT(30)
  <2>1. CASE i \in 1..k
    BY <2>1, <1>n, SMTT(30) DEF Kept
  <2>2. CASE i \notin 1..k
    <3>1. PICK m \in 1..c : i = k + m
      <4>1. i - k \in 1..c /\ i = k + (i - k)
        BY <2>2, <1>n, <1>2, SMTT(30) DEF Kept
      <4>. QED
        BY <4>1
    <3>2. m \in 1..Len(fs)
      BY <1>n, <1>2, SMTT(30)
    <3>3. fs[m] = ts[k + m]
      BY <3>2 DEF Kept
    <3>. QED
      BY <3>1, <3>3, <1>2
  <2>. QED
    BY <2>1, <2>2
<1>8. ASSUME NEW i \in 1..Len(ps) PROVE Recent(ps[i])
  <2>1. c < Len(fs) /\ 1 \in 1..Len(ps) /\ c + 1 \in Nat
    BY <1>n, <1>2, <1>5, SMTT(30)
  <2>2. Recent(ps[1])
    BY <2>1, <1>2, <1>5
  <2> DEFINE d == Len(ts) - Len(ps)
  <2>3. d + 1 \in 1..Len(ts) /\ d + i \in 1..Len(ts) /\ d + 1 <= d + i
    BY <1>n, <1>2, <1>5, SMTT(30) DEF Kept
  <2>4. ts[d + 1] <= ts[d + i]
    BY <2>3 DEF Ordered
  <2>5. ps[1] <= ps[i] /\ ps[1] \in Nat /\ ps[i] \in Nat
    <3>1. ps[1] \in Nat /\ ps[i] \in Nat
      BY <1>n, <2>1, SMTT(30)
    <3>. QED
      BY <3>1, <2>4, <2>1, <1>6
  <2>. QED
    BY <2>2, <2>5, SMTT(30) DEF Recent
<1>9. Len(ps) <= Len(ts)
  BY <1>n, <1>2, <1>5, SMTT(30) DEF Kept
<1>. QED
  BY <1>4, <1>6, <1>7, <1>8, <1>9 DEF Kept

(* The sweep empties a window only if all of its failures are too old. *)
LEMMA SweptKept ==
  ASSUME now \in Nat, Window \in Nat, NEW ts \in Seq(Nat), NEW fs \in Seq(Nat),
         Ordered(ts, now), Kept(ts, fs), fs = <<>> \/ ~Recent(fs[Len(fs)])
  PROVE  Kept(ts, <<>>)
<1>1. Len(ts) \in Nat /\ Len(fs) \in Nat /\ Len(<<>>) = 0 /\ (fs = <<>> \/ Len(fs) > 0)
  BY SMTT(30)
<1>2. ASSUME NEW i \in 1..Len(ts) PROVE ~Recent(ts[i])
  <2>1. CASE i \in 1..(Len(ts) - Len(fs))
    BY <2>1 DEF Kept
  <2>2. CASE i \notin 1..(Len(ts) - Len(fs))
    <3>1. /\ Len(fs) > 0 /\ fs # <<>> /\ Len(fs) \in 1..Len(fs)
          /\ Len(ts) \in 1..Len(ts) /\ i <= Len(ts) /\ Len(ts) - Len(fs) + Len(fs) = Len(ts)
      BY <1>1, <2>2, SMTT(30) DEF Kept
    <3>2. fs[Len(fs)] = ts[Len(ts)]
      <4>1. fs[Len(fs)] = ts[Len(ts) - Len(fs) + Len(fs)]
        BY <3>1 DEF Kept
      <4>. QED
        BY <4>1, <3>1
    <3>3. ts[i] <= ts[Len(ts)]
      BY <3>1 DEF Ordered
    <3>4. ts[i] \in Nat /\ ts[Len(ts)] \in Nat
      BY <3>1, <1>1, SMTT(30)
    <3>5. ~Recent(ts[Len(ts)])
      BY <3>1, <3>2
    <3>. QED
      BY <3>3, <3>4, <3>5, SMTT(30) DEF Recent
  <2>. QED
    BY <2>1, <2>2
<1>3. 1..(Len(ts) - Len(<<>>)) = 1..Len(ts) /\ Len(<<>>) <= Len(ts) /\ 1..Len(<<>>) = {}
  BY <1>1, SMTT(30)
<1>. QED
  BY <1>2, <1>3 DEF Kept

(* A failure is added to the log and to the window. *)
LEMMA Logged ==
  ASSUME now \in Nat, Window \in Nat, NEW ts \in Seq(Nat), NEW fs \in Seq(Nat),
         Ordered(ts, now), Kept(ts, fs)
  PROVE  /\ Append(ts, now) \in Seq(Nat) /\ Append(fs, now) \in Seq(Nat)
         /\ Ordered(Append(ts, now), now) /\ Kept(Append(ts, now), Append(fs, now))
<1>1. PICK us \in Seq(Nat) : us = Append(ts, now)
  <2>1. Append(ts, now) \in Seq(Nat)
    BY SMTT(30)
  <2>. QED
    BY <2>1
<1>2. PICK gs \in Seq(Nat) : gs = Append(fs, now)
  <2>1. Append(fs, now) \in Seq(Nat)
    BY SMTT(30)
  <2>. QED
    BY <2>1
<1>3. /\ Len(ts) \in Nat /\ Len(us) = Len(ts) + 1 /\ us[Len(ts) + 1] = now
      /\ \A i \in 1..Len(ts) : us[i] = ts[i]
  BY <1>1, SMTT(30)
<1>4. /\ Len(fs) \in Nat /\ Len(gs) = Len(fs) + 1 /\ gs[Len(fs) + 1] = now
      /\ \A i \in 1..Len(fs) : gs[i] = fs[i]
  BY <1>2, SMTT(30)
<1>5. \A i \in 1..Len(ts) : ts[i] <= now /\ \A j \in 1..Len(ts) : i <= j => ts[i] <= ts[j]
  BY DEF Ordered
<1>6. Ordered(us, now)
  <2>1. ASSUME NEW i \in 1..Len(us) PROVE us[i] <= now
    <3>1. i \in 1..Len(ts) \/ i = Len(ts) + 1
      BY <1>3, SMTT(30)
    <3>2. now <= now
      BY SMTT(30)
    <3>. QED
      BY <3>1, <3>2, <1>3, <1>5
  <2>2. ASSUME NEW i \in 1..Len(us), NEW j \in 1..Len(us), i <= j PROVE us[i] <= us[j]
    <3>1. CASE j = Len(ts) + 1
      BY <3>1, <2>1, <1>3
    <3>2. CASE j # Len(ts) + 1
      <4>1. i \in 1..Len(ts) /\ j \in 1..Len(ts)
        BY <2>2, <3>2, <1>3, SMTT(30)
      <4>. QED
        BY <4>1, <2>2, <1>3, <1>5
    <3>. QED
      BY <3>1, <3>2
  <2>. QED
    BY <2>1, <2>2 DEF Ordered
<1>7. Kept(us, gs)
  <2>1. /\ Len(fs) <= Len(ts) /\ \A i \in 1..Len(fs) : fs[i] = ts[Len(ts) - Len(fs) + i]
        /\ \A i \in 1..(Len(ts) - Len(fs)) : ~Recent(ts[i])
    BY DEF Kept
  <2>2. Len(gs) <= Len(us) /\ Len(us) - Len(gs) = Len(ts) - Len(fs)
    BY <2>1, <1>3, <1>4, SMTT(30)
  <2>3. ASSUME NEW i \in 1..Len(gs) PROVE gs[i] = us[Len(ts) - Len(fs) + i]
    <3>1. CASE i = Len(fs) + 1
      <4>1. Len(ts) - Len(fs) + i = Len(ts) + 1
        BY <3>1, <1>3, <1>4, SMTT(30)
      <4>. QED
        BY <4>1, <3>1, <1>3, <1>4
    <3>2. CASE i # Len(fs) + 1
      <4>1. i \in 1..Len(fs) /\ Len(ts) - Len(fs) + i \in 1..Len(ts)
        BY <3>2, <2>1, <1>3, <1>4, SMTT(30)
      <4>. QED
        BY <4>1, <2>1, <1>3, <1>4
    <3>. QED
      BY <3>1, <3>2
  <2>4. ASSUME NEW i \in 1..(Len(ts) - Len(fs)) PROVE ~Recent(us[i])
    <3>1. i \in 1..Len(ts)
      BY <2>1, <1>3, <1>4, SMTT(30)
    <3>. QED
      BY <3>1, <2>1, <1>3
  <2>. QED
    BY <2>2, <2>3, <2>4 DEF Kept
<1>. QED
  BY <1>1, <1>2, <1>6, <1>7

-----------------------------------------------------------------------------
(* Counting the failures of a window. *)
Within(ts, t) == {i \in DOMAIN ts : ts[i] > t - Window /\ ts[i] <= t}

LEMMA WithinFinite ==
  ASSUME NEW ts \in Seq(Nat), NEW t
  PROVE  /\ Within(ts, t) \in SUBSET (1..Len(ts)) /\ IsFiniteSet(Within(ts, t))
         /\ InWindow(ts, t) = Cardinality(Within(ts, t)) /\ InWindow(ts, t) \in Nat
<1>1. DOMAIN ts = 1..Len(ts) /\ Len(ts) \in Int
  BY SMTT(30)
<1>2. IsFiniteSet(1..Len(ts))
  BY <1>1, FS_Interval, SMTT(30)
<1>3. Within(ts, t) \in SUBSET (1..Len(ts))
  BY <1>1 DEF Within
<1>4. IsFiniteSet(Within(ts, t))
  BY <1>2, <1>3, FS_Subset
<1>5. InWindow(ts, t) = Cardinality(Within(ts, t))
  BY DEF InWindow, Within
<1>. QED
  BY <1>3, <1>4, <1>5, FS_CardinalityType

(* The last m of n places. *)
LEMMA LastPlaces ==
  ASSUME NEW n \in Nat, NEW m \in Nat, m <= n
  PROVE  IsFiniteSet((n - m + 1)..n) /\ Cardinality((n - m + 1)..n) = m
<1>1. PICK a \in Int : a = n - m + 1
  <2>1. n - m + 1 \in Int
    BY SMTT(30)
  <2>. QED
    BY <2>1
<1>2. n \in Int
  BY SMTT(30)
<1>3. IsFiniteSet(a..n) /\ Cardinality(a..n) = IF a > n THEN 0 ELSE n - a + 1
  BY <1>2, FS_Interval
<1>4. Cardinality(a..n) = m
  <2>1. CASE a > n
    <3>1. Cardinality(a..n) = 0
      BY <1>3, <2>1
    <3>2. m = 0
      BY <2>1, <1>1, SMTT(30)
    <3>. QED
      BY <3>1, <3>2
  <2>2. CASE ~(a > n)
    <3>1. Cardinality(a..n) = n - a + 1
      BY <1>3, <2>2
    <3>2. m = n - a + 1
      BY <1>1, SMTT(30)
    <3>. QED
      BY <3>1, <3>2
  <2>. QED
    BY <2>1, <2>2
<1>. QED
  BY <1>1, <1>3, <1>4

(* The window that ends now has no failures but those that are kept. *)
LEMMA CountsKept ==
  ASSUME now \in Nat, Window \in Nat, NEW ts \in Seq(Nat), NEW fs \in Seq(Nat), Kept(ts, fs)
  PROVE  InWindow(ts, now) <= Len(fs)
<1>1. Len(ts) \in Nat /\ Len(fs) \in Nat /\ Len(fs) <= Len(ts)
  BY SMTT(30) DEF Kept
<1> DEFINE k == Len(ts) - Len(fs)
<1>3. IsFiniteSet((k + 1)..Len(ts)) /\ Cardinality((k + 1)..Len(ts)) = Len(fs)
  BY <1>1, LastPlaces
<1>4. ASSUME NEW i \in Within(ts, now) PROVE i \in (k + 1)..Len(ts)
  <2>1. i \in 1..Len(ts) /\ Recent(ts[i])
    BY WithinFinite DEF Within, Recent
  <2>2. i \notin 1..k
    BY <2>1 DEF Kept
  <2>. QED
    BY <2>1, <2>2, <1>1, SMTT(30)
<1>5. Cardinality(Within(ts, now)) <= Cardinality((k + 1)..Len(ts))
  <2>1. Within(ts, now) \in SUBSET ((k + 1)..Len(ts))
    BY <1>4
  <2>. QED
    BY <2>1, <1>3, FS_Subset
<1>. QED
  BY <1>3, <1>5, WithinFinite

(* It has all of them, when they are recent. *)
LEMMA CountsAll ==
  ASSUME now \in Nat, Window \in Nat, NEW ts \in Seq(Nat), NEW fs \in Seq(Nat),
         Ordered(ts, now), Kept(ts, fs), \A i \in 1..Len(fs) : Recent(fs[i])
  PROVE  InWindow(ts, now) >= Len(fs)
<1>1. Len(ts) \in Nat /\ Len(fs) \in Nat /\ Len(fs) <= Len(ts) /\ DOMAIN ts = 1..Len(ts)
  BY SMTT(30) DEF Kept
<1> DEFINE k == Len(ts) - Len(fs)
<1>3. IsFiniteSet((k + 1)..Len(ts)) /\ Cardinality((k + 1)..Len(ts)) = Len(fs)
  BY <1>1, LastPlaces
<1>4. ASSUME NEW i \in (k + 1)..Len(ts) PROVE i \in Within(ts, now)
  <2>1. i \in 1..Len(ts) /\ i - k \in 1..Len(fs) /\ k + (i - k) = i
    BY <1>1, SMTT(30)
  <2>2. fs[i - k] = ts[i]
    <3>1. fs[i - k] = ts[k + (i - k)]
      BY <2>1 DEF Kept
    <3>. QED
      BY <3>1, <2>1
  <2>3. Recent(ts[i]) /\ ts[i] <= now
    BY <2>1, <2>2 DEF Ordered
  <2>. QED
    BY <2>1, <2>3, <1>1 DEF Within, Recent
<1>5. Cardinality((k + 1)..Len(ts)) <= Cardinality(Within(ts, now))
  <2>1. ((k + 1)..Len(ts)) \in SUBSET Within(ts, now)
    BY <1>4
  <2>. QED
    BY <2>1, WithinFinite, FS_Subset
<1>. QED
  BY <1>1, <1>3, <1>5, WithinFinite, SMTT(30)

(* Windows that have ended do not change, and the clock only empties one. *)
LEMMA CountsEarlier ==
  ASSUME now \in Nat, Window \in Nat, NEW ts \in Seq(Nat), NEW t \in Nat, t < now
  PROVE  InWindow(Append(ts, now), t) = InWindow(ts, t)
<1>1. PICK us \in Seq(Nat) : us = Append(ts, now)
  <2>1. Append(ts, now) \in Seq(Nat)
    BY SMTT(30)
  <2>. QED
    BY <2>1
<1>2. /\ Len(ts) \in Nat /\ DOMAIN ts = 1..Len(ts) /\ DOMAIN us = 1..(Len(ts) + 1)
      /\ us[Len(ts) + 1] = now /\ \A i \in 1..Len(ts) : us[i] = ts[i]
  BY <1>1, SMTT(30)
<1>3. ~(now <= t)
  BY SMTT(30)
<1>4. ASSUME NEW i PROVE i \in Within(us, t) <=> i \in Within(ts, t)
  <2>1. CASE i \in 1..Len(ts)
    <3>1. i \in 1..(Len(ts) + 1)
      BY <2>1, <1>2, SMTT(30)
    <3>. QED
      BY <2>1, <3>1, <1>2 DEF Within
  <2>2. CASE i \notin 1..Len(ts)
    <3>1. i \in 1..(Len(ts) + 1) => i = Len(ts) + 1
      BY <2>2, <1>2, SMTT(30)
    <3>. QED
      BY <2>2, <3>1, <1>2, <1>3 DEF Within
  <2>. QED
    BY <2>1, <2>2
<1>5. Within(us, t) = Within(ts, t)
  BY <1>4
<1>. QED
  BY <1>1, <1>5, WithinFinite

LEMMA CountsLater ==
  ASSUME now \in Nat, Window \in Nat, NEW ts \in Seq(Nat), Ordered(ts, now)
  PROVE  InWindow(ts, now + 1) <= InWindow(ts, now)
<1>1. ASSUME NEW i \in Within(ts, now + 1) PROVE i \in Within(ts, now)
  <2>1. i \in DOMAIN ts /\ ts[i] > now + 1 - Window /\ i \in 1..Len(ts)
    <3>1. i \in DOMAIN ts /\ ts[i] > now + 1 - Window
      BY SMTT(30) DEF Within
    <3>. QED
      BY <3>1, SMTT(30)
  <2>2. ts[i] \in Nat /\ ts[i] <= now
    <3>1. ts[i] \in Nat
      BY <2>1, SMTT(30)
    <3>. QED
      BY <3>1, <2>1 DEF Ordered
  <2>3. ts[i] > now - Window
    BY <2>1, <2>2, SMTT(30)
  <2>. QED
    BY <2>1, <2>2, <2>3 DEF Within
<1>2. Within(ts, now + 1) \in SUBSET Within(ts, now)
  BY <1>1
<1>3. Cardinality(Within(ts, now + 1)) <= Cardinality(Within(ts, now))
  <2>1. IsFiniteSet(Within(ts, now))
    BY WithinFinite
  <2>. QED
    BY <2>1, <1>2, FS_Subset
<1>4. /\ InWindow(ts, now + 1) = Cardinality(Within(ts, now + 1))
      /\ InWindow(ts, now) = Cardinality(Within(ts, now))
  BY DEF InWindow, Within
<1>. QED
  BY <1>3, <1>4

-----------------------------------------------------------------------------
(* An empty log. *)
LEMMA NothingLogged ==
  ASSUME NEW t
  PROVE  /\ Ordered(<<>>, t) /\ Kept(<<>>, <<>>)
         /\ \A u : InWindow(<<>>, u) < Threshold
<1>1. Len(<<>>) = 0 /\ 1..0 = {} /\ 1..(0 - 0) = {} /\ 0 <= 0 /\ <<>> \in Seq(Nat)
  BY SMTT(30)
<1>2. ASSUME NEW u PROVE InWindow(<<>>, u) < Threshold
  <2>1. Within(<<>>, u) = {}
    BY <1>1, WithinFinite
  <2>2. InWindow(<<>>, u) = 0
    BY <2>1, <1>1, WithinFinite, FS_EmptySet
  <2>. QED
    BY <2>2, ConfigAssumption, SMTT(30)
<1>3. Ordered(<<>>, t)
  BY <1>1 DEF Ordered
<1>4. Kept(<<>>, <<>>)
  BY <1>1 DEF Kept
<1>. QED
  BY <1>2, <1>3, <1>4

(* What the sweep leaves of a window, and what a failure makes of it. *)
LEMMA SweptWindow ==
  ASSUME BanInv, NEW a \in IPs
  PROVE  /\ now \in Nat /\ Window \in Nat /\ log[a] \in Seq(Nat) /\ Ordered(log[a], now)
         /\ SweptFails[a] \in Seq(Nat) /\ Kept(log[a], SweptFails[a])
<1>1. /\ now \in Nat /\ Window \in Nat /\ log[a] \in Seq(Nat) /\ fails[a] \in Seq(Nat)
      /\ Ordered(log[a], now) /\ Kept(log[a], fails[a])
  BY ConfigAssumption DEF BanInv, BannerTypeOK
<1>2. \/ SweptFails[a] = fails[a]
      \/ SweptFails[a] = <<>> /\ (fails[a] = <<>> \/ ~Recent(fails[a][Len(fails[a])]))
  BY DEF SweptFails
<1>3. SweptFails[a] \in Seq(Nat)
  BY Sweep DEF BanInv
<1>4. Kept(log[a], SweptFails[a])
  BY <1>1, <1>2, SweptKept
<1>. QED
  BY <1>1, <1>3, <1>4

(* What a failure of ip finds in its window. *)
Remaining(ip) == pruneBefore(SweptFails[ip])

LEMMA FailedWindow ==
  ASSUME BanInv, NEW ip \in IPs
  PROVE  LET times == Append(Remaining(ip), now) IN
         /\ times \in Seq(Nat) /\ Len(times) = Len(Remaining(ip)) + 1
         /\ Append(log[ip], now) \in Seq(Nat) /\ Ordered(Append(log[ip], now), now)
         /\ Kept(Append(log[ip], now), times)
         /\ Window > 0 => \A i \in 1..Len(times) : Recent(times[i])
         /\ Window = 0 => Len(times) = 1
<1> DEFINE times == Append(Remaining(ip), now)
<1>1. /\ now \in Nat /\ Window \in Nat /\ log[ip] \in Seq(Nat) /\ Ordered(log[ip], now)
      /\ SweptFails[ip] \in Seq(Nat) /\ Kept(log[ip], SweptFails[ip])
  BY SweptWindow
<1>2. /\ Remaining(ip) \in Seq(Nat) /\ Kept(log[ip], Remaining(ip))
      /\ \A i \in 1..Len(Remaining(ip)) : Recent(Remaining(ip)[i])
  BY <1>1, Pruned DEF Remaining
<1>3. /\ times \in Seq(Nat) /\ Append(log[ip], now) \in Seq(Nat)
      /\ Ordered(Append(log[ip], now), now) /\ Kept(Append(log[ip], now), times)
  BY <1>1, <1>2, Logged
<1>4. /\ Len(Remaining(ip)) \in Nat /\ Len(times) = Len(Remaining(ip)) + 1
      /\ times[Len(Remaining(ip)) + 1] = now
      /\ \A i \in 1..Len(Remaining(ip)) : times[i] = Remaining(ip)[i]
  BY <1>1, <1>2, SMTT(30)
<1> HIDE DEF times
<1>5. ASSUME Window > 0, NEW i \in 1..Len(times) PROVE Recent(times[i])
  <2>1. CASE i = Len(Remaining(ip)) + 1
    <3>1. now > now - Window
      BY <1>1, <1>5, SMTT(30)
    <3>. QED
      BY <3>1, <2>1, <1>4 DEF Recent
  <2>2. CASE i # Len(Remaining(ip)) + 1
    <3>1. i \in 1..Len(Remaining(ip))
      BY <2>2, <1>4, SMTT(30)
    <3>. QED
      BY <3>1, <1>2, <1>4
  <2>. QED
    BY <2>1, <2>2
<1>6. ASSUME Window = 0 PROVE Len(times) = 1
  <2>1. SUFFICES ASSUME Len(Remaining(ip)) # 0 PROVE FALSE
    BY <1>4, SMTT(30)
  <2>2. Len(log[ip]) \in Nat /\ Len(Remaining(ip)) <= Len(log[ip])
    BY <1>1, <1>2, SMTT(30) DEF Kept
  <2>3. 1 \in 1..Len(Remaining(ip)) /\ Len(log[ip]) - Len(Remaining(ip)) + 1 \in 1..Len(log[ip])
    BY <2>1, <2>2, <1>4, SMTT(30)
  <2>4. Remaining(ip)[1] = log[ip][Len(log[ip]) - Len(Remaining(ip)) + 1]
    BY <2>3, <1>2 DEF Kept
  <2>5. Remaining(ip)[1] <= now /\ Recent(Remaining(ip)[1])
    BY <2>3, <2>4, <1>1, <1>2 DEF Ordered
  <2>6. Remaining(ip)[1] \in Nat
    BY <2>3, <1>2, SMTT(30)
  <2>. QED
    BY <2>5, <2>6, <1>1, <1>6, SMTT(30) DEF Recent
<1>. QED
  BY <1>3, <1>4, <1>5, <1>6 DEF times

(* A counted failure keeps the windows, and misses no ban. *)
LEMMA FailWindows ==
  ASSUME BanInv, NEW ip \in IPs, Fail(ip), ip \notin Exempt, NEW a \in IPs
  PROVE  /\ Ordered(log'[a], now) /\ Kept(log'[a], fails'[a])
         /\ \A t \in 0..now : InWindow(log'[a], t) < Threshold
<1> DEFINE times == Append(Remaining(ip), now)
<1>1. /\ now \in Nat /\ Window \in Nat /\ log[a] \in Seq(Nat) /\ Ordered(log[a], now)
      /\ SweptFails[a] \in Seq(Nat) /\ Kept(log[a], SweptFails[a])
      /\ SweptFails \in [IPs -> Seq(Nat)] /\ log \in [IPs -> Seq(Nat)] /\ Threshold \in Nat
  BY SweptWindow, Sweep, ConfigAssumption DEF BanInv, BannerTypeOK
<1>2. \A t \in 0..now : InWindow(log[a], t) < Threshold
  BY DEF BanInv, NoneMissed
<1>3. CASE Crossed(times)
  <2>1. fails' = [SweptFails EXCEPT ![ip] = <<>>] /\ log' = [log EXCEPT ![ip] = <<>>]
    BY <1>3 DEF Fail, Ban, Remaining
  <2>2. CASE a = ip
    <3>1. fails'[a] = <<>> /\ log'[a] = <<>>
      BY <2>1, <2>2, <1>1
    <3>. QED
      BY <3>1, NothingLogged
  <2>3. CASE a # ip
    BY <2>1, <2>3, <1>1, <1>2
  <2>. QED
    BY <2>2, <2>3
<1>4. CASE ~Crossed(times)
  <2>1. fails' = [SweptFails EXCEPT ![ip] = times] /\ log' = [log EXCEPT ![ip] = Append(log[ip], now)]
    BY <1>4 DEF Fail, Remaining
  <2>2. CASE a = ip
    <3>1. fails'[a] = times /\ log'[a] = Append(log[a], now)
      BY <2>1, <2>2, <1>1
    <3>2. /\ times \in Seq(Nat) /\ Append(log[a], now) \in Seq(Nat)
          /\ Ordered(Append(log[a], now), now) /\ Kept(Append(log[a], now), times)
      BY <2>2, FailedWindow
    <3>3. InWindow(Append(log[a], now), now) <= Len(times) /\ InWindow(Append(log[a], now), now) \in Nat
      BY <3>2, <1>1, CountsKept, WithinFinite
    <3>4. InWindow(Append(log[a], now), now) < Threshold
      <4> HIDE DEF times
      <4>1. Len(times) \in Nat
        BY <3>2, SMTT(30)
      <4>. QED
        BY <4>1, <3>3, <1>1, <1>4, SMTT(30) DEF Crossed
    <3>5. ASSUME NEW t \in 0..now PROVE InWindow(Append(log[a], now), t) < Threshold
      <4>1. t = now \/ (t \in Nat /\ t < now)
        BY <1>1, SMTT(30)
      <4>2. CASE t \in Nat /\ t < now
        BY <4>2, <1>1, <1>2, <3>5, CountsEarlier
      <4>. QED
        BY <4>1, <4>2, <3>4
    <3>. QED
      BY <3>1, <3>2, <3>5
  <2>3. CASE a # ip
    BY <2>1, <2>3, <1>1, <1>2
  <2>. QED
    BY <2>2, <2>3
<1>. QED
  BY <1>3, <1>4

(* A ban is set only for enough failures in one window. *)
LEMMA FailJustified ==
  ASSUME BanInv, NEW ip \in IPs, Fail(ip), ip \notin Exempt
  PROVE  Justified
<1> DEFINE times == Append(Remaining(ip), now)
<1> SUFFICES ASSUME NEW a \in IPs, bannedIP'[a] > now, bannedIP'[a] # bannedIP[a]
             PROVE  /\ a \notin Exempt
                    /\ InWindow(Append(log[a], now), now) >= Threshold \/ Threshold = 1
  BY DEF Justified
<1>1. /\ now \in Nat /\ Window \in Nat /\ Threshold \in Nat \ {0} /\ BanDuration \in Nat
      /\ SweptIPs \in [IPs -> Never..(now + BanDuration)]
  BY Sweep, ConfigAssumption DEF BanInv, BannerTypeOK
<1>2. SweptIPs[a] = bannedIP[a] \/ ~(SweptIPs[a] > now)
  BY <1>1, SMTT(30) DEF SweptIPs, Live, Never
<1>3. bannedIP'[a] # SweptIPs[a]
  BY <1>2
<1>4. Crossed(times) /\ bannedIP' = [SweptIPs EXCEPT ![ip] = now + BanDuration]
  BY <1>3 DEF Fail, Ban, Remaining
<1>5. a = ip
  BY <1>1, <1>3, <1>4
<1>6. /\ times \in Seq(Nat) /\ Append(log[ip], now) \in Seq(Nat)
      /\ Ordered(Append(log[ip], now), now) /\ Kept(Append(log[ip], now), times)
      /\ Window > 0 => \A i \in 1..Len(times) : Recent(times[i])
      /\ Window = 0 => Len(times) = 1
  BY FailedWindow
<1> HIDE DEF times
<1>7. Len(times) \in Nat /\ Len(times) >= Threshold
  BY <1>4, <1>6, SMTT(30) DEF Crossed
<1>8. CASE Window = 0
  <2>1. Len(times) = 1
    BY <1>6, <1>8
  <2>2. Threshold = 1
    BY <2>1, <1>1, <1>7, SMTT(30)
  <2>. QED
    BY <2>2, <1>5
<1>9. CASE Window > 0
  <2>1. InWindow(Append(log[ip], now), now) >= Len(times) /\ InWindow(Append(log[ip], now), now) \in Nat
    BY <1>1, <1>6, <1>9, CountsAll, WithinFinite
  <2>2. InWindow(Append(log[ip], now), now) >= Threshold
    BY <2>1, <1>1, <1>7, SMTT(30)
  <2>. QED
    BY <2>2, <1>5
<1>10. Window = 0 \/ Window > 0
  BY <1>1, SMTT(30)
<1>. QED
  BY <1>8, <1>9, <1>10

(* Every step keeps the invariant and sets only justified bans. *)
LEMMA BanStep ==
  ASSUME BanInv, BannerNext
  PROVE  BanInv' /\ Justified
<1>1. BannerTypeOK' /\ now \in Nat /\ Window \in Nat /\ Threshold \in Nat
  BY TickType, ArriveType, RespondType, ConfigAssumption
  DEF BanInv, BannerNext, RequestStep, BannerTypeOK
<1>2. ASSUME now' = now, fails' = fails, log' = log PROVE BanInv'
  BY <1>1, <1>2 DEF BanInv, NoneMissed, Ordered, Kept, Recent
<1>3. ASSUME bannedIP' = bannedIP PROVE Justified
  BY <1>3 DEF Justified
<1>4. CASE Tick
  <2>1. now' = now + 1 /\ fails' = fails /\ log' = log /\ bannedIP' = bannedIP
    BY <1>4 DEF Tick
  <2>2. ASSUME NEW a \in IPs
        PROVE  /\ Ordered(log[a], now') /\ Kept(log[a], fails[a])'
               /\ \A t \in 0..now' : InWindow(log[a], t) < Threshold
    <3>1. /\ log[a] \in Seq(Nat) /\ fails[a] \in Seq(Nat) /\ Ordered(log[a], now)
          /\ Kept(log[a], fails[a]) /\ \A t \in 0..now : InWindow(log[a], t) < Threshold
      BY DEF BanInv, BannerTypeOK, NoneMissed
    <3>2. Len(log[a]) \in Nat /\ Len(fails[a]) \in Nat /\ \A i \in 1..Len(log[a]) : log[a][i] \in Nat
      BY <3>1, SMTT(30)
    <3>3. Ordered(log[a], now')
      BY <3>1, <3>2, <2>1, <1>1, SMTT(30) DEF Ordered
    <3>4. ASSUME NEW i \in 1..(Len(log[a]) - Len(fails[a])) PROVE ~Recent(log[a][i])'
      <4>1. log[a][i] \in Nat
        <5>1. PICK p \in Nat, q \in Nat : p = Len(log[a]) /\ q = Len(fails[a])
          BY <3>2
        <5>2. i \in 1..(p - q)
          BY <5>1
        <5>3. i \in 1..p
          BY <5>2, SMTT(30)
        <5>. QED
          BY <5>1, <5>3, <3>2
      <4>2. ~Recent(log[a][i])
        BY <3>1 DEF Kept
      <4>3. ~(log[a][i] > now + 1 - Window)
        BY <4>1, <4>2, <1>1, SMTT(30) DEF Recent
      <4>4. log' = log /\ now' = now + 1
        BY <2>1
      <4>5. ~(log'[a][i] > now' - Window)
        <5>1. PICK x \in Nat : x = log[a][i] /\ x = log'[a][i]
          BY <4>1, <4>4
        <5>2. ~(x > now + 1 - Window)
          BY <5>1, <4>3
        <5>3. ~(x > now' - Window)
          BY <5>2, <4>4, <1>1, SMTT(30)
        <5>. QED
          BY <5>1, <5>3
      <4>. QED
        BY <4>5 DEF Recent
    <3>5. Kept(log[a], fails[a])'
      BY <3>1, <3>4, <2>1 DEF Kept
    <3>6. ASSUME NEW t \in 0..now' PROVE InWindow(log[a], t) < Threshold
      <4>1. t \in 0..now \/ t = now + 1
        BY <2>1, <1>1, SMTT(30)
      <4>2. InWindow(log[a], now) < Threshold
        <5>1. now \in 0..now
          BY <1>1, SMTT(30)
        <5>. QED
          BY <5>1, <3>1
      <4>3. InWindow(log[a], now + 1) <= InWindow(log[a], now)
        BY <3>1, <1>1, CountsLater
      <4>4. InWindow(log[a], now + 1) \in Nat /\ InWindow(log[a], now) \in Nat
        BY <3>1, WithinFinite
      <4>5. InWindow(log[a], now + 1) < Threshold
        BY <4>2, <4>3, <4>4, <1>1, SMTT(30)
      <4>. QED
        BY <4>1, <4>5, <3>1
    <3>. QED
      BY <3>3, <3>5, <3>6
  <2>. QED
    BY <2>1, <2>2, <1>1, <1>3 DEF BanInv, NoneMissed
<1>5. ASSUME NEW ip \in IPs, Arrive(ip) PROVE BanInv' /\ Justified
  <2>1. now' = now /\ fails' = fails /\ log' = log
    BY <1>5 DEF Arrive
  <2>2. \A a \in IPs : bannedIP'[a] = bannedIP[a] \/ bannedIP'[a] = Never
    BY <1>5, ArriveKeeps DEF BanInv
  <2>3. ~(Never > now)
    BY <1>1, SMTT(30) DEF Never
  <2>. QED
    BY <2>1, <2>2, <2>3, <1>2 DEF Justified
<1>6. ASSUME NEW ip \in IPs, NEW r \in Requests, Respond(ip, r) PROVE BanInv' /\ Justified
  <2>1. now' = now
    BY <1>6 DEF Respond
  <2>2. CASE Fail(ip) /\ ip \notin Exempt
    <3>1. /\ \A a \in IPs : Ordered(log'[a], now) /\ Kept(log'[a], fails'[a])
          /\ \A a \in IPs : \A t \in 0..now : InWindow(log'[a], t) < Threshold
      BY <2>2, FailWindows
    <3>2. \A a \in IPs : Ordered(log'[a], now') /\ Kept(log[a], fails[a])'
      BY <3>1, <2>1 DEF Ordered, Kept, Recent
    <3>3. Justified
      BY <2>2, FailJustified
    <3>. QED
      BY <3>1, <3>2, <3>3, <2>1, <1>1 DEF BanInv, NoneMissed
  <2>3. CASE ~(Fail(ip) /\ ip \notin Exempt)
    BY <1>6, <2>1, <2>3, <1>2, <1>3 DEF Respond, Fail
  <2>. QED
    BY <2>2, <2>3
<1>. QED
  BY <1>4, <1>5, <1>6 DEF BannerNext, RequestStep

(* The inductive invariant of the throttle: the failures Fail still has    *)
(* for an address are the end of its log, those the sweep and pruneBefore  *)
(* dropped are too old to count, and no window reaches Threshold.          *)
THEOREM BannerInvariant == BannerSpec => []BanInv
<1>1. BannerInit => BanInv
  <2> SUFFICES ASSUME BannerInit PROVE BanInv
    OBVIOUS
  <2>1. \A a \in IPs : log[a] = <<>> /\ fails[a] = <<>>
    BY DEF BannerInit
  <2>2. \A a \in IPs : Ordered(log[a], now) /\ Kept(log[a], fails[a])
    BY <2>1, NothingLogged
  <2>3. NoneMissed
    BY <2>1, NothingLogged DEF NoneMissed
  <2>. QED
    BY <2>2, <2>3, InitType DEF BanInv
<1>2. BanInv /\ [BannerNext]_bannerVars => BanInv'
  <2>1. BanInv /\ UNCHANGED bannerVars => BanInv'
    BY DEF bannerVars, BanInv, BannerTypeOK, NoneMissed, Ordered, Kept, Recent
  <2>. QED
    BY <2>1, BanStep
<1>. QED
  BY <1>1, <1>2, PTL DEF BannerSpec

(* The throttle bans for Threshold failures in one window, and only for    *)
(* these: sweeping and pruning forget no failure that could still count,   *)
(* and a failure that led to a ban counts for no other.                    *)
THEOREM BansExactHolds == BannerSpec => BansExact
<1>1. BanInv /\ [BannerNext]_bannerVars => [Justified /\ NoneMissed']_bannerVars
  <2>1. BanInv /\ BannerNext => Justified /\ NoneMissed'
    BY BanStep DEF BanInv
  <2>. QED
    BY <2>1
<1>. QED
  BY <1>1, BannerInvariant, PTL DEF BannerSpec, BansExact

-----------------------------------------------------------------------------
(***************************************************************************)
(* Theorems about Provision for any number of commands that run side by    *)
(* side, any names and any files to start from.  A token is a record of    *)
(* the configuration it was made from, of its address, ports and keys, and *)
(* of one of its clients; the inductive invariant says which of that the   *)
(* file, the commands under way and the running server still have.         *)
(***************************************************************************)
TuicToken(c, cl) ==
  [Blank(c, cl.uuid) EXCEPT !.tuicPort = c.tuicListen, !.tuicPw = IF cl.pw = 0 THEN cl.uuid ELSE cl.pw,
                            !.tuicSNI = c.tuicSNI, !.protocol = "tuic"]

RealityToken(c, cl) ==
  [Blank(c, cl.uuid) EXCEPT !.pub = IF c.pub = 0 THEN c.key ELSE c.pub, !.sni = c.mimic,
                            !.protocol = "reality"]

Made(t, c) ==
  c.addr # NoText /\ \E k \in DOMAIN c.clients :
    /\ c.clients[k].uuid # 0
    /\ \/ c.tuic /\ t = TuicToken(c, c.clients[k])
       \/ t = RealityToken(c, c.clients[k])
       \/ t = [RealityToken(c, c.clients[k]) EXCEPT !.protocol = NoText]

(* What LoadServer returns. *)
Loaded(c) ==
  /\ IsServerConfig(c) /\ c.listen # 0 /\ c.control # NoText /\ (c.tuic = TRUE => c.tuicListen # 0)
  /\ c.key # 0 /\ c.pub \in {0, c.key}

(* The tokens a command is about to print are as good as printed. *)
Printed(c, t) == {[tok |-> u, key |-> c.key] : u \in Legacy(t) \ {NoToken}}

Pending(o) == Printed(op[o].cfg, TokenFor(op[o].cfg, op[o].name, "reality"))

Outstanding == issued \cup UNION {Pending(o) : o \in {q \in Ops : op[q].at = "token"}}

Covers(c) == \A i \in Outstanding : i.key = c.key => Made(i.tok, c)

(* InitServer makes a configuration with a key of its own, AddClient one   *)
(* that extends what it has read.                                          *)
Unused(o) ==
  /\ \A i \in Outstanding : i.key # op[o].cfg.key
  /\ \A q \in Ops \ {o} : op[q].at # "idle" => op[q].cfg.key # op[o].cfg.key
  /\ Loads => file.key # op[o].cfg.key

Extended(o) ==
  /\ op[o].force = FALSE /\ op[o].read \notin {Absent, Empty, Mixed}
  /\ \E cl \in Credential : op[o].cfg = [Filled(op[o].read) EXCEPT !.clients = Append(@, cl)]

CommandInv(o) ==
  /\ Loaded(op[o].cfg) /\ op[o].cfg.key <= fresh
  /\ op[o].at = "save" => Unused(o) \/ Extended(o)
  /\ op[o].at = "write" => /\ file = Empty /\ Covers(op[o].cfg)
                           /\ \A q \in Ops \ {o} : op[q].at # "write"

FileInv ==
  \/ file \in {Absent, Empty}
  \/ Loads /\ Loaded(Filled(file)) /\ file.key <= fresh /\ Covers(Filled(file))

ServerInv ==
  server # NotRunning =>
    Loaded(server) /\ \A i \in known : i.key = server.key => Made(i.tok, server)

IsFile(f) == f \in {Absent, Empty, Mixed} \/ IsServerConfig(f)

IsCommand(p) ==
  /\ p = [at |-> p.at, read |-> p.read, name |-> p.name, force |-> p.force, cfg |-> p.cfg]
  /\ p.at \in {"save", "write", "token"} /\ p.force \in BOOLEAN
  /\ IsFile(p.read) /\ IsServerConfig(p.cfg)

ProvTypeOK ==
  /\ op = [o \in Ops |-> op[o]] /\ \A o \in Ops : op[o] = NoCommand \/ IsCommand(op[o])
  /\ IsFile(file) /\ fresh \in Nat /\ clash \in BOOLEAN

(* As long as no command overwrote what it had not read: every token that  *)
(* was printed under the key of the file was made from clients that are    *)
(* still in it.                                                            *)
Lineage ==
  /\ \A i \in Outstanding : i.key \in Nat /\ i.key <= fresh
  /\ \A o \in Ops : op[o].at # "idle" => CommandInv(o)
  /\ FileInv /\ ServerInv

ProvInv == ProvTypeOK /\ (clash = FALSE => Lineage)

LEMMA Texts ==
  NoText # "127.0.0.1:8443" /\ NoText # "vps" /\ NoText # "reality" /\ NoText # "tuic"
  BY DEF NoText

LEMMA NoConfigs ==
  ASSUME NEW c, IsServerConfig(c)
  PROVE  c # Absent /\ c # Empty /\ c # Mixed /\ c # NotRunning
<1>1. "addr" \in DOMAIN c
  BY SMTT(30) DEF IsServerConfig
<1>. QED
  BY <1>1, SMTT(30) DEF Absent, Empty, Mixed, NotRunning

LEMMA FilledConfig ==
  ASSUME NEW c, IsServerConfig(c)
  PROVE  /\ IsServerConfig(Filled(c))
         /\ Filled(c).listen # 0 /\ Filled(c).control # NoText
         /\ Filled(c).tuic = TRUE => Filled(c).tuicListen # 0
         /\ Filled(c).key = c.key /\ Filled(c).pub = c.pub /\ Filled(c).clients = c.clients
<1>1. PICK l \in Nat : l = IF c.listen = 0 THEN DefaultPort ELSE c.listen
  BY SMTT(30) DEF IsServerConfig, DefaultPort
<1>2. PICK a : a = IF c.control = NoText THEN "127.0.0.1:8443" ELSE c.control
  OBVIOUS
<1>3. PICK t \in Nat : t = IF c.tuicListen = 0 /\ c.tuic THEN DefaultPort ELSE c.tuicListen
  BY SMTT(30) DEF IsServerConfig, DefaultPort
<1>4. Filled(c) = [c EXCEPT !.listen = l, !.control = a, !.tuicListen = t]
  BY <1>1, <1>2, <1>3 DEF Filled, IsServerConfig
<1>5. l # 0 /\ (c.tuic = TRUE => t # 0)
  BY <1>1, <1>3, SMTT(30) DEF DefaultPort
<1>6. a # NoText
  BY <1>2, Texts
<1>7. /\ Filled(c) = [addr |-> c.addr, listen |-> l, control |-> a, mimic |-> c.mimic,
                      key |-> c.key, pub |-> c.pub, clients |-> c.clients,
                      tuic |-> c.tuic, tuicListen |-> t, tuicSNI |-> c.tuicSNI]
  BY <1>4 DEF IsServerConfig
<1>8. PICK f : f = Filled(c)
  OBVIOUS
<1>9. /\ f.addr = c.addr /\ f.listen = l /\ f.control = a /\ f.mimic = c.mimic
      /\ f.key = c.key /\ f.pub = c.pub /\ f.clients = c.clients
      /\ f.tuic = c.tuic /\ f.tuicListen = t /\ f.tuicSNI = c.tuicSNI
  BY <1>7, <1>8, SMTT(30)
<1>10. IsServerConfig(f)
  BY <1>7, <1>8, <1>9 DEF IsServerConfig
<1>. QED
  BY <1>5, <1>6, <1>8, <1>9, <1>10

LEMMA FilledAgain ==
  ASSUME NEW c, Loaded(c)
  PROVE  Filled(c) = c
  BY DEF Loaded, Filled, IsServerConfig, DefaultPort

(* LoadServer accepts what a command has written. *)
LEMMA FilledLoaded ==
  ASSUME NEW c, IsServerConfig(c), c.key # 0, c.pub \in {0, c.key}
  PROVE  Loaded(Filled(c))
  BY FilledConfig DEF Loaded

(* TokenFor finds the last client of the name. *)
LEMMA CredFound ==
  ASSUME NEW c, IsServerConfig(c), NEW name
  PROVE  Cred(c, name) \in {0} \cup DOMAIN c.clients
<1> DEFINE named == {i \in DOMAIN c.clients : c.clients[i].name = name}
<1>1. SUFFICES ASSUME named # {} PROVE \E i \in named : \A j \in named : j <= i
  BY <1>1 DEF Cred
<1>2. PICK n \in Nat : n = Len(c.clients)
  BY SMTT(30) DEF IsServerConfig
<1>3. DOMAIN c.clients = 1..n
  BY <1>2, SMTT(30) DEF IsServerConfig
<1> DEFINE R == OpToRel(<, Nat)
           T == {n - i : i \in named}
<1>4. T \subseteq Nat /\ T # {}
  BY <1>1, <1>3, SMTT(30)
<1>5. IsWellFoundedOn(R, Nat)
  BY NatLessThanWellFounded
<1>6. \A x, y \in Nat : y < x => <<y, x>> \in R
  BY DEF OpToRel
<1> HIDE DEF R
<1>7. PICK x \in T : \A y \in T : ~(<<y, x>> \in R)
  BY <1>4, <1>5, WFMin
<1>8. PICK i \in named : x = n - i
  BY <1>7
<1>9. ASSUME NEW j \in named PROVE j <= i
  <2>1. i \in 1..n /\ j \in 1..n /\ n - i \in Nat /\ n - j \in Nat
    BY <1>2, <1>3, SMTT(30)
  <2>2. ~(n - j < n - i)
    BY <1>6, <1>7, <1>8, <2>1
  <2>. QED
    BY <1>2, <2>1, <2>2, SMTT(30)
<1>. QED
  BY <1>9

(* What TokenFor puts into a token. *)
LEMMA TokenFields ==
  ASSUME NEW c, NEW cl,
         NEW pw, pw = IF cl.pw = 0 THEN cl.uuid ELSE cl.pw,
         NEW pub, pub = IF c.pub = 0 THEN c.key ELSE c.pub
  PROVE  /\ TuicToken(c, cl) =
              [server |-> c.addr, port |-> c.listen, uuid |-> cl.uuid, control |-> c.control,
               pub |-> 0, sni |-> NoText, tuicPort |-> c.tuicListen, tuicPw |-> pw,
               tuicSNI |-> c.tuicSNI, protocol |-> "tuic"]
         /\ RealityToken(c, cl) =
              [server |-> c.addr, port |-> c.listen, uuid |-> cl.uuid, control |-> c.control,
               pub |-> pub, sni |-> c.mimic, tuicPort |-> 0, tuicPw |-> 0, tuicSNI |-> NoText,
               protocol |-> "reality"]
         /\ [RealityToken(c, cl) EXCEPT !.protocol = NoText] =
              [server |-> c.addr, port |-> c.listen, uuid |-> cl.uuid, control |-> c.control,
               pub |-> pub, sni |-> c.mimic, tuicPort |-> 0, tuicPw |-> 0, tuicSNI |-> NoText,
               protocol |-> NoText]
<1>1. PICK b : b = Blank(c, cl.uuid)
  OBVIOUS
<1>2. b = [server |-> c.addr, port |-> c.listen, uuid |-> cl.uuid, control |-> c.control,
           pub |-> 0, sni |-> NoText, tuicPort |-> 0, tuicPw |-> 0, tuicSNI |-> NoText, protocol |-> NoText]
  BY <1>1 DEF Blank
<1>3. /\ TuicToken(c, cl) = [b EXCEPT !.tuicPort = c.tuicListen, !.tuicPw = pw,
                                      !.tuicSNI = c.tuicSNI, !.protocol = "tuic"]
      /\ RealityToken(c, cl) = [b EXCEPT !.pub = pub, !.sni = c.mimic, !.protocol = "reality"]
  BY <1>1 DEF TuicToken, RealityToken
<1>4. TuicToken(c, cl) =
        [server |-> c.addr, port |-> c.listen, uuid |-> cl.uuid, control |-> c.control,
         pub |-> 0, sni |-> NoText, tuicPort |-> c.tuicListen, tuicPw |-> pw,
         tuicSNI |-> c.tuicSNI, protocol |-> "tuic"]
  BY <1>2, <1>3
<1>5. RealityToken(c, cl) =
        [server |-> c.addr, port |-> c.listen, uuid |-> cl.uuid, control |-> c.control,
         pub |-> pub, sni |-> c.mimic, tuicPort |-> 0, tuicPw |-> 0, tuicSNI |-> NoText,
         protocol |-> "reality"]
  BY <1>2, <1>3
<1>6. PICK r : r = RealityToken(c, cl)
  OBVIOUS
<1>7. [r EXCEPT !.protocol = NoText] =
        [server |-> c.addr, port |-> c.listen, uuid |-> cl.uuid, control |-> c.control,
         pub |-> pub, sni |-> c.mimic, tuicPort |-> 0, tuicPw |-> 0, tuicSNI |-> NoText,
         protocol |-> NoText]
  BY <1>5, <1>6, SMTT(30)
<1>. QED
  BY <1>4, <1>5, <1>6, <1>7

LEMMA RealityFields ==
  ASSUME NEW c, NEW cl, NEW pub, pub = IF c.pub = 0 THEN c.key ELSE c.pub
  PROVE  RealityToken(c, cl) =
           [server |-> c.addr, port |-> c.listen, uuid |-> cl.uuid, control |-> c.control,
            pub |-> pub, sni |-> c.mimic, tuicPort |-> 0, tuicPw |-> 0, tuicSNI |-> NoText,
            protocol |-> "reality"]
<1>1. PICK pw : pw = IF cl.pw = 0 THEN cl.uuid ELSE cl.pw
  OBVIOUS
<1>. QED
  BY <1>1, TokenFields

(* A token is made from the configuration it is printed from. *)
LEMMA TokenMade ==
  ASSUME NEW c, Loaded(c), NEW name, NEW carrier \in {"reality", "tuic"},
         NEW i \in Printed(c, TokenFor(c, name, carrier))
  PROVE  i.key = c.key /\ Made(i.tok, c)
<1> DEFINE t == TokenFor(c, name, carrier)
           k == Cred(c, name)
<1>1. PICK u \in Legacy(t) \ {NoToken} : i = [tok |-> u, key |-> c.key]
  BY DEF Printed
<1>2. t # NoToken
  BY <1>1 DEF Legacy, NoToken
<1>3. /\ c.addr # NoText /\ k # 0 /\ c.clients[k].uuid # 0 /\ ~(carrier = "tuic" /\ ~c.tuic)
      /\ t = IF carrier = "tuic" THEN TuicToken(c, c.clients[k]) ELSE RealityToken(c, c.clients[k])
  BY <1>2 DEF TokenFor, TuicToken, RealityToken
<1>4. k \in DOMAIN c.clients
  BY <1>3, CredFound DEF Loaded
<1>5. c.tuic \in BOOLEAN
  BY DEF Loaded, IsServerConfig
<1>6. CASE carrier = "tuic"
  <2>1. t = TuicToken(c, c.clients[k]) /\ c.tuic = TRUE
    BY <1>3, <1>5, <1>6
  <2>2. t.protocol = "tuic"
    BY <2>1 DEF TuicToken, Blank
  <2>3. u = t
    BY <1>1, <2>2 DEF Legacy
  <2>. QED
    BY <1>1, <1>3, <1>4, <2>1, <2>3 DEF Made
<1>7. CASE carrier = "reality"
  <2>1. t = RealityToken(c, c.clients[k])
    BY <1>3, <1>7
  <2>2. u = t \/ u = [t EXCEPT !.protocol = NoText]
    BY <1>1 DEF Legacy
  <2>. QED
    BY <1>1, <1>3, <1>4, <2>1, <2>2 DEF Made
<1>. QED
  BY <1>6, <1>7

(* AddClient keeps what the tokens of the other clients were made from. *)
LEMMA LongerConfig ==
  ASSUME NEW c, IsServerConfig(c), NEW cl \in Credential,
         NEW d, d = [c EXCEPT !.clients = Append(@, cl)]
  PROVE  /\ IsServerConfig(d)
         /\ d.addr = c.addr /\ d.listen = c.listen /\ d.control = c.control /\ d.mimic = c.mimic
         /\ d.key = c.key /\ d.pub = c.pub
         /\ d.tuic = c.tuic /\ d.tuicListen = c.tuicListen /\ d.tuicSNI = c.tuicSNI
         /\ d.clients = Append(c.clients, cl)
<1>1. d = [addr |-> c.addr, listen |-> c.listen, control |-> c.control, mimic |-> c.mimic,
           key |-> c.key, pub |-> c.pub, clients |-> Append(c.clients, cl),
           tuic |-> c.tuic, tuicListen |-> c.tuicListen, tuicSNI |-> c.tuicSNI]
  BY DEF IsServerConfig
<1>2. /\ d.addr = c.addr /\ d.listen = c.listen /\ d.control = c.control /\ d.mimic = c.mimic
      /\ d.key = c.key /\ d.pub = c.pub /\ d.clients = Append(c.clients, cl)
      /\ d.tuic = c.tuic /\ d.tuicListen = c.tuicListen /\ d.tuicSNI = c.tuicSNI
  BY <1>1
<1>3. c.clients \in Seq(Credential)
  BY DEF IsServerConfig
<1>4. d.clients \in Seq(Credential)
  BY <1>2, <1>3, SMTT(30)
<1>5. d = [addr |-> d.addr, listen |-> d.listen, control |-> d.control, mimic |-> d.mimic,
           key |-> d.key, pub |-> d.pub, clients |-> d.clients,
           tuic |-> d.tuic, tuicListen |-> d.tuicListen, tuicSNI |-> d.tuicSNI]
  BY <1>1, <1>2
<1>6. {c.listen, c.key, c.pub, c.tuicListen} \subseteq Nat /\ c.tuic \in BOOLEAN
  BY DEF IsServerConfig
<1>7. {d.listen, d.key, d.pub, d.tuicListen} \subseteq Nat /\ d.tuic \in BOOLEAN
  BY <1>2, <1>6
<1>8. IsServerConfig(d)
  BY <1>4, <1>5, <1>7 DEF IsServerConfig
<1>. QED
  BY <1>2, <1>8

LEMMA Longer ==
  ASSUME NEW c, Loaded(c), NEW cl \in Credential,
         NEW d, d = [c EXCEPT !.clients = Append(@, cl)]
  PROVE  /\ Loaded(d) /\ d.key = c.key
         /\ \A t : Made(t, c) => Made(t, d)
<1>1. IsServerConfig(c)
  BY DEF Loaded
<1>2. /\ d.addr = c.addr /\ d.listen = c.listen /\ d.control = c.control /\ d.mimic = c.mimic
      /\ d.key = c.key /\ d.pub = c.pub
      /\ d.tuic = c.tuic /\ d.tuicListen = c.tuicListen /\ d.tuicSNI = c.tuicSNI
      /\ d.clients = Append(c.clients, cl)
  BY <1>1, LongerConfig, SMTT(30)
<1>3. c.clients \in Seq(Credential)
  BY <1>1 DEF IsServerConfig
<1>4. \A k \in DOMAIN c.clients : k \in DOMAIN d.clients /\ d.clients[k] = c.clients[k]
  BY <1>2, <1>3, SMTT(30)
<1>5. IsServerConfig(d)
  BY <1>1, LongerConfig
<1>6. Loaded(d)
  BY <1>2, <1>5 DEF Loaded
<1>7. ASSUME NEW t, Made(t, c) PROVE Made(t, d)
  <2>1. PICK k \in DOMAIN c.clients :
          /\ c.clients[k].uuid # 0
          /\ \/ c.tuic /\ t = TuicToken(c, c.clients[k])
             \/ t = RealityToken(c, c.clients[k])
             \/ t = [RealityToken(c, c.clients[k]) EXCEPT !.protocol = NoText]
    BY <1>7 DEF Made
  <2>2. /\ TuicToken(d, c.clients[k]) = TuicToken(c, c.clients[k])
        /\ RealityToken(d, c.clients[k]) = RealityToken(c, c.clients[k])
    BY <1>2 DEF TuicToken, RealityToken, Blank
  <2>3. c.addr # NoText
    BY <1>7 DEF Made
  <2>4. k \in DOMAIN d.clients /\ d.clients[k] = c.clients[k]
    BY <1>4
  <2>5. /\ d.clients[k].uuid # 0
        /\ \/ d.tuic /\ t = TuicToken(d, d.clients[k])
           \/ t = RealityToken(d, d.clients[k])
           \/ t = [RealityToken(d, d.clients[k]) EXCEPT !.protocol = NoText]
    BY <1>2, <2>1, <2>2, <2>4
  <2>. QED
    BY <1>2, <2>3, <2>4, <2>5 DEF Made
<1>. QED
  BY <1>2, <1>6, <1>7

(* A token made from a configuration lets the client into a server that    *)
(* runs it.                                                                *)
LetsIn(t, s) ==
  /\ Decodes(t) /\ t.server = s.addr /\ t.control = s.control
  /\ Renders(BuildConfig(t))
  /\ LET tun == TunClientConfigJSON(BuildConfig(t)) IN
       /\ tun.detour = tun.tag
       /\ \E ib \in ServerConfigJSON(ServerParams(s)) :
            Accepts(ib, ClientConfigJSON(ClientParams(t))) /\ Accepts(ib, tun)
  /\ \E k \in DOMAIN s.clients : s.clients[k].uuid = t.uuid

LEMMA TuicLetsIn ==
  ASSUME NEW s, Loaded(s), s.tuic = TRUE, s.addr # NoText, NEW k \in DOMAIN s.clients,
         s.clients[k].uuid # 0, NEW t, t = TuicToken(s, s.clients[k])
  PROVE  LetsIn(t, s)
<1>0. PICK cl : cl = s.clients[k]
  OBVIOUS
<1>1. PICK u : u = cl.uuid
  OBVIOUS
<1>2. PICK pw : pw = IF cl.pw = 0 THEN cl.uuid ELSE cl.pw
  OBVIOUS
<1>3. PICK pub : pub = IF s.pub = 0 THEN s.key ELSE s.pub
  OBVIOUS
<1>4. t = [server |-> s.addr, port |-> s.listen, uuid |-> u, control |-> s.control,
           pub |-> 0, sni |-> NoText, tuicPort |-> s.tuicListen, tuicPw |-> pw,
           tuicSNI |-> s.tuicSNI, protocol |-> "tuic"]
  <2>1. t = TuicToken(s, cl)
    BY <1>0
  <2>2. TuicToken(s, cl) =
          [server |-> s.addr, port |-> s.listen, uuid |-> cl.uuid, control |-> s.control,
           pub |-> 0, sni |-> NoText, tuicPort |-> s.tuicListen, tuicPw |-> pw,
           tuicSNI |-> s.tuicSNI, protocol |-> "tuic"]
    BY <1>2, <1>3, TokenFields
  <2>. QED
    BY <1>1, <2>1, <2>2
<1>5. /\ t.server = s.addr /\ t.port = s.listen /\ t.uuid = u /\ t.control = s.control
      /\ t.sni = NoText /\ t.tuicPort = s.tuicListen /\ t.tuicPw = pw /\ t.tuicSNI = s.tuicSNI
      /\ t.protocol = "tuic"
  BY <1>4, SMTT(30)
<1>6. u # 0 /\ pw # 0 /\ Carrier(t) = "tuic" /\ s.tuicListen # 0
  BY <1>0, <1>1, <1>2, <1>5 DEF Carrier, Loaded
<1>7. PICK p : p = BuildConfig(t)
  OBVIOUS
<1>8. /\ ClientParams(t) = p
      /\ p.server = s.addr /\ p.uuid = u /\ p.sni = NoText /\ p.carrier = "tuic"
      /\ p.tuicPort = s.tuicListen /\ p.tuicPw = pw /\ p.tuicSNI = s.tuicSNI
  <2>1. PICK q : q = Params(t)
    BY SMTT(30)
  <2>2. q = [server |-> s.addr, port |-> s.listen, uuid |-> u, sni |-> NoText, carrier |-> "tuic",
             pub |-> 0, tuicPort |-> 0, tuicPw |-> 0, tuicSNI |-> NoText]
    BY <1>5, <1>6, <2>1 DEF Params
  <2>3. ClientParams(t) = [q EXCEPT !.tuicPort = t.tuicPort, !.tuicPw = t.tuicPw,
  !.tuicSNI = t.tuicSNI]
    BY <1>6, <2>1 DEF ClientParams
  <2>4. p = [q EXCEPT !.tuicPort = t.tuicPort, !.tuicPw = t.tuicPw, !.tuicSNI = t.tuicSNI]
    BY <1>6, <1>7, <2>1 DEF BuildConfig
  <2>5. /\ p.server = s.addr /\ p.uuid = u /\ p.sni = NoText /\ p.carrier = "tuic"
        /\ p.tuicPort = s.tuicListen /\ p.tuicPw = pw /\ p.tuicSNI = s.tuicSNI
    BY <1>5, <2>2, <2>4
  <2>. QED
    BY <2>3, <2>4, <2>5
<1>9. PICK ob : ob = ClientConfigJSON(p)
  OBVIOUS
<1>10. PICK tun : tun = TunClientConfigJSON(p)
  BY SMTT(30)
<1>11. OrDefault(p.tuicPort, 0, p.port) = s.tuicListen /\ OrDefault(p.tuicSNI, NoText, p.sni) = s.tuicSNI
  BY <1>6, <1>8 DEF OrDefault
<1>12. /\ ob.type = "tuic" /\ ob.tag = "tuic-out" /\ ob.final = "tuic-out"
       /\ ob.port = s.tuicListen /\ ob.sni = s.tuicSNI /\ ob.key = 0 /\ ob.user = <<u, pw>>
  BY <1>8, <1>9, <1>11 DEF ClientConfigJSON
<1>13. /\ tun.type = "tuic" /\ tun.tag = "tuic-out" /\ tun.final = "tuic-out" /\ tun.detour = "tuic-out"
       /\ tun.port = s.tuicListen /\ tun.sni = s.tuicSNI /\ tun.key = 0 /\ tun.user = <<u, pw>>
  BY <1>8, <1>10, <1>11 DEF TunClientConfigJSON
<1>14. PICK U : U = {<<s.clients[j].uuid, OrDefault(s.clients[j].pw, 0, s.clients[j].uuid)>> :
                       j \in DOMAIN s.clients}
  OBVIOUS
<1>15. PICK ib : ib = [type |-> "tuic", port |-> s.tuicListen, sni |-> s.tuicSNI, key |-> 0, users |-> U]
  OBVIOUS
<1>16. ib \in ServerConfigJSON(ServerParams(s))
  BY <1>14, <1>15 DEF ServerConfigJSON, ServerParams
<1>17. <<u, pw>> \in U
  <2>1. pw = OrDefault(cl.pw, 0, cl.uuid)
    BY <1>1, <1>2 DEF OrDefault
  <2>. QED
    BY <1>0, <1>1, <1>14, <2>1
<1>18. Accepts(ib, ob) /\ Accepts(ib, tun)
  BY <1>12, <1>13, <1>15, <1>17 DEF Accepts
<1>19. Decodes(t) /\ Renders(p)
  BY <1>5, <1>6, <1>8 DEF Decodes, Renders
<1>. QED
  BY <1>0, <1>1, <1>5, <1>7, <1>8, <1>9, <1>10, <1>13, <1>16, <1>18, <1>19, SMTT(30) DEF LetsIn

LEMMA RealityLetsIn ==
  ASSUME NEW s, Loaded(s), s.addr # NoText, NEW k \in DOMAIN s.clients, s.clients[k].uuid # 0,
         NEW t, \/ t = RealityToken(s, s.clients[k])
                \/ t = [RealityToken(s, s.clients[k]) EXCEPT !.protocol = NoText]
  PROVE  LetsIn(t, s)
<1>0. PICK cl : cl = s.clients[k]
  OBVIOUS
<1>1. PICK u : u = cl.uuid
  OBVIOUS
<1>2. PICK pw : pw = IF cl.pw = 0 THEN cl.uuid ELSE cl.pw
  OBVIOUS
<1>3. PICK pub : pub = IF s.pub = 0 THEN s.key ELSE s.pub
  OBVIOUS
<1>4. PICK protocol \in {"reality", NoText} :
        t = [server |-> s.addr, port |-> s.listen, uuid |-> cl.uuid, control |-> s.control,
             pub |-> pub, sni |-> s.mimic, tuicPort |-> 0, tuicPw |-> 0, tuicSNI |-> NoText,
             protocol |-> protocol]
  <2>1. t = RealityToken(s, cl) \/ t = [RealityToken(s, cl) EXCEPT !.protocol = NoText]
    BY <1>0
  <2>2. RealityToken(s, cl) =
          [server |-> s.addr, port |-> s.listen, uuid |-> cl.uuid, control |-> s.control,
           pub |-> pub, sni |-> s.mimic, tuicPort |-> 0, tuicPw |-> 0, tuicSNI |-> NoText,
           protocol |-> "reality"]
    BY <1>3, RealityFields
  <2>3. [RealityToken(s, cl) EXCEPT !.protocol = NoText] =
          [server |-> s.addr, port |-> s.listen, uuid |-> cl.uuid, control |-> s.control,
           pub |-> pub, sni |-> s.mimic, tuicPort |-> 0, tuicPw |-> 0, tuicSNI |-> NoText,
           protocol |-> NoText]
    BY <1>2, <1>3, TokenFields
  <2>. QED
    BY <2>1, <2>2, <2>3
<1>5. /\ t.server = s.addr /\ t.port = s.listen /\ t.uuid = u /\ t.control = s.control
      /\ t.sni = s.mimic /\ t.pub = pub /\ t.tuicPw = 0 /\ t.protocol = protocol
  BY <1>1, <1>4
<1>6. u # 0 /\ pub = s.key /\ pub # 0 /\ Carrier(t) = "reality"
  <2>1. protocol # "tuic"
    BY Texts
  <2>. QED
    BY <1>0, <1>1, <1>3, <1>5, <2>1 DEF Carrier, Loaded
<1>7. PICK p : p = BuildConfig(t)
  OBVIOUS
<1>8. /\ ClientParams(t) = p
      /\ p.server = s.addr /\ p.port = s.listen /\ p.uuid = u /\ p.sni = s.mimic
      /\ p.carrier = "reality" /\ p.pub = pub
  <2>1. PICK q : q = Params(t)
    BY SMTT(30)
  <2>2. q = [server |-> s.addr, port |-> s.listen, uuid |-> u, sni |-> s.mimic,
  carrier |-> "reality",
             pub |-> 0, tuicPort |-> 0, tuicPw |-> 0, tuicSNI |-> NoText]
    BY <1>5, <1>6, <2>1 DEF Params
  <2>3. ClientParams(t) = [q EXCEPT !.pub = t.pub]
    BY <1>6, <2>1 DEF ClientParams
  <2>4. p = [q EXCEPT !.pub = t.pub]
    BY <1>6, <1>7, <2>1 DEF BuildConfig
  <2>5. /\ p.server = s.addr /\ p.port = s.listen /\ p.uuid = u /\ p.sni = s.mimic
        /\ p.carrier = "reality" /\ p.pub = pub
    BY <1>5, <2>2, <2>4
  <2>. QED
    BY <2>3, <2>4, <2>5
<1>9. PICK ob : ob = ClientConfigJSON(p)
  OBVIOUS
<1>10. PICK tun : tun = TunClientConfigJSON(p)
  BY SMTT(30)
<1>11. /\ ob.type = "vless" /\ ob.tag = "vless-out" /\ ob.final = "vless-out"
       /\ ob.port = s.listen /\ ob.sni = s.mimic /\ ob.key = pub /\ ob.user = <<u, 0>>
  BY <1>8, <1>9 DEF ClientConfigJSON
<1>12. /\ tun.type = "vless" /\ tun.tag = "vless-out" /\ tun.final = "vless-out"
       /\ tun.detour = "vless-out"
       /\ tun.port = s.listen /\ tun.sni = s.mimic /\ tun.key = pub /\ tun.user = <<u, 0>>
  BY <1>8, <1>10 DEF TunClientConfigJSON
<1>13. PICK U : U = {<<s.clients[j].uuid, 0>> : j \in DOMAIN s.clients}
  OBVIOUS
<1>14. PICK ib : ib = [type |-> "vless", port |-> s.listen, sni |-> s.mimic, key |-> s.key, users |-> U]
  OBVIOUS
<1>15. ib \in ServerConfigJSON(ServerParams(s))
  BY <1>13, <1>14 DEF ServerConfigJSON, ServerParams
<1>16. <<u, 0>> \in U
  BY <1>0, <1>1, <1>13
<1>17. Accepts(ib, ob) /\ Accepts(ib, tun)
  BY <1>6, <1>11, <1>12, <1>14, <1>16 DEF Accepts
<1>18. Decodes(t) /\ Renders(p)
  BY <1>5, <1>6, <1>8 DEF Decodes, Renders
<1>. QED
  BY <1>0, <1>1, <1>5, <1>7, <1>8, <1>9, <1>10, <1>12, <1>15, <1>17, <1>18, SMTT(30) DEF LetsIn

LEMMA MadeLetsIn ==
  ASSUME NEW s, Loaded(s), NEW t, Made(t, s)
  PROVE  LetsIn(t, s)
<1>1. s.tuic \in BOOLEAN
  BY DEF Loaded, IsServerConfig
<1>2. PICK k \in DOMAIN s.clients :
        /\ s.clients[k].uuid # 0
        /\ \/ s.tuic /\ t = TuicToken(s, s.clients[k])
           \/ t = RealityToken(s, s.clients[k])
           \/ t = [RealityToken(s, s.clients[k]) EXCEPT !.protocol = NoText]
  BY DEF Made
<1>3. s.addr # NoText
  BY DEF Made
<1>. QED
  BY <1>1, <1>2, <1>3, TuicLetsIn, RealityLetsIn

(* The inductive invariant *)

LEMMA ProvTypeInit ==
  ASSUME ProvInit
  PROVE  ProvTypeOK
<1>1. IsFile(file)
  BY ProvisionAssumption DEF ProvInit, IsFile
<1>2. op = [o \in Ops |-> op[o]] /\ \A o \in Ops : op[o] = NoCommand
  BY DEF ProvInit
<1>3. fresh \in Nat /\ clash \in BOOLEAN
  BY DEF ProvInit
<1>. QED
  BY <1>1, <1>2, <1>3 DEF ProvTypeOK

(* A command moves: the others stay where they are. *)
LEMMA CommandMoves ==
  ASSUME ProvTypeOK, NEW o \in Ops, NEW p, p = NoCommand \/ IsCommand(p), op' = [op EXCEPT ![o] = p]
  PROVE  /\ op' = [q \in Ops |-> op'[q]] /\ op'[o] = p
         /\ \A q \in Ops \ {o} : op'[q] = op[q]
         /\ \A q \in Ops : op'[q] = NoCommand \/ IsCommand(op'[q])
<1>1. op = [q \in Ops |-> op[q]] /\ \A q \in Ops : op[q] = NoCommand \/ IsCommand(op[q])
  BY DEF ProvTypeOK
<1>2. /\ op' = [q \in Ops |-> op'[q]] /\ op'[o] = p
      /\ \A q \in Ops \ {o} : op'[q] = op[q]
  BY <1>1
<1>. QED
  BY <1>1, <1>2

(* A command that is saving goes on with what it has. *)
LEMMA CommandGoesOn ==
  ASSUME ProvTypeOK, NEW o \in Ops, op[o].at # "idle",
         NEW at \in {"save", "write", "token"}, op' = [op EXCEPT ![o].at = at]
  PROVE  /\ op' = [q \in Ops |-> op'[q]]
         /\ \A q \in Ops \ {o} : op'[q] = op[q]
         /\ \A q \in Ops : op'[q] = NoCommand \/ IsCommand(op'[q])
         /\ op'[o].at = at /\ op'[o].cfg = op[o].cfg /\ op'[o].name = op[o].name
<1>1. PICK c : c = op[o]
  OBVIOUS
<1>2. IsCommand(c)
  BY <1>1, SMTT(30) DEF ProvTypeOK, NoCommand
<1>3. PICK p : p = [c EXCEPT !.at = at]
  OBVIOUS
<1>4. op' = [op EXCEPT ![o] = p]
  BY <1>1, <1>3
<1>5. p = [at |-> at, read |-> c.read, name |-> c.name, force |-> c.force, cfg |-> c.cfg]
  BY <1>2, <1>3 DEF IsCommand
<1>6. p.at = at /\ p.read = c.read /\ p.name = c.name /\ p.force = c.force /\ p.cfg = c.cfg
  BY <1>5
<1>7. IsCommand(p)
  BY <1>2, <1>5, <1>6 DEF IsCommand
<1>. QED
  BY <1>1, <1>4, <1>6, <1>7, CommandMoves

LEMMA AddClientType ==
  ASSUME ProvTypeOK, NEW o \in Ops, NEW name \in Names, AddClient(o, name)
  PROVE  /\ ProvTypeOK'
         /\ \A q \in Ops \ {o} : op'[q] = op[q]
         /\ op'[o].at = "save" /\ op'[o].read = file /\ op'[o].force = FALSE
         /\ \E cl \in Credential : op'[o].cfg = [Filled(file) EXCEPT !.clients = Append(@, cl)]
<1>1. PICK cl : cl = [name |-> name, uuid |-> fresh + 1, pw |-> 0]
  OBVIOUS
<1>2. cl \in Credential
  BY <1>1, SMTT(30) DEF Credential, ProvTypeOK
<1>3. PICK d : d = [Filled(file) EXCEPT !.clients = Append(@, cl)]
  OBVIOUS
<1>4. IsServerConfig(Filled(file))
  BY FilledConfig DEF AddClient, Loads, ProvTypeOK, IsFile
<1>5. IsServerConfig(d)
  BY <1>2, <1>3, <1>4, LongerConfig
<1>6. PICK p : p = [at |-> "save", read |-> file, name |-> name, force |-> FALSE, cfg |-> d]
  OBVIOUS
<1>7. p.at = "save" /\ p.read = file /\ p.name = name /\ p.force = FALSE /\ p.cfg = d
  BY <1>6
<1>8. IsFile(file)
  BY DEF ProvTypeOK
<1>9. IsCommand(p)
  BY <1>5, <1>6, <1>7, <1>8 DEF IsCommand
<1>10. op' = [op EXCEPT ![o] = p]
  BY <1>1, <1>3, <1>6 DEF AddClient, LoadServer
<1>11. /\ op' = [q \in Ops |-> op'[q]] /\ op'[o] = p
       /\ \A q \in Ops \ {o} : op'[q] = op[q]
       /\ \A q \in Ops : op'[q] = NoCommand \/ IsCommand(op'[q])
  BY <1>9, <1>10, CommandMoves
<1>12. file' = file /\ fresh' \in Nat /\ clash' \in BOOLEAN
  BY SMTT(30) DEF AddClient, ProvTypeOK
<1>13. IsFile(file')
  BY <1>8, <1>12
<1>14. ProvTypeOK'
  BY <1>11, <1>12, <1>13 DEF ProvTypeOK, IsFile
<1>. QED
  BY <1>2, <1>3, <1>7, <1>11, <1>14

LEMMA InitServerType ==
  ASSUME ProvTypeOK, NEW o \in Ops, NEW name \in Names, NEW force \in BOOLEAN, InitServer(o, name, force)
  PROVE  /\ ProvTypeOK'
         /\ \A q \in Ops \ {o} : op'[q] = op[q]
         /\ op'[o].at = "save" /\ Loaded(op'[o].cfg) /\ op'[o].cfg.key = fresh + 1
<1>1. PICK u \in Nat : u = fresh + 1 /\ u # 0
  BY SMTT(30) DEF ProvTypeOK
<1>2. PICK L : L = <<[name |-> name, uuid |-> u, pw |-> 0]>>
  OBVIOUS
<1>3. L \in Seq(Credential)
  BY <1>1, <1>2, SMTT(30) DEF Credential
<1>4. PICK d : d = [addr |-> "vps", listen |-> DefaultPort, control |-> "127.0.0.1:8443", mimic |-> "mimic",
                    key |-> u, pub |-> u, clients |-> L,
                    tuic |-> FALSE, tuicListen |-> 0, tuicSNI |-> NoText]
  OBVIOUS
<1>5. /\ d.addr = "vps" /\ d.listen = DefaultPort /\ d.control = "127.0.0.1:8443" /\ d.mimic = "mimic"
      /\ d.key = u /\ d.pub = u /\ d.clients = L
      /\ d.tuic = FALSE /\ d.tuicListen = 0 /\ d.tuicSNI = NoText
  BY <1>4
<1>6. d = [addr |-> d.addr, listen |-> d.listen, control |-> d.control, mimic |-> d.mimic,
           key |-> d.key, pub |-> d.pub, clients |-> d.clients,
           tuic |-> d.tuic, tuicListen |-> d.tuicListen, tuicSNI |-> d.tuicSNI]
  BY <1>4, <1>5
<1>7. {d.listen, d.key, d.pub, d.tuicListen} \subseteq Nat /\ d.tuic \in BOOLEAN /\ d.listen # 0
  <2>1. DefaultPort \in Nat /\ DefaultPort # 0 /\ 0 \in Nat /\ FALSE \in BOOLEAN
    BY SMTT(30) DEF DefaultPort
  <2>. QED
    BY <1>1, <1>5, <2>1
<1>8. IsServerConfig(d)
  BY <1>3, <1>5, <1>6, <1>7 DEF IsServerConfig
<1>9. Loaded(d)
  BY <1>1, <1>5, <1>7, <1>8, Texts DEF Loaded
<1>10. PICK p : p = [at |-> "save", read |-> file, name |-> name, force |-> force, cfg |-> d]
  OBVIOUS
<1>11. p.at = "save" /\ p.read = file /\ p.name = name /\ p.force = force /\ p.cfg = d
  BY <1>10
<1>12. IsFile(file)
  BY DEF ProvTypeOK
<1>13. IsCommand(p)
  BY <1>8, <1>10, <1>11, <1>12 DEF IsCommand
<1>14. op' = [op EXCEPT ![o] = p]
  BY <1>1, <1>2, <1>4, <1>10 DEF InitServer
<1>15. /\ op' = [q \in Ops |-> op'[q]] /\ op'[o] = p
       /\ \A q \in Ops \ {o} : op'[q] = op[q]
       /\ \A q \in Ops : op'[q] = NoCommand \/ IsCommand(op'[q])
  BY <1>13, <1>14, CommandMoves
<1>16. file' = file /\ fresh' \in Nat /\ clash' \in BOOLEAN
  BY SMTT(30) DEF InitServer, ProvTypeOK
<1>17. IsFile(file')
  BY <1>12, <1>16
<1>18. ProvTypeOK'
  BY <1>15, <1>16, <1>17 DEF ProvTypeOK, IsFile
<1>. QED
  BY <1>1, <1>5, <1>9, <1>11, <1>15, <1>18

LEMMA TruncateType ==
  ASSUME ProvTypeOK, NEW o \in Ops, Truncate(o)
  PROVE  /\ ProvTypeOK'
         /\ \A q \in Ops \ {o} : op'[q] = op[q]
         /\ op'[o].at = "write" /\ op'[o].cfg = op[o].cfg /\ op'[o].name = op[o].name
<1>1. op[o].at # "idle" /\ op' = [op EXCEPT ![o].at = "write"]
  BY DEF Truncate
<1>2. /\ op' = [q \in Ops |-> op'[q]]
      /\ \A q \in Ops \ {o} : op'[q] = op[q]
      /\ \A q \in Ops : op'[q] = NoCommand \/ IsCommand(op'[q])
      /\ op'[o].at = "write" /\ op'[o].cfg = op[o].cfg /\ op'[o].name = op[o].name
  BY <1>1, CommandGoesOn
<1>3. fresh' \in Nat /\ clash' \in BOOLEAN /\ IsFile(file')
  BY DEF Truncate, ProvTypeOK, IsFile
<1>4. ProvTypeOK'
  BY <1>2, <1>3 DEF ProvTypeOK, IsFile
<1>. QED
  BY <1>2, <1>4

LEMMA WriteType ==
  ASSUME ProvTypeOK, NEW o \in Ops, Write(o)
  PROVE  /\ ProvTypeOK'
         /\ \A q \in Ops \ {o} : op'[q] = op[q]
         /\ op'[o].at = "token" /\ op'[o].cfg = op[o].cfg /\ op'[o].name = op[o].name
<1>1. op[o].at # "idle" /\ op' = [op EXCEPT ![o].at = "token"]
  BY DEF Write
<1>2. /\ op' = [q \in Ops |-> op'[q]]
      /\ \A q \in Ops \ {o} : op'[q] = op[q]
      /\ \A q \in Ops : op'[q] = NoCommand \/ IsCommand(op'[q])
      /\ op'[o].at = "token" /\ op'[o].cfg = op[o].cfg /\ op'[o].name = op[o].name
  BY <1>1, CommandGoesOn
<1>3. IsServerConfig(op[o].cfg)
  BY <1>1, SMTT(30) DEF ProvTypeOK, NoCommand, IsCommand
<1>4. file' = op[o].cfg \/ file' = Mixed
  BY DEF Write
<1>5. fresh' \in Nat /\ clash' \in BOOLEAN /\ IsFile(file')
  BY <1>3, <1>4 DEF Write, ProvTypeOK, IsFile
<1>6. ProvTypeOK'
  BY <1>2, <1>5 DEF ProvTypeOK, IsFile
<1>. QED
  BY <1>2, <1>6

LEMMA EndType ==
  ASSUME ProvTypeOK, NEW o \in Ops, PrintToken(o) \/ Stops(o)
  PROVE  /\ ProvTypeOK'
         /\ \A q \in Ops \ {o} : op'[q] = op[q]
         /\ op'[o].at = "idle"
<1>1. op' = [op EXCEPT ![o] = NoCommand]
  BY DEF PrintToken, Stops
<1>2. /\ op' = [q \in Ops |-> op'[q]] /\ op'[o] = NoCommand
      /\ \A q \in Ops \ {o} : op'[q] = op[q]
      /\ \A q \in Ops : op'[q] = NoCommand \/ IsCommand(op'[q])
  BY <1>1, CommandMoves
<1>3. fresh' \in Nat /\ clash' \in BOOLEAN /\ IsFile(file')
  BY DEF PrintToken, Stops, ProvTypeOK, IsFile
<1>4. ProvTypeOK'
  BY <1>2, <1>3 DEF ProvTypeOK, IsFile
<1>. QED
  BY <1>2, <1>4, SMTT(30) DEF NoCommand

(* The tokens that are out. *)
LEMMA OutstandingIs ==
  ASSUME NEW i
  PROVE  i \in Outstanding <=> i \in issued \/ \E q \in Ops : op[q].at = "token" /\ i \in Pending(q)
  BY DEF Outstanding

(* Only the tokens of the command that moves come and go. *)
LEMMA OutstandingAfter ==
  ASSUME NEW o \in Ops, \A q \in Ops \ {o} : op'[q] = op[q],
         NEW i \in Outstanding'
  PROVE  \/ i \in Outstanding
         \/ i \in issued'
         \/ op'[o].at = "token" /\ i \in Pending(o)'
<1>1. i \in issued' \/ \E q \in Ops : op'[q].at = "token" /\ i \in Pending(q)'
  BY DEF Outstanding
<1>2. ASSUME NEW q \in Ops \ {o}, op'[q].at = "token", i \in Pending(q)' PROVE i \in Outstanding
  <2>1. op'[q] = op[q]
    OBVIOUS
  <2>2. Pending(q)' = Pending(q)
    BY <2>1 DEF Pending
  <2>. QED
    BY <1>2, <2>1, <2>2 DEF Outstanding
<1>. QED
  BY <1>1, <1>2

(* A command that has not begun to write leaves the others what they have. *)
LEMMA OthersKeep ==
  ASSUME ProvTypeOK, Lineage, Outstanding' \subseteq Outstanding, file' = file,
         fresh' \in Nat, fresh <= fresh',
         NEW o \in Ops, \A q \in Ops \ {o} : op'[q] = op[q], op'[o].at \in {"idle", "save"},
         NEW q \in Ops \ {o}, op[q].at # "idle",
         Unused(q) => op'[o].at = "idle" \/ op'[o].cfg.key # op[q].cfg.key
  PROVE  CommandInv(q)'
<1>1. CommandInv(q) /\ op'[q] = op[q]
  BY DEF Lineage
<1>2. op[q].cfg.key \in Nat /\ fresh \in Nat
  BY <1>1 DEF CommandInv, Loaded, IsServerConfig, ProvTypeOK
<1>3. Loaded(op'[q].cfg) /\ op'[q].cfg.key <= fresh'
  BY <1>1, <1>2, SMTT(30) DEF CommandInv
<1>4. ASSUME op[q].at = "save" PROVE (Unused(q) \/ Extended(q))'
  <2>1. CASE Extended(q)
    BY <1>1, <2>1 DEF Extended
  <2>2. CASE Unused(q)
    <3>1. \A i \in Outstanding' : i.key # op'[q].cfg.key
      BY <1>1, <2>2 DEF Unused
    <3>2. \A r \in Ops \ {q} : op'[r].at # "idle" => op'[r].cfg.key # op'[q].cfg.key
      BY <1>1, <2>2 DEF Unused
    <3>3. Loads' => file'.key # op'[q].cfg.key
      BY <1>1, <2>2 DEF Unused, Loads
    <3>. QED
      BY <3>1, <3>2, <3>3 DEF Unused
  <2>. QED
    BY <1>1, <1>4, <2>1, <2>2 DEF CommandInv
<1>5. ASSUME op[q].at = "write"
      PROVE  file' = Empty /\ Covers(op[q].cfg)' /\ \A r \in Ops \ {q} : op'[r].at # "write"
  BY <1>1, <1>5 DEF CommandInv, Covers
<1>. QED
  BY <1>1, <1>3, <1>4, <1>5 DEF CommandInv

(* The file and the server still accept the tokens there are. *)
LEMMA FileKept ==
  ASSUME ProvTypeOK, Lineage, Outstanding' \subseteq Outstanding, file' = file,
         fresh' \in Nat, fresh <= fresh'
  PROVE  FileInv' /\ \A i \in Outstanding' : i.key \in Nat /\ i.key <= fresh'
<1>1. fresh \in Nat /\ \A i \in Outstanding : i.key \in Nat /\ i.key <= fresh
  BY DEF Lineage, ProvTypeOK
<1>. SUFFICES FileInv'
  BY <1>1, SMTT(30)
<1>2. CASE file \in {Absent, Empty}
  BY <1>2 DEF FileInv
<1>3. CASE Loads /\ Loaded(Filled(file)) /\ file.key <= fresh /\ Covers(Filled(file))
  <2>1. IsServerConfig(file)
    BY <1>3 DEF ProvTypeOK, IsFile, Loads
  <2>2. file.key \in Nat /\ fresh \in Nat
    BY <2>1 DEF IsServerConfig, ProvTypeOK
  <2>3. Loads' /\ Loaded(Filled(file')) /\ file'.key <= fresh'
    BY <1>3, <2>2, SMTT(30) DEF Loads
  <2>4. \A i \in Outstanding' : i.key = Filled(file').key => Made(i.tok, Filled(file'))
    BY <1>3 DEF Covers
  <2>. QED
    BY <2>3, <2>4 DEF FileInv, Covers
<1>. QED
  BY <1>2, <1>3 DEF Lineage, FileInv

LEMMA InitServerLineage ==
  ASSUME ProvTypeOK, Lineage, NEW o \in Ops, NEW name \in Names, NEW force \in BOOLEAN,
         InitServer(o, name, force)
  PROVE  Lineage'
<1>1. /\ \A q \in Ops \ {o} : op'[q] = op[q]
      /\ op'[o].at = "save" /\ Loaded(op'[o].cfg) /\ op'[o].cfg.key = fresh + 1
  BY InitServerType
<1>2. fresh \in Nat /\ fresh' = fresh + 1 /\ file' = file /\ issued' = issued
      /\ server' = server /\ known' = known
  BY DEF InitServer, ProvTypeOK
<1>3. Outstanding' \subseteq Outstanding
  BY <1>1, <1>2, OutstandingAfter, OutstandingIs
<1>4. FileInv' /\ \A i \in Outstanding' : i.key \in Nat /\ i.key <= fresh'
  BY <1>2, <1>3, FileKept, SMTT(30)
<1>5. ASSUME NEW q \in Ops \ {o}, op[q].at # "idle"
      PROVE  CommandInv(q)' /\ op[q].cfg.key # fresh + 1
  <2>1. op[q].cfg.key \in Nat /\ op[q].cfg.key <= fresh
    BY <1>5 DEF Lineage, CommandInv, Loaded, IsServerConfig
  <2>2. op[q].cfg.key # fresh + 1
    BY <1>2, <2>1, SMTT(30)
  <2>. QED
    BY <1>1, <1>2, <1>3, <1>5, <2>2, OthersKeep, SMTT(30)
<1>6. Unused(o)'
  <2>1. \A i \in Outstanding : i.key \in Nat /\ i.key <= fresh
    BY DEF Lineage
  <2>2. \A i \in Outstanding' : i.key # fresh + 1
    BY <1>2, <1>3, <2>1, SMTT(30)
  <2>3. Loads => file.key # fresh + 1
    <3>1. ASSUME Loads PROVE file.key <= fresh /\ IsServerConfig(file)
      BY <3>1 DEF Lineage, FileInv, Loads, ProvTypeOK, IsFile
    <3>. QED
      BY <1>2, <3>1, SMTT(30) DEF IsServerConfig
  <2>4. Loads' => file'.key # fresh + 1
    BY <1>2, <2>3 DEF Loads
  <2>. QED
    BY <1>1, <1>5, <2>2, <2>4 DEF Unused
<1>7. CommandInv(o)'
  BY <1>1, <1>2, <1>6, SMTT(30) DEF CommandInv, Loaded, IsServerConfig
<1>8. ServerInv'
  BY <1>2 DEF Lineage, ServerInv
<1>. QED
  BY <1>1, <1>4, <1>5, <1>7, <1>8 DEF Lineage

LEMMA AddClientLineage ==
  ASSUME ProvTypeOK, Lineage, NEW o \in Ops, NEW name \in Names, AddClient(o, name)
  PROVE  Lineage'
<1>1. /\ \A q \in Ops \ {o} : op'[q] = op[q]
      /\ op'[o].at = "save" /\ op'[o].read = file /\ op'[o].force = FALSE
  BY AddClientType
<1>2. PICK cl \in Credential : op'[o].cfg = [Filled(file) EXCEPT !.clients = Append(@, cl)]
  BY AddClientType
<1>3. fresh \in Nat /\ fresh' = fresh + 1 /\ file' = file /\ issued' = issued
      /\ server' = server /\ known' = known
  BY DEF AddClient, ProvTypeOK
<1>4. Loads /\ Loaded(Filled(file)) /\ file.key <= fresh /\ IsServerConfig(file)
  BY DEF AddClient, Lineage, FileInv, Loads, ProvTypeOK, IsFile
<1>5. Loaded(op'[o].cfg) /\ op'[o].cfg.key = file.key
  <2>1. PICK c : c = Filled(file)
    OBVIOUS
  <2>2. \A d : d = [c EXCEPT !.clients = Append(@, cl)] => Loaded(d) /\ d.key = c.key
    BY <1>4, <2>1, Longer
  <2>3. Filled(file).key = file.key
    BY <1>4, FilledConfig
  <2>. QED
    BY <1>2, <2>1, <2>2, <2>3
<1>6. Outstanding' \subseteq Outstanding
  BY <1>1, <1>3, OutstandingAfter, OutstandingIs
<1>7. FileInv' /\ \A i \in Outstanding' : i.key \in Nat /\ i.key <= fresh'
  BY <1>3, <1>6, FileKept, SMTT(30)
<1>8. ASSUME NEW q \in Ops \ {o}, op[q].at # "idle"
      PROVE  CommandInv(q)'
  <2>1. Unused(q) => op'[o].cfg.key # op[q].cfg.key
    BY <1>4, <1>5 DEF Unused
  <2>. QED
    BY <1>1, <1>3, <1>6, <1>8, <2>1, OthersKeep, SMTT(30)
<1>9. CommandInv(o)'
  <2>1. Extended(o)'
    BY <1>1, <1>2, <1>4 DEF Extended, Loads
  <2>2. op'[o].cfg.key <= fresh'
    BY <1>3, <1>4, <1>5, SMTT(30) DEF IsServerConfig
  <2>. QED
    BY <1>1, <1>5, <2>1, <2>2 DEF CommandInv
<1>10. ServerInv'
  BY <1>3 DEF Lineage, ServerInv
<1>. QED
  BY <1>1, <1>7, <1>8, <1>9, <1>10 DEF Lineage

(* A token that is printed was already counted. *)
LEMMA EndLineage ==
  ASSUME ProvTypeOK, Lineage, NEW o \in Ops, PrintToken(o) \/ Stops(o)
  PROVE  Lineage'
<1>1. (\A q \in Ops \ {o} : op'[q] = op[q]) /\ op'[o].at = "idle"
  BY EndType
<1>2. fresh \in Nat /\ fresh' = fresh /\ file' = file /\ server' = server /\ known' = known
  BY DEF PrintToken, Stops, ProvTypeOK
<1>3. issued' \subseteq Outstanding
  <2>1. CASE Stops(o)
    BY <2>1, OutstandingIs DEF Stops
  <2>2. CASE PrintToken(o)
    <3>1. issued' = issued \cup Pending(o)
      BY <2>2 DEF PrintToken, Issues, Pending, Printed
    <3>2. op[o].at = "token"
      BY <2>2 DEF PrintToken
    <3>. QED
      BY <3>1, <3>2, OutstandingIs
  <2>. QED
    BY <2>1, <2>2
<1>4. Outstanding' \subseteq Outstanding
  BY <1>1, <1>3, OutstandingAfter
<1>5. FileInv' /\ \A i \in Outstanding' : i.key \in Nat /\ i.key <= fresh'
  BY <1>2, <1>4, FileKept, SMTT(30)
<1>6. ASSUME NEW q \in Ops \ {o}, op[q].at # "idle"
      PROVE  CommandInv(q)'
  BY <1>1, <1>2, <1>4, <1>6, OthersKeep, SMTT(30)
<1>7. ServerInv'
  BY <1>2 DEF Lineage, ServerInv
<1>. QED
  BY <1>1, <1>5, <1>6, <1>7 DEF Lineage

(* The file is emptied: what will be written still covers the tokens that  *)
(* were made from what it held.                                            *)
LEMMA TruncateLineage ==
  ASSUME ProvTypeOK, Lineage, clash' = FALSE, NEW o \in Ops, Truncate(o)
  PROVE  Lineage'
<1>1. /\ \A q \in Ops \ {o} : op'[q] = op[q]
      /\ op'[o].at = "write" /\ op'[o].cfg = op[o].cfg
  BY TruncateType
<1>2. /\ op[o].at = "save" /\ file' = Empty
      /\ file = op[o].read \/ op[o].force
      /\ \A q \in Ops : op[q].at # "write"
  BY DEF Truncate
<1>3. fresh' = fresh /\ issued' = issued /\ server' = server /\ known' = known
  BY DEF Truncate
<1>4. Outstanding' \subseteq Outstanding
  BY <1>1, <1>3, OutstandingAfter, OutstandingIs
<1>5. CommandInv(o) /\ (Unused(o) \/ Extended(o))
  BY <1>2 DEF Lineage, CommandInv
<1>6. PICK d : d = op[o].cfg
  OBVIOUS
<1>7. Covers(d)
  <2>1. CASE Unused(o)
    BY <1>6, <2>1 DEF Unused, Covers
  <2>2. CASE Extended(o)
    <3>1. file = op[o].read /\ file \notin {Absent, Empty, Mixed}
      BY <1>2, <2>2 DEF Extended
    <3>2. PICK cl \in Credential : d = [Filled(file) EXCEPT !.clients = Append(@, cl)]
      BY <1>6, <2>2, <3>1 DEF Extended
    <3>3. Loaded(Filled(file)) /\ Covers(Filled(file))
      BY <3>1 DEF Lineage, FileInv
    <3>4. d.key = Filled(file).key /\ \A t : Made(t, Filled(file)) => Made(t, d)
      BY <3>2, <3>3, Longer, SMTT(30)
    <3>. QED
      BY <3>3, <3>4 DEF Covers
  <2>. QED
    BY <1>5, <2>1, <2>2
<1>8. CommandInv(o)'
  <2>1. Loaded(op'[o].cfg) /\ op'[o].cfg.key <= fresh'
    BY <1>1, <1>3, <1>5 DEF CommandInv
  <2>2. \A i \in Outstanding' : i.key = op'[o].cfg.key => Made(i.tok, op'[o].cfg)
    BY <1>1, <1>4, <1>6, <1>7 DEF Covers
  <2>3. \A q \in Ops \ {o} : op'[q].at # "write"
    BY <1>1, <1>2
  <2>. QED
    BY <1>1, <1>2, <2>1, <2>2, <2>3 DEF CommandInv, Covers
<1>9. ASSUME NEW q \in Ops \ {o}, op[q].at # "idle"
      PROVE  CommandInv(q)'
  <2>1. CommandInv(q) /\ op'[q] = op[q] /\ op[q].at # "write"
    BY <1>1, <1>2, <1>9 DEF Lineage
  <2>2. Loaded(op'[q].cfg) /\ op'[q].cfg.key <= fresh'
    BY <1>3, <2>1 DEF CommandInv
  <2>3. ASSUME op[q].at = "save" PROVE (Unused(q) \/ Extended(q))'
    <3>1. CASE Extended(q)
      BY <2>1, <3>1 DEF Extended
    <3>2. CASE Unused(q)
      <4>1. \A i \in Outstanding' : i.key # op'[q].cfg.key
        BY <1>4, <2>1, <3>2 DEF Unused
      <4>2. \A r \in Ops \ {q} : op'[r].at # "idle" => op'[r].cfg.key # op'[q].cfg.key
        BY <1>1, <1>2, <2>1, <3>2 DEF Unused
      <4>3. ~Loads'
        BY <1>2 DEF Loads
      <4>. QED
        BY <4>1, <4>2, <4>3 DEF Unused
    <3>. QED
      BY <2>1, <2>3, <3>1, <3>2 DEF CommandInv
  <2>. QED
    BY <2>1, <2>2, <2>3 DEF CommandInv
<1>10. FileInv'
  BY <1>2 DEF FileInv
<1>11. \A i \in Outstanding' : i.key \in Nat /\ i.key <= fresh'
  BY <1>3, <1>4 DEF Lineage
<1>12. ServerInv'
  BY <1>3 DEF Lineage, ServerInv
<1>. QED
  BY <1>1, <1>8, <1>9, <1>10, <1>11, <1>12 DEF Lineage

(* The file is written: it covers the tokens there were, and the one that  *)
(* the command will print.                                                 *)
LEMMA WriteLineage ==
  ASSUME ProvTypeOK, Lineage, NEW o \in Ops, Write(o)
  PROVE  Lineage'
<1>1. /\ \A q \in Ops \ {o} : op'[q] = op[q]
      /\ op'[o].at = "token" /\ op'[o].cfg = op[o].cfg /\ op'[o].name = op[o].name
  BY WriteType
<1>2. /\ op[o].at = "write" /\ fresh' = fresh /\ issued' = issued /\ server' = server /\ known' = known
      /\ file' \in IF file = Empty THEN {op[o].cfg} ELSE {op[o].cfg, Mixed}
  BY DEF Write
<1>3. CommandInv(o)
  BY <1>2 DEF Lineage
<1>4. PICK d : d = op[o].cfg
  OBVIOUS
<1>5. /\ file' = d /\ Loaded(d) /\ d.key \in Nat /\ d.key <= fresh /\ Covers(d)
      /\ \A q \in Ops \ {o} : op[q].at # "write"
  BY <1>2, <1>3, <1>4 DEF CommandInv, Loaded, IsServerConfig
<1>6. ASSUME NEW i \in Outstanding'
      PROVE  i \in Outstanding \/ (i.key = d.key /\ Made(i.tok, d))
  <2>1. CASE i \in Outstanding \/ i \in issued'
    BY <1>2, <2>1, OutstandingIs
  <2>2. CASE i \in Pending(o)'
    <3>1. i \in Printed(d, TokenFor(d, op[o].name, "reality"))
      BY <1>1, <1>4, <2>2 DEF Pending
    <3>. QED
      BY <1>5, <3>1, TokenMade
  <2>. QED
    BY <1>1, <1>6, <2>1, <2>2, OutstandingAfter
<1>7. \A i \in Outstanding' : i.key \in Nat /\ i.key <= fresh'
  BY <1>2, <1>5, <1>6 DEF Lineage
<1>8. FileInv'
  <2>1. Filled(d) = d
    BY <1>5, FilledAgain
  <2>2. d # Absent /\ d # Empty /\ d # Mixed
    BY <1>5, NoConfigs DEF Loaded
  <2>3. \A i \in Outstanding' : i.key = d.key => Made(i.tok, d)
    BY <1>5, <1>6 DEF Covers
  <2>4. Loads' /\ Loaded(Filled(file')) /\ file'.key <= fresh'
    BY <1>2, <1>5, <2>1, <2>2 DEF Loads
  <2>5. \A i \in Outstanding' : i.key = Filled(file').key => Made(i.tok, Filled(file'))
    BY <1>5, <2>1, <2>3
  <2>. QED
    BY <2>4, <2>5 DEF FileInv, Covers
<1>9. CommandInv(o)'
  BY <1>1, <1>2, <1>4, <1>5 DEF CommandInv
<1>10. ASSUME NEW q \in Ops \ {o}, op[q].at # "idle"
       PROVE  CommandInv(q)'
  <2>1. CommandInv(q) /\ op'[q] = op[q] /\ op[q].at # "write"
    BY <1>1, <1>5, <1>10 DEF Lineage
  <2>2. Loaded(op'[q].cfg) /\ op'[q].cfg.key <= fresh'
    BY <1>2, <2>1 DEF CommandInv
  <2>3. ASSUME op[q].at = "save" PROVE (Unused(q) \/ Extended(q))'
    <3>1. CASE Extended(q)
      BY <2>1, <3>1 DEF Extended
    <3>2. CASE Unused(q)
      <4>1. d.key # op[q].cfg.key
        BY <1>2, <1>4, <3>2 DEF Unused
      <4>2. \A i \in Outstanding' : i.key # op'[q].cfg.key
        BY <1>6, <2>1, <3>2, <4>1 DEF Unused
      <4>3. \A r \in Ops \ {q} : op'[r].at # "idle" => op'[r].cfg.key # op'[q].cfg.key
        BY <1>1, <1>2, <2>1, <3>2 DEF Unused
      <4>4. file'.key # op'[q].cfg.key
        BY <1>5, <2>1, <4>1
      <4>. QED
        BY <4>2, <4>3, <4>4 DEF Unused
    <3>. QED
      BY <2>1, <2>3, <3>1, <3>2 DEF CommandInv
  <2>. QED
    BY <2>1, <2>2, <2>3 DEF CommandInv
<1>11. ServerInv'
  BY <1>2 DEF Lineage, ServerInv
<1>. QED
  BY <1>1, <1>7, <1>8, <1>9, <1>10, <1>11 DEF Lineage

LEMMA GenTokenLineage ==
  ASSUME ProvTypeOK, Lineage, NEW name, NEW carrier \in {"reality", "tuic"}, GenToken(name, carrier)
  PROVE  Lineage'
<1>1. op' = op /\ file' = file /\ fresh' = fresh /\ server' = server /\ known' = known
  BY DEF GenToken
<1>2. PICK c : c = Filled(file)
  OBVIOUS
<1>3. /\ Loads /\ IsServerConfig(file) /\ Loaded(c) /\ file.key \in Nat /\ file.key <= fresh /\ Covers(c)
  BY <1>2 DEF GenToken, Lineage, FileInv, Loads, ProvTypeOK, IsFile, IsServerConfig
<1>4. c.key = file.key
  BY <1>2, <1>3, FilledConfig
<1>5. issued' = issued \cup Printed(c, TokenFor(c, name, carrier))
  BY <1>2 DEF GenToken, Issues, Printed, LoadServer
<1>6. ASSUME NEW i \in Outstanding'
      PROVE  i \in Outstanding \/ (i.key = file.key /\ Made(i.tok, c))
  <2>1. i \in issued' \/ i \in Outstanding
    BY <1>1 DEF Outstanding, Pending
  <2>2. CASE i \in Printed(c, TokenFor(c, name, carrier))
    BY <1>3, <1>4, <2>2, TokenMade
  <2>. QED
    BY <1>5, <2>1, <2>2, OutstandingIs
<1>7. \A i \in Outstanding' : i.key \in Nat /\ i.key <= fresh'
  BY <1>1, <1>3, <1>6 DEF Lineage
<1>8. FileInv'
  <2>1. Loads' /\ Loaded(Filled(file')) /\ file'.key <= fresh'
    BY <1>1, <1>2, <1>3 DEF Loads
  <2>2. \A i \in Outstanding' : i.key = Filled(file').key => Made(i.tok, Filled(file'))
    BY <1>1, <1>2, <1>3, <1>6 DEF Covers
  <2>. QED
    BY <2>1, <2>2 DEF FileInv, Covers
<1>9. ASSUME NEW q \in Ops, op[q].at # "idle"
      PROVE  CommandInv(q)'
  <2>1. CommandInv(q) /\ op[q].at # "write"
    BY <1>3, <1>9 DEF Lineage, CommandInv, Loads
  <2>2. ASSUME op[q].at = "save" PROVE (Unused(q) \/ Extended(q))'
    <3>1. CASE Extended(q)
      BY <1>1, <3>1 DEF Extended
    <3>2. CASE Unused(q)
      <4>1. \A i \in Outstanding' : i.key # op'[q].cfg.key
        BY <1>1, <1>3, <1>6, <3>2 DEF Unused
      <4>. QED
        BY <1>1, <3>2, <4>1 DEF Unused, Loads
    <3>. QED
      BY <2>1, <2>2, <3>1, <3>2 DEF CommandInv
  <2>. QED
    BY <1>1, <2>1, <2>2 DEF CommandInv
<1>10. ServerInv'
  BY <1>1 DEF Lineage, ServerInv
<1>. QED
  BY <1>1, <1>7, <1>8, <1>9, <1>10 DEF Lineage

(* The server and the file are left alone by what neither writes. *)
LEMMA RestLineage ==
  ASSUME Lineage, UNCHANGED <<file, op, fresh, issued>>
  PROVE  /\ \A i \in Outstanding' : i.key \in Nat /\ i.key <= fresh'
         /\ \A o \in Ops : op'[o].at # "idle" => CommandInv(o)'
         /\ FileInv'
<1>1. Outstanding' = Outstanding
  BY DEF Outstanding, Pending
<1>2. ASSUME NEW o \in Ops, op[o].at # "idle" PROVE CommandInv(o)'
  <2>1. CommandInv(o)
    BY <1>2 DEF Lineage
  <2>2. Unused(o) => Unused(o)'
    BY <1>1 DEF Unused, Loads
  <2>3. Extended(o) => Extended(o)'
    BY DEF Extended
  <2>4. Covers(op[o].cfg) => Covers(op[o].cfg)'
    BY <1>1 DEF Covers
  <2>. QED
    BY <2>1, <2>2, <2>3, <2>4 DEF CommandInv
<1>3. FileInv'
  <2>1. Covers(Filled(file)) => Covers(Filled(file))'
    BY <1>1 DEF Covers
  <2>. QED
    BY <2>1 DEF Lineage, FileInv, Loads
<1>. QED
  BY <1>1, <1>2, <1>3 DEF Lineage

LEMMA StartServerLineage ==
  ASSUME Lineage, StartServer
  PROVE  Lineage'
<1>1. PICK c : c = Filled(file)
  OBVIOUS
<1>2. Loaded(c) /\ Covers(c)
  BY <1>1 DEF StartServer, Lineage, FileInv, Loads
<1>3. server' = c /\ known' \subseteq Outstanding
  BY <1>1, OutstandingIs DEF StartServer, LoadServer
<1>4. ServerInv'
  BY <1>2, <1>3 DEF ServerInv, Covers
<1>5. UNCHANGED <<file, op, fresh, issued>>
  BY DEF StartServer
<1>. QED
  BY <1>4, <1>5, RestLineage DEF Lineage

(* While no command has overwritten what it had not read, every token that *)
(* was printed, or is about to be, under the key that the file has was     *)
(* made from the address, the ports and a client that are in the file, and *)
(* so it is for the configuration that the running server has loaded: this *)
(* survives every interleaving of init-server, add-client, gen-token and   *)
(* restarts of the server, killed commands and failed writes.              *)
THEOREM ProvisionInvariant == ProvSpec => []ProvInv
<1>1. ProvInit => ProvInv
  <2>. SUFFICES ASSUME ProvInit PROVE ProvInv
    OBVIOUS
  <2>1. ProvTypeOK
    BY ProvTypeInit
  <2>2. Outstanding = {} /\ \A o \in Ops : op[o].at = "idle"
    BY DEF Outstanding, ProvInit, NoCommand
  <2>3. FileInv
    <3>1. CASE file = Absent
      BY <3>1 DEF FileInv
    <3>2. CASE file \in HandMade
      <4>1. IsServerConfig(file) /\ file.key = 1 /\ file.pub \in {0, 1}
        BY <3>2, ProvisionAssumption
      <4>2. Loads
        BY <4>1, NoConfigs DEF Loads
      <4>3. Loaded(Filled(file))
        BY <4>1, FilledLoaded, SMTT(30)
      <4>4. Covers(Filled(file))
        BY <2>2 DEF Covers
      <4>5. file.key <= fresh
        BY <4>1, SMTT(30) DEF ProvInit
      <4>. QED
        BY <4>2, <4>3, <4>4, <4>5 DEF FileInv
    <3>. QED
      BY <3>1, <3>2 DEF ProvInit
  <2>4. ServerInv
    BY DEF ServerInv, ProvInit
  <2>. QED
    BY <2>1, <2>2, <2>3, <2>4 DEF ProvInv, Lineage
<1>2. ProvInv /\ [ProvNext]_provVars => ProvInv'
  <2>. SUFFICES ASSUME ProvTypeOK, clash = FALSE => Lineage, [ProvNext]_provVars
                PROVE  ProvTypeOK' /\ (clash' = FALSE => Lineage')
    BY DEF ProvInv
  <2>1. ASSUME NEW o \in Ops, NEW name \in Names, AddClient(o, name)
        PROVE  ProvTypeOK' /\ (clash' = FALSE => Lineage')
    BY <2>1, AddClientType, AddClientLineage DEF AddClient
  <2>2. ASSUME NEW o \in Ops, NEW name \in Names, NEW force \in BOOLEAN, InitServer(o, name,
  force)
        PROVE  ProvTypeOK' /\ (clash' = FALSE => Lineage')
    BY <2>2, InitServerType, InitServerLineage DEF InitServer
  <2>3. ASSUME NEW o \in Ops, Truncate(o)
        PROVE  ProvTypeOK' /\ (clash' = FALSE => Lineage')
    <3>1. clash \in BOOLEAN /\ (clash' = FALSE => clash = FALSE)
      BY <2>3 DEF Truncate, ProvTypeOK
    <3>. QED
      BY <2>3, <3>1, TruncateType, TruncateLineage
  <2>4. ASSUME NEW o \in Ops, Write(o)
        PROVE  ProvTypeOK' /\ (clash' = FALSE => Lineage')
    BY <2>4, WriteType, WriteLineage DEF Write
  <2>5. ASSUME NEW o \in Ops, PrintToken(o) \/ Stops(o)
        PROVE  ProvTypeOK' /\ (clash' = FALSE => Lineage')
    BY <2>5, EndType, EndLineage DEF PrintToken, Stops
  <2>6. ASSUME NEW name \in Names, NEW carrier \in {"reality", "tuic"}, GenToken(name, carrier)
        PROVE  ProvTypeOK' /\ (clash' = FALSE => Lineage')
    <3>1. op' = op /\ file' = file /\ fresh' = fresh /\ clash' = clash
      BY <2>6 DEF GenToken
    <3>2. ProvTypeOK'
      BY <3>1 DEF ProvTypeOK
    <3>. QED
      BY <2>6, <3>1, <3>2, GenTokenLineage
  <2>7. CASE StartServer
    <3>1. op' = op /\ file' = file /\ fresh' = fresh /\ clash' = clash
      BY <2>7 DEF StartServer
    <3>2. ProvTypeOK'
      BY <3>1 DEF ProvTypeOK
    <3>. QED
      BY <2>7, <3>1, <3>2, StartServerLineage
  <2>8. CASE UNCHANGED provVars
    <3>1. UNCHANGED <<file, op, fresh,
    issued>> /\ server' = server /\ known' = known /\ clash' = clash
      BY <2>8 DEF provVars
    <3>2. ProvTypeOK'
      BY <3>1 DEF ProvTypeOK
    <3>3. ServerInv => ServerInv'
      BY <3>1 DEF ServerInv
    <3>. QED
      BY <3>1, <3>2, <3>3, RestLineage DEF Lineage
  <2>. QED
    BY <2>1, <2>2, <2>3, <2>4, <2>5, <2>6, <2>7, <2>8 DEF ProvNext
<1>. QED
  BY <1>1, <1>2, PTL DEF ProvSpec

(* A token that init-server, add-client or gen-token printed before the    *)
(* server last started lets its client in, on the desktop and on Android,  *)
(* unless the configuration was made anew or commands overwrote each       *)
(* other.                                                                  *)
THEOREM TokenWorksHolds == ProvSpec => []TokenWorks
<1>1. ProvInv => TokenWorks
  <2>. SUFFICES ASSUME ProvInv, server # NotRunning, ~clash, NEW i \in known, i.key = server.key
                PROVE  LetsIn(i.tok, server)
    BY DEF TokenWorks, LetsIn
  <2>1. Lineage
    BY DEF ProvInv, ProvTypeOK
  <2>2. Loaded(server) /\ Made(i.tok, server)
    BY <2>1 DEF Lineage, ServerInv
  <2>. QED
    BY <2>2, MadeLetsIn
<1>. QED
  BY <1>1, ProvisionInvariant, PTL
=============================================================================
