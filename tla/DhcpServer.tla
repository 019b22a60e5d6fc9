----------------------------- MODULE DhcpServer -----------------------------
(***************************************************************************)
(* The embedded DHCPv4 server (internal/dhcpserver/server.go).  Every      *)
(* packet is handled by its own goroutine, but a handler reads and writes  *)
(* the lease book in one critical section, so a handler is one action.     *)
(* Packets are lost, duplicated and reordered at will: any client may send *)
(* any message at any time.                                                *)
(*                                                                         *)
(* An address is its offset in the pool: 0 is the network address and      *)
(* PoolSize - 1 the broadcast address.  NoAddr stands for an absent        *)
(* address and for one outside the pool, which the code treats alike: a    *)
(* REQUEST without the option falls back to ciaddr, which is 0.0.0.0.      *)
(***************************************************************************)
EXTENDS Integers

CONSTANTS
  Chids,      \* client hardware addresses
  PoolSize,   \* number of addresses of the pool's prefix
  Gateway,    \* the server's own address
  LeaseTime,
  MaxTime     \* bound on the clock

ASSUME PoolAssumption ==
  /\ Chids # {}
  /\ PoolSize \in Nat \ {0}
  /\ Gateway \in Nat
  /\ LeaseTime \in Nat
  /\ MaxTime \in Nat

VARIABLES
  used,     \* leased addresses
  byChid,   \* the address a client is bound to
  expiry,   \* leased address -> end of its lease
  now,
  reply     \* the last answer: to whom, its kind, the address asked for and given

dhcpVars == <<used, byChid, expiry, now, reply>>

-----------------------------------------------------------------------------
Pool == 0 .. PoolSize - 1

NoAddr == -1

(* RELEASE and DECLINE are not answered; reply records that they came. *)
Answer(c, type, asked, a) == reply' = [to |-> c, type |-> type, asked |-> asked, addr |-> a]

(* Strictly after: a lease is still good at the moment it ends. *)
expired(a) == a \in DOMAIN expiry => now > expiry[a]

Holders(a) == {c \in Chids : byChid[c] = a}

(* The candidates of allocLocked: not the network, the broadcast or the    *)
(* gateway address, and not in use by a lease that is still good.          *)
Usable == (1 .. PoolSize - 2) \ {Gateway}

(* Mutation of Free: stale leases are not reclaimed. *)
MutFreeNoReclaim(taken) == Usable \ taken

(* Mutation of Free: the test of the expiry is inverted. *)
MutFreeInverted(taken) == {a \in Usable : a \notin taken \/ ~expired(a)}

Free(taken) == {a \in Usable : a \notin taken \/ expired(a)}

Lowest(S) == CHOOSE a \in S : \A b \in S : a <= b

(* Mutation of Forget: the expiry stays behind. *)
MutForget(D, C) ==
  /\ used' = used \ D
  /\ byChid' = [c \in Chids |-> IF c \in C THEN NoAddr ELSE byChid[c]]
  /\ UNCHANGED expiry

(* The entries D leave the lease book, the clients C lose their binding. *)
Forget(D, C) ==
  /\ used' = used \ D
  /\ expiry' = [a \in DOMAIN expiry \ D |-> expiry[a]]
  /\ byChid' = [c \in Chids |-> IF c \in C THEN NoAddr ELSE byChid[c]]

(* The same, and then c is given a for the lease time. *)
Bind(c, a, D, C) ==
  /\ used' = (used \ D) \cup {a}
  /\ expiry' = [b \in (DOMAIN expiry \ D) \cup {a} |->
                  IF b = a THEN now + LeaseTime ELSE expiry[b]]
  /\ byChid' = [d \in Chids |-> IF d = c THEN a ELSE IF d \in C THEN NoAddr ELSE byChid[d]]

(* allocLocked and the commit: the lowest free address; a stale lease on   *)
(* it is reclaimed from everyone bound to it.                              *)
BindFree(c, D, taken) ==
  LET a == Lowest(Free(taken)) IN
    IF a \in taken THEN Bind(c, a, D \cup {a}, Holders(a)) ELSE Bind(c, a, D, {})

-----------------------------------------------------------------------------
DhcpInit ==
  /\ used = {}
  /\ byChid = [c \in Chids |-> NoAddr]
  /\ expiry = [a \in {} |-> 0]
  /\ now = 0
  /\ reply = [to |-> CHOOSE c \in Chids : TRUE, type |-> "none",
              asked |-> NoAddr, addr |-> NoAddr]

(* DISCOVER: buildOffer calls allocFor.  The client's binding is reused;   *)
(* a stale one is cleared first, also when nothing is left to offer.       *)
Discover(c, r) ==
  LET old   == byChid[c]
      good  == old # NoAddr /\ ~expired(old)
      stale == IF old = NoAddr THEN {} ELSE {old}
      taken == used \ stale
  IN
  /\ \/ /\ good
        /\ Answer(c, "offer", r, old)
        /\ UNCHANGED <<used, byChid, expiry>>
     \/ /\ ~good
        /\ \/ /\ r \in Pool \ taken
              /\ Bind(c, r, stale, {})
              /\ Answer(c, "offer", r, r)
           \/ /\ r \notin Pool \ taken
              /\ Free(taken) # {}
              /\ BindFree(c, stale, taken)
              /\ Answer(c, "offer", r, Lowest(Free(taken)))
           \/ /\ r \notin Pool \ taken
              /\ Free(taken) = {}
              /\ Forget(stale, {c})
              /\ Answer(c, "silence", r, NoAddr)
  /\ UNCHANGED now

Nak(c, w) ==
  /\ Answer(c, "nak", w, NoAddr)
  /\ UNCHANGED <<used, byChid, expiry>>

(* REQUEST: buildACK. *)
Request(c, w) ==
  LET current == byChid[c] IN
  /\ \/ /\ w \notin Pool
        /\ Nak(c, w)
     \/ /\ w \in Pool /\ current = NoAddr
        /\ \/ w \notin used /\ Bind(c, w, {}, {}) /\ Answer(c, "ack", w, w)
           \/ w \in used /\ Free(used) = {} /\ Nak(c, w)
           \/ /\ w \in used /\ Free(used) # {}
              /\ BindFree(c, {}, used)
              /\ Answer(c, "ack", w, Lowest(Free(used)))
     \/ /\ w \in Pool /\ current = w
        /\ Bind(c, w, {}, {}) /\ Answer(c, "ack", w, w)
     \/ /\ w \in Pool /\ current # NoAddr /\ current # w
        /\ \/ w \in used /\ ~expired(w) /\ Nak(c, w)
           \/ (w \in used => expired(w)) /\ Bind(c, w, {current}, {}) /\ Answer(c, "ack", w, w)
  /\ UNCHANGED now

(* RELEASE: release. *)
Release(c) ==
  /\ \/ byChid[c] = NoAddr /\ UNCHANGED <<used, byChid, expiry>>
     \/ byChid[c] # NoAddr /\ Forget({byChid[c]}, {c})
  /\ Answer(c, "release", NoAddr, NoAddr)
  /\ UNCHANGED now

(* DECLINE: releaseIP, whoever sends it. *)
Decline(c, a) ==
  /\ \/ a \notin used /\ UNCHANGED <<used, byChid, expiry>>
     \/ a \in used /\ Forget({a}, Holders(a))
  /\ Answer(c, "decline", a, NoAddr)
  /\ UNCHANGED now

Tick ==
  /\ now' = now + 1
  /\ UNCHANGED <<used, byChid, expiry, reply>>

Message(c) ==
  \/ \E r \in Pool \cup {NoAddr} : Discover(c, r) \/ Request(c, r) \/ Decline(c, r)
  \/ Release(c)

DhcpNext == Tick \/ \E c \in Chids : Message(c)

DhcpSpec == DhcpInit /\ [][DhcpNext]_dhcpVars

(* The same with the clock capped, for model checking. *)
DhcpBoundedNext == (now < MaxTime /\ Tick) \/ \E c \in Chids : Message(c)

DhcpBoundedSpec == DhcpInit /\ [][DhcpBoundedNext]_dhcpVars

-----------------------------------------------------------------------------
(* Properties *)

Addr == Pool \cup {NoAddr}

(* The type invariant. *)
DhcpTypeOK ==
  /\ used \subseteq Pool
  /\ byChid \in [Chids -> Addr]
  /\ DOMAIN expiry \subseteq Pool
  /\ \A a \in DOMAIN expiry : expiry[a] \in Nat
  /\ now \in Nat
  /\ reply \in [to : Chids, asked : Addr, addr : Addr,
                type : {"none", "offer", "silence", "ack", "nak", "release", "decline"}]

(* The three maps of the lease book agree however offers, renewals, moves, *)
(* releases, declines and reclaims follow each other: an address is in use *)
(* exactly when it has an expiry, it never outlives a full lease time, and *)
(* it is in use only while some client is bound to it, so that address     *)
(* space is never leaked to nobody.                                        *)
BookConsistent ==
  /\ DOMAIN expiry = used
  /\ \A a \in used : expiry[a] <= now + LeaseTime
  /\ \A a \in used : Holders(a) # {}

(* An address that one client alone is bound to, on a lease that is still  *)
(* good, is not taken by what other clients discover, request or release:  *)
(* only a DECLINE naming it, or its holder, ends the lease early.          *)
GoodLease(c) ==
  /\ byChid[c] \in used /\ ~expired(byChid[c])
  /\ Holders(byChid[c]) = {c}

NoSteal ==
  [][\A c \in Chids :
       GoodLease(c) /\ reply'.to # c /\ reply'.type # "decline" =>
         /\ byChid'[c] = byChid[c]
         /\ byChid[c] \in used'
         /\ expiry'[byChid[c]] = expiry[byChid[c]]]_dhcpVars

(* "Pool exhausted: stay silent": a DISCOVER stays unanswered only while   *)
(* every usable address is bound to a client on a lease that is still      *)
(* good.  What becomes of a REQUEST is the subject of UnavailableRefused.  *)
SilentOnlyWhenExhausted ==
  [][reply'.type = "silence" =>
       \A a \in Usable : a \in used' /\ ~expired(a)' /\ Holders(a)' # {}]_<<used, byChid, expiry, reply>>

(* What the comment on buildACK says: "If the client asks for an address   *)
(* we didn't offer and it's not free, we NAK."  The address is one the     *)
(* client is not bound to and another is, on a lease that is still good.   *)
UnavailableRefused ==
  [][/\ reply'.type \in {"ack", "nak"}
     /\ reply'.asked \in used /\ ~expired(reply'.asked)
     /\ byChid[reply'.to] # reply'.asked
     => reply'.type = "nak"]_<<used, byChid, expiry, reply>>

(* What the comments on buildOffer and allocFor say: an address committed  *)
(* to a client is not available to a different one until it expires, which *)
(* "prevents two clients from being offered the same address".  A DISCOVER *)
(* offers a client the address it is bound to while the lease is good, so  *)
(* no two clients may be bound to one on a good lease.                     *)
OneHolder ==
  \A c, d \in Chids : c # d /\ byChid[c] = byChid[d] /\ byChid[c] \in used => expired(byChid[c])
=============================================================================
