----------------------------- MODULE ServerRun ------------------------------
(***************************************************************************)
(* The server process: RunServer and setupTunHub (internal/app/server.go)  *)
(* start sing-box, the TAP with its address, the masquerade rule           *)
(* (internal/l2/sysconfig_linux.go), the DHCP server, the control listener *)
(* and the router, any of which may fail, and the deferred calls take them *)
(* down again.  Several processes with the same configuration may be       *)
(* alive: one is started by hand, or while another still shuts down.       *)
(***************************************************************************)
EXTENDS Naturals

CONSTANTS
  Procs,      \* the server processes on the host
  NoProc

ASSUME ProcsAssumption == NoProc \notin Procs

VARIABLES
  tun,        \* tun.enable and tun.enable_nat of the configuration
  at,         \* at[p]: where process p is in RunServer
  holder,     \* holder[r]: the process that has socket or device r
  rule,       \* the number of masquerade rules in POSTROUTING
  sig,        \* sig[p]: the context of signal.NotifyContext is done
  left        \* history: a process died, or failed to start, leaving the rule

serverVars == <<tun, at, holder, rule, sig, left>>

(* "reality" is sing-box's inbound, which the configuration names. *)
Held == {"reality", "tap", "dhcp", "control", "public"}

Starting == {"certs", "hub", "addr", "nat", "dhcp", "listen", "banner"}

Closing == {"closeControl", "closeDhcp", "closeNat", "closeDev", "closeSingbox", "exit"}

ServerInit ==
  /\ tun \in [enable : BOOLEAN, nat : BOOLEAN]
  /\ at = [p \in Procs |-> "off"]
  /\ holder = [r \in Held |-> NoProc]
  /\ rule \in {0, 1} /\ left = (rule = 1)
  /\ sig = [p \in Procs |-> FALSE]

(* Where a process relies on the masquerade rule. *)
UsesRule(p) ==
  tun.enable /\ tun.nat
    /\ at[p] \in {"dhcp", "listen", "banner", "serve", "closeControl", "closeDhcp", "closeNat"}

Goes(p, place) == at' = [at EXCEPT ![p] = place]

Takes(p, r) == holder[r] = NoProc /\ holder' = [holder EXCEPT ![r] = p]

Drops(p, r) == holder' = IF holder[r] = p THEN [holder EXCEPT ![r] = NoProc] ELSE holder

(* dev.Close: a reader blocked in Read keeps the TAP, at most until the exit. *)
ClosesDev(p) == Drops(p, "tap") \/ UNCHANGED holder

-----------------------------------------------------------------------------
(* RunServer and setupTunHub *)

(* sing-box cannot start while another process has its inbound. *)
StartSingbox(p) ==
  /\ at[p] = "off" /\ Takes(p, "reality")
  /\ Goes(p, "certs")
  /\ UNCHANGED <<tun, rule, sig, left>>

(* The certificates and the server's own services are registered, and from *)
(* here on a signal is caught.                                             *)
LoadCerts(p) ==
  /\ at[p] = "certs"
  /\ Goes(p, "hub")
  /\ UNCHANGED <<tun, holder, rule, sig, left>>

OpenTap(p) ==
  /\ at[p] = "hub"
  /\ IF tun.enable THEN Takes(p, "tap") /\ Goes(p, "addr")
                   ELSE UNCHANGED holder /\ Goes(p, "listen")
  /\ UNCHANGED <<tun, rule, sig, left>>

(* SetUp and AddAddr; the TAP's reader starts. *)
AddGateway(p) ==
  /\ at[p] = "addr"
  /\ Goes(p, "nat")
  /\ UNCHANGED <<tun, holder, rule, sig, left>>

(* AppendUnique: a rule that is there already is not added again. *)
EnsureMasquerade(p) ==
  /\ at[p] = "nat"
  /\ rule' = IF tun.nat /\ rule = 0 THEN 1 ELSE rule
  /\ Goes(p, "dhcp")
  /\ UNCHANGED <<tun, holder, sig, left>>

StartDHCP(p) ==
  /\ at[p] = "dhcp" /\ Takes(p, "dhcp")
  /\ Goes(p, "listen")
  /\ UNCHANGED <<tun, rule, sig, left>>

ListenControl(p) ==
  /\ at[p] = "listen" /\ Takes(p, "control")
  /\ Goes(p, "banner")
  /\ UNCHANGED <<tun, rule, sig, left>>

(* setupBanner, New, and the router's goroutine. *)
StartRouter(p) ==
  /\ at[p] = "banner"
  /\ Goes(p, "serve")
  /\ UNCHANGED <<tun, holder, rule, sig, left>>

(* The router's goroutine gets its listener. *)
ListenAndServe(p) ==
  /\ at[p] = "serve" /\ Takes(p, "public")
  /\ UNCHANGED <<tun, at, rule, sig, left>>

(* A step fails: the error returns run the calls deferred so far.  The     *)
(* errors of setupTunHub close the TAP, and leave the masquerade rule.     *)
StartFails(p) ==
  /\ at[p] \in Starting
  /\ Goes(p, CASE at[p] = "listen" -> "closeDhcp"
               [] at[p] = "banner" -> "closeControl"
               [] OTHER            -> "closeSingbox")
  /\ CASE at[p] = "addr"            -> Drops(p, "tap")
       [] at[p] \in {"nat", "dhcp"} -> ClosesDev(p)
       [] OTHER                     -> UNCHANGED holder
  /\ left' = (left \/ (at[p] = "dhcp" /\ UsesRule(p)))
  /\ UNCHANGED <<tun, rule, sig>>

-----------------------------------------------------------------------------
(* Shutting down *)

(* After NotifyContext a signal only marks the context. *)
Signal(p) ==
  /\ at[p] \in (Starting \ {"certs"}) \cup {"serve"} /\ ~sig[p]
  /\ sig' = [sig EXCEPT ![p] = TRUE]
  /\ UNCHANGED <<tun, at, holder, rule, left>>

(* Mutation of ContextDone: the context ends when setupTunHub returns. *)
MutContextDone(p) ==
  /\ sig[p] \/ at[p] \notin {"off", "dhcp"}
  /\ holder["dhcp"] = p
  /\ Drops(p, "dhcp")
  /\ UNCHANGED <<tun, at, rule, sig, left>>

(* The DHCP server's own goroutine closes it when the context is done. *)
ContextDone(p) ==
  /\ sig[p] /\ holder["dhcp"] = p
  /\ Drops(p, "dhcp")
  /\ UNCHANGED <<tun, at, rule, sig, left>>

(* The select: the context is done, or the router returned an error. *)
ServeEnds(p) ==
  /\ at[p] = "serve"
  /\ Goes(p, "closeControl")
  /\ UNCHANGED <<tun, holder, rule, sig, left>>

CloseControl(p) ==
  /\ at[p] = "closeControl"
  /\ Drops(p, "control") /\ Goes(p, "closeDhcp")
  /\ UNCHANGED <<tun, rule, sig, left>>

CloseDHCP(p) ==
  /\ at[p] = "closeDhcp"
  /\ Drops(p, "dhcp") /\ Goes(p, "closeNat")
  /\ UNCHANGED <<tun, rule, sig, left>>

(* Mutation of DeleteMasquerade: the cleanup has lost natCleanup. *)
MutDeleteMasquerade(p) ==
  /\ at[p] = "closeNat"
  /\ Goes(p, "closeDev")
  /\ left' = IF tun.enable /\ tun.nat THEN FALSE ELSE left
  /\ UNCHANGED <<tun, holder, rule, sig>>

(* DeleteIfExists, if the hub set NAT up. *)
DeleteMasquerade(p) ==
  /\ at[p] = "closeNat"
  /\ IF tun.enable /\ tun.nat THEN rule' = 0 /\ left' = FALSE ELSE UNCHANGED <<rule, left>>
  /\ Goes(p, "closeDev")
  /\ UNCHANGED <<tun, holder, sig>>

CloseTap(p) ==
  /\ at[p] = "closeDev"
  /\ ClosesDev(p) /\ Goes(p, "closeSingbox")
  /\ UNCHANGED <<tun, rule, sig, left>>

CloseSingbox(p) ==
  /\ at[p] = "closeSingbox"
  /\ Drops(p, "reality") /\ Goes(p, "exit")
  /\ UNCHANGED <<tun, rule, sig, left>>

Released(p) == [r \in Held |-> IF holder[r] = p THEN NoProc ELSE holder[r]]

(* The process exits, or dies wherever it is; the kernel closes what it has. *)
Exit(p) ==
  /\ at[p] # "off"
  /\ Goes(p, "off")
  /\ holder' = Released(p)
  /\ sig' = [sig EXCEPT ![p] = FALSE]
  /\ left' = (left \/ UsesRule(p))
  /\ UNCHANGED <<tun, rule>>

ProcStep(p) ==
  \/ StartSingbox(p) \/ LoadCerts(p) \/ OpenTap(p) \/ AddGateway(p) \/ EnsureMasquerade(p)
  \/ StartDHCP(p) \/ ListenControl(p) \/ StartRouter(p) \/ ListenAndServe(p) \/ StartFails(p)
  \/ Signal(p) \/ ContextDone(p) \/ ServeEnds(p)
  \/ CloseControl(p) \/ CloseDHCP(p) \/ DeleteMasquerade(p) \/ CloseTap(p) \/ CloseSingbox(p)
  \/ Exit(p)

ServerNext == \E p \in Procs : ProcStep(p)

ServerSpec == ServerInit /\ [][ServerNext]_serverVars

-----------------------------------------------------------------------------
(* Properties *)

(* The type invariant. *)
ServerTypeOK ==
  /\ tun \in [enable : BOOLEAN, nat : BOOLEAN]
  /\ at \in [Procs -> {"off", "serve"} \cup Starting \cup Closing]
  /\ holder \in [Held -> Procs \cup {NoProc}]
  /\ rule \in {0, 1} /\ left \in BOOLEAN
  /\ sig \in [Procs -> BOOLEAN]

(* A server that serves has the devices and listeners it started and       *)
(* exactly one masquerade rule, until it is told to stop: no other process *)
(* with the same configuration, started beside it or still shutting down,  *)
(* takes any of them away.                                                 *)
ServingIntact ==
  \A p \in Procs :
    /\ UsesRule(p) => rule = 1
    /\ at[p] = "serve" =>
         /\ holder["reality"] = p /\ holder["control"] = p
         /\ tun.enable => holder["tap"] = p /\ (sig[p] \/ holder["dhcp"] = p)

(* The masquerade rule outlives the processes that use it only if one died *)
(* or failed to start its DHCP server since a server last shut down: an    *)
(* orderly shutdown removes the rule, whatever happened before it.         *)
RuleAccounted == rule = 1 => left \/ \E p \in Procs : UsesRule(p)
=============================================================================
