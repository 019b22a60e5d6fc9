--------------------------- MODULE RegistryProofs ---------------------------
(***************************************************************************)
(* Proofs about Registry, for every set of clients, sessions, hosts and    *)
(* register messages.                                                      *)
(***************************************************************************)
EXTENDS Registry, TLAPS

(* Zenon is asked for every step that does not name another prover. *)
USE Zenon

(* What owns an entry and what session carries it go together: the server's *)
(* entries, and no others, have no session.                                 *)
OwnerHasSession ==
  /\ \A s \in Services : s.client = ServerOwnerID <=> s.sess = NoSession
  /\ \A pc \in certs : pc.client = NoClient <=> pc.sess = NoSession

(* Facts about the entries a register message builds. *)
KnownModes(svcs) == \A i \in DOMAIN svcs : svcs[i].mode \in Modes

RawFacts(S, c, sess, svcs, g) ==
  /\ S \subseteq Service
  /\ \A s \in S : /\ s.client = c /\ s.sess = sess /\ s.gen = g
                  /\ s.idx \in DOMAIN svcs
                  /\ isRaw(svcs[s.idx].mode) /\ svcs[s.idx].host = s.host
  /\ \A s, t \in S : s.host = t.host => s = t

HTTPFacts(S, c, sess, svcs, g) ==
  /\ S \subseteq Service
  /\ \A s \in S : /\ s.client = c /\ s.sess = sess /\ s.gen = g
                  /\ s.idx \in DOMAIN svcs
                  /\ ~isRaw(svcs[s.idx].mode) /\ svcs[s.idx].host = s.host
                  /\ s.path = normPath(svcs[s.idx].path)

LEMMA NewServiceType ==
  ASSUME NEW c \in Owners, NEW sess \in Sessions \cup {NoSession},
         NEW svcs \in Seq(ServiceReg), NEW g \in Nat, NEW i \in DOMAIN svcs,
         svcs[i].mode \in Modes
  PROVE  NewService(c, sess, svcs, i, g) \in Service
<1>1. svcs[i] \in ServiceReg /\ i \in Nat
  BY SMTT(30)
<1>2. (IF isRaw(svcs[i].mode) THEN "" ELSE normPath(svcs[i].path)) \in Paths
  BY <1>1, PathAssumption DEF ServiceReg, normPath
<1>. QED
  BY <1>1, <1>2 DEF NewService, Service, ServiceReg

LEMMA NewRawFacts ==
  ASSUME NEW c \in Owners, NEW sess \in Sessions \cup {NoSession},
         NEW svcs \in Seq(ServiceReg), NEW g \in Nat, KnownModes(svcs)
  PROVE  RawFacts(NewRaw(c, sess, svcs, g), c, sess, svcs, g)
<1>1. \A s \in NewRaw(c, sess, svcs, g) : \E i \in DOMAIN svcs :
        /\ s = NewService(c, sess, svcs, i, g)
        /\ isRaw(svcs[i].mode)
        /\ \A j \in DOMAIN svcs :
             j > i => ~(isRaw(svcs[j].mode) /\ svcs[j].host = svcs[i].host)
  BY DEF NewRaw
<1>2. ASSUME NEW i \in DOMAIN svcs PROVE NewService(c, sess, svcs, i, g) \in Service
  <2>1. svcs[i].mode \in Modes
    BY DEF KnownModes
  <2>. QED
    BY <2>1, NewServiceType
<1>5. NewRaw(c, sess, svcs, g) \subseteq Service
  BY <1>1, <1>2
<1>3. \A s \in NewRaw(c, sess, svcs, g) :
        /\ s.client = c /\ s.sess = sess /\ s.gen = g
        /\ s.idx \in DOMAIN svcs
        /\ isRaw(svcs[s.idx].mode) /\ svcs[s.idx].host = s.host
  <2>1. TAKE s \in NewRaw(c, sess, svcs, g)
  <2>2. PICK i \in DOMAIN svcs :
          s = NewService(c, sess, svcs, i, g) /\ isRaw(svcs[i].mode)
    BY <1>1
  <2>3. /\ s.client = c /\ s.sess = sess /\ s.gen = g
        /\ s.idx = i /\ s.host = svcs[i].host
    BY <2>2 DEF NewService
  <2>. QED
    BY <2>2, <2>3
<1>4. ASSUME NEW s \in NewRaw(c, sess, svcs, g), NEW t \in NewRaw(c, sess, svcs, g),
             s.host = t.host
      PROVE  s = t
  <2>1. PICK i \in DOMAIN svcs :
          /\ s = NewService(c, sess, svcs, i, g)
          /\ isRaw(svcs[i].mode)
          /\ \A j \in DOMAIN svcs :
               j > i => ~(isRaw(svcs[j].mode) /\ svcs[j].host = svcs[i].host)
    BY <1>1
  <2>2. PICK k \in DOMAIN svcs :
          /\ t = NewService(c, sess, svcs, k, g)
          /\ isRaw(svcs[k].mode)
          /\ \A j \in DOMAIN svcs :
               j > k => ~(isRaw(svcs[j].mode) /\ svcs[j].host = svcs[k].host)
    BY <1>1
  <2>3. svcs[i].host = svcs[k].host
    BY <1>4, <2>1, <2>2 DEF NewService
  <2>4. i \in Int /\ k \in Int
    BY SMTT(30)
  <2>5. i = k
    BY <2>1, <2>2, <2>3, <2>4, SMTT(30)
  <2>. QED
    BY <2>1, <2>2, <2>5
<1>. QED
  BY <1>3, <1>4, <1>5 DEF RawFacts

LEMMA NewHTTPFacts ==
  ASSUME NEW c \in Owners, NEW sess \in Sessions \cup {NoSession},
         NEW svcs \in Seq(ServiceReg), NEW g \in Nat, KnownModes(svcs)
  PROVE  HTTPFacts(NewHTTP(c, sess, svcs, g), c, sess, svcs, g)
<1>1. \A s \in NewHTTP(c, sess, svcs, g) : \E i \in DOMAIN svcs :
        s = NewService(c, sess, svcs, i, g) /\ ~isRaw(svcs[i].mode)
  BY DEF NewHTTP
<1>2. ASSUME NEW i \in DOMAIN svcs PROVE NewService(c, sess, svcs, i, g) \in Service
  <2>1. svcs[i].mode \in Modes
    BY SMTT(30) DEF KnownModes
  <2>. QED
    BY <2>1, NewServiceType, SMTT(30)
<1>3. NewHTTP(c, sess, svcs, g) \subseteq Service
  BY <1>1, <1>2
<1>4. ASSUME NEW s \in NewHTTP(c, sess, svcs, g)
      PROVE  /\ s.client = c /\ s.sess = sess /\ s.gen = g
             /\ s.idx \in DOMAIN svcs
             /\ ~isRaw(svcs[s.idx].mode) /\ svcs[s.idx].host = s.host
             /\ s.path = normPath(svcs[s.idx].path)
  <2>1. PICK i \in DOMAIN svcs :
          s = NewService(c, sess, svcs, i, g) /\ ~isRaw(svcs[i].mode)
    BY <1>1
  <2>2. /\ s.client = c /\ s.sess = sess /\ s.gen = g
        /\ s.idx = i /\ s.host = svcs[i].host
        /\ s.path = normPath(svcs[i].path)
    BY <2>1 DEF NewService
  <2>. QED
    BY <2>1, <2>2
<1>. QED
  BY <1>3, <1>4 DEF HTTPFacts

-----------------------------------------------------------------------------
(* The inductive invariant.  FirstComeFirstServed and                      *)
(* OneRegistrationPerClient are inductive once types are known;            *)
(* OwnerHasSession is what keeps RemoveSession away from the server's own  *)
(* entries, and CertOrder what keeps its certificates first.               *)
CertOrder ==
  \A pc \in certs : IF pc.client = NoClient THEN pc.gen = 0 ELSE pc.gen > 0

Ownership == FirstComeFirstServed /\ OneRegistrationPerClient /\ OwnerHasSession /\ CertOrder

IInv == RegTypeOK /\ Ownership

(* Ownership is closed under removal: taking entries out of the registry   *)
(* (removeClientLocked, RemoveSession) cannot break it.                    *)
LEMMA RemovalKeepsOwnership ==
  ASSUME Ownership, certs' \subseteq certs, raw' \subseteq raw, http' \subseteq http
  PROVE  Ownership'
<1>1. FirstComeFirstServed'
  BY DEF Ownership, FirstComeFirstServed, Services
<1>2. OneRegistrationPerClient'
  BY DEF Ownership, OneRegistrationPerClient, Services
<1>3. OwnerHasSession'
  BY DEF Ownership, OwnerHasSession, Services
<1>4. CertOrder'
  BY DEF Ownership, CertOrder
<1>. QED
  BY <1>1, <1>2, <1>3, <1>4 DEF Ownership

LEMMA InitIInv == RegInit => IInv
<1> SUFFICES ASSUME RegInit PROVE IInv
  OBVIOUS
<1> DEFINE newRaw == NewRaw(ServerOwnerID, NoSession, ServerServices, InitVersion)
           newHTTP == NewHTTP(ServerOwnerID, NoSession, ServerServices, InitVersion)
<1>1. /\ ServerServices \in Seq(ServiceReg)
      /\ \A i \in DOMAIN ServerServices :
           ServerServices[i].mode \in Modes /\ ServerServices[i].allow \in AllowLists
      /\ ServerCerts \in Seq(CertNames)
      /\ ServerOwnerID \in Owners
  BY MessageAssumption DEF Owners
<1>2. InitVersion \in Nat
  <2>1. Len(ServerCerts) \in Nat
    BY <1>1, SMTT(30)
  <2>. QED
    BY <2>1, SMTT(30) DEF InitVersion
<1> HIDE DEF newRaw, newHTTP
<1>3. RawFacts(newRaw, ServerOwnerID, NoSession, ServerServices, InitVersion)
  BY <1>1, <1>2, NewRawFacts DEF newRaw, KnownModes
<1>4. HTTPFacts(newHTTP, ServerOwnerID, NoSession, ServerServices, InitVersion)
  BY <1>1, <1>2, NewHTTPFacts DEF newHTTP, KnownModes
<1>5. raw = newRaw /\ http = newHTTP
  BY DEF RegInit, newRaw, newHTTP
<1>6. \A pc \in certs : /\ pc \in ParsedCert /\ pc.client = NoClient
                       /\ pc.sess = NoSession /\ pc.gen = 0
  BY <1>1, SMTT(30) DEF RegInit, ParsedCert
<1>7. RegTypeOK
  <2>1. \A s \in Services : Object(s) \in DOMAIN allow
    BY <1>3, <1>4, <1>5 DEF RawFacts, HTTPFacts, Services, RegInit, Object
  <2>2. \A o \in DOMAIN allow : allow[o] \in AllowLists
    BY <1>1, SMTT(30) DEF RegInit
  <2>3. found \in [Sessions -> Update \cup {NoUpdate}]
    BY DEF RegInit
  <2>4. version \in Nat
    BY <1>2 DEF RegInit
  <2>. QED
    BY <1>3, <1>4, <1>5, <1>6, <2>1, <2>2, <2>3, <2>4 DEF RawFacts, HTTPFacts, RegTypeOK
<1>8. Ownership
  <2>1. FirstComeFirstServed
    BY <1>3, <1>4, <1>5, SMTT(30) DEF RawFacts, HTTPFacts, FirstComeFirstServed, Services
  <2>2. OneRegistrationPerClient
    BY <1>3, <1>4, <1>5, <1>6, SMTT(30)
       DEF RawFacts, HTTPFacts, OneRegistrationPerClient, Services
  <2>3. OwnerHasSession
    BY <1>3, <1>4, <1>5, <1>6 DEF RawFacts, HTTPFacts, OwnerHasSession, Services
  <2>4. CertOrder
    BY <1>6 DEF CertOrder
  <2>. QED
    BY <2>1, <2>2, <2>3, <2>4 DEF Ownership
<1>. QED
  BY <1>7, <1>8 DEF IInv

-----------------------------------------------------------------------------
(* Steps that only remove entries. *)
LEMMA RemovalKeepsIInv ==
  ASSUME IInv, certs' \subseteq certs, raw' \subseteq raw, http' \subseteq http,
         allow' = allow, version' \in Nat, found' = found
  PROVE  IInv'
<1>1. Ownership'
  BY RemovalKeepsOwnership DEF IInv
<1>2. RegTypeOK'
  BY DEF IInv, RegTypeOK, Services, Object
<1>. QED
  BY <1>1, <1>2 DEF IInv

(* A committed registration: the new entries all belong to c, they carry   *)
(* the same session and version, and the conflict checks keep them apart   *)
(* from everyone else's.                                                   *)
LEMMA CommitKeepsIInv ==
  ASSUME IInv, NEW c \in Clients, NEW sess \in Sessions, NEW reg \in Registrations,
         RegisterCommit(c, sess, reg)
  PROVE  IInv'
<1> DEFINE g == version + 1
           svcs == reg.services
           newCerts == {[name |-> reg.certs[i], client |-> c, sess |-> sess,
                         gen |-> g, idx |-> i] : i \in DOMAIN reg.certs}
           newRaw == NewRaw(c, sess, svcs, g)
           newHTTP == NewHTTP(c, sess, svcs, g)
<1>1. /\ svcs \in Seq(ServiceReg) /\ reg.certs \in Seq(CertNames \cup {BadCert})
      /\ c \in Owners /\ c # ServerOwnerID /\ c # NoClient /\ sess # NoSession
      /\ g \in Nat /\ g > 0
  BY MessageAssumption, OwnersDistinct, SMTT(30) DEF RegisterMsg, Owners, IInv, RegTypeOK
<1>2. /\ KnownModes(svcs)
      /\ \A i \in DOMAIN svcs : svcs[i].allow \in AllowLists
  <2>1. \A i \in DOMAIN svcs : svcs[i] \in ServiceReg
    BY <1>1, SMTT(30)
  <2>2. \A i \in DOMAIN svcs : svcs[i].allow # BadAllow /\ ~Conflicts(c, svcs[i])
    BY DEF RegisterCommit, Parses
  <2>. QED
    BY <2>1, <2>2 DEF KnownModes, Conflicts, ServiceReg
<1> HIDE DEF newRaw, newHTTP
<1>3. RawFacts(newRaw, c, sess, svcs, g)
  BY <1>1, <1>2, NewRawFacts DEF newRaw
<1>4. HTTPFacts(newHTTP, c, sess, svcs, g)
  BY <1>1, <1>2, NewHTTPFacts, SMTT(30) DEF newHTTP
<1>5. /\ certs' = Others(certs, c) \cup newCerts
      /\ raw' = Others(raw, c) \cup newRaw
      /\ http' = Others(http, c) \cup newHTTP
      /\ allow' = NewAllow(svcs, g) /\ version' = g /\ found' = found
  BY DEF RegisterCommit, newRaw, newHTTP
<1>6. \A pc \in newCerts : /\ pc \in ParsedCert /\ pc.client = c
                          /\ pc.sess = sess /\ pc.gen = g
  <2>1. \A i \in DOMAIN reg.certs : reg.certs[i] \in CertNames /\ i \in Nat
    BY <1>1, SMTT(30) DEF RegisterCommit, Parses
  <2>. QED
    BY <1>1, <2>1, SMTT(30) DEF ParsedCert
<1> HIDE DEF newCerts, g, svcs
<1>7. RegTypeOK'
  <2>1. /\ DOMAIN allow' = DOMAIN allow \cup {<<g, i>> : i \in DOMAIN svcs}
        /\ \A o \in DOMAIN allow' : allow'[o] \in AllowLists
    BY <1>2, <1>5, SMTT(30) DEF NewAllow, IInv, RegTypeOK
  <2>2. \A s \in newRaw \cup newHTTP : Object(s) \in DOMAIN allow'
    BY <1>3, <1>4, <2>1 DEF RawFacts, HTTPFacts, Object
  <2>3. \A s \in Others(raw, c) \cup Others(http, c) : Object(s) \in DOMAIN allow'
    BY <2>1 DEF Others, Services, IInv, RegTypeOK
  <2>4. \A s \in Services' : Object(s) \in DOMAIN allow'
    BY <1>5, <2>2, <2>3 DEF Services
  <2>5. certs' \subseteq ParsedCert
    BY <1>5, <1>6 DEF Others, IInv, RegTypeOK
  <2>6. raw' \subseteq Service /\ http' \subseteq Service
    BY <1>3, <1>4, <1>5 DEF Others, IInv, RegTypeOK, RawFacts, HTTPFacts
  <2>. QED
    BY <1>1, <1>5, <2>1, <2>4, <2>5, <2>6 DEF IInv, RegTypeOK, Object
<1>8. FirstComeFirstServed'
  <2>1. \A i \in DOMAIN svcs : ~Conflicts(c, svcs[i])
    BY DEF RegisterCommit, svcs
  <2>2. \A s \in newHTTP, t \in Others(http, c) : ~(s.host = t.host /\ s.path = t.path)
    <3>1. SUFFICES ASSUME NEW s \in newHTTP, NEW t \in Others(http, c),
                          s.host = t.host, s.path = t.path
                   PROVE  FALSE
      OBVIOUS
    <3>2. samePath(t.path, svcs[s.idx].path)
      BY <1>4, <3>1 DEF HTTPFacts, samePath, normPath
    <3>. QED
      BY <1>2, <1>4, <2>1, <3>1, <3>2 DEF HTTPFacts, Conflicts, KnownModes, Modes, isRaw
  <2>3. \A s \in newHTTP, t \in Others(raw, c) : s.host # t.host
    BY <1>2, <1>4, <2>1, SMTT(30) DEF HTTPFacts, Conflicts, KnownModes, Modes, isRaw
  <2>4. \A s \in newRaw, t \in Others(raw, c) \cup Others(http, c) : s.host # t.host
    BY <1>2, <1>3, <2>1, SMTT(30) DEF RawFacts, Conflicts, KnownModes
  <2>5. \A s \in newRaw \cup newHTTP : s.client = c
    BY <1>3, <1>4 DEF RawFacts, HTTPFacts
  <2>6. ASSUME NEW s \in http', NEW t \in http', s.host = t.host, s.path = t.path
        PROVE  s.client = t.client
    BY <1>5, <2>2, <2>5, <2>6 DEF IInv, Ownership, FirstComeFirstServed, Others
  <2>7. ASSUME NEW s \in raw', NEW t \in Services', s.host = t.host
        PROVE  s.client = t.client
    BY <1>5, <2>3, <2>4, <2>5, <2>7
       DEF IInv, Ownership, FirstComeFirstServed, Others, Services
  <2>8. ASSUME NEW s \in raw', NEW t \in raw', s.host = t.host
        PROVE  s = t
    BY <1>3, <1>5, <2>4, <2>8
       DEF IInv, Ownership, FirstComeFirstServed, Others, RawFacts
  <2>. QED
    BY <2>6, <2>7, <2>8 DEF FirstComeFirstServed
<1>9. OneRegistrationPerClient'
  <2>1. \A s \in newRaw \cup newHTTP \cup newCerts :
          s.client = c /\ s.sess = sess /\ s.gen = g
    BY <1>3, <1>4, <1>6 DEF RawFacts, HTTPFacts
  <2>2. \A s \in Others(raw, c) \cup Others(http, c) \cup Others(certs, c) : s.client # c
    BY DEF Others
  <2>3. \A s, t \in Others(raw, c) \cup Others(http, c) \cup
                  {pc \in Others(certs, c) : pc.client # NoClient} :
          s.client = t.client => s.gen = t.gen /\ s.sess = t.sess
    BY DEF Others, IInv, Ownership, OneRegistrationPerClient, Services
  <2>. QED
    BY <1>5, <2>1, <2>2, <2>3, SMTT(30) DEF OneRegistrationPerClient, Services
<1>10. OwnerHasSession' /\ CertOrder'
  BY <1>1, <1>3, <1>4, <1>5, <1>6, SMTT(30)
     DEF OwnerHasSession, CertOrder, RawFacts, HTTPFacts, Others, Services, IInv, Ownership
<1>. QED
  BY <1>7, <1>8, <1>9, <1>10 DEF IInv, Ownership

-----------------------------------------------------------------------------
(* An update of an allow list touches neither entries nor their owners. *)
LEMMA UpdateKeepsIInv ==
  ASSUME IInv, NEW sess \in Sessions,
         \/ \E c \in Clients, id \in KnownIDs, list \in {BadAllow} \cup AllowLists :
              UpdateWhitelistFind(c, sess, id, list)
         \/ UpdateWhitelistReplace(sess)
  PROVE  IInv'
<1>1. certs' = certs /\ raw' = raw /\ http' = http
  BY DEF UpdateWhitelistFind, UpdateWhitelistReplace
<1>2. Ownership'
  BY <1>1, RemovalKeepsOwnership DEF IInv
<1>3. CASE \E c \in Clients, id \in KnownIDs, list \in {BadAllow} \cup AllowLists :
             UpdateWhitelistFind(c, sess, id, list)
  <2>1. PICK c \in Clients, id \in KnownIDs, list \in {BadAllow} \cup AllowLists :
          UpdateWhitelistFind(c, sess, id, list)
    BY <1>3
  <2>2. PICK s \in Services :
          found' = [found EXCEPT ![sess] = [pending |-> TRUE, svc |-> s, allow |-> list]]
    BY <2>1 DEF UpdateWhitelistFind, FindService
  <2>3. s \in Service
    BY DEF Services, IInv, RegTypeOK
  <2>4. [pending |-> TRUE, svc |-> s, allow |-> list] \in Update
    BY <2>3 DEF Update
  <2>5. found' \in [Sessions -> Update \cup {NoUpdate}]
    BY <2>2, <2>4 DEF IInv, RegTypeOK
  <2>6. allow' = allow /\ version' = version
    BY <2>1 DEF UpdateWhitelistFind
  <2>7. RegTypeOK'
    BY <1>1, <2>5, <2>6 DEF IInv, RegTypeOK, Services, Object
  <2>. QED
    BY <1>2, <2>7 DEF IInv
<1>4. CASE UpdateWhitelistReplace(sess)
  <2>1. found' \in [Sessions -> Update \cup {NoUpdate}]
    BY <1>4 DEF UpdateWhitelistReplace, IInv, RegTypeOK
  <2>2. found[sess] \in Update
    <3>1. found[sess] \in Update \cup {NoUpdate}
      BY DEF IInv, RegTypeOK
    <3>2. found[sess].pending
      BY <1>4 DEF UpdateWhitelistReplace
    <3>3. ~NoUpdate.pending
      BY DEF NoUpdate
    <3>. QED
      BY <3>1, <3>2, <3>3
  <2>3. /\ DOMAIN allow' = DOMAIN allow
        /\ \A o \in DOMAIN allow : allow'[o] \in AllowLists
        /\ version' \in Nat
    BY <1>4, <2>2, SMTT(30) DEF UpdateWhitelistReplace, IInv, RegTypeOK, Update
  <2>4. RegTypeOK'
    BY <1>1, <2>1, <2>3 DEF IInv, RegTypeOK, Services, Object
  <2>. QED
    BY <1>2, <2>4 DEF IInv
<1>. QED
  BY <1>3, <1>4

LEMMA NextIInv == IInv /\ [RegStep]_regVars => IInv'
<1> SUFFICES ASSUME IInv, [RegStep]_regVars PROVE IInv'
  OBVIOUS
<1>1. CASE UNCHANGED regVars
  BY <1>1, RemovalKeepsIInv DEF regVars, IInv, RegTypeOK
<1>2. ASSUME NEW c \in Clients, NEW s \in Sessions, NEW reg \in Registrations,
             Register(c, s, reg)
      PROVE  IInv'
  <2>1. CASE RegisterParseError(c, reg)
    BY <2>1, <1>1 DEF RegisterParseError
  <2>2. CASE RegisterConflict(c, reg)
    BY <2>2, RemovalKeepsIInv DEF RegisterConflict, removeClientLocked, Others, IInv, RegTypeOK
  <2>3. CASE RegisterCommit(c, s, reg)
    BY <2>3, CommitKeepsIInv
  <2>. QED
    BY <1>2, <2>1, <2>2, <2>3 DEF Register
<1>3. ASSUME NEW s \in Sessions, RemoveSession(s)
      PROVE  IInv'
  BY <1>3, RemovalKeepsIInv, SMTT(30) DEF RemoveSession, NotOf, IInv, RegTypeOK
<1>4. ASSUME NEW c \in Clients, NEW s \in Sessions, NEW id \in KnownIDs,
             UpdateWhitelistRefused(c, s, id)
      PROVE  IInv'
  BY <1>1, <1>4 DEF UpdateWhitelistRefused
<1>. QED
  BY <1>1, <1>2, <1>3, <1>4, UpdateKeepsIInv DEF RegStep

(* The inductive invariant holds. *)
THEOREM RegistryInvariant == RegSpec => []IInv
BY InitIInv, NextIInv, PTL DEF RegSpec

(* Every entry of the registry is well formed in every reachable state. *)
THEOREM RegistryTypeOK == RegSpec => []RegTypeOK
<1>1. IInv => RegTypeOK
  BY DEF IInv
<1>. QED
  BY <1>1, RegistryInvariant, PTL

(* Hosts and paths are first come, first served across clients, for any    *)
(* number of clients, sessions, hosts and any register messages.           *)
THEOREM FirstComeFirstServedHolds == RegSpec => []FirstComeFirstServed
<1>1. IInv => FirstComeFirstServed
  BY DEF IInv, Ownership
<1>. QED
  BY <1>1, RegistryInvariant, PTL

(* All a client has published comes from one message of one session. *)
THEOREM OneRegistrationPerClientHolds == RegSpec => []OneRegistrationPerClient
<1>1. IInv => OneRegistrationPerClient
  BY DEF IInv, Ownership
<1>. QED
  BY <1>1, RegistryInvariant, PTL

-----------------------------------------------------------------------------
(* What one step does to the entries: it leaves them alone, drops those of *)
(* one client, replaces those of one client, or drops those of a session.  *)
Unchanging == certs' = certs /\ raw' = raw /\ http' = http

ReplacingBy(c, C, R, H) ==
  /\ certs' = Others(certs, c) \cup C
  /\ raw' = Others(raw, c) \cup R
  /\ http' = Others(http, c) \cup H
  /\ \A s \in C \cup R \cup H : s.client = c
  /\ \A pc \in C : pc.gen > 0

Replacing(c) == \E C, R, H : ReplacingBy(c, C, R, H)

Dropping(sess) ==
  certs' = NotOf(certs, sess) /\ raw' = NotOf(raw, sess) /\ http' = NotOf(http, sess)

LEMMA StepShape ==
  ASSUME IInv, [RegStep]_regVars
  PROVE  \/ Unchanging
         \/ \E c \in Clients : Replacing(c)
         \/ \E s \in Sessions : Dropping(s)
<1>1. ASSUME NEW c \in Clients, NEW s \in Sessions, NEW reg \in Registrations,
             Register(c, s, reg)
      PROVE  Unchanging \/ Replacing(c)
  <2>1. CASE RegisterParseError(c, reg)
    BY <2>1 DEF RegisterParseError, regVars, Unchanging
  <2>2. CASE RegisterConflict(c, reg)
    <3>1. ReplacingBy(c, {}, {}, {})
      BY <2>2 DEF RegisterConflict, removeClientLocked, ReplacingBy
    <3>. QED
      BY <3>1 DEF Replacing
  <2>3. CASE RegisterCommit(c, s, reg)
    <3> DEFINE g == version + 1
               C == {[name |-> reg.certs[i], client |-> c, sess |-> s,
                      gen |-> g, idx |-> i] : i \in DOMAIN reg.certs}
               R == NewRaw(c, s, reg.services, g)
               H == NewHTTP(c, s, reg.services, g)
    <3>1. \A x \in C : x.client = c /\ x.gen > 0
      <4>1. g > 0
        BY SMTT(30) DEF IInv, RegTypeOK
      <4> HIDE DEF g
      <4>. QED
        BY <4>1, SMTT(30)
    <3>2. \A x \in R \cup H : x.client = c
      <4>1. \A x \in R \cup H : \E i : x = NewService(c, s, reg.services, i, g)
        BY DEF NewRaw, NewHTTP
      <4>2. \A i : NewService(c, s, reg.services, i, g).client = c
        BY DEF NewService
      <4> HIDE DEF R, H, g
      <4>. QED
        BY <4>1, <4>2
    <3>3. /\ certs' = Others(certs, c) \cup C
          /\ raw' = Others(raw, c) \cup R
          /\ http' = Others(http, c) \cup H
      BY <2>3 DEF RegisterCommit
    <3> HIDE DEF C, R, H
    <3>4. ReplacingBy(c, C, R, H)
      BY <3>1, <3>2, <3>3 DEF ReplacingBy
    <3>. QED
      BY <3>4 DEF Replacing
  <2>. QED
    BY <1>1, <2>1, <2>2, <2>3 DEF Register
<1>2. ASSUME NEW s \in Sessions, RemoveSession(s)
      PROVE  Dropping(s)
  BY <1>2 DEF RemoveSession, Dropping
<1>3. ASSUME NEW c \in Clients, NEW s \in Sessions, NEW id \in KnownIDs,
             NEW list \in {BadAllow} \cup AllowLists,
             \/ UpdateWhitelistFind(c, s, id, list)
             \/ UpdateWhitelistRefused(c, s, id)
      PROVE  Unchanging
  BY <1>3 DEF UpdateWhitelistFind, UpdateWhitelistRefused, regVars, Unchanging
<1>4. ASSUME NEW s \in Sessions, UpdateWhitelistReplace(s)
      PROVE  Unchanging
  BY <1>4 DEF UpdateWhitelistReplace, Unchanging
<1>5. CASE UNCHANGED regVars
  BY <1>5 DEF regVars, Unchanging
<1>6. {BadAllow} \cup AllowLists # {}
  OBVIOUS
<1>. QED
  BY <1>1, <1>2, <1>3, <1>4, <1>5, <1>6 DEF RegStep

(* The server's own services and certificates are permanent: OwnerHasSession *)
(* keeps them out of RemoveSession's reach, and no client is their owner.    *)
THEOREM ServerEntriesPermanentHolds == RegSpec => ServerEntriesPermanent
<1>1. ASSUME IInv, [RegStep]_regVars
      PROVE  /\ Owned(ServerOwnerID)' = Owned(ServerOwnerID)
             /\ {pc \in certs : pc.client = NoClient}'
                  = {pc \in certs : pc.client = NoClient}
  <2>1. OwnerHasSession
    BY <1>1 DEF IInv, Ownership
  <2>2. CASE Unchanging
    BY <2>2 DEF Unchanging, Owned, Services
  <2>3. ASSUME NEW c \in Clients, Replacing(c)
        PROVE  /\ Owned(ServerOwnerID)' = Owned(ServerOwnerID)
               /\ {pc \in certs : pc.client = NoClient}'
                    = {pc \in certs : pc.client = NoClient}
    BY <2>3, OwnersDistinct DEF Replacing, ReplacingBy, Owned, Services, Others
  <2>4. ASSUME NEW s \in Sessions, Dropping(s)
        PROVE  /\ Owned(ServerOwnerID)' = Owned(ServerOwnerID)
               /\ {pc \in certs : pc.client = NoClient}'
                    = {pc \in certs : pc.client = NoClient}
    BY <2>1, <2>4, OwnersDistinct DEF Dropping, Owned, Services, NotOf, OwnerHasSession
  <2>. QED
    BY <1>1, <2>2, <2>3, <2>4, StepShape
<1>. QED
  BY <1>1, RegistryInvariant, PTL DEF RegSpec, ServerEntriesPermanent

(* A step that publishes for one owner takes nothing from another. *)
THEOREM NoTakeoverHolds == RegSpec => NoTakeover
<1>1. ASSUME IInv, [RegStep]_regVars, NEW o \in Owners, NEW p \in Owners, o # p,
             ~(Owned(o)' \subseteq Owned(o))
      PROVE  Owned(p)' = Owned(p)
  <2>1. CASE Unchanging
    BY <2>1 DEF Unchanging, Owned, Services
  <2>2. ASSUME NEW c \in Clients, Replacing(c)
        PROVE  Owned(p)' = Owned(p)
    <3>1. c = o
      BY <1>1, <2>2 DEF Replacing, ReplacingBy, Owned, Services, Others
    <3>. QED
      BY <1>1, <2>2, <3>1 DEF Replacing, ReplacingBy, Owned, Services, Others
  <2>3. ASSUME NEW s \in Sessions, Dropping(s)
        PROVE  Owned(p)' = Owned(p)
    BY <1>1, <2>3 DEF Dropping, Owned, Services, NotOf
  <2>. QED
    BY <1>1, <2>1, <2>2, <2>3, StepShape
<1>2. IInv /\ [RegStep]_regVars =>
        (\A o, p \in Owners :
           o # p /\ ~(Owned(o)' \subseteq Owned(o)) => Owned(p)' = Owned(p))
  BY <1>1
<1>. QED
  BY <1>2, RegistryInvariant, PTL DEF RegSpec, NoTakeover

(* A server certificate that names a host exactly stays the one served for *)
(* it: it was added first, and no step adds to or removes from the         *)
(* server's certificates.                                                  *)
THEOREM ServerCertWinsHolds == RegSpec => ServerCertWins
<1>1. ASSUME IInv, IInv', NEW h \in Hosts, NEW own \in certs, own.client = NoClient,
             h \in ExactHosts[own.name],
             {pc \in certs : pc.client = NoClient}' = {pc \in certs : pc.client = NoClient}
      PROVE  LookupCert(h)' = LookupCert(h)
  <2> DEFINE exact == {pc \in certs : h \in ExactHosts[pc.name]}
             exactP == {pc \in certs' : h \in ExactHosts[pc.name]}
  <2>1. own \in exact /\ own \in exactP
    BY <1>1
  <2>2. /\ \A pc \in certs : pc.gen \in Nat /\ pc.idx \in Nat
        /\ \A pc \in certs' : pc.gen \in Nat /\ pc.idx \in Nat
    BY <1>1 DEF IInv, RegTypeOK, ParsedCert
  <2>3. /\ \A pc \in certs : IF pc.client = NoClient THEN pc.gen = 0 ELSE pc.gen > 0
        /\ \A pc \in certs' : IF pc.client = NoClient THEN pc.gen = 0 ELSE pc.gen > 0
    BY <1>1 DEF IInv, Ownership, CertOrder
  <2>4. \A pc : pc.client = NoClient => (pc \in certs <=> pc \in certs')
    BY <1>1
  <2>5. LookupCert(h) = First(exact) /\ LookupCert(h)' = First(exactP)
    BY <2>1 DEF LookupCert, First, Before
  <2>6. ASSUME NEW x \in First(exact)
        PROVE  x \in First(exactP)
    <3>1. x.client = NoClient
      <4>1. x \in certs /\ (own = x \/ Before(x, own))
        BY <2>1, <2>6 DEF First
      <4>2. own.gen = 0 /\ x.gen \in Nat
        BY <1>1, <2>2, <2>3, <4>1
      <4>3. x.client # NoClient => x.gen > 0
        BY <2>3, <4>1
      <4>. QED
        BY <1>1, <4>1, <4>2, <4>3, SMTT(30) DEF Before
    <3>2. x \in exactP
      BY <2>4, <2>6, <3>1 DEF First
    <3>3. ASSUME NEW t \in exactP
          PROVE  t = x \/ Before(x, t)
      <4>1. CASE t.client = NoClient
        BY <2>4, <2>6, <4>1 DEF First
      <4>2. CASE t.client # NoClient
        BY <2>2, <2>3, <2>6, <3>1, <4>2 DEF First, Before
      <4>. QED
        BY <4>1, <4>2
    <3>. QED
      BY <3>2, <3>3 DEF First
  <2>7. ASSUME NEW x \in First(exactP)
        PROVE  x \in First(exact)
    <3>1. x.client = NoClient
      BY <1>1, <2>1, <2>2, <2>3, <2>7, SMTT(30) DEF First, Before
    <3>2. x \in exact
      BY <2>4, <2>7, <3>1 DEF First
    <3>3. ASSUME NEW t \in exact
          PROVE  t = x \/ Before(x, t)
      <4>1. CASE t.client = NoClient
        BY <2>4, <2>7, <4>1 DEF First
      <4>2. CASE t.client # NoClient
        BY <2>2, <2>3, <2>7, <3>1, <4>2 DEF First, Before
      <4>. QED
        BY <4>1, <4>2
    <3>. QED
      BY <3>2, <3>3 DEF First
  <2> HIDE DEF exact, exactP
  <2>. QED
    BY <2>5, <2>6, <2>7, SMTT(30)
<1>2. IInv /\ IInv' /\ [{pc \in certs : pc.client = NoClient}'
                         = {pc \in certs : pc.client = NoClient}]_regVars =>
        [\A h \in Hosts :
           (\E pc \in certs : pc.client = NoClient /\ h \in ExactHosts[pc.name])
             => LookupCert(h)' = LookupCert(h)]_regVars
  BY <1>1
<1>3. [/\ Owned(ServerOwnerID)' = Owned(ServerOwnerID)
       /\ {pc \in certs : pc.client = NoClient}'
            = {pc \in certs : pc.client = NoClient}]_regVars =>
      [{pc \in certs : pc.client = NoClient}'
         = {pc \in certs : pc.client = NoClient}]_regVars
  OBVIOUS
<1>. QED
  BY <1>2, <1>3, RegistryInvariant, ServerEntriesPermanentHolds, PTL
     DEF ServerEntriesPermanent, ServerCertWins

-----------------------------------------------------------------------------
(* Object identity.  An allow list belongs to a *Service object, and a     *)
(* handler keeps its pointer between the two halves of UpdateWhitelist     *)
(* while others register and leave.  These are the objects anything in the *)
(* registry still points to.                                               *)
Known == Services \cup {found[x].svc : x \in {x \in Sessions : found[x].pending}}

(* A pointer identifies its service: no later commit reuses the identity   *)
(* of a service that is published or being updated, so Allow.Replace never *)
(* reaches the list of another service.                                    *)
ObjectsDistinct ==
  /\ \A s, t \in Known : Object(s) = Object(t) => s = t
  /\ \A s \in Known : Object(s) \in DOMAIN allow
  /\ \A g \in Nat : \A i : <<g, i>> \in DOMAIN allow => g <= version

(* The entries a message builds, and which of its entries each is. *)
LEMMA NewEntries ==
  ASSUME NEW c, NEW sess, NEW svcs, NEW g,
         NEW s \in NewRaw(c, sess, svcs, g) \cup NewHTTP(c, sess, svcs, g)
  PROVE  /\ s.idx \in DOMAIN svcs
         /\ s = NewService(c, sess, svcs, s.idx, g)
         /\ s.gen = g /\ s.client = c /\ s.sess = sess
<1>1. PICK i \in DOMAIN svcs : s = NewService(c, sess, svcs, i, g)
  BY DEF NewRaw, NewHTTP
<1>2. s.idx = i /\ s.gen = g /\ s.client = c /\ s.sess = sess
  BY <1>1 DEF NewService
<1>. QED
  BY <1>1, <1>2

LEMMA InitObjects == RegInit => ObjectsDistinct
<1> SUFFICES ASSUME RegInit PROVE ObjectsDistinct
  BY SMTT(30)
<1>1. Known = Services
  BY DEF RegInit, Known, NoUpdate
<1>2. \A s \in Services :
        /\ s.idx \in DOMAIN ServerServices
        /\ s = NewService(ServerOwnerID, NoSession, ServerServices, s.idx, InitVersion)
        /\ s.gen = InitVersion
  <2>1. Services = NewRaw(ServerOwnerID, NoSession, ServerServices, InitVersion)
                     \cup NewHTTP(ServerOwnerID, NoSession, ServerServices, InitVersion)
    BY DEF RegInit, Services
  <2>. QED
    BY <2>1, NewEntries, SMTT(30)
<1>3. DOMAIN allow = {<<InitVersion, i>> : i \in DOMAIN ServerServices}
  BY DEF RegInit
<1>4. version = InitVersion /\ InitVersion \in Nat
  BY MessageAssumption, SMTT(30) DEF RegInit, InitVersion
<1>. QED
  BY <1>1, <1>2, <1>3, <1>4, SMTT(30) DEF ObjectsDistinct, Object

(* A step that adds no service and takes no list away. *)
LEMMA FewerObjects ==
  ASSUME ObjectsDistinct, version \in Nat, version' \in Nat, version' >= version,
         DOMAIN allow' = DOMAIN allow, Known' \subseteq Known
  PROVE  ObjectsDistinct'
<1>1. \A g \in Nat : \A i : <<g, i>> \in DOMAIN allow' => g <= version'
  BY SMTT(30) DEF ObjectsDistinct
<1>. QED
  BY <1>1 DEF ObjectsDistinct

LEMMA CommitObjects ==
  ASSUME IInv, ObjectsDistinct, NEW c \in Clients, NEW sess \in Sessions,
         NEW reg \in Registrations, RegisterCommit(c, sess, reg)
  PROVE  ObjectsDistinct'
<1> DEFINE g == version + 1
           new == NewRaw(c, sess, reg.services, g) \cup NewHTTP(c, sess, reg.services, g)
<1>1. version \in Nat /\ g \in Nat
  BY SMTT(30) DEF IInv, RegTypeOK
<1>2. version' = g /\ found' = found
  BY DEF RegisterCommit
<1>3. DOMAIN allow' = DOMAIN allow \cup {<<g, i>> : i \in DOMAIN reg.services}
  BY DEF RegisterCommit, NewAllow
<1>4. \A s \in Known' : s \in Known \/ s \in new
  BY <1>2 DEF Known, Services, RegisterCommit, Others
<1>5. \A s \in new : /\ s.idx \in DOMAIN reg.services
                     /\ s = NewService(c, sess, reg.services, s.idx, g)
                     /\ s.gen = g
  BY NewEntries, SMTT(30)
<1> HIDE DEF new
<1>6. \A s \in Known : s.gen \in Nat
  <2>1. \A s \in Service : s.gen \in Nat
    BY DEF Service
  <2>2. Services \subseteq Service
    BY DEF IInv, RegTypeOK, Services
  <2>3. ASSUME NEW x \in Sessions, found[x].pending PROVE found[x].svc \in Service
    <3>1. found[x] \in Update \cup {NoUpdate}
      BY DEF IInv, RegTypeOK
    <3>2. \A u \in Update : u.svc \in Service
      BY DEF Update
    <3>3. ~NoUpdate.pending
      BY DEF NoUpdate
    <3>. QED
      BY <2>3, <3>1, <3>2, <3>3
  <2>. QED
    BY <2>1, <2>2, <2>3 DEF Known
<1>7. \A s \in Known : s.gen <= version
  BY <1>6 DEF ObjectsDistinct, Object
<1>8. \A s, t \in Known' : Object(s) = Object(t) => s = t
  <2> SUFFICES ASSUME NEW s \in Known', NEW t \in Known', Object(s) = Object(t)
               PROVE  s = t
    OBVIOUS
  <2>1. s.gen = t.gen /\ s.idx = t.idx
    BY DEF Object
  <2>2. CASE s \in Known /\ t \in Known
    BY <2>2 DEF ObjectsDistinct
  <2>3. CASE s \in new /\ t \in new
    BY <2>1, <2>3, <1>5
  <2>4. CASE (s \in new /\ t \in Known) \/ (s \in Known /\ t \in new)
    BY <2>1, <2>4, <1>1, <1>5, <1>6, <1>7, SMTT(30)
  <2>. QED
    BY <1>4, <2>2, <2>3, <2>4
<1>9. \A s \in Known' : Object(s) \in DOMAIN allow'
  BY <1>3, <1>4, <1>5 DEF ObjectsDistinct, Object
<1>10. ASSUME NEW n \in Nat, NEW i, <<n, i>> \in DOMAIN allow' PROVE n <= version'
  <2>1. CASE <<n, i>> \in DOMAIN allow
    <3>1. n <= version
      BY <2>1 DEF ObjectsDistinct
    <3>. QED
      BY <1>1, <1>2, <3>1, SMTT(30)
  <2>2. CASE n = g
    BY <1>1, <1>2, <2>2, SMTT(30)
  <2>. QED
    BY <1>3, <1>10, <2>1, <2>2, SMTT(30)
<1>. QED
  BY <1>8, <1>9, <1>10 DEF ObjectsDistinct

LEMMA ObjectsStep == IInv /\ ObjectsDistinct /\ [RegStep]_regVars => ObjectsDistinct'
<1> SUFFICES ASSUME IInv, ObjectsDistinct, [RegStep]_regVars PROVE ObjectsDistinct'
  OBVIOUS
<1>0. version \in Nat /\ found \in [Sessions -> Update \cup {NoUpdate}]
  BY DEF IInv, RegTypeOK
<1>1. CASE UNCHANGED regVars
  <2>1. UNCHANGED <<allow, version>> /\ Known' \subseteq Known
    BY <1>1 DEF regVars, Known, Services
  <2>. QED
    BY <1>0, <2>1, FewerObjects, SMTT(30)
<1>2. ASSUME NEW c \in Clients, NEW s \in Sessions, NEW reg \in Registrations,
             Register(c, s, reg)
      PROVE  ObjectsDistinct'
  <2>1. CASE RegisterParseError(c, reg)
    BY <2>1, <1>1 DEF RegisterParseError
  <2>2. CASE RegisterConflict(c, reg)
    <3>1. raw' \subseteq raw /\ http' \subseteq http /\ UNCHANGED <<allow, version, found>>
      BY <2>2 DEF RegisterConflict, removeClientLocked, Others
    <3>2. Known' \subseteq Known
      BY <3>1 DEF Known, Services
    <3>. QED
      BY <1>0, <3>1, <3>2, FewerObjects, SMTT(30)
  <2>3. CASE RegisterCommit(c, s, reg)
    BY <2>3, CommitObjects
  <2>. QED
    BY <1>2, <2>1, <2>2, <2>3 DEF Register
<1>3. ASSUME NEW s \in Sessions, RemoveSession(s)
      PROVE  ObjectsDistinct'
  <2>1. version' \in Nat /\ version' >= version
    BY <1>0, <1>3, SMTT(30) DEF RemoveSession
  <2>2. allow' = allow /\ Known' \subseteq Known
    BY <1>3 DEF RemoveSession, NotOf, Known, Services
  <2>. QED
    BY <1>0, <2>1, <2>2, FewerObjects
<1>4. ASSUME NEW c \in Clients, NEW s \in Sessions, NEW id \in KnownIDs,
             NEW list \in {BadAllow} \cup AllowLists, UpdateWhitelistFind(c, s, id, list)
      PROVE  ObjectsDistinct'
  <2>1. PICK t \in Services :
          found' = [found EXCEPT ![s] = [pending |-> TRUE, svc |-> t, allow |-> list]]
    BY <1>4 DEF UpdateWhitelistFind, FindService
  <2>2. UNCHANGED <<raw, http, allow, version>>
    BY <1>4 DEF UpdateWhitelistFind
  <2>3. \A x \in Sessions : found'[x].pending => found'[x].svc = t \/ found'[x] = found[x]
    BY <1>0, <2>1
  <2>4. Known' \subseteq Known
    BY <2>2, <2>3 DEF Known, Services
  <2>. QED
    BY <1>0, <2>2, <2>4, FewerObjects, SMTT(30)
<1>5. ASSUME NEW s \in Sessions, UpdateWhitelistReplace(s)
      PROVE  ObjectsDistinct'
  <2>1. version' \in Nat /\ version' >= version
    BY <1>0, <1>5, SMTT(30) DEF UpdateWhitelistReplace
  <2>2. DOMAIN allow' = DOMAIN allow
    BY <1>5 DEF UpdateWhitelistReplace
  <2>3. \A x \in Sessions : found'[x].pending => found'[x] = found[x] /\ found[x].pending
    BY <1>0, <1>5 DEF UpdateWhitelistReplace, NoUpdate
  <2>4. Known' \subseteq Known
    BY <1>5, <2>3 DEF Known, Services, UpdateWhitelistReplace
  <2>. QED
    BY <1>0, <2>1, <2>2, <2>4, FewerObjects
<1>6. ASSUME NEW c \in Clients, NEW s \in Sessions, NEW id \in KnownIDs,
             UpdateWhitelistRefused(c, s, id)
      PROVE  ObjectsDistinct'
  BY <1>1, <1>6 DEF UpdateWhitelistRefused
<1>. QED
  BY <1>1, <1>2, <1>3, <1>4, <1>5, <1>6 DEF RegStep

(* Allow.Replace reaches the list of the service UpdateWhitelist found and *)
(* no other, however many registrations come between its two halves.       *)
THEOREM ObjectsDistinctHolds == RegSpec => []ObjectsDistinct
BY InitObjects, ObjectsStep, RegistryInvariant, PTL DEF RegSpec

=============================================================================
