------------------------- MODULE FrameStreamProofs -------------------------
(***************************************************************************)
(* Proofs about FrameStream for any writers, frames, window and loss.      *)
(***************************************************************************)
EXTENDS FrameStream, TLAPS

(* Zenon is asked for every step that does not name another prover. *)
USE Zenon

-----------------------------------------------------------------------------
(* The L2 data stream (FrameStream).  Every byte that was written and not  *)
(* read yet has a place: p[j] is the number of bytes of frames before      *)
(* frame j, c the number the reader has taken (the tunnel frame that names *)
(* the stream comes before byte 0).                                        *)
Bytes == Nat

StreamTypeOK ==
  /\ hub \in BOOLEAN /\ opened \in BOOLEAN /\ open \in BOOLEAN
  /\ at \in [Writers -> {"idle", "header", "payload", "flush"}]
  /\ frame \in [Writers -> Seq(Bytes)]
  /\ buf \in Seq(Bytes) /\ wire \in Seq(Bytes)
  /\ rx \in [at : {"tagHeader", "tag", "header", "payload", "closed"}, need : Nat]
  /\ sent \in Seq(Seq(Bytes)) /\ got \in Seq(Seq(Bytes))
  /\ \A j \in 1..Len(sent) : /\ Len(sent[j]) \in Nat /\ Len(sent[j]) >= 1
                             /\ Len(sent[j]) <= MaxEtherFrame

(* wmu: one writer at a time, with the last frame that was accepted. *)
OneWriter ==
  /\ lock = {w \in Writers : at[w] # "idle"}
  /\ \A w, v \in Writers : at[w] # "idle" /\ at[v] # "idle" => w = v
  /\ \A w \in Writers : at[w] # "idle" => Len(sent) > 0 /\ frame[w] = sent[Len(sent)]
  /\ \A w \in Writers : at[w] = "flush" /\ open = TRUE => Len(buf) > 0

(* Nothing is written before the tunnel frame. *)
TagFirst ==
  opened = FALSE => /\ sent = <<>> /\ got = <<>> /\ wire = <<>> /\ buf = <<>> /\ lock = {}
                    /\ rx.at \in {"tagHeader", "closed"}

(* The bytes that can still be read: none of buf once the session is lost. *)
Count == Len(wire) + (IF open THEN Len(buf) ELSE 0)

Byte(k) == IF k <= Len(wire) THEN wire[k] ELSE buf[k - Len(wire)]

Encoded(f, i) == IF i <= 2 THEN Header(Len(f))[i] ELSE f[i - 2]

Spelled(p, c) ==
  \A j \in 1..Len(sent) : \A i \in 1..(Len(sent[j]) + 2) :
     p[j] + i - c \in 1..Count => Byte(p[j] + i - c) = Encoded(sent[j], i)

Places(p) ==
  /\ p \in [1..(Len(sent) + 1) -> Int]
  /\ p[1] = 0
  /\ \A j \in 1..Len(sent) : p[j + 1] = p[j] + 2 + Len(sent[j])
  /\ \A j \in 1..Len(sent), m \in 1..(Len(sent) + 1) :
        j < m => p[j] + 2 + Len(sent[j]) <= p[m]

Reader(p, c) ==
  /\ rx.at = "tagHeader" =>
       /\ c = -5 /\ rx.need = 4 /\ got = <<>>
       /\ opened = TRUE /\ open = TRUE => Len(wire) >= 5
       /\ Len(wire) >= 4 => wire[3] = 0 /\ wire[4] = 1
  /\ rx.at = "tag" => c = -1 /\ rx.need = 1 /\ got = <<>>
  /\ rx.at = "header" => c = p[Len(got) + 1] /\ rx.need = 2
  /\ rx.at = "payload" => /\ Len(got) < Len(sent) /\ c = p[Len(got) + 1] + 2
                          /\ rx.need = Len(sent[Len(got) + 1])

(* Up to where the writers have written. *)
Written(p, e) ==
  /\ (\A w \in Writers : at[w] \in {"idle", "flush"}) => e = p[Len(sent) + 1]
  /\ \A w \in Writers : /\ at[w] = "header" => e = p[Len(sent)]
                        /\ at[w] = "payload" => e = p[Len(sent)] + 2

Layout(p, c) ==
  /\ Places(p) /\ c \in Int /\ Reader(p, c) /\ Spelled(p, c)
  /\ open = TRUE /\ opened = TRUE => Written(p, c + Count)
  /\ c + Count <= p[Len(sent) + 1]

PrefixRead ==
  Len(got) <= Len(sent) /\ \A j \in 1..Len(got) : got[j] = sent[j]

StreamInv ==
  /\ StreamTypeOK /\ OneWriter /\ TagFirst /\ PrefixRead
  /\ rx.at # "closed" => \E p, c : Layout(p, c)

LEMMA Counted ==
  ASSUME StreamTypeOK
  PROVE  /\ Count \in Nat /\ Len(wire) \in Nat /\ Len(buf) \in Nat /\ Len(wire) <= Count
         /\ open = TRUE => Count = Len(wire) + Len(buf)
         /\ open = FALSE => Count = Len(wire)
BY SMTT(30) DEF StreamTypeOK, Count

(* Bytes keep their places when r of them are taken. *)
LEMMA Respelled ==
  ASSUME StreamTypeOK, NEW p \in [1..(Len(sent) + 1) -> Int], NEW c \in Int, NEW r \in Int,
         NEW d \in Int, d = c + r, Spelled(p, c), sent' = sent, Count \in Int, Count' \in Int,
         \A k \in 1..Count' : k + r \in 1..Count /\ Byte(k)' = Byte(k + r)
  PROVE  Spelled(p, d)'
<1> SUFFICES ASSUME NEW j \in 1..Len(sent), NEW i \in 1..(Len(sent[j]) + 2),
                    p[j] + i - d \in 1..Count'
             PROVE  Byte(p[j] + i - d)' = Encoded(sent[j], i)
  BY DEF Spelled, Encoded
<1>1. p[j] \in Int /\ i \in Int
  <2>1. Len(sent) \in Nat
    BY SMTT(30) DEF StreamTypeOK
  <2>3. Len(sent[j]) \in Nat
    BY DEF StreamTypeOK
  <2>2. j \in 1..(Len(sent) + 1) /\ i \in Int
    BY <2>1, <2>3, SMTT(30)
  <2>. QED
    BY <2>2
<1>2. PICK k : k = p[j] + i - d
  OBVIOUS
<1>3. k + r = p[j] + i - c /\ k \in 1..Count'
  BY <1>1, <1>2, SMTT(30)
<1>5. k + r \in 1..Count /\ Byte(k)' = Byte(k + r)
  BY <1>3
<1>4. Byte(p[j] + i - c) = Encoded(sent[j], i)
  BY <1>3, <1>5 DEF Spelled
<1>. QED
  BY <1>2, <1>3, <1>4, <1>5

(* The header gives the length back. *)
LEMMA HeaderLength ==
  ASSUME NEW n \in Nat, n < 65536
  PROVE  /\ Header(n) \in Seq(Bytes) /\ Len(Header(n)) = 2
         /\ 256 * Header(n)[1] + Header(n)[2] = n
<1>1. n % 65536 = n
  BY SMT, SMTT(30)
<1>2. n \div 256 \in Bytes
  BY SMT, SMTT(30) DEF Bytes
<1>3. n % 256 \in Bytes
  BY SMT, SMTT(30) DEF Bytes
<1>4. 256 * (n \div 256) + (n % 256) = n
  BY SMT, SMTT(30)
<1>5. Header(n) = <<n \div 256, n % 256>>
  BY <1>1, SMT, SMTT(30) DEF Header
<1>. QED
  BY <1>2, <1>3, <1>4, <1>5, SMT, SMTT(30)

(* What is written next to the buffer continues the last frame. *)
LEMMA Appended ==
  ASSUME StreamTypeOK, NEW p, Places(p), NEW c \in Int, Spelled(p, c), sent' = sent,
         open = TRUE, open' = TRUE, wire' = wire, NEW x \in Seq(Bytes), buf' = buf \o x,
         NEW n \in Nat, n = Len(sent), n > 0, NEW d \in Nat, c + Count = p[n] + d,
         d + Len(x) <= Len(sent[n]) + 2,
         \A i \in 1..Len(x) : x[i] = Encoded(sent[n], d + i)
  PROVE  Count' = Count + Len(x) /\ Spelled(p, c)'
<1>1. /\ Len(wire) \in Nat /\ Len(buf) \in Nat /\ Len(x) \in Nat /\ Count = Len(wire) + Len(buf)
      /\ Count' = Count + Len(x) /\ Count \in Nat
  BY SMTT(30) DEF StreamTypeOK, Count
<1>2. ASSUME NEW k \in 1..Count PROVE Byte(k)' = Byte(k)
  <2>1. PICK lw \in Nat, lb \in Nat : lw = Len(wire) /\ lb = Len(buf) /\ k \in 1..(lw + lb)
    BY <1>1
  <2>2. CASE k <= lw
    BY <2>1, <2>2 DEF Byte
  <2>3. CASE ~(k <= lw)
    <3>1. k - lw \in 1..lb
      BY <2>1, <2>3, SMTT(30)
    <3>2. \A m \in 1..lb : (buf \o x)[m] = buf[m]
      BY <2>1, SMTT(30) DEF StreamTypeOK
    <3>3. Byte(k)' = (buf \o x)[k - lw] /\ Byte(k) = buf[k - lw]
      BY <2>1, <2>3 DEF Byte
    <3>. QED
      BY <3>1, <3>2, <3>3
  <2>. QED
    BY <2>2, <2>3
<1>3. ASSUME NEW i \in 1..Len(x), NEW k, k = Count + i PROVE Byte(k)' = x[i]
  <2>1. PICK lw \in Nat, lb \in Nat, lx \in Nat : lw = Len(wire) /\ lb = Len(buf) /\ lx = Len(x)
    BY <1>1
  <2>2. i \in 1..lx /\ k = lw + lb + i
    BY <1>1, <1>3, <2>1
  <2>3. k \in Nat /\ ~(k <= lw) /\ k - lw = lb + i
    BY <2>2, SMTT(30)
  <2>4. Byte(k)' = (buf \o x)[lb + i]
    BY <2>1, <2>3 DEF Byte
  <2>5. \A m \in 1..lx : (buf \o x)[lb + m] = x[m]
    BY <2>1, SMTT(30) DEF StreamTypeOK
  <2>. QED
    BY <2>2, <2>4, <2>5
<1> SUFFICES ASSUME NEW j \in 1..n, NEW i \in 1..(Len(sent[j]) + 2),
                    p[j] + i - c \in 1..Count'
             PROVE  Byte(p[j] + i - c)' = Encoded(sent[j], i)
  BY <1>1 DEF Spelled, Encoded
<1>4. /\ Len(sent[j]) \in Nat /\ Len(sent[n]) \in Nat /\ i \in Int /\ p[j] \in Int /\ p[n] \in Int
  <2>1. Len(sent[j]) \in Nat /\ Len(sent[n]) \in Nat
    BY SMTT(30) DEF StreamTypeOK
  <2>2. j \in 1..(Len(sent) + 1) /\ n \in 1..(Len(sent) + 1)
    BY SMTT(30)
  <2>3. p \in [1..(Len(sent) + 1) -> Int]
    BY DEF Places
  <2>4. i \in Int
    BY <2>1, SMTT(30)
  <2>. QED
    BY <2>1, <2>2, <2>3, <2>4
<1>5. PICK k \in Int, cnt \in Nat, pj \in Int, pn \in Int, lj \in Nat, ln \in Nat, lx \in Nat :
        /\ k = p[j] + i - c /\ cnt = Count /\ pj = p[j] /\ pn = p[n]
        /\ lj = Len(sent[j]) /\ ln = Len(sent[n]) /\ lx = Len(x)
  <2>1. p[j] + i - c \in Int
    BY <1>4, SMTT(30)
  <2>. QED
    BY <1>1, <1>4, <2>1
<1>6. /\ k \in 1..(cnt + lx) /\ k = pj + i - c /\ c + cnt = pn + d /\ d + lx <= ln + 2
      /\ i \in Int /\ 1 <= i /\ i <= lj + 2
  BY <1>1, <1>4, <1>5, SMTT(30)
<1>7. CASE k \in 1..cnt
  BY <1>2, <1>5, <1>7 DEF Spelled
<1>8. CASE k > cnt
  <2>1. j = n
    <3>1. j < n => pj + 2 + lj <= pn
      <4>1. j \in 1..Len(sent) /\ n \in 1..(Len(sent) + 1)
        BY SMTT(30)
      <4>. QED
        BY <1>5, <4>1 DEF Places
    <3>2. ~(j < n)
      BY <1>6, <1>8, <3>1, SMTT(30)
    <3>. QED
      BY <3>2, SMTT(30)
  <2>2. PICK l \in Int : l = i - d
    BY <1>6, SMTT(30)
  <2>3. pj = pn /\ lj = ln
    BY <1>5, <2>1
  <2>4. l \in 1..lx /\ k = cnt + l /\ d + l = i
    BY <1>6, <1>8, <2>2, <2>3, SMTT(30)
  <2>5. Byte(k)' = x[l] /\ x[l] = Encoded(sent[j], i)
    BY <1>3, <1>5, <2>1, <2>4
  <2>. QED
    BY <1>5, <2>5
<1>. QED
  BY <1>6, <1>7, <1>8, SMTT(30)

LEMMA SameBytes ==
  ASSUME StreamTypeOK, NEW p, Places(p), NEW c \in Int, Spelled(p, c), sent' = sent,
         Count' \in Nat, Count' <= Count, \A k \in 1..Count' : Byte(k)' = Byte(k)
  PROVE  Spelled(p, c)'
<1>1. p \in [1..(Len(sent) + 1) -> Int]
  BY DEF Places
<1>2. Count \in Nat
  BY Counted
<1>3. PICK r \in Int : r = 0
  BY SMTT(30)
<1>4. c = c + r
  BY <1>3, SMTT(30)
<1>5. ASSUME NEW k \in 1..Count' PROVE k + r \in 1..Count /\ Byte(k)' = Byte(k + r)
  <2>1. k + r = k /\ k \in 1..Count
    BY <1>2, <1>3, SMTT(30)
  <2>. QED
    BY <2>1
<1>6. Count \in Int /\ Count' \in Int
  BY <1>2, SMTT(30)
<1>. QED
  BY <1>1, <1>4, <1>5, <1>6, Respelled

(* A writer inside send: the only one, with the last accepted frame. *)
LEMMA Holder ==
  ASSUME StreamTypeOK, OneWriter, TagFirst, NEW w \in Writers, at[w] # "idle"
  PROVE  /\ opened = TRUE /\ Len(sent) \in Nat /\ Len(sent) > 0
         /\ Len(sent) \in 1..Len(sent) /\ frame[w] = sent[Len(sent)]
         /\ \A v \in Writers \ {w} : at[v] = "idle"
         /\ Len(frame[w]) \in Nat /\ 1 <= Len(frame[w]) /\ Len(frame[w]) <= MaxEtherFrame
         /\ frame[w] \in Seq(Bytes)
<1>1. w \in lock
  BY DEF OneWriter
<1>2. opened = TRUE
  BY <1>1 DEF TagFirst, StreamTypeOK
<1>3. /\ Len(sent) \in Nat /\ Len(sent) > 0 /\ Len(sent) \in 1..Len(sent)
      /\ frame[w] = sent[Len(sent)]
  BY SMTT(30) DEF OneWriter, StreamTypeOK
<1>4. \A v \in Writers \ {w} : at[v] = "idle"
  BY DEF OneWriter
<1>5. Len(frame[w]) \in Nat /\ 1 <= Len(frame[w]) /\ Len(frame[w]) <= MaxEtherFrame
  BY <1>3 DEF StreamTypeOK
<1>6. frame[w] \in Seq(Bytes)
  BY DEF StreamTypeOK
<1>. QED
  BY <1>2, <1>3, <1>4, <1>5, <1>6

LEMMA PlaceTypes ==
  ASSUME StreamTypeOK, NEW p, Places(p)
  PROVE  /\ Len(sent) \in Nat
         /\ \A j \in 1..(Len(sent) + 1) : p[j] \in Int
         /\ p[Len(sent) + 1] \in Int
         /\ \A j \in 1..Len(sent) : /\ p[j] \in Int /\ p[j + 1] \in Int /\ Len(sent[j]) \in Nat
                                    /\ p[j + 1] = p[j] + 2 + Len(sent[j])
<1>1. Len(sent) \in Nat /\ p \in [1..(Len(sent) + 1) -> Int]
  BY SMTT(30) DEF StreamTypeOK, Places
<1>2. \A j \in 1..Len(sent) : j \in 1..(Len(sent) + 1) /\ j + 1 \in 1..(Len(sent) + 1)
  BY <1>1, SMTT(30)
<1>3. \A j \in 1..Len(sent) : Len(sent[j]) \in Nat /\ p[j + 1] = p[j] + 2 + Len(sent[j])
  BY DEF StreamTypeOK, Places
<1>4. Len(sent) + 1 \in 1..(Len(sent) + 1)
  BY <1>1, SMTT(30)
<1>. QED
  BY <1>1, <1>2, <1>3, <1>4

(* Once the session is lost, writing to the buffer changes no byte that can *)
(* still be read.                                                           *)
LEMMA LostWrite ==
  ASSUME StreamTypeOK, NEW p, NEW c \in Int, Layout(p, c), open = FALSE,
         buf' \in Seq(Bytes), UNCHANGED <<open, opened, wire, rx, sent, got>>
  PROVE  Layout(p, c)'
<1>1. Count' = Count /\ Count \in Nat /\ Count = Len(wire) /\ Len(wire) \in Nat
  BY SMTT(30) DEF StreamTypeOK, Count
<1>2. \A k \in 1..Count' : Byte(k)' = Byte(k)
  BY <1>1, SMTT(30) DEF Byte
<1>3. Spelled(p, c)'
  BY <1>1, <1>2, SameBytes, SMTT(30) DEF Layout
<1>4. Places(p)' /\ Reader(p, c)'
  BY DEF Layout, Places, Reader
<1>. QED
  BY <1>1, <1>3, <1>4 DEF Layout

(* The writer that holds wmu goes on: x continues its frame, of which d    *)
(* bytes are written.                                                      *)
LEMMA WriteStep ==
  ASSUME StreamInv, NEW w \in Writers, at[w] # "idle", NEW d \in Nat, NEW x \in Seq(Bytes),
         NEW next \in {"payload", "flush"}, at' = [at EXCEPT ![w] = next],
         buf' = buf \o x, UNCHANGED <<hub, opened, open, lock, frame, wire, rx, sent, got>>,
         Len(x) > 0, \A i \in 1..Len(x) : x[i] = Encoded(frame[w], d + i),
         \/ at[w] = "header" /\ d = 0 /\ Len(x) = 2 /\ next = "payload"
         \/ at[w] = "payload" /\ d = 2 /\ Len(x) = Len(frame[w]) /\ next = "flush"
  PROVE  StreamInv'
<1>1. /\ StreamTypeOK /\ OneWriter /\ TagFirst /\ PrefixRead
      /\ rx.at # "closed" => \E p, c : Layout(p, c)
  BY DEF StreamInv
<1>2. /\ opened = TRUE /\ Len(sent) \in Nat /\ Len(sent) > 0
      /\ Len(sent) \in 1..Len(sent) /\ frame[w] = sent[Len(sent)]
      /\ \A v \in Writers \ {w} : at[v] = "idle"
      /\ Len(frame[w]) \in Nat /\ 1 <= Len(frame[w]) /\ Len(frame[w]) <= MaxEtherFrame
  BY <1>1, Holder
<1>3. buf' \in Seq(Bytes) /\ Len(buf') > 0
  BY <1>1, SMTT(30) DEF StreamTypeOK
<1>4. /\ at' \in [Writers -> {"idle", "header", "payload", "flush"}] /\ at'[w] = next
      /\ \A v \in Writers \ {w} : at'[v] = "idle"
      /\ \A v \in Writers : at'[v] # "idle" <=> at[v] # "idle"
  BY <1>1, <1>2 DEF StreamTypeOK
<1>5. StreamTypeOK'
  BY <1>1, <1>3, <1>4 DEF StreamTypeOK
<1>6. OneWriter'
  BY <1>1, <1>3, <1>4 DEF OneWriter
<1>7. TagFirst' /\ PrefixRead'
  BY <1>1, <1>2 DEF TagFirst, PrefixRead
<1>8. ASSUME NEW p, NEW c, Layout(p, c) PROVE Layout(p, c)'
  <2>1. /\ Places(p) /\ c \in Int /\ Reader(p, c) /\ Spelled(p, c)
        /\ open = TRUE /\ opened = TRUE => Written(p, c + Count)
    BY <1>8 DEF Layout
  <2>2. CASE open = FALSE
    BY <1>1, <1>3, <1>8, <2>1, <2>2, LostWrite
  <2>3. CASE open = TRUE
    <3>1. PICK n \in Nat, ln \in Nat, lx \in Nat :
            /\ n = Len(sent) /\ ln = Len(sent[n]) /\ lx = Len(x) /\ n > 0
            /\ frame[w] = sent[n] /\ Len(frame[w]) = ln
      <4>1. PICK n \in Nat : n = Len(sent)
        BY <1>2
      <4>2. Len(sent[n]) \in Nat /\ frame[w] = sent[n] /\ n > 0
        BY <1>2, <4>1
      <4>3. Len(x) \in Nat
        BY SMTT(30)
      <4>. QED
        BY <4>1, <4>2, <4>3
    <3>2. PICK pn \in Int, e \in Int : pn = p[n] /\ e = p[n + 1] /\ e = pn + 2 + ln
      <4>1. n \in 1..Len(sent)
        BY <3>1, SMTT(30)
      <4>2. p[n] \in Int /\ p[n + 1] \in Int /\ p[n + 1] = p[n] + 2 + Len(sent[n])
        BY <1>1, <2>1, <4>1, PlaceTypes
      <4>. QED
        BY <3>1, <4>2
    <3>3. c + Count = pn + d
      <4>1. Written(p, c + Count)
        BY <1>2, <2>1, <2>3
      <4>2. CASE at[w] = "header"
        <5>1. c + Count = pn /\ d = 0
          BY <3>1, <3>2, <4>1, <4>2 DEF Written
        <5>. QED
          BY <5>1, SMTT(30)
      <4>3. CASE at[w] = "payload"
        <5>1. c + Count = pn + 2 /\ d = 2
          BY <3>1, <3>2, <4>1, <4>3 DEF Written
        <5>. QED
          BY <5>1
      <4>. QED
        BY <4>2, <4>3
    <3>4. /\ d + lx <= ln + 2
          /\ next = "flush" => d + lx = ln + 2
          /\ next = "payload" => d + lx = 2
      <4>1. CASE at[w] = "header"
        <5>1. d = 0 /\ lx = 2 /\ next = "payload"
          BY <3>1, <4>1
        <5>2. 0 + 2 <= ln + 2
          BY <3>1, SMTT(30)
        <5>. QED
          BY <5>1, <5>2, SMTT(30)
      <4>2. CASE at[w] = "payload"
        BY <3>1, <4>2, SMTT(30)
      <4>. QED
        BY <4>1, <4>2
    <3>5. Count' = Count + lx /\ Spelled(p, c)'
      <4>1. c + Count = p[n] + d /\ d + Len(x) <= Len(sent[n]) + 2
        BY <3>1, <3>2, <3>3, <3>4
      <4>2. \A i \in 1..Len(x) : x[i] = Encoded(sent[n], d + i)
        BY <3>1
      <4>3. Count' = Count + Len(x) /\ Spelled(p, c)'
        BY <1>1, <2>1, <2>3, <3>1, <4>1, <4>2, Appended
      <4>. QED
        BY <3>1, <4>3
    <3>6. Count \in Nat
      BY <1>1, Counted
    <3>7. c + Count' = pn + (d + lx)
      <4>1. PICK cnt \in Nat : cnt = Count
        BY <3>6
      <4>2. c + cnt = pn + d /\ Count' = cnt + lx /\ c \in Int
        BY <2>1, <3>3, <3>5, <4>1
      <4>3. \A i \in Int : i + cnt = pn + d => i + (cnt + lx) = pn + (d + lx)
        BY SMT, SMTT(30)
      <4>. QED
        BY <4>2, <4>3
    <3>8. Written(p, c + Count)'
      <4>1. CASE next = "payload"
        BY <1>2, <1>4, <3>1, <3>2, <3>4, <3>7, <4>1 DEF Written
      <4>2. CASE next = "flush"
        <5>1. c + Count' = p[Len(sent) + 1]
          BY <3>1, <3>2, <3>4, <3>7, <4>2, SMTT(30)
        <5>. QED
          BY <1>4, <4>2, <5>1 DEF Written
      <4>. QED
        BY <4>1, <4>2
    <3>10. (c + Count <= p[Len(sent) + 1])'
      <4>1. c + Count' <= e
        BY <3>2, <3>4, <3>7, SMTT(30)
      <4>. QED
        BY <3>1, <3>2, <4>1
    <3>9. Places(p)' /\ Reader(p, c)'
      BY <2>1 DEF Places, Reader
    <3>. QED
      BY <2>1, <3>5, <3>8, <3>9, <3>10 DEF Layout
  <2>. QED
    BY <1>1, <2>2, <2>3 DEF StreamTypeOK
<1>9. rx'.at # "closed" => \E p, c : Layout(p, c)'
  BY <1>1, <1>8
<1>. QED
  BY <1>5, <1>6, <1>7, <1>9 DEF StreamInv

LEMMA WriteHeaderStep ==
  ASSUME StreamInv, NEW w \in Writers, WriteHeader(w)
  PROVE  StreamInv'
<1>1. StreamTypeOK /\ OneWriter /\ TagFirst /\ at[w] # "idle"
  BY DEF StreamInv, WriteHeader
<1>2. Len(frame[w]) \in Nat /\ Len(frame[w]) <= MaxEtherFrame
  BY <1>1, Holder
<1>3. Len(frame[w]) < 65536
  BY <1>2, FrameStreamAssumption, SMTT(30)
<1>4. Header(Len(frame[w])) \in Seq(Bytes) /\ Len(Header(Len(frame[w]))) = 2
  BY <1>2, <1>3, HeaderLength, SMTT(30)
<1>5. PICK x \in Seq(Bytes), d \in Nat : x = Header(Len(frame[w])) /\ Len(x) = 2 /\ d = 0
  BY <1>4
<1>6. \A i \in 1..Len(x) : x[i] = Encoded(frame[w], d + i)
  <2>1. \A i \in 1..2 : d + i = i /\ i <= 2
    BY <1>5, SMTT(30)
  <2>. QED
    BY <1>5, <2>1 DEF Encoded
<1>7. "payload" \in {"payload", "flush"} /\ Len(x) > 0
  BY <1>5, SMTT(30)
<1>. QED
  BY <1>1, <1>5, <1>6, <1>7, WriteStep DEF WriteHeader

LEMMA WritePayloadStep ==
  ASSUME StreamInv, NEW w \in Writers, WritePayload(w)
  PROVE  StreamInv'
<1>1. StreamTypeOK /\ OneWriter /\ TagFirst /\ at[w] # "idle"
  BY DEF StreamInv, WritePayload
<1>2. Len(frame[w]) \in Nat /\ 1 <= Len(frame[w]) /\ frame[w] \in Seq(Bytes)
  BY <1>1, Holder
<1>3. PICK x \in Seq(Bytes), d \in Nat : x = frame[w] /\ d = 2
  BY <1>2
<1>4. \A i \in 1..Len(x) : x[i] = Encoded(frame[w], d + i)
  <2>1. \A i \in 1..Len(x) : ~(d + i <= 2) /\ (d + i) - 2 = i
    BY <1>2, <1>3, SMTT(30)
  <2>. QED
    BY <1>3, <2>1 DEF Encoded
<1>5. "flush" \in {"payload", "flush"} /\ Len(x) > 0
  BY <1>2, <1>3, SMTT(30)
<1>. QED
  BY <1>1, <1>3, <1>4, <1>5, WriteStep DEF WritePayload

LEMMA Rest ==
  ASSUME NEW s \in Seq(Bytes), NEW l \in Nat, l = Len(s), NEW n \in 1..l
  PROVE  /\ SubSeq(s, n + 1, l) \in Seq(Bytes) /\ Len(SubSeq(s, n + 1, l)) = l - n
         /\ \A k \in 1..(l - n) : SubSeq(s, n + 1, l)[k] = s[n + k]
<1>1. n \in Nat /\ 1 <= n /\ n <= l
  BY SMTT(30)
<1>2. SubSeq(s, n + 1, l) \in Seq(Bytes) /\ Len(SubSeq(s, n + 1, l)) = l - n
  BY <1>1, SMTT(30)
<1>3. ASSUME NEW k \in 1..(l - n) PROVE SubSeq(s, n + 1, l)[k] = s[n + k]
  BY <1>1, SMTT(30)
<1>. QED
  BY <1>2, <1>3

(* Flush moves bytes from the buffer to the stream in their order; with    *)
(* the session lost it drops the buffer, whose bytes no longer count.      *)
LEMMA FlushStep ==
  ASSUME StreamInv, NEW w \in Writers, Flush(w)
  PROVE  StreamInv'
<1>1. /\ StreamTypeOK /\ OneWriter /\ TagFirst /\ PrefixRead /\ at[w] = "flush"
      /\ rx.at # "closed" => \E p, c : Layout(p, c)
      /\ UNCHANGED <<hub, opened, open, frame, rx, sent, got, calls>>
  BY DEF StreamInv, Flush
<1>2. /\ opened = TRUE /\ \A v \in Writers \ {w} : at[v] = "idle"
  BY <1>1, Holder
<1>3. Len(wire) \in Nat /\ Len(buf) \in Nat /\ RecvWindow \in Nat
  BY <1>1, FrameStreamAssumption, SMTT(30) DEF StreamTypeOK
<1>4. PICK n \in Int :
        /\ n = IF Len(buf) < RecvWindow - Len(wire) THEN Len(buf) ELSE RecvWindow - Len(wire)
        /\ ~open \/ n > 0 \/ buf = <<>>
        /\ wire' = IF open THEN wire \o SubSeq(buf, 1, n) ELSE wire
        /\ buf' = IF open THEN SubSeq(buf, n + 1, Len(buf)) ELSE <<>>
        /\ at' = [at EXCEPT ![w] = IF ~open \/ n = Len(buf) THEN "idle" ELSE "flush"]
        /\ lock' = IF ~open \/ n = Len(buf) THEN lock \ {w} ELSE lock
  <2>1. RecvWindow - Len(wire) \in Int /\ Len(buf) \in Int
    BY <1>3, SMTT(30)
  <2>. QED
    BY <2>1 DEF Flush
<1>5. /\ at' \in [Writers -> {"idle", "header", "payload", "flush"}]
      /\ \A v \in Writers : at'[v] \in {"idle", "flush"} /\ at[v] \in {"idle", "flush"}
      /\ \A v \in Writers \ {w} : at'[v] = "idle"
  BY <1>1, <1>2, <1>4 DEF StreamTypeOK
<1>6. lock' = {v \in Writers : at'[v] # "idle"}
  BY <1>1, <1>4, <1>5 DEF OneWriter, StreamTypeOK
<1>7. CASE open = FALSE
  <2>1. wire' = wire /\ buf' = <<>> /\ at'[w] = "idle"
    BY <1>1, <1>4, <1>7 DEF StreamTypeOK
  <2>2. StreamTypeOK'
    BY <1>1, <1>5, <2>1, SMTT(30) DEF StreamTypeOK
  <2>3. OneWriter'
    BY <1>5, <1>6, <2>1 DEF OneWriter
  <2>4. TagFirst' /\ PrefixRead'
    BY <1>1, <1>2 DEF TagFirst, PrefixRead
  <2>5. ASSUME NEW p, NEW c, Layout(p, c) PROVE Layout(p, c)'
    <3>1. c \in Int /\ buf' \in Seq(Bytes)
      BY <2>1, <2>5, SMTT(30) DEF Layout
    <3>. QED
      BY <1>1, <1>7, <2>1, <2>5, <3>1, LostWrite
  <2>. QED
    BY <1>1, <2>2, <2>3, <2>4, <2>5 DEF StreamInv
<1>8. CASE open = TRUE
  <2>1. PICK lw \in Nat, lb \in Nat : lw = Len(wire) /\ lb = Len(buf) /\ lb > 0
    BY <1>1, <1>3, <1>8 DEF OneWriter
  <2>2. n \in 1..lb
    <3>1. n > 0
      BY <1>4, <1>8, <2>1, SMTT(30)
    <3>2. n <= lb
      BY <1>3, <1>4, <2>1, SMTT(30)
    <3>. QED
      BY <3>1, <3>2, SMTT(30)
  <2>3. /\ wire' = wire \o SubSeq(buf, 1, n) /\ buf' = SubSeq(buf, n + 1, lb)
        /\ at'[w] = IF n = lb THEN "idle" ELSE "flush"
    BY <1>1, <1>4, <1>8, <2>1 DEF StreamTypeOK
  <2>4. /\ SubSeq(buf, 1, n) \in Seq(Bytes) /\ Len(SubSeq(buf, 1, n)) = n
        /\ \A k \in 1..n : SubSeq(buf, 1, n)[k] = buf[k]
    BY <1>1, <2>1, <2>2, SMTT(30) DEF StreamTypeOK
  <2>5. /\ buf' \in Seq(Bytes) /\ Len(buf') = lb - n
        /\ \A k \in 1..(lb - n) : buf'[k] = buf[n + k]
    <3>1. PICK b : b = buf /\ b \in Seq(Bytes) /\ Len(b) = lb
      BY <1>1, <2>1 DEF StreamTypeOK
    <3>2. /\ SubSeq(b, n + 1, lb) \in Seq(Bytes) /\ Len(SubSeq(b, n + 1, lb)) = lb - n
          /\ \A k \in 1..(lb - n) : SubSeq(b, n + 1, lb)[k] = b[n + k]
      <4>1. lb = Len(b) /\ b \in Seq(Bytes) /\ n \in 1..lb
        BY <2>2, <3>1
      <4>. QED
        BY <4>1, Rest
    <3>. QED
      BY <2>3, <3>1, <3>2
  <2>6. /\ wire' \in Seq(Bytes) /\ Len(wire') = lw + n
        /\ \A k \in 1..lw : wire'[k] = wire[k]
        /\ \A k \in 1..n : wire'[lw + k] = buf[k]
    BY <1>1, <2>1, <2>2, <2>3, <2>4, SMTT(30) DEF StreamTypeOK
  <2>7. Count = lw + lb /\ Count' = lw + lb
    <3>1. Count = lw + lb /\ Count' = (lw + n) + (lb - n)
      BY <1>1, <1>8, <2>1, <2>5, <2>6 DEF Count
    <3>. QED
      BY <2>2, <3>1, SMTT(30)
  <2>8. ASSUME NEW k \in 1..(lw + lb) PROVE Byte(k)' = Byte(k)
    <3>1. CASE k <= lw
      BY <2>1, <2>2, <2>6, <3>1, SMTT(30) DEF Byte
    <3>2. CASE k > lw /\ k <= lw + n
      <4>1. PICK m \in 1..n : k = lw + m
        <5>1. k - lw \in 1..n /\ k = lw + (k - lw)
          BY <2>2, <3>2, SMTT(30)
        <5>. QED
          BY <5>1
      <4>2. Byte(k)' = wire'[lw + m]
        BY <2>6, <3>2, <4>1 DEF Byte
      <4>3. ~(k <= lw) /\ k - lw = m
        BY <3>2, <4>1, SMTT(30)
      <4>. QED
        BY <2>1, <2>6, <4>1, <4>2, <4>3 DEF Byte
    <3>3. CASE k > lw + n
      <4>1. PICK m \in 1..(lb - n) : k = lw + n + m
        <5>1. k - (lw + n) \in 1..(lb - n) /\ k = lw + n + (k - (lw + n))
          BY <2>2, <3>3, SMTT(30)
        <5>. QED
          BY <5>1
      <4>2. ~(k <= lw + n) /\ k - (lw + n) = m /\ ~(k <= lw) /\ k - lw = n + m
        BY <2>2, <3>3, <4>1, SMTT(30)
      <4>3. Byte(k)' = buf'[m]
        BY <2>6, <4>2 DEF Byte
      <4>4. Byte(k) = buf[n + m]
        BY <2>1, <4>2 DEF Byte
      <4>. QED
        BY <2>5, <4>1, <4>3, <4>4
    <3>. QED
      BY <2>2, <3>1, <3>2, <3>3, SMTT(30)
  <2>9. StreamTypeOK'
    BY <1>1, <1>5, <2>5, <2>6 DEF StreamTypeOK
  <2>10. OneWriter'
    <3>1. at'[w] = "flush" => Len(buf') > 0
      BY <2>2, <2>3, <2>5, SMTT(30)
    <3>. QED
      BY <1>1, <1>5, <1>6, <3>1 DEF OneWriter
  <2>11. TagFirst' /\ PrefixRead'
    BY <1>1, <1>2 DEF TagFirst, PrefixRead
  <2>12. ASSUME NEW p, NEW c, Layout(p, c) PROVE Layout(p, c)'
    <3>1. /\ Places(p) /\ c \in Int /\ Reader(p, c) /\ Spelled(p, c)
          /\ Written(p, c + Count) /\ c + Count <= p[Len(sent) + 1]
      BY <1>2, <1>8, <2>12 DEF Layout
    <3>2. Spelled(p, c)'
      <4>1. Count' \in Nat /\ Count' <= Count
        BY <2>7, SMTT(30)
      <4>2. \A k \in 1..Count' : Byte(k)' = Byte(k)
        BY <2>7, <2>8
      <4>. QED
        BY <1>1, <3>1, <4>1, <4>2, SameBytes
    <3>3. Written(p, c + Count)'
      BY <1>1, <1>5, <2>7, <3>1 DEF Written
    <3>4. Places(p)'
      BY <1>1, <3>1 DEF Places
    <3>5. Reader(p, c)'
      <4>1. rx.at = "tagHeader" => lw >= 5 /\ lw >= 4
        BY <1>2, <1>8, <2>1, <3>1, SMTT(30) DEF Reader
      <4>2. rx.at = "tagHeader" => Len(wire') >= 5 /\ wire'[3] = 0 /\ wire'[4] = 1
        <5>1. rx.at = "tagHeader" => lw + n >= 5 /\ 3 \in 1..lw /\ 4 \in 1..lw
          BY <2>2, <4>1, SMTT(30)
        <5>2. rx.at = "tagHeader" => wire[3] = 0 /\ wire[4] = 1
          BY <2>1, <3>1, <4>1 DEF Reader
        <5>. QED
          BY <2>6, <5>1, <5>2
      <4>. QED
        BY <1>1, <3>1, <4>2 DEF Reader
    <3>6. (c + Count <= p[Len(sent) + 1])'
      BY <1>1, <2>7, <3>1
    <3>. QED
      BY <3>1, <3>2, <3>3, <3>4, <3>5, <3>6 DEF Layout
  <2>. QED
    BY <1>1, <2>9, <2>10, <2>11, <2>12 DEF StreamInv
<1>. QED
  BY <1>1, <1>7, <1>8 DEF StreamTypeOK

(* io.ReadFull takes q bytes from the front: the others keep their places. *)
LEMMA Taken ==
  ASSUME StreamTypeOK, NEW p, NEW c, Layout(p, c), NEW q \in Nat, q <= Len(wire),
         wire' = SubSeq(wire, q + 1, Len(wire)), UNCHANGED <<opened, open, at, buf, sent>>,
         NEW d \in Int, d = c + q, Reader(p, d)'
  PROVE  Layout(p, d)'
<1>1. /\ Places(p) /\ c \in Int /\ Spelled(p, c)
      /\ open = TRUE /\ opened = TRUE => Written(p, c + Count)
      /\ c + Count <= p[Len(sent) + 1]
  BY DEF Layout
<1>2. PICK lw \in Nat : lw = Len(wire)
  BY SMTT(30) DEF StreamTypeOK
<1>3. /\ wire' \in Seq(Bytes) /\ Len(wire') = lw - q
      /\ \A k \in 1..(lw - q) : wire'[k] = wire[k + q]
  BY <1>2, SMTT(30) DEF StreamTypeOK
<1>4. PICK b \in Nat : b = IF open THEN Len(buf) ELSE 0
  BY SMTT(30) DEF StreamTypeOK
<1>5. Count = lw + b /\ Count' = lw - q + b
  BY <1>2, <1>3, <1>4 DEF Count
<1>6. Count \in Int /\ Count' \in Int
  BY <1>5, SMTT(30)
<1>7. ASSUME NEW k \in 1..Count' PROVE k + q \in 1..Count /\ Byte(k)' = Byte(k + q)
  <2>1. k \in 1..(lw - q + b) /\ k + q \in 1..(lw + b)
    BY <1>2, <1>5, SMTT(30)
  <2>2. CASE k <= lw - q
    <3>1. k + q <= lw /\ k \in 1..(lw - q)
      BY <2>1, <2>2, SMTT(30)
    <3>. QED
      BY <1>2, <1>3, <1>5, <2>1, <2>2, <3>1 DEF Byte
  <2>3. CASE ~(k <= lw - q)
    <3>1. ~(k + q <= lw) /\ k - (lw - q) = (k + q) - lw
      BY <2>1, <2>3, SMTT(30)
    <3>2. Byte(k)' = buf[k - (lw - q)]
      BY <1>3, <2>3 DEF Byte
    <3>3. Byte(k + q) = buf[(k + q) - lw]
      BY <1>2, <3>1 DEF Byte
    <3>. QED
      BY <1>5, <2>1, <3>1, <3>2, <3>3
  <2>. QED
    BY <2>2, <2>3
<1>8. Spelled(p, d)'
  <2>1. p \in [1..(Len(sent) + 1) -> Int] /\ sent' = sent
    BY <1>1 DEF Places
  <2>2. \A k \in 1..Count' : k + q \in 1..Count /\ Byte(k)' = Byte(k + q)
    BY <1>7
  <2>3. q \in Int
    BY SMTT(30)
  <2>. QED
    BY <1>1, <1>6, <2>1, <2>2, <2>3, Respelled
<1>9. d + Count' = c + Count
  BY <1>1, <1>5, SMTT(30)
<1>10. (open = TRUE /\ opened = TRUE => Written(p, d + Count))'
  BY <1>1, <1>9 DEF Written
<1>11. Places(p)' /\ (d + Count <= p[Len(sent) + 1])'
  BY <1>1, <1>9 DEF Places
<1>. QED
  BY <1>8, <1>10, <1>11 DEF Layout

(* The writers are not touched by what the reader does. *)
LEMMA ReadKeeps ==
  ASSUME StreamInv, UNCHANGED <<hub, opened, open, lock, at, frame, buf, sent>>,
         wire' \in Seq(Bytes), got' \in Seq(Seq(Bytes)), opened = TRUE,
         rx' \in [at : {"tagHeader", "tag", "header", "payload", "closed"}, need : Nat],
         PrefixRead', rx'.at # "closed" => \E p, c : Layout(p, c)'
  PROVE  StreamInv'
<1>1. StreamTypeOK' /\ OneWriter'
  BY DEF StreamInv, StreamTypeOK, OneWriter
<1>2. TagFirst'
  BY DEF TagFirst
<1>. QED
  BY <1>1, <1>2 DEF StreamInv

(* What Read takes and leaves. *)
LEMMA ReadTypes ==
  ASSUME StreamTypeOK, TagFirst, NEW where, NEW then, Read(where, then), rx.need > 0
  PROVE  /\ opened = TRUE /\ rx.need \in Nat /\ rx.need <= Len(wire)
         /\ wire' = SubSeq(wire, rx.need + 1, Len(wire)) /\ wire' \in Seq(Bytes)
         /\ Take \in Seq(Bytes) /\ Len(Take) = rx.need
         /\ \A k \in 1..rx.need : Take[k] = wire[k]
         /\ rx.at = where /\ rx' = then
<1>1. /\ rx.at = where /\ rx' = then /\ Len(wire) >= rx.need
      /\ wire' = SubSeq(wire, rx.need + 1, Len(wire))
  BY DEF Read, ReadFull
<1>2. PICK q \in Nat, lw \in Nat : q = rx.need /\ lw = Len(wire)
  BY SMTT(30) DEF StreamTypeOK
<1>3. q <= lw /\ q > 0
  BY <1>1, <1>2
<1>4. opened = TRUE
  <2>1. wire # <<>>
    BY <1>2, <1>3, SMTT(30)
  <2>. QED
    BY <2>1 DEF TagFirst, StreamTypeOK
<1>5. SubSeq(wire, q + 1, lw) \in Seq(Bytes)
  BY <1>2, <1>3, SMTT(30) DEF StreamTypeOK
<1>6. /\ SubSeq(wire, 1, q) \in Seq(Bytes) /\ Len(SubSeq(wire, 1, q)) = q
      /\ \A k \in 1..q : SubSeq(wire, 1, q)[k] = wire[k]
  BY <1>2, <1>3, SMTT(30) DEF StreamTypeOK
<1>. QED
  BY <1>1, <1>2, <1>3, <1>4, <1>5, <1>6 DEF Take

(* ReadFrame of handleDataStream: the tunnel frame's header, then its name. *)
LEMMA ReadTagHeaderStep ==
  ASSUME StreamInv, ReadTagHeader,
         UNCHANGED <<hub, opened, open, lock, at, frame, buf, sent, calls>>
  PROVE  StreamInv'
<1>1. StreamTypeOK /\ TagFirst /\ PrefixRead /\ rx.at = "tagHeader" /\ got' = got
  BY DEF StreamInv, ReadTagHeader, Read
<1>2. PICK p, c : Layout(p, c)
  BY <1>1 DEF StreamInv
<1>3. c = -5 /\ rx.need = 4 /\ got = <<>> /\ (Len(wire) >= 4 => wire[3] = 0 /\ wire[4] = 1)
  BY <1>1, <1>2 DEF Layout, Reader
<1>4. /\ opened = TRUE /\ 4 <= Len(wire) /\ wire' = SubSeq(wire, 4 + 1, Len(wire))
      /\ wire' \in Seq(Bytes) /\ Take \in Seq(Bytes) /\ Len(Take) = 4
      /\ \A k \in 1..4 : Take[k] = wire[k]
      /\ rx' = Reading("tag", Length(SubSeq(Take, 3, 4)))
  <2>1. rx.need > 0
    BY <1>3, SMTT(30)
  <2>. QED
    BY <1>1, <1>3, <2>1, ReadTypes DEF ReadTagHeader
<1>5. Len(wire) >= 4
  BY <1>1, <1>4 DEF StreamTypeOK
<1>6. Take[3] = 0 /\ Take[4] = 1
  BY <1>3, <1>4, <1>5, SMTT(30)
<1>7. SubSeq(Take, 3, 4)[1] = Take[3] /\ SubSeq(Take, 3, 4)[2] = Take[4]
  BY <1>4, SMTT(30)
<1>8. Length(SubSeq(Take, 3, 4)) = 1
  BY <1>6, <1>7, SMTT(30) DEF Length
<1>9. rx' = [at |-> "tag", need |-> 1]
  BY <1>4, <1>8 DEF Reading
<1>10. PICK q \in Nat, d \in Int : q = 4 /\ d = -1 /\ d = c + q
  BY <1>3, SMTT(30)
<1>11. Reader(p, d)'
  BY <1>1, <1>3, <1>9, <1>10 DEF Reader
<1>12. Layout(p, d)'
  BY <1>1, <1>2, <1>4, <1>10, <1>11, Taken
<1>13. PrefixRead' /\ got' \in Seq(Seq(Bytes))
  BY <1>1 DEF PrefixRead, StreamTypeOK
<1>. QED
  BY <1>4, <1>9, <1>12, <1>13, ReadKeeps, SMTT(30)

LEMMA ReadTagStep ==
  ASSUME StreamInv, ReadTag,
         UNCHANGED <<hub, opened, open, lock, at, frame, buf, sent, calls>>
  PROVE  StreamInv'
<1>1. StreamTypeOK /\ TagFirst /\ PrefixRead /\ rx.at = "tag" /\ got' = got
  BY DEF StreamInv, ReadTag, Read
<1>2. PICK p, c : Layout(p, c)
  BY <1>1 DEF StreamInv
<1>3. c = -1 /\ rx.need = 1 /\ got = <<>> /\ p[1] = 0
  BY <1>1, <1>2 DEF Layout, Reader, Places
<1>4. /\ opened = TRUE /\ 1 <= Len(wire) /\ wire' = SubSeq(wire, 1 + 1, Len(wire))
      /\ wire' \in Seq(Bytes)
      /\ rx' = IF Take = TunTag /\ hub THEN Reading("header", 2) ELSE Reading("closed", 0)
  <2>1. rx.need > 0
    BY <1>3, SMTT(30)
  <2>2. PICK then :
          /\ then = IF Take = TunTag /\ hub THEN Reading("header", 2) ELSE Reading("closed", 0)
          /\ Read("tag", then)
    BY DEF ReadTag
  <2>3. /\ opened = TRUE /\ rx.need <= Len(wire)
        /\ wire' = SubSeq(wire, rx.need + 1, Len(wire)) /\ wire' \in Seq(Bytes)
        /\ Take \in Seq(Bytes) /\ Len(Take) = rx.need
        /\ \A k \in 1..rx.need : Take[k] = wire[k]
        /\ rx' = then
    <3>1. \E where : Read(where, then)
      BY <2>2
    <3>. QED
      BY <1>1, <2>1, <3>1, ReadTypes
  <2>. QED
    BY <1>3, <2>2, <2>3
<1>5. \/ rx' = [at |-> "closed", need |-> 0]
      \/ rx' = [at |-> "header", need |-> 2]
  BY <1>4 DEF Reading
<1>6. PICK q \in Nat, d \in Int : q = 1 /\ d = 0 /\ d = c + q
  BY <1>3, SMTT(30)
<1>7. ASSUME rx' = [at |-> "header", need |-> 2] PROVE Layout(p, d)'
  <2>1. Len(got') + 1 = 1
    <3>1. Len(got') = 0
      BY <1>1, <1>3
    <3>. QED
      BY <3>1, SMTT(30)
  <2>2. Reader(p, d)'
    BY <1>3, <1>6, <1>7, <2>1 DEF Reader
  <2>. QED
    BY <1>1, <1>2, <1>4, <1>6, <2>2, Taken
<1>8. PrefixRead' /\ got' \in Seq(Seq(Bytes))
  BY <1>1 DEF PrefixRead, StreamTypeOK
<1>9. rx' \in [at : {"tagHeader", "tag", "header", "payload", "closed"}, need : Nat]
  BY <1>5, SMTT(30)
<1>10. rx'.at # "closed" => rx' = [at |-> "header", need |-> 2]
  BY <1>5, SMTT(30)
<1>. QED
  BY <1>4, <1>7, <1>8, <1>9, <1>10, ReadKeeps

(* The next byte the reader takes is in frame j: its place is known. *)
LEMMA NextBytes ==
  ASSUME StreamTypeOK, NEW p, NEW c, Layout(p, c), NEW j \in 1..Len(sent), NEW d \in Nat,
         c = p[j] + d, NEW q \in Nat, q <= Len(wire), d + q <= Len(sent[j]) + 2
  PROVE  \A k \in 1..q : wire[k] = Encoded(sent[j], d + k)
<1> SUFFICES ASSUME NEW k \in 1..q PROVE wire[k] = Encoded(sent[j], d + k)
  OBVIOUS
<1>1. /\ Places(p) /\ c \in Int /\ Spelled(p, c)
  BY DEF Layout
<1>2. PICK pj \in Int, lj \in Nat, lw \in Nat, cnt \in Nat :
        pj = p[j] /\ lj = Len(sent[j]) /\ lw = Len(wire) /\ cnt = Count /\ lw <= cnt
  BY <1>1, PlaceTypes, Counted
<1>3. PICK i \in Nat : i = d + k
  BY SMTT(30)
<1>4. i \in 1..(lj + 2) /\ pj + i - c = k /\ k \in 1..cnt /\ k <= lw
  <2>1. c = pj + d /\ q <= lw /\ d + q <= lj + 2 /\ k \in 1..q
    BY <1>2
  <2>2. i \in 1..(lj + 2) /\ pj + i - c = k
    BY <1>3, <2>1, SMTT(30)
  <2>3. k \in 1..cnt /\ k <= lw
    BY <1>2, <2>1, SMTT(30)
  <2>. QED
    BY <2>2, <2>3
<1>5. p[j] + i - c \in 1..Count => Byte(p[j] + i - c) = Encoded(sent[j], i)
  BY <1>1, <1>2, <1>4 DEF Spelled
<1>6. Byte(k) = Encoded(sent[j], i)
  BY <1>2, <1>4, <1>5
<1>. QED
  BY <1>2, <1>3, <1>4, <1>6 DEF Byte

(* ReadPacket reads the length of the next frame that was accepted, which  *)
(* is in range: the reader never rejects it.                               *)
LEMMA ReadHeaderStep ==
  ASSUME StreamInv, ReadHeader,
         UNCHANGED <<hub, opened, open, lock, at, frame, buf, sent, calls>>
  PROVE  StreamInv'
<1>1. StreamTypeOK /\ TagFirst /\ PrefixRead /\ rx.at = "header" /\ got' = got
  BY DEF StreamInv, ReadHeader, Read
<1>2. PICK p, c : Layout(p, c)
  BY <1>1 DEF StreamInv
<1>3. /\ c \in Int /\ c = p[Len(got) + 1] /\ rx.need = 2 /\ Places(p)
      /\ c + Count <= p[Len(sent) + 1]
  BY <1>1, <1>2 DEF Layout, Reader
<1>4. /\ opened = TRUE /\ 2 <= Len(wire) /\ wire' = SubSeq(wire, 2 + 1, Len(wire))
      /\ wire' \in Seq(Bytes) /\ Take \in Seq(Bytes) /\ Len(Take) = 2
      /\ \A k \in 1..2 : Take[k] = wire[k]
      /\ rx' = IF Length(Take) = 0 \/ Length(Take) > MaxEtherFrame THEN Reading("rejected", 0)
               ELSE Reading("payload", Length(Take))
  <2>1. rx.need > 0
    BY <1>3, SMTT(30)
  <2>2. PICK then :
          /\ then = IF Length(Take) = 0 \/ Length(Take) > MaxEtherFrame
                    THEN Reading("rejected", 0) ELSE Reading("payload", Length(Take))
          /\ Read("header", then)
    BY DEF ReadHeader
  <2>3. /\ opened = TRUE /\ rx.need <= Len(wire)
        /\ wire' = SubSeq(wire, rx.need + 1, Len(wire)) /\ wire' \in Seq(Bytes)
        /\ Take \in Seq(Bytes) /\ Len(Take) = rx.need
        /\ \A k \in 1..rx.need : Take[k] = wire[k]
        /\ rx' = then
    <3>1. \E where : Read(where, then)
      BY <2>2
    <3>. QED
      BY <1>1, <2>1, <3>1, ReadTypes
  <2>. QED
    BY <1>3, <2>2, <2>3
<1>5. PICK j \in Nat, n \in Nat : j = Len(got) + 1 /\ n = Len(sent) /\ j <= n + 1
  BY <1>1, SMTT(30) DEF StreamTypeOK, PrefixRead
<1>6. j \in 1..n
  <2>1. j # n + 1
    <3>1. Count \in Nat /\ Len(wire) \in Nat /\ Len(wire) <= Count
      BY <1>1, Counted
    <3>2. j = n + 1 => c + Count <= c
      BY <1>3, <1>5
    <3>. QED
      BY <1>3, <1>4, <3>1, <3>2, SMTT(30)
  <2>2. j >= 1
    BY <1>1, <1>5, SMTT(30) DEF StreamTypeOK
  <2>. QED
    BY <1>5, <2>1, <2>2, SMTT(30)
<1>7. PICK l \in Nat : l = Len(sent[j]) /\ l >= 1 /\ l <= MaxEtherFrame /\ l < 65536
  <2>1. Len(sent[j]) \in Nat /\ Len(sent[j]) >= 1 /\ Len(sent[j]) <= MaxEtherFrame
    BY <1>1, <1>5, <1>6, SMTT(30) DEF StreamTypeOK
  <2>. QED
    BY <2>1, FrameStreamAssumption, SMTT(30)
<1>8. Take[1] = Header(l)[1] /\ Take[2] = Header(l)[2]
  <2>1. PICK q \in Nat, d \in Nat : q = 2 /\ d = 0
    BY SMTT(30)
  <2>2. /\ j \in 1..Len(sent) /\ c = p[j] + d /\ q <= Len(wire) /\ d + q <= Len(sent[j]) + 2
    <3>1. c = c + 0 /\ 0 + 2 <= l + 2
      BY <1>3, SMTT(30)
    <3>. QED
      BY <1>3, <1>4, <1>5, <1>6, <1>7, <2>1, <3>1, SMTT(30)
  <2>3. \A k \in 1..q : wire[k] = Encoded(sent[j], d + k)
    BY <1>1, <1>2, <2>2, NextBytes, SMTT(30)
  <2>4. wire[1] = Encoded(sent[j], 1) /\ wire[2] = Encoded(sent[j], 2)
    BY <2>1, <2>3, SMTT(30)
  <2>. QED
    BY <1>4, <1>7, <2>4, SMTT(30) DEF Encoded
<1>9. Length(Take) = l
  BY <1>7, <1>8, HeaderLength, SMTT(30) DEF Length
<1>10. rx' = [at |-> "payload", need |-> l]
  BY <1>4, <1>7, <1>9, FrameStreamAssumption, SMTT(30) DEF Reading
<1>11. PICK q \in Nat, d \in Int : q = 2 /\ d = c + q
  BY <1>3, SMTT(30)
<1>12. Reader(p, d)'
  <2>1. Len(got) < Len(sent) /\ d = p[Len(got) + 1] + 2 /\ l = Len(sent[Len(got) + 1])
    <3>1. Len(got) \in Nat
      BY <1>1, SMTT(30) DEF StreamTypeOK
    <3>. QED
      BY <1>3, <1>5, <1>6, <1>7, <1>11, <3>1, SMTT(30)
  <2>. QED
    BY <1>1, <1>10, <2>1, SMTT(30) DEF Reader
<1>13. Layout(p, d)'
  BY <1>1, <1>2, <1>4, <1>11, <1>12, Taken
<1>14. PrefixRead' /\ got' \in Seq(Seq(Bytes))
  BY <1>1 DEF PrefixRead, StreamTypeOK
<1>15. rx' \in [at : {"tagHeader", "tag", "header", "payload", "closed"}, need : Nat]
  BY <1>10
<1>. QED
  BY <1>4, <1>13, <1>14, <1>15, ReadKeeps

LEMMA SameSequence ==
  ASSUME NEW S, NEW s \in Seq(S), NEW t \in Seq(S), Len(s) = Len(t),
         \A k \in 1..Len(s) : s[k] = t[k]
  PROVE  s = t
BY SMTT(30)

(* ReadPacket returns the next frame that was accepted, whole and unchanged. *)
LEMMA ReadPayloadStep ==
  ASSUME StreamInv, ReadPayload,
         UNCHANGED <<hub, opened, open, lock, at, frame, buf, sent, calls>>
  PROVE  StreamInv'
<1>1. StreamTypeOK /\ TagFirst /\ PrefixRead /\ rx.at = "payload" /\ got' = Append(got, Take)
  BY DEF StreamInv, ReadPayload, Read
<1>2. PICK p, c : Layout(p, c)
  BY <1>1 DEF StreamInv
<1>3. /\ c \in Int /\ Len(got) < Len(sent) /\ c = p[Len(got) + 1] + 2 /\ Places(p)
      /\ rx.need = Len(sent[Len(got) + 1])
  BY <1>1, <1>2 DEF Layout, Reader
<1>4. PICK g \in Nat, j \in Nat : g = Len(got) /\ j = g + 1 /\ j \in 1..Len(sent)
  BY <1>1, <1>3, SMTT(30) DEF StreamTypeOK
<1>5. PICK l \in Nat : l = Len(sent[j]) /\ l >= 1 /\ l = rx.need
  BY <1>1, <1>3, <1>4 DEF StreamTypeOK
<1>6. /\ opened = TRUE /\ l <= Len(wire) /\ wire' = SubSeq(wire, l + 1, Len(wire))
      /\ wire' \in Seq(Bytes) /\ Take \in Seq(Bytes) /\ Len(Take) = l
      /\ \A k \in 1..l : Take[k] = wire[k]
      /\ rx' = Reading("header", 2)
  <2>1. rx.need > 0
    BY <1>5, SMTT(30)
  <2>. QED
    BY <1>1, <1>5, <2>1, ReadTypes DEF ReadPayload
<1>7. Take = sent[j]
  <2>1. PICK d \in Nat : d = 2 /\ c = p[j] + d /\ d + l <= Len(sent[j]) + 2
    <3>1. c = p[j] + 2 /\ 2 + l <= Len(sent[j]) + 2
      <4>1. 2 + l <= l + 2
        BY SMTT(30)
      <4>. QED
        BY <1>3, <1>4, <1>5, <4>1
    <3>. QED
      BY <3>1
  <2>2. \A k \in 1..l : wire[k] = Encoded(sent[j], d + k)
    <3>1. j \in 1..Len(sent) /\ l <= Len(wire) /\ c = p[j] + d /\ d + l <= Len(sent[j]) + 2
      BY <1>4, <1>6, <2>1
    <3>. QED
      BY <1>1, <1>2, <3>1, NextBytes
  <2>3. \A k \in 1..l : Take[k] = sent[j][k]
    <3>1. \A k \in 1..l : ~(d + k <= 2) /\ (d + k) - 2 = k
      BY <2>1, SMTT(30)
    <3>. QED
      BY <1>6, <2>2, <3>1 DEF Encoded
  <2>4. sent[j] \in Seq(Bytes) /\ Len(sent[j]) = Len(Take)
    BY <1>1, <1>4, <1>5, <1>6, SMTT(30) DEF StreamTypeOK
  <2>. QED
    BY <1>6, <2>3, <2>4, SameSequence
<1>8. /\ got' \in Seq(Seq(Bytes)) /\ Len(got') = j
      /\ \A k \in 1..g : got'[k] = got[k]
      /\ got'[j] = sent[j]
  BY <1>1, <1>4, <1>6, <1>7, SMTT(30) DEF StreamTypeOK
<1>9. PrefixRead'
  <2>1. \A k \in 1..j : k \in 1..g \/ k = j
    BY <1>4, SMTT(30)
  <2>2. Len(got') <= Len(sent)
    BY <1>1, <1>4, <1>8, SMTT(30) DEF StreamTypeOK
  <2>3. \A k \in 1..g : got[k] = sent[k]
    BY <1>1, <1>4 DEF PrefixRead
  <2>. QED
    BY <1>8, <2>1, <2>2, <2>3 DEF PrefixRead
<1>10. rx' = [at |-> "header", need |-> 2]
  BY <1>6 DEF Reading
<1>11. PICK d \in Int : d = c + l /\ d = p[j + 1]
  <2>1. p[j] \in Int /\ p[j + 1] = p[j] + 2 + Len(sent[j]) /\ c = p[j] + 2
    BY <1>1, <1>3, <1>4, PlaceTypes
  <2>2. c + l \in Int
    BY <1>3, SMTT(30)
  <2>3. c + l = p[j + 1]
    <3>1. PICK pj \in Int : pj = p[j] /\ c = pj + 2 /\ p[j + 1] = pj + 2 + l
      BY <1>5, <2>1
    <3>. QED
      BY <3>1
  <2>. QED
    BY <2>2, <2>3
<1>12. Reader(p, d)'
  <2>1. d = p[Len(got') + 1]
    BY <1>8, <1>11
  <2>. QED
    BY <1>10, <2>1 DEF Reader
<1>13. Layout(p, d)'
  BY <1>1, <1>2, <1>6, <1>11, <1>12, Taken
<1>14. rx' \in [at : {"tagHeader", "tag", "header", "payload", "closed"}, need : Nat]
  BY <1>10
<1>. QED
  BY <1>6, <1>8, <1>9, <1>13, <1>14, ReadKeeps

LEMMA ReaderStepInv ==
  ASSUME StreamInv, ReaderStep
  PROVE  StreamInv'
<1>1. CASE ReadEnds
  <2>1. rx' = [at |-> "closed", need |-> 0] /\ UNCHANGED <<hub, opened, open, lock, at, frame,
  buf, wire, sent, got>>
    BY <1>1 DEF ReadEnds, Reading, ReaderStep
  <2>2. rx'.at = "closed" /\ rx' \in [at : {"tagHeader", "tag", "header", "payload", "closed"},
  need : Nat]
    BY <2>1
  <2>3. StreamTypeOK' /\ OneWriter'
    BY <2>1, <2>2 DEF StreamInv, StreamTypeOK, OneWriter
  <2>4. TagFirst' /\ PrefixRead'
    BY <2>1, <2>2 DEF StreamInv, TagFirst, PrefixRead
  <2>. QED
    BY <2>2, <2>3, <2>4 DEF StreamInv
<1>. QED
  BY <1>1, ReadTagHeaderStep, ReadTagStep, ReadHeaderStep, ReadPayloadStep DEF ReaderStep

(* The session is lost with the buffer and the end of what was written. *)
LEMMA StreamLostStep ==
  ASSUME StreamInv, StreamLost
  PROVE  StreamInv'
<1>1. /\ StreamTypeOK /\ OneWriter /\ TagFirst /\ PrefixRead /\ open = TRUE /\ open' = FALSE
      /\ rx.at # "closed" => \E p, c : Layout(p, c)
      /\ UNCHANGED <<hub, opened, lock, at, frame, buf, rx, sent, got, calls>>
  BY DEF StreamInv, StreamLost, StreamTypeOK
<1>2. PICK n \in 0..Len(wire) : wire' = SubSeq(wire, 1, n)
  BY DEF StreamLost
<1>3. PICK lw \in Nat, lb \in Nat : lw = Len(wire) /\ lb = Len(buf) /\ n \in Nat /\ n <= lw
  BY <1>1, <1>2, SMTT(30) DEF StreamTypeOK
<1>4. wire' \in Seq(Bytes) /\ Len(wire') = n /\ \A k \in 1..n : wire'[k] = wire[k]
  BY <1>1, <1>2, <1>3, SMTT(30) DEF StreamTypeOK
<1>5. StreamTypeOK' /\ OneWriter'
  BY <1>1, <1>4 DEF StreamTypeOK, OneWriter
<1>6. TagFirst' /\ PrefixRead'
  <2>1. wire = <<>> => wire' = <<>>
    BY <1>1, <1>3, <1>4, SMTT(30) DEF StreamTypeOK
  <2>. QED
    BY <1>1, <2>1 DEF TagFirst, PrefixRead
<1>7. Count = lw + lb /\ Count' = n
  BY <1>1, <1>3, <1>4, SMTT(30) DEF Count
<1>8. \A k \in 1..n : Byte(k)' = Byte(k)
  BY <1>3, <1>4, SMTT(30) DEF Byte
<1>9. ASSUME NEW p, NEW c, Layout(p, c) PROVE Layout(p, c)'
  <2>1. /\ Places(p) /\ c \in Int /\ Reader(p, c) /\ Spelled(p, c)
        /\ c + Count <= p[Len(sent) + 1]
    BY <1>9 DEF Layout
  <2>2. Spelled(p, c)'
    <3>1. Count' \in Nat /\ Count' <= Count /\ \A k \in 1..Count' : Byte(k)' = Byte(k)
      BY <1>3, <1>7, <1>8, SMTT(30)
    <3>. QED
      BY <1>1, <2>1, <3>1, SameBytes
  <2>3. Places(p)'
    BY <1>1, <2>1 DEF Places
  <2>4. Reader(p, c)'
    <3>1. n >= 4 => lw >= 4 /\ 3 \in 1..n /\ 4 \in 1..n
      BY <1>3, SMTT(30)
    <3>. QED
      BY <1>1, <1>3, <1>4, <2>1, <3>1 DEF Reader
  <2>5. (c + Count <= p[Len(sent) + 1])'
    <3>1. p[Len(sent) + 1] \in Int
      BY <1>1, <2>1, PlaceTypes
    <3>2. c + n <= p[Len(sent) + 1]
      BY <1>3, <1>7, <2>1, <3>1, SMTT(30)
    <3>. QED
      BY <1>1, <1>7, <3>2
  <2>. QED
    BY <1>1, <2>1, <2>2, <2>3, <2>4, <2>5 DEF Layout
<1>. QED
  BY <1>1, <1>5, <1>6, <1>9 DEF StreamInv

(* The client names the stream before any port writes to it. *)
LEMMA WriteTagStep ==
  ASSUME StreamInv, WriteTag
  PROVE  StreamInv'
<1>1. /\ StreamTypeOK /\ OneWriter /\ TagFirst /\ PrefixRead /\ open = TRUE /\ opened = FALSE
      /\ opened' = TRUE /\ wire' = <<0, 0>> \o Header(Len(TunTag)) \o TunTag
      /\ UNCHANGED <<hub, open, lock, at, frame, buf, rx, sent, got, calls>>
  BY DEF StreamInv, WriteTag, StreamTypeOK
<1>2. /\ sent = <<>> /\ got = <<>> /\ wire = <<>> /\ buf = <<>> /\ lock = {}
      /\ rx.at \in {"tagHeader", "closed"}
  BY <1>1 DEF TagFirst
<1>4. wire' \in Seq(Bytes) /\ Len(wire') = 5 /\ wire'[3] = 0 /\ wire'[4] = 1
  <2>1. Header(1) = <<0, 1>>
    BY SMT, SMTT(30) DEF Header
  <2>2. wire' = <<0, 0>> \o <<0, 1>> \o <<116>>
    BY <1>1, <2>1 DEF TunTag
  <2>3. PICK x \in Seq(Nat), y \in Seq(Nat), z \in Seq(Nat) :
          /\ x = <<0, 0>> /\ y = <<0, 1>> /\ z = <<116>>
          /\ Len(x) = 2 /\ Len(y) = 2 /\ Len(z) = 1 /\ y[1] = 0 /\ y[2] = 1
    <3>1. <<0, 0>> \in Seq(Nat) /\ Len(<<0, 0>>) = 2
      BY SMTT(30)
    <3>2. <<0, 1>> \in Seq(Nat) /\ Len(<<0, 1>>) = 2 /\ <<0, 1>>[1] = 0 /\ <<0, 1>>[2] = 1
      BY SMTT(30)
    <3>3. <<116>> \in Seq(Nat) /\ Len(<<116>>) = 1
      BY SMTT(30)
    <3>. QED
      BY <3>1, <3>2, <3>3
  <2>4. /\ x \o y \in Seq(Nat) /\ Len(x \o y) = 4
        /\ (x \o y)[3] = y[1] /\ (x \o y)[4] = y[2]
    BY <2>3, SMTT(30)
  <2>5. /\ (x \o y) \o z \in Seq(Nat) /\ Len((x \o y) \o z) = 5
        /\ ((x \o y) \o z)[3] = (x \o y)[3] /\ ((x \o y) \o z)[4] = (x \o y)[4]
    BY <2>3, <2>4, SMTT(30)
  <2>. QED
    BY <2>2, <2>3, <2>4, <2>5 DEF Bytes
<1>5. StreamTypeOK' /\ OneWriter'
  BY <1>1, <1>4 DEF StreamTypeOK, OneWriter
<1>6. TagFirst' /\ PrefixRead'
  BY <1>1 DEF TagFirst, PrefixRead
<1>7. ASSUME NEW p, NEW c, Layout(p, c), rx.at = "tagHeader" PROVE Layout(p, c)'
  <2>1. Places(p) /\ c = -5 /\ rx.need = 4 /\ p[1] = 0
    BY <1>7 DEF Layout, Reader, Places
  <2>2. Len(sent') = 0 /\ Len(buf') = 0
    BY <1>1, <1>2
  <2>3. Count' = 5
    BY <1>1, <1>4, <2>2, SMTT(30) DEF Count
  <2>4. Spelled(p, c)'
    BY <2>2, SMTT(30) DEF Spelled
  <2>5. Places(p)'
    BY <1>1, <2>1 DEF Places
  <2>6. Reader(p, c)'
    BY <1>1, <1>2, <1>4, <1>7, <2>1, SMTT(30) DEF Reader
  <2>7. c + Count' = 0 /\ p[Len(sent') + 1] = 0
    <3>1. c + Count' = 0 /\ Len(sent') + 1 = 1
      BY <2>1, <2>2, <2>3, SMTT(30)
    <3>. QED
      BY <2>1, <3>1
  <2>8. \A w \in Writers : at'[w] = "idle"
    BY <1>1, <1>2 DEF OneWriter
  <2>9. Written(p, c + Count)'
    BY <2>7, <2>8 DEF Written
  <2>10. (c + Count <= p[Len(sent) + 1])' /\ c \in Int
    BY <2>1, <2>7, SMTT(30)
  <2>. QED
    BY <2>4, <2>5, <2>6, <2>9, <2>10 DEF Layout
<1>8. rx'.at # "closed" => rx.at = "tagHeader" /\ \E p, c : Layout(p, c)
  BY <1>1, <1>2 DEF StreamInv
<1>. QED
  BY <1>5, <1>6, <1>7, <1>8 DEF StreamInv

LEMMA StreamInitInv == StreamInit => StreamInv
<1> SUFFICES ASSUME StreamInit PROVE StreamInv
  OBVIOUS
<1>1. /\ Len(sent) = 0 /\ Len(got) = 0 /\ Len(buf) = 0 /\ Len(wire) = 0
      /\ sent = <<>> /\ got = <<>> /\ buf = <<>> /\ wire = <<>> /\ lock = {} /\ open = TRUE
      /\ \A w \in Writers : at[w] = "idle"
  BY DEF StreamInit
<1>2. \/ opened = FALSE /\ rx = [at |-> "tagHeader", need |-> 4]
      \/ opened = TRUE /\ rx = [at |-> "header", need |-> 2]
  BY DEF StreamInit, Reading
<1>3. rx \in [at : {"tagHeader", "tag", "header", "payload", "closed"}, need : Nat]
  BY <1>2, SMTT(30)
<1>4. at \in [Writers -> {"idle", "header", "payload", "flush"}] /\ frame \in [Writers -> Seq(Bytes)]
  BY SMTT(30) DEF StreamInit
<1>5. StreamTypeOK
  <2>1. hub \in BOOLEAN /\ opened \in BOOLEAN /\ open \in BOOLEAN
    BY DEF StreamInit
  <2>2. buf \in Seq(Bytes) /\ wire \in Seq(Bytes) /\ sent \in Seq(Seq(Bytes)) /\ got \in Seq(Seq(Bytes))
    BY <1>1, SMTT(30)
  <2>3. \A j \in 1..Len(sent) : FALSE
    BY <1>1, SMTT(30)
  <2>. QED
    BY <1>3, <1>4, <2>1, <2>2, <2>3 DEF StreamTypeOK
<1>6. OneWriter /\ TagFirst /\ PrefixRead
  BY <1>1, <1>2, SMTT(30) DEF OneWriter, TagFirst, PrefixRead
<1>7. PICK p \in [1..1 -> Int] : p = [j \in 1..1 |-> 0]
  <2>1. [j \in 1..1 |-> 0] \in [1..1 -> Int]
    BY SMTT(30)
  <2>. QED
    BY <2>1
<1>13. PICK c \in Int : c = IF rx.at = "header" THEN 0 ELSE -5
  <2>1. 0 \in Int /\ -5 \in Int
    BY SMTT(30)
  <2>. QED
    BY <2>1
<1>8. p[1] = 0 /\ Len(sent) + 1 = 1 /\ Len(got) + 1 = 1 /\ Count = 0
  BY <1>1, <1>7, SMTT(30) DEF Count
<1>9. Places(p) /\ Spelled(p, c)
  <2>1. p \in [1..(Len(sent) + 1) -> Int]
    BY <1>7, <1>8
  <2>. QED
    BY <1>1, <1>8, <2>1, SMTT(30) DEF Places, Spelled
<1>10. Reader(p, c)
  BY <1>1, <1>2, <1>8, <1>13, SMTT(30) DEF Reader
<1>11. (opened = TRUE => Written(p, c + Count)) /\ c + Count <= p[Len(sent) + 1]
  <2>1. c + Count = c /\ c <= 0
    BY <1>8, <1>13, SMTT(30)
  <2>2. opened = TRUE => c = 0
    BY <1>2, <1>13, SMTT(30)
  <2>. QED
    BY <1>1, <1>8, <2>1, <2>2 DEF Written
<1>12. Layout(p, c)
  BY <1>9, <1>10, <1>11 DEF Layout
<1>. QED
  BY <1>5, <1>6, <1>12 DEF StreamInv

(* The last frame accepted comes after all the others. *)
Extended(p, n, l) == [j \in 1..(n + 2) |-> IF j = n + 2 THEN p[n + 1] + 2 + l ELSE p[j]]

LEMMA ExtendedPlaces ==
  ASSUME StreamTypeOK, NEW p, Places(p), NEW f \in Seq(Bytes), sent' = Append(sent, f),
         NEW n \in Nat, n = Len(sent), NEW l \in Nat, l = Len(f)
  PROVE  /\ Places(Extended(p, n, l))' /\ Len(sent') = n + 1
         /\ \A j \in 1..n : sent'[j] = sent[j] /\ Len(sent'[j]) \in Nat
         /\ sent'[n + 1] = f
         /\ \A j \in 1..(n + 1) : Extended(p, n, l)[j] = p[j]
<1>1. Len(sent') = n + 1 /\ (\A j \in 1..n : sent'[j] = sent[j]) /\ sent'[n + 1] = f
  BY SMTT(30) DEF StreamTypeOK
<1>2. p \in [1..(n + 1) -> Int] /\ p[1] = 0
  BY DEF Places
<1>3. PICK e : e = Extended(p, n, l)
  OBVIOUS
<1>4. /\ e \in [1..(n + 2) -> Int] /\ e[n + 2] = p[n + 1] + 2 + l
      /\ \A j \in 1..(n + 1) : e[j] = p[j]
  <2>1. n + 1 \in 1..(n + 1) /\ p[n + 1] \in Int /\ p[n + 1] + 2 + l \in Int
    BY <1>2, SMTT(30)
  <2>2. \A j \in 1..(n + 2) : j # n + 2 => j \in 1..(n + 1)
    BY SMTT(30)
  <2>3. \A j \in 1..(n + 1) : j \in 1..(n + 2) /\ j # n + 2
    BY SMTT(30)
  <2>. QED
    BY <1>2, <1>3, <2>1, <2>2, <2>3, SMTT(30) DEF Extended
<1>5. \A j \in 1..n : /\ Len(sent'[j]) \in Nat /\ p[j + 1] = p[j] + 2 + Len(sent'[j])
                      /\ \A m \in 1..(n + 1) : j < m => p[j] + 2 + Len(sent'[j]) <= p[m]
  BY <1>1 DEF Places, StreamTypeOK
<1>6. ASSUME NEW j \in 1..(n + 1) PROVE e[j + 1] = e[j] + 2 + Len(sent'[j])
  <2>1. CASE j = n + 1
    BY <1>1, <1>4, <2>1, SMTT(30)
  <2>2. CASE j \in 1..n
    <3>1. j + 1 \in 1..(n + 1)
      BY <2>2, SMTT(30)
    <3>. QED
      BY <1>4, <1>5, <2>2, <3>1
  <2>. QED
    BY <2>1, <2>2, SMTT(30)
<1>7. ASSUME NEW j \in 1..(n + 1), NEW m \in 1..(n + 2), j < m
      PROVE  e[j] + 2 + Len(sent'[j]) <= e[m]
  <2>1. p[n + 1] \in Int /\ e[j] \in Int /\ e[j] = p[j]
    <3>1. n + 1 \in 1..(n + 1) /\ j \in 1..(n + 2)
      BY SMTT(30)
    <3>. QED
      BY <1>2, <1>4, <3>1
  <2>2. CASE j = n + 1
    <3>1. m = j + 1
      BY <1>7, <2>2, SMTT(30)
    <3>2. e[m] = e[j] + 2 + Len(sent'[j]) /\ Len(sent'[j]) = l
      BY <1>1, <1>6, <2>2, <3>1
    <3>. QED
      BY <2>1, <3>2, SMTT(30)
  <2>3. CASE j \in 1..n
    <3>1. CASE m \in 1..(n + 1)
      BY <1>4, <1>5, <1>7, <2>1, <2>3, <3>1
    <3>2. CASE m = n + 2
      <4>1. j < n + 1 /\ n + 1 \in 1..(n + 1)
        BY <2>3, SMTT(30)
      <4>2. p[j] + 2 + Len(sent'[j]) <= p[n + 1] /\ Len(sent'[j]) \in Nat
        BY <1>5, <2>3, <4>1
      <4>3. e[m] = p[n + 1] + 2 + l
        BY <1>4, <3>2
      <4>. QED
        BY <2>1, <4>2, <4>3, SMTT(30)
    <3>. QED
      BY <3>1, <3>2, SMTT(30)
  <2>. QED
    BY <2>2, <2>3, SMTT(30)
<1>8. Places(e)'
  <2>1. 1 \in 1..(n + 1) /\ Len(sent') + 1 = n + 2
    BY <1>1, SMTT(30)
  <2>2. e[1] = 0
    BY <1>2, <1>4, <2>1
  <2>. QED
    BY <1>1, <1>4, <1>6, <1>7, <2>1, <2>2 DEF Places
<1>. QED
  BY <1>1, <1>3, <1>4, <1>5, <1>8

(* send: the frame takes its place behind the others; its bytes are not    *)
(* written yet.                                                            *)
LEMMA SendStep ==
  ASSUME StreamInv, NEW w \in Writers, Send(w)
  PROVE  StreamInv'
<1>1. /\ StreamTypeOK /\ OneWriter /\ TagFirst /\ PrefixRead /\ opened = TRUE /\ open = TRUE
      /\ lock = {} /\ at[w] = "idle"
      /\ rx.at # "closed" => \E p, c : Layout(p, c)
      /\ UNCHANGED <<hub, opened, open, buf, wire, rx, got>>
  BY DEF StreamInv, Send, Locks, StreamTypeOK
<1>2. PICK f \in Frames :
        IF InRange(f)
        THEN /\ lock' = lock \cup {w} /\ at' = [at EXCEPT ![w] = "header"]
             /\ frame' = [frame EXCEPT ![w] = f] /\ sent' = Append(sent, f)
        ELSE UNCHANGED <<lock, at, frame, sent>>
  BY DEF Send
<1>3. CASE ~InRange(f)
  <2>1. UNCHANGED <<hub, opened, open, lock, at, frame, buf, wire, rx, sent, got>>
    BY <1>1, <1>2, <1>3
  <2>2. ASSUME NEW p, NEW c, Layout(p, c) PROVE Layout(p, c)'
    BY <2>1, <2>2, SMTT(30) DEF Layout, Places, Reader, Spelled, Written, Count, Byte, Encoded
  <2>3. StreamTypeOK' /\ OneWriter' /\ TagFirst' /\ PrefixRead'
    BY <1>1, <2>1 DEF StreamTypeOK, OneWriter, TagFirst, PrefixRead
  <2>. QED
    BY <1>1, <2>1, <2>2, <2>3 DEF StreamInv
<1>4. CASE InRange(f)
  <2>1. /\ lock' = {w} /\ at' = [at EXCEPT ![w] = "header"]
        /\ frame' = [frame EXCEPT ![w] = f] /\ sent' = Append(sent, f)
    <3>1. lock' = lock \cup {w} /\ lock = {}
      BY <1>1, <1>2, <1>4
    <3>2. lock' = {w}
      BY <3>1, SMTT(30)
    <3>. QED
      BY <1>2, <1>4, <3>2
  <2>2. f \in Seq(Bytes)
    BY FrameStreamAssumption, SMTT(30) DEF Bytes
  <2>3. PICK n \in Nat, l \in Nat : n = Len(sent) /\ l = Len(f) /\ l >= 1 /\ l <= MaxEtherFrame
    <3>1. Len(sent) \in Nat /\ Len(f) \in Nat
      BY <1>1, <2>2, SMTT(30) DEF StreamTypeOK
    <3>2. Len(f) >= 1 /\ Len(f) <= MaxEtherFrame
      BY <1>4, <3>1, SMTT(30) DEF InRange
    <3>. QED
      BY <3>1, <3>2
  <2>4. \A v \in Writers : at[v] = "idle"
    <3>1. \A v \in Writers : at[v] # "idle" => v \in lock
      BY <1>1 DEF OneWriter
    <3>. QED
      BY <1>1, <3>1
  <2>5. /\ at' \in [Writers -> {"idle", "header", "payload", "flush"}] /\ at'[w] = "header"
        /\ \A v \in Writers \ {w} : at'[v] = "idle"
        /\ frame' \in [Writers -> Seq(Bytes)] /\ frame'[w] = f
    BY <1>1, <2>1, <2>2, <2>4 DEF StreamTypeOK
  <2>6. /\ sent' \in Seq(Seq(Bytes)) /\ Len(sent') = n + 1 /\ sent'[n + 1] = f
        /\ \A j \in 1..n : sent'[j] = sent[j]
    BY <1>1, <2>1, <2>2, <2>3, SMTT(30) DEF StreamTypeOK
  <2>7. StreamTypeOK'
    <3>1. ASSUME NEW j \in 1..(n + 1)
          PROVE  Len(sent'[j]) \in Nat /\ Len(sent'[j]) >= 1 /\ Len(sent'[j]) <= MaxEtherFrame
      <4>1. CASE j = n + 1
        BY <2>3, <2>6, <4>1
      <4>2. CASE j \in 1..n
        BY <1>1, <2>3, <2>6, <4>2 DEF StreamTypeOK
      <4>. QED
        BY <4>1, <4>2, SMTT(30)
    <3>. QED
      BY <1>1, <2>5, <2>6, <3>1 DEF StreamTypeOK
  <2>8. OneWriter'
    <3>1. Len(sent') > 0 /\ frame'[w] = sent'[Len(sent')]
      BY <2>5, <2>6, SMTT(30)
    <3>. QED
      BY <2>1, <2>5, <3>1 DEF OneWriter
  <2>9. TagFirst'
    BY <1>1 DEF TagFirst
  <2>10. PrefixRead'
    <3>3. Len(got) \in Nat
      BY <1>1, SMTT(30) DEF StreamTypeOK
    <3>1. Len(got) <= n /\ \A j \in 1..Len(got) : got[j] = sent[j]
      BY <1>1, <2>3 DEF PrefixRead
    <3>2. Len(got) <= n + 1 /\ \A j \in 1..Len(got) : j \in 1..n
      BY <3>1, <3>3, SMTT(30)
    <3>. QED
      BY <1>1, <2>6, <3>1, <3>2 DEF PrefixRead
  <2>11. ASSUME NEW p, NEW c, Layout(p, c) PROVE \E e : Layout(e, c)'
    <3>1. /\ Places(p) /\ c \in Int /\ Reader(p, c) /\ Spelled(p, c)
          /\ Written(p, c + Count) /\ c + Count <= p[n + 1]
      BY <1>1, <2>3, <2>11 DEF Layout
    <3>2. PICK e : /\ Places(e)' /\ \A j \in 1..(n + 1) : e[j] = p[j]
      <4>1. /\ Places(Extended(p, n, l))'
            /\ \A j \in 1..(n + 1) : Extended(p, n, l)[j] = p[j]
        <5>1. /\ StreamTypeOK /\ Places(p) /\ sent' = Append(sent, f)
              /\ n = Len(sent) /\ l = Len(f)
          BY <1>1, <2>1, <2>3, <3>1
        <5>. QED
          BY <2>2, <5>1, ExtendedPlaces, SMTT(30)
      <4>. QED
        BY <4>1
    <3>3. Count' = Count /\ Count \in Nat
      BY <1>1, Counted DEF Count
    <3>4. \A k : Byte(k)' = Byte(k)
      BY <1>1 DEF Byte
    <3>5. Spelled(e, c)'
      <4> SUFFICES ASSUME NEW j \in 1..(n + 1), NEW i \in 1..(Len(sent'[j]) + 2),
                          e[j] + i - c \in 1..Count
                   PROVE  Byte(e[j] + i - c) = Encoded(sent'[j], i)
        BY <2>6, <3>3, <3>4 DEF Spelled, Encoded
      <4>1. CASE j \in 1..n
        BY <2>3, <2>6, <3>1, <3>2, <4>1 DEF Spelled
      <4>2. CASE j = n + 1
        <5>1. e[j] = p[n + 1] /\ p[n + 1] \in Int
          BY <1>1, <2>3, <3>1, <3>2, <4>2, PlaceTypes
        <5>2. PICK q \in Int, cnt \in Nat : q = p[n + 1] /\ cnt = Count
          BY <3>3, <5>1
        <5>3. q + i - c \in 1..cnt /\ c + cnt <= q /\ i \in Int /\ i >= 1
          <6>1. Len(sent'[j]) = l
            BY <2>3, <2>6, <4>2
          <6>2. i \in 1..(l + 2)
            BY <6>1
          <6>. QED
            BY <3>1, <5>1, <5>2, <6>2, SMTT(30)
        <5>. QED
          BY <3>1, <5>3, SMTT(30)
      <4>. QED
        BY <4>1, <4>2, SMTT(30)
    <3>6. Reader(e, c)'
      <4>1. Len(got) \in Nat /\ Len(got) <= n
        <5>1. Len(got) \in Nat
          BY <1>1, SMTT(30) DEF StreamTypeOK
        <5>2. Len(got) <= n
          BY <1>1, <2>3 DEF PrefixRead
        <5>. QED
          BY <5>1, <5>2
      <4>2. Len(got) + 1 \in 1..(n + 1) /\ (Len(got) < n => Len(got) + 1 \in 1..n /\ Len(got) < n + 1)
        BY <4>1, SMTT(30)
      <4>3. e[Len(got) + 1] = p[Len(got) + 1]
        BY <3>2, <4>2
      <4>4. Len(got) < n => sent'[Len(got) + 1] = sent[Len(got) + 1]
        BY <2>6, <4>2
      <4>. QED
        BY <1>1, <2>3, <2>6, <3>1, <4>2, <4>3, <4>4 DEF Reader
    <3>7. Written(e, c + Count)'
      <4>1. c + Count = p[n + 1]
        BY <2>3, <2>4, <3>1 DEF Written
      <4>2. e[Len(sent')] = p[n + 1]
        BY <2>6, <3>2, SMTT(30)
      <4>. QED
        BY <2>5, <3>3, <4>1, <4>2 DEF Written
    <3>8. (c + Count <= e[Len(sent) + 1])'
      <4>1. Len(sent') + 1 = n + 2 /\ n + 1 \in 1..Len(sent')
        BY <2>6, SMTT(30)
      <4>2. e[n + 2] = e[n + 1] + 2 + Len(sent'[n + 1])
        BY <3>2, <4>1, SMTT(30) DEF Places
      <4>3. e[n + 2] = p[n + 1] + 2 + l /\ p[n + 1] \in Int
        BY <1>1, <2>3, <2>6, <3>1, <3>2, <4>1, <4>2, PlaceTypes
      <4>4. c + Count <= p[n + 1] + 2 + l
        BY <3>1, <3>3, <4>3, SMTT(30)
      <4>. QED
        BY <3>3, <4>1, <4>3, <4>4
    <3>9. Layout(e, c)'
      BY <3>1, <3>2, <3>5, <3>6, <3>7, <3>8 DEF Layout
    <3>. QED
      BY <3>9
  <2>. QED
    BY <1>1, <2>7, <2>8, <2>9, <2>10, <2>11 DEF StreamInv
<1>. QED
  BY <1>3, <1>4

LEMMA StreamStepInv == StreamInv /\ [StreamNext]_streamVars => StreamInv'
<1>1. ASSUME StreamInv, UNCHANGED streamVars PROVE StreamInv'
  <2>1. ASSUME NEW p, NEW c, Layout(p, c) PROVE Layout(p, c)'
    BY <1>1, <2>1
       DEF streamVars, Layout, Places, Reader, Spelled, Written, Count, Byte, Encoded
  <2>2. StreamTypeOK' /\ OneWriter' /\ TagFirst' /\ PrefixRead'
    BY <1>1 DEF streamVars, StreamInv, StreamTypeOK, OneWriter, TagFirst, PrefixRead
  <2>. QED
    BY <1>1, <2>1, <2>2 DEF StreamInv, streamVars
<1>2. ASSUME StreamInv, NEW w \in Writers, WriterStep(w) PROVE StreamInv'
  BY <1>2, SendStep, WriteHeaderStep, WritePayloadStep, FlushStep DEF WriterStep
<1>. QED
  BY <1>1, <1>2, WriteTagStep, ReaderStepInv, StreamLostStep DEF StreamNext

(* ReadPacket and WritePacket (internal/l2/frame.go) under the mutex of    *)
(* ServeClient and StartClient: where each byte of the stream stands, for  *)
(* any writers, frames, window and loss.                                   *)
THEOREM StreamInvariant == StreamSpec => []StreamInv
BY StreamInitInv, StreamStepInv, PTL DEF StreamSpec

(* The frames the reader gets are the frames that were accepted, whole and *)
(* in order, and no frame's length is ever misread, for any writers,       *)
(* frames, window and loss of the session.                                 *)
THEOREM FramesInOrderHolds == StreamSpec => []FramesInOrder
<1>1. ASSUME StreamInv PROVE FramesInOrder
  <2>1. /\ Len(got) <= Len(sent) /\ (\A j \in 1..Len(got) : got[j] = sent[j])
        /\ sent \in Seq(Seq(Bytes)) /\ got \in Seq(Seq(Bytes)) /\ rx.at # "rejected"
    BY <1>1 DEF StreamInv, PrefixRead, StreamTypeOK
  <2>2. /\ SubSeq(sent, 1, Len(got)) \in Seq(Seq(Bytes))
        /\ Len(SubSeq(sent, 1, Len(got))) = Len(got)
        /\ \A j \in 1..Len(got) : SubSeq(sent, 1, Len(got))[j] = sent[j]
    BY <2>1, SMTT(30)
  <2>3. got = SubSeq(sent, 1, Len(got))
    BY <2>1, <2>2, SameSequence
  <2>. QED
    BY <2>1, <2>3 DEF FramesInOrder
<1>. QED
  BY <1>1, StreamInvariant, PTL
=============================================================================
