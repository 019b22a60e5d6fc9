---------------------------- MODULE FrameStream -----------------------------
(* One direction of the L2 tunnel's data stream: the goroutines that        *)
(* forward frames to a switch port share one buffered writer under a mutex  *)
(* (ServeClient's and StartClient's send), the stream is a byte pipe with a *)
(* window, and a single reader takes the bytes apart again.  On the way up  *)
(* the client first writes the tunnel frame that names the stream.          *)
EXTENDS Integers, Sequences

CONSTANTS
  Writers,        \* goroutines that forward frames to this port
  Frames,         \* the frames they forward, as sequences of bytes
  MaxEtherFrame,  \* largest frame on the wire (1600 in the code)
  RecvWindow,     \* bytes the stream takes before the reader must read
  MaxCalls        \* bound on the calls of send

ASSUME FrameStreamAssumption ==
  /\ MaxEtherFrame \in Nat \ {0} /\ MaxEtherFrame < 65536 /\ RecvWindow \in Nat \ {0}
  /\ Frames \subseteq Seq(Nat)

VARIABLES
  hub,     \* the server has a TunHub
  opened,  \* the tunnel frame has been written, or is not needed
  open,    \* the session is alive
  lock,    \* wmu: the writers inside send
  at,      \* where each writer is
  frame,   \* the frame each writer forwards
  buf,     \* bw, the buffered writer
  wire,    \* bytes written to the stream and not read yet
  rx,      \* the reader: where it is and how many bytes it waits for
  sent,    \* frames accepted by WritePacket, in the order of the lock
  got,     \* frames read by ReadPacket
  calls    \* calls of send so far

streamVars == <<hub, opened, open, lock, at, frame, buf, wire, rx, sent, got, calls>>

TunTag == <<116>>

Header(n) == <<(n % 65536) \div 256, n % 256>>

Length(b) == 256 * b[1] + b[2]

Reading(where, n) == [at |-> where, need |-> n]

StreamInit ==
  /\ hub \in BOOLEAN
  /\ \/ opened = FALSE /\ rx = Reading("tagHeader", 4)
     \/ opened = TRUE /\ rx = Reading("header", 2) /\ hub
  /\ open = TRUE /\ lock = {} /\ buf = <<>> /\ wire = <<>> /\ sent = <<>> /\ got = <<>>
  /\ at = [w \in Writers |-> "idle"] /\ frame = [w \in Writers |-> <<>>]
  /\ calls = 0

(* WriteFrame of the tunnel frame, before any port writes to the stream.   *)
WriteTag ==
  /\ open /\ ~opened
  /\ opened' = TRUE /\ wire' = <<0, 0>> \o Header(Len(TunTag)) \o TunTag
  /\ UNCHANGED <<hub, open, lock, at, frame, buf, rx, sent, got, calls>>

MutLocks(w) == TRUE

Locks(w) == lock = {}

InRange(f) == Len(f) # 0 /\ Len(f) <= MaxEtherFrame

(* send takes wmu; WritePacket returns at once with a frame out of range.  *)
Send(w) ==
  /\ opened /\ open /\ at[w] = "idle" /\ calls < MaxCalls /\ Locks(w)
  /\ calls' = calls + 1
  /\ \E f \in Frames :
       IF InRange(f)
       THEN /\ lock' = lock \cup {w} /\ at' = [at EXCEPT ![w] = "header"]
            /\ frame' = [frame EXCEPT ![w] = f] /\ sent' = Append(sent, f)
       ELSE UNCHANGED <<lock, at, frame, sent>>
  /\ UNCHANGED <<hub, opened, open, buf, wire, rx, got>>

WriteHeader(w) ==
  /\ at[w] = "header" /\ at' = [at EXCEPT ![w] = "payload"]
  /\ buf' = buf \o Header(Len(frame[w]))
  /\ UNCHANGED <<hub, opened, open, lock, frame, wire, rx, sent, got, calls>>

MutWritePayload(w) ==
  /\ at[w] = "payload" /\ at' = [at EXCEPT ![w] = "idle"] /\ lock' = lock \ {w}
  /\ buf' = buf \o frame[w]
  /\ UNCHANGED <<hub, opened, open, frame, wire, rx, sent, got, calls>>

WritePayload(w) ==
  /\ at[w] = "payload" /\ at' = [at EXCEPT ![w] = "flush"]
  /\ buf' = buf \o frame[w]
  /\ UNCHANGED <<hub, opened, open, lock, frame, wire, rx, sent, got, calls>>

(* Flush writes what the window takes and waits for the reader with the    *)
(* rest; wmu is released when it is done or fails.                         *)
Flush(w) ==
  /\ at[w] = "flush"
  /\ LET room == RecvWindow - Len(wire)
         n == IF Len(buf) < room THEN Len(buf) ELSE room
         done == ~open \/ n = Len(buf)
     IN /\ ~open \/ n > 0 \/ buf = <<>>
        /\ wire' = IF open THEN wire \o SubSeq(buf, 1, n) ELSE wire
        /\ buf' = IF open THEN SubSeq(buf, n + 1, Len(buf)) ELSE <<>>
        /\ at' = [at EXCEPT ![w] = IF done THEN "idle" ELSE "flush"]
        /\ lock' = IF done THEN lock \ {w} ELSE lock
  /\ UNCHANGED <<hub, opened, open, frame, rx, sent, got, calls>>

WriterStep(w) == Send(w) \/ WriteHeader(w) \/ WritePayload(w) \/ Flush(w)

(* io.ReadFull: all the bytes asked for, or an error at the end of stream. *)
ReadFull == Len(wire) >= rx.need

Take == SubSeq(wire, 1, rx.need)

Read(where, then) ==
  /\ rx.at = where /\ ReadFull
  /\ wire' = SubSeq(wire, rx.need + 1, Len(wire))
  /\ rx' = then

(* ReadFrame of handleDataStream, which serves the stream only for the     *)
(* tunnel's name and with a hub.                                           *)
ReadTagHeader ==
  /\ Read("tagHeader", Reading("tag", Length(SubSeq(Take, 3, 4)))) /\ UNCHANGED got

ReadTag ==
  /\ Read("tag", IF Take = TunTag /\ hub THEN Reading("header", 2) ELSE Reading("closed", 0))
  /\ UNCHANGED got

(* ReadPacket: the length, then that many bytes into the reader's buffer.  *)
ReadHeader ==
  /\ LET n == Length(Take)
     IN Read("header", IF n = 0 \/ n > MaxEtherFrame THEN Reading("rejected", 0)
                       ELSE Reading("payload", n))
  /\ UNCHANGED got

ReadPayload == Read("payload", Reading("header", 2)) /\ got' = Append(got, Take)

ReadEnds ==
  /\ rx.at \in {"tagHeader", "tag", "header", "payload"} /\ ~open /\ ~ReadFull
  /\ rx' = Reading("closed", 0) /\ UNCHANGED <<wire, got>>

ReaderStep ==
  /\ ReadTagHeader \/ ReadTag \/ ReadHeader \/ ReadPayload \/ ReadEnds
  /\ UNCHANGED <<hub, opened, open, lock, at, frame, buf, sent, calls>>

(* The session is lost with part of what was written.                      *)
StreamLost ==
  /\ open /\ open' = FALSE
  /\ \E n \in 0..Len(wire) : wire' = SubSeq(wire, 1, n)
  /\ UNCHANGED <<hub, opened, lock, at, frame, buf, rx, sent, got, calls>>

StreamNext == WriteTag \/ (\E w \in Writers : WriterStep(w)) \/ ReaderStep \/ StreamLost

StreamFairness ==
  /\ WF_streamVars(WriteTag) /\ WF_streamVars(ReaderStep)
  /\ \A w \in Writers : WF_streamVars(WriterStep(w) /\ at[w] # "idle")

StreamSpec == StreamInit /\ [][StreamNext]_streamVars /\ StreamFairness

-----------------------------------------------------------------------------
(* Whatever the goroutines interleave, however the window cuts a frame and *)
(* wherever the session ends, the frames ReadPacket hands to the far       *)
(* switch are the frames of the send calls, whole and in the order of the  *)
(* lock: no frame is torn, merged with another or read from a tail.  And   *)
(* ReadPacket never meets a length it refuses, which would end the tunnel: *)
(* WritePacket refuses those frames before it touches the stream.          *)
FramesInOrder ==
  /\ Len(got) <= Len(sent) /\ got = SubSeq(sent, 1, Len(got))
  /\ rx.at # "rejected"

(* A frame that send has accepted reaches the far switch unless the        *)
(* session ends or the far end has no hub: Flush after every frame leaves  *)
(* none waiting in the buffered writer, and a full window empties.         *)
FramesArrive ==
  \A n \in 1..MaxCalls : Len(sent) = n ~> (Len(got) >= n \/ ~open \/ ~hub)
=============================================================================
