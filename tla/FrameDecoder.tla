---------------------------- MODULE FrameDecoder ----------------------------
(***************************************************************************)
(* The framed byte stream of one connection (protocol/frame.cpp) and the   *)
(* receive loop of serve_connection() (service/server.cpp) that feeds the  *)
(* decoder.  Bytes are units that know the frame and the offset they were  *)
(* written for; a header read at any other place than the start of a frame *)
(* has no magic number.  The checksum is taken to detect what it is meant  *)
(* to detect.  The peer may be any program: it may pipeline, send frames   *)
(* with every defect the decoder looks for, leave its answers unread, and  *)
(* hang up at any byte.                                                    *)
(***************************************************************************)
EXTENDS Integers, Sequences, FiniteSets

CONSTANTS
  HeaderSize,  \* kFrameHeaderSize, in units
  MaxFrame,    \* policy.max_frame_bytes, in units
  RecvChunk,   \* kRecvChunk, in units
  MaxFrames    \* bound on the frames of a connection

ASSUME FrameAssumption ==
  /\ {HeaderSize, RecvChunk} \subseteq Nat \ {0}
  /\ {MaxFrame, MaxFrames} \subseteq Nat

VARIABLES
  sent,      \* the frames the peer has written, [length, defect]
  pipelined, \* history: a frame was written before the one before it was decoded
  hungUp,    \* the peer has closed the connection
  reading,   \* the peer reads its answers
  wire,      \* units written and not yet received
  buffer,    \* buffer_, its first buffered_ units
  failure,   \* failure_
  decoded,   \* history: the frames handed to dispatch_frame()
  pc         \* the loop: "recv", "decode", "send" (in net_send_all()), or "closed"

decoder == <<buffer, failure>>
vars == <<sent, pipelined, hungUp, reading, wire, decoder, decoded, pc>>

(* What the peer may send: legal frames of every length, and every defect that
   next() looks for. *)
Frames ==
  UNION {[length : 0..MaxFrame, defect : {"none"}],
         [length : {MaxFrame}, defect : {"magic", "version", "type", "flags", "integrity"}],
         [length : {MaxFrame + 1}, defect : {"length"}]}

Unit(n, at) == [frame |-> n, at |-> at]

Units(n, f) == [at \in 1..(HeaderSize + f.length) |-> Unit(n, at)]

Init ==
  /\ sent = <<>>
  /\ pipelined = FALSE
  /\ hungUp = FALSE
  /\ reading = TRUE
  /\ wire = <<>>
  /\ buffer = <<>>
  /\ failure = "Ok"
  /\ decoded = <<>>
  /\ pc = "recv"
-----------------------------------------------------------------------------
(* The peer.  A frame without defect is what encode_frame() writes. *)
Send(f) ==
  /\ ~hungUp
  /\ Len(sent) < MaxFrames
  /\ sent' = Append(sent, f)
  /\ pipelined' = (pipelined \/ Len(decoded) # Len(sent))
  /\ wire' = wire \o Units(Len(sent) + 1, f)
  /\ UNCHANGED <<hungUp, reading, decoder, decoded, pc>>

(* The peer is gone; what it wrote arrives up to some unit. *)
HangUp(n) ==
  /\ ~hungUp
  /\ hungUp' = TRUE
  /\ wire' = SubSeq(wire, 1, n)
  /\ UNCHANGED <<sent, pipelined, reading, decoder, decoded, pc>>

(* The peer stops to read its answers, or reads again. *)
TurnReading ==
  /\ ~hungUp
  /\ reading' = ~reading
  /\ UNCHANGED <<sent, pipelined, hungUp, wire, decoder, decoded, pc>>
-----------------------------------------------------------------------------
(* feed(): the buffer is bounded by one frame. *)
Fits(n) == Len(buffer) + n <= MaxFrame + HeaderSize

(* recv() brings some of the units on the wire. *)
Receive(n) ==
  /\ pc = "recv"
  /\ n \in 1..RecvChunk /\ n <= Len(wire)
  /\ wire' = SubSeq(wire, n + 1, Len(wire))
  /\ IF Fits(n)
     THEN /\ buffer' = buffer \o SubSeq(wire, 1, n)
          /\ pc' = "decode"
          /\ UNCHANGED failure
     ELSE /\ failure' = "Oversized"
          /\ pc' = "closed"
          /\ UNCHANGED buffer
  /\ UNCHANGED <<sent, pipelined, hungUp, reading, decoded>>

ReceiveEnd ==
  /\ pc = "recv"
  /\ hungUp /\ wire = <<>>
  /\ pc' = "closed"
  /\ UNCHANGED <<sent, pipelined, hungUp, reading, wire, decoder, decoded>>

(* next(): what the header at the front of the buffer says. *)
HeaderFrame == sent[buffer[1].frame]

HeaderOutcome ==
  CASE buffer[1].at # 1 \/ HeaderFrame.defect = "magic" -> "Corrupt"
    [] HeaderFrame.defect = "version" -> "Unsupported"
    [] HeaderFrame.defect \in {"type", "flags"} -> "Invalid"
    [] HeaderFrame.length > MaxFrame -> "Oversized"
    [] OTHER -> "Ok"

FrameSize == HeaderSize + HeaderFrame.length

NextOutcome ==
  IF Len(buffer) < HeaderSize THEN "NotFound"
  ELSE IF HeaderOutcome # "Ok" THEN HeaderOutcome
  ELSE IF Len(buffer) < FrameSize THEN "NotFound"
  ELSE IF HeaderFrame.defect = "integrity" THEN "Corrupt"
  ELSE "Ok"

(* Mutant of Consumed: only the payload is taken out of the buffer. *)
ConsumedPayload == SubSeq(buffer, HeaderFrame.length + 1, Len(buffer))

Consumed == SubSeq(buffer, FrameSize + 1, Len(buffer))

(* A frame is decoded and dispatched: its answer is sent before the next is looked at. *)
Decode ==
  /\ pc = "decode"
  /\ NextOutcome = "Ok"
  /\ decoded' = Append(decoded, buffer[1].frame)
  /\ buffer' = Consumed
  /\ pc' = "send"
  /\ UNCHANGED <<sent, pipelined, hungUp, reading, wire, failure>>

(* Mutant of Answer: one frame is decoded for each receive. *)
AnswerAndReceive ==
  /\ pc = "send"
  /\ pc' = "recv"
  /\ UNCHANGED <<sent, pipelined, hungUp, reading, wire, decoder, decoded>>

(* net_send_all() has handed the answer to the socket, which may have room for it
   even when the peer does not read. *)
Answer ==
  /\ pc = "send"
  /\ pc' = "decode"
  /\ UNCHANGED <<sent, pipelined, hungUp, reading, wire, decoder, decoded>>

(* The answer does not fit a document, or the send fails: dispatch_frame() is false. *)
AnswerFails ==
  /\ pc = "send"
  /\ pc' = "closed"
  /\ UNCHANGED <<sent, pipelined, hungUp, reading, wire, decoder, decoded>>

NeedMore ==
  /\ pc = "decode"
  /\ NextOutcome = "NotFound"
  /\ pc' = "recv"
  /\ UNCHANGED <<sent, pipelined, hungUp, reading, wire, decoder, decoded>>

Reject ==
  /\ pc = "decode"
  /\ NextOutcome \notin {"Ok", "NotFound"}
  /\ failure' = NextOutcome
  /\ pc' = "closed"
  /\ UNCHANGED <<sent, pipelined, hungUp, reading, wire, buffer, decoded>>

(* The steps of the loop that wait for nothing, or for bytes that are there. *)
Loop == (\E n \in 1..RecvChunk : Receive(n)) \/ ReceiveEnd \/ Decode \/ NeedMore \/ Reject

(* send() has no timeout: it returns for certain only to a peer that reads or is gone. *)
SendReturns == (reading \/ hungUp) /\ (Answer \/ AnswerFails)

Next ==
  \/ \E f \in Frames : Send(f)
  \/ \E n \in 0..Len(wire) : HangUp(n)
  \/ TurnReading
  \/ Loop \/ Answer \/ AnswerFails

(* The thread of the connection runs; select() reports a socket that has bytes; an
   answer is finite, so a peer that reads again and again takes all of it. *)
Spec == Init /\ [][Next]_vars /\ WF_vars(Loop) /\ SF_vars(SendReturns)
-----------------------------------------------------------------------------
(* README section 7, decoding is total and sticky: whatever way the stream is cut
   into receives, the frames dispatched are the frames sent, whole, in order and
   without gap, none of them defective; and a connection is refused only at a
   defective frame, or when the peer did not wait for an answer.  A peer that
   waits is never refused for the way its bytes arrive. *)
StreamIntact ==
  /\ \A n \in 1..Len(decoded) : decoded[n] = n /\ sent[n].defect = "none"
  /\ failure # "Ok" =>
       \/ pipelined
       \/ Len(decoded) < Len(sent) /\ sent[Len(decoded) + 1].defect # "none"

(* The loop is blocked in net_send_all() on a peer that does not read. *)
Stalled == pc = "send" /\ ~reading /\ ~hungUp

(* Every frame is dispatched, or its connection is torn down: no complete frame
   stays behind in the buffer while the loop waits for the peer.  The exception is
   a peer that leaves an answer unread for good: the send has no timeout
   (net.cpp:149), so what this peer wrote after the frame that is being answered is
   never decided. *)
FramesDecided ==
  []<>~Stalled =>
    \A n \in 1..MaxFrames : Len(sent) >= n ~> Len(decoded) >= n \/ pc = "closed"
=============================================================================
