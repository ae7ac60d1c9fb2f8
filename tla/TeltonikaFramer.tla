--------------------------- MODULE TeltonikaFramer ---------------------------
(***************************************************************************)
(* packages/teltonika: how the byte stream of one device becomes protocol  *)
(* events.  A unit of the modelled stream is one field of a frame, and,    *)
(* like bytes, a unit carries no mark of the field it was sent as: only    *)
(* its position in the framer's buffer decides how it is read.             *)
(*                                                                         *)
(*   handshake  <<ImeiDigits, the IMEI>>                                   *)
(*   packet     <<0, length of the data, data, CRC of the data>>           *)
(*   data       <<codec, count, one unit per record, count>>               *)
(***************************************************************************)
EXTENDS Naturals, Sequences, SequencesExt

CONSTANT MaxFrame  \* maxFrameBytes, in units

ASSUME FramerAssumption == MaxFrame \in Nat

ImeiDigits  == 15
Imei        == 3      \* stands for fifteen ASCII digits
Codecs      == {8}    \* Codec 8; 8E differs in the width of its fields
HeaderUnits == 2
CrcUnits    == 1

\* A checksum that any change of one unit changes.
Crc16(data) == FoldLeft(LAMBDA sum, u : (3 * sum + u) % 251, 0, data)

-----------------------------------------------------------------------------
(* What a device sends (testing.ts builds the same frames).                *)

HandshakeFrame == <<ImeiDigits, Imei>>

AvlFrame(records) ==
  LET n    == Len(records)
      data == <<8, n>> \o records \o <<n>>
  IN  <<0, Len(data)>> \o data \o <<Crc16(data)>>

-----------------------------------------------------------------------------
(* Events of the framer.  NeedMore stands for null.                        *)

Event(type, records) == [type |-> type, records |-> records]
NeedMore   == Event("need-more", << >>)
ImeiRead   == Event("imei", << >>)
BadCrc     == Event("bad-crc", << >>)
Failure(r) == Event(r, << >>)
Packet(records) == Event("packet", records)

Failures == {"invalid-imei", "bad-preamble", "frame-too-large", "parse-error"}

\* What is between the buffer and the next frame: the event and the units it
\* consumes.
Cut(event, units) == [event |-> event, units |-> units]

NextHandshake(buf) ==
  IF buf = << >> THEN Cut(NeedMore, 0)
  ELSE IF buf[1] # ImeiDigits THEN Cut(Failure("invalid-imei"), 0)
  ELSE IF Len(buf) < 2 THEN Cut(NeedMore, 0)
  ELSE IF buf[2] # Imei THEN Cut(Failure("invalid-imei"), 0)
  ELSE Cut(ImeiRead, 2)

\* The records of a data field whose checksum is right.
ReadData(data) ==
  LET count == data[2] IN
  IF Len(data) < 3 THEN Failure("parse-error")
  ELSE IF data[1] \notin Codecs \/ Len(data) < count + 3 THEN Failure("parse-error")
  ELSE IF data[count + 3] # count THEN Failure("parse-error")
  ELSE Packet(SubSeq(data, 3, count + 2))

\* Mutant: the checksum of a packet is not compared.
ParseAvlPacketUnchecked(frame) == ReadData(SubSeq(frame, 3, Len(frame) - CrcUnits))

\* A wrong checksum makes everything in the frame untrustworthy.
ParseAvlPacket(frame) ==
  LET data == SubSeq(frame, HeaderUnits + 1, Len(frame) - CrcUnits) IN
  IF frame[Len(frame)] # Crc16(data) THEN BadCrc ELSE ReadData(data)

NextPacket(buf) ==
  LET frame == HeaderUnits + buf[2] + CrcUnits IN
  IF Len(buf) < HeaderUnits THEN Cut(NeedMore, 0)
  ELSE IF buf[1] # 0 THEN Cut(Failure("bad-preamble"), 0)
  ELSE IF frame > MaxFrame THEN Cut(Failure("frame-too-large"), 0)
  ELSE IF Len(buf) < frame THEN Cut(NeedMore, 0)
  ELSE Cut(ParseAvlPacket(SubSeq(buf, 1, frame)), frame)

-----------------------------------------------------------------------------
(* The framer of one connection.                                           *)

Framers == [state : {"awaiting-imei", "streaming", "failed"}, buffer : Seq(Nat)]

NewFramer  == [state |-> "awaiting-imei", buffer |-> << >>]
DeadFramer == [state |-> "failed", buffer |-> << >>]

Consume(buf, units) == SubSeq(buf, units + 1, Len(buf))

\* The loop of push, from a framer to what is left of it and the events it read.
Drain[f \in Framers] ==
  LET cut  == IF f.state = "awaiting-imei" THEN NextHandshake(f.buffer)
                                           ELSE NextPacket(f.buffer)
      rest == Drain[[state |-> "streaming", buffer |-> Consume(f.buffer, cut.units)]]
  IN  IF cut.event = NeedMore THEN [framer |-> f, events |-> << >>]
      ELSE IF cut.event.type \in Failures
        THEN [framer |-> DeadFramer, events |-> <<cut.event>>]
        ELSE [rest EXCEPT !.events = <<cut.event>> \o @]

\* push: every event the chunk completes, in order.  A spent framer ignores
\* its input.
Push(framer, chunk) ==
  IF framer.state = "failed" THEN [framer |-> framer, events |-> << >>]
  ELSE Drain[[framer EXCEPT !.buffer = @ \o chunk]]

=============================================================================
