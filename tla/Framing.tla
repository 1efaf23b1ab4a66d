------------------------------- MODULE Framing -------------------------------
(***************************************************************************)
(* PacketCoderV1 in bytes: how a BytesStream cuts packets out of the bytes *)
(* of one batch, and which of them DecodedPacket accepts.                  *)
(***************************************************************************)
EXTENDS Naturals, Sequences

Byte == 0..255

\* ntohs of the two bytes before which there are n.
Ntohs(bytes, n) == 256 * bytes[n + 1] + bytes[n + 2]

SizeOfFrameHeader == 4    \* ApplicationProtocol::PacketHeader
SizeOfV1Header == 6       \* PacketHeader: a type and a byte of padding more

\* EventsTypes, each with the size of its structure.
TypeSizes == <<10, 14, 20, 14, 22, 30, 29, 18>>
InviteType == 0
AckType == 1
SendEventType == 2
SavedEventsResponseType == 6
NewEventsNotificationType == 7

TypeOf(packet) == packet[5]
SizeOfType(type) == TypeSizes[type + 1]
------------------------------------------------------------------------------
(* BytesStream::getPacket: the first packet and the rest of the stream.    *)

NoPacket == [found |-> FALSE, packet |-> <<>>, rest |-> <<>>]

FirstPacketSize(stream) == Ntohs(stream, 0)

\* Mutant: a packet that ends with the stream is not whole.
MalformedAtEnd(stream) ==
    \/ Len(stream) < SizeOfFrameHeader
    \/ Len(stream) <= FirstPacketSize(stream)

Malformed(stream) ==
    \/ Len(stream) < SizeOfFrameHeader
    \/ Len(stream) < FirstPacketSize(stream)

GetPacket(stream) ==
    IF Malformed(stream)
    THEN NoPacket
    ELSE LET size == FirstPacketSize(stream) IN
         [found  |-> TRUE,
          packet |-> SubSeq(stream, 1, size),
          rest   |-> SubSeq(stream, size + 1, Len(stream))]

\* A length of 0 takes nothing out of the stream: a loop over it sees the
\* same bytes for ever.
Endless(stream) == ~Malformed(stream) /\ FirstPacketSize(stream) = 0
------------------------------------------------------------------------------
(* The constructor of DecodedPacket throws unless the packet is Decodable. *)

HasText(type) == type \in {SendEventType, SavedEventsResponseType}

\* nboLengthOfText is the last field before the text.  The code reads it
\* even if the packet ends before it, but then rejects the packet anyway.
SizeWithText(packet) ==
    LET size == SizeOfType(TypeOf(packet)) IN size + Ntohs(packet, size - 2)

IsPacketValid(packet) ==
    LET size == SizeOfType(TypeOf(packet)) IN
    /\ size <= Len(packet)
    /\ HasText(TypeOf(packet)) => SizeWithText(packet) = Len(packet)

Decodable(packet) ==
    /\ Len(packet) >= SizeOfV1Header
    /\ Ntohs(packet, 0) = Len(packet)
    /\ TypeOf(packet) \in 0..7
    /\ IsPacketValid(packet)

\* All the loop over a stream ever sees: the packets it decodes, in order.
Packets[stream \in Seq(Byte)] ==
    IF Malformed(stream) \/ Endless(stream)
    THEN <<>>
    ELSE LET next == GetPacket(stream) IN
         (IF Decodable(next.packet) THEN <<next.packet>> ELSE <<>>)
             \o Packets[next.rest]
==============================================================================
