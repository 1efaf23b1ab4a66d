---------------------------- MODULE MCReceivePath ----------------------------
(* A small instance of ReceivePath for TLC, with the bytes of real packets. *)
EXTENDS ReceivePath, TLC

\* nboPacketLength, nboProtocolVersion, type and padding; a 32-bit number.
Header(size, type) == <<0, size, 0, 1, type, 0>>
Uint32(n) == <<0, 0, 0, n>>

Invite == Header(10, 0) \o Uint32(0)
Event == Header(21, 2) \o Uint32(2) \o Uint32(1) \o Uint32(0) \o <<0, 1, 65>>
Ack(pn) == Header(14, 1) \o Uint32(1) \o Uint32(pn)
Notification == Header(18, 7) \o Uint32(1) \o Uint32(0) \o Uint32(1)

MCTraffic ==
    [server |-> <<{Invite}, {Invite}, {Event}>>,
     client |-> <<{Ack(0)}, {Notification}, {Ack(1)}>>]
==============================================================================
