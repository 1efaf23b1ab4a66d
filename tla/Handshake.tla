------------------------------ MODULE Handshake ------------------------------
(***************************************************************************)
(* What the two HandshakeV1 objects say to each other over a new           *)
(* connection: the client invites, the server answers with an identifier.  *)
(***************************************************************************)
EXTENDS Sockets

\* HandshakeV1 of the server counts from 1.
NoId == 0

HandshakeInvite == [type |-> "HandshakeInvite"]
Ack(id) == [type |-> "Ack", hs |-> id]

\* receive() returns nothing of an invalid connection, whatever it has got.
Readable(channel, valid) ==
    [c \in Connection |-> IF valid[c] THEN channel[c] ELSE <<>>]
==============================================================================
