---------------------------- MODULE PacketChannel ----------------------------
(***************************************************************************)
(* What one end of a connection can expect of its reading side: packets    *)
(* come out as they went in, in batches, none twice and none that was not  *)
(* sent; what is lost is lost to a cut batch, or left by a handshake that  *)
(* has found its packet.  ServerProtocol and ClientProtocol are written    *)
(* with the same two operators, Receive and Decoded.                       *)
(***************************************************************************)
EXTENDS Batches

CONSTANT Packet

VARIABLES
    unread,    \* packets sent and not yet received
    batches,   \* what is left of the batches being read, the innermost first
    processed  \* packets that a reader has dealt with

channelVars == <<unread, batches, processed>>

ChannelInit ==
    /\ unread = <<>>
    /\ batches = <<>>
    /\ processed = <<>>

Sending ==
    /\ UNCHANGED <<processed, batches>>
    /\ \E packet \in Packet : unread' = Append(unread, packet)

Open(batch) == IF batch = <<>> THEN <<>> ELSE <<batch>>

Receiving ==
    /\ UNCHANGED processed
    /\ \E received \in Receive(unread) :
         /\ unread' = received.rest
         /\ \E batch \in Decoded(received.batch) :
              batches' = Open(batch) \o batches

Processing ==
    /\ batches # <<>>
    /\ processed' = Append(processed, Head(Head(batches)))
    /\ \/ batches' = Open(Tail(Head(batches))) \o Tail(batches)
       \/ batches' = Tail(batches)
    /\ UNCHANGED unread

ChannelNext == Sending \/ Receiving \/ Processing

ChannelSpec == ChannelInit /\ [][ChannelNext]_channelVars
==============================================================================
