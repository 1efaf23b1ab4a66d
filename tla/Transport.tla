------------------------------ MODULE Transport ------------------------------
(***************************************************************************)
(* A connection after its handshake, as the two protocol executors use it: *)
(* the sockets, the identifier both sides agreed on and the packets.       *)
(***************************************************************************)
EXTENDS Sockets

VARIABLES
    handshake,      \* identifier both IHandshake objects hold
    packetCounter   \* m_packetCounter of the client's executor

transportVars == <<linkUp, serverValid, clientValid, toServer, toClient,
                   handshake, packetCounter>>

\* HandshakeV1 counts from 1, so 0 marks a connection not opened yet.
NoHandshake == 0

------------------------------------------------------------------------------
(* What the peers say to each other (Packets.h).  An event is identified   *)
(* by the client and the packet number it came from: the program keeps no  *)
(* such identity, the model does to tell two saved events apart.           *)

Event == [from: Connection, pn: Nat, size: Nat]

ClientPacket ==
    [type: {"SendEvent"}, pn: Nat, hs: Nat, size: Nat]
    \cup [type: {"SavedEventsRequest"}, pn: Nat, hs: Nat, first: Nat, last: Nat]
    \cup [type: {"NumberOfSavedEventsRequest"}, pn: Nat, hs: Nat]

ServerPacket ==
    [type: {"Ack"}, pn: Nat, hs: Nat]
    \cup [type: {"SavedEventsResponse"}, pn: Nat, hs: Nat, isLast: BOOLEAN,
          event: Event]
    \cup [type: {"NumberOfSavedEventsResponse"}, pn: Nat, hs: Nat, number: Nat]
    \cup [type: {"NewEventsNotification"}, hs: Nat, number: Nat]

SendEvent(pn, hs, size) ==
    [type |-> "SendEvent", pn |-> pn, hs |-> hs, size |-> size]
SavedEventsRequest(pn, hs, first, last) ==
    [type |-> "SavedEventsRequest", pn |-> pn, hs |-> hs,
     first |-> first, last |-> last]
NumberOfSavedEventsRequest(pn, hs) ==
    [type |-> "NumberOfSavedEventsRequest", pn |-> pn, hs |-> hs]

Ack(pn, hs) == [type |-> "Ack", pn |-> pn, hs |-> hs]
SavedEventsResponse(pn, hs, isLast, event) ==
    [type |-> "SavedEventsResponse", pn |-> pn, hs |-> hs,
     isLast |-> isLast, event |-> event]
NumberOfSavedEventsResponse(pn, hs, number) ==
    [type |-> "NumberOfSavedEventsResponse", pn |-> pn, hs |-> hs,
     number |-> number]
NewEventsNotification(hs, number) ==
    [type |-> "NewEventsNotification", hs |-> hs, number |-> number]

------------------------------------------------------------------------------
(* A whole packet is at most 65535 bytes, its 16-bit size field.           *)

MaxPacket == 65535
MaxSendEventText == MaxPacket - 20       \* sizeof(Client::SendEvent)
MaxResponseText == MaxPacket - 29        \* sizeof(Server::SavedEventsResponse)
==============================================================================
