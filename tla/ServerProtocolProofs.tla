------------------------ MODULE ServerProtocolProofs ------------------------
(***************************************************************************)
(* What ServerProtocol keeps for every number of connections, requests and *)
(* events: its types, the registry of callbacks, distinct handshakes, no   *)
(* acknowledgement without a row and no client left out of a notification; *)
(* then the order of things: the numbers a client reads never go back, and *)
(* a packet makes at most one row.                                         *)
(***************************************************************************)
EXTENDS ServerProtocol, SequenceLemmas

------------------------------------------------------------------------------
(* Packets and channels                                                    *)

\* The fields every request has.
LEMMA RequestFields ==
    ASSUME NEW p \in ClientPacket
    PROVE  /\ p.pn \in Nat /\ p.hs \in Nat
           /\ p.type = "SendEvent" => p.size \in Nat
           /\ p.type = "SavedEventsRequest" => p.first \in Nat /\ p.last \in Nat
<1>1. CASE p \in [type: {"SendEvent"}, pn: Nat, hs: Nat, size: Nat]
  BY <1>1
<1>2. CASE p \in [type: {"SavedEventsRequest"}, pn: Nat, hs: Nat, first: Nat,
                  last: Nat]
  BY <1>2
<1>3. CASE p \in [type: {"NumberOfSavedEventsRequest"}, pn: Nat, hs: Nat]
  BY <1>3
<1>4. QED
  BY <1>1, <1>2, <1>3 DEF ClientPacket

\* A channel holds packets; only its first may be a tail.
IsChannel(s, P) ==
    /\ s \in Seq(P \cup {TAIL})
    /\ \A i \in 2..Len(s) : s[i] \in P

\* The end of a channel behind its first n packets is a run of packets.
LEMMA EndOfChannel ==
    ASSUME NEW P, NEW s, IsChannel(s, P), NEW n \in 2..(Len(s) + 1)
    PROVE  SubSeq(s, n, Len(s)) \in Seq(P)
<1>1. Len(s) \in Nat
  BY LenProperties DEF IsChannel
<1>2. \A i \in n..Len(s) : s[i] \in P
  BY <1>1 DEF IsChannel
<1>3. n \in Int /\ Len(s) \in Int
  BY <1>1
<1>4. QED
  BY <1>2, <1>3, SubSeqProperties

\* A run of packets is a channel.
LEMMA PacketsAreChannel ==
    ASSUME NEW P, NEW s \in Seq(P)
    PROVE  IsChannel(s, P)
<1>1. s \in Seq(P \cup {TAIL})
  BY SeqMonotonic
<1>2. Len(s) \in Nat /\ \A i \in 1..Len(s) : s[i] \in P
  BY LenProperties
<1>3. QED
  BY <1>1, <1>2 DEF IsChannel

\* A channel nothing was sent to is one.
LEMMA EmptyChannel == \A P : IsChannel(<<>>, P)
<1>. SUFFICES ASSUME NEW P
              PROVE  IsChannel(<<>>, P)
  OBVIOUS
<1>1. <<>> \in Seq(P)
  BY EmptySeq
<1>2. QED
  BY <1>1, PacketsAreChannel

\* The beginning of a channel is a channel.
LEMMA BeginningOfChannel ==
    ASSUME NEW P, NEW s, IsChannel(s, P), NEW n \in 0..Len(s)
    PROVE  IsChannel(SubSeq(s, 1, n), P)
<1> DEFINE t == SubSeq(s, 1, n)
<1>1. s \in Seq(P \cup {TAIL}) /\ Len(s) \in Nat
  BY LenProperties DEF IsChannel
<1>2. \A i \in 1..n : s[i] \in P \cup {TAIL}
  BY <1>1, ElementOfSeq
<1>3. n \in Int /\ n <= Len(s) /\ 0 <= n
  BY <1>1
<1>4. /\ t \in Seq(P \cup {TAIL})
      /\ Len(t) = IF 1 <= n THEN n - 1 + 1 ELSE 0
      /\ \A i \in 1..(n - 1 + 1) : t[i] = s[1 + i - 1]
  BY <1>2, <1>3, SubSeqProperties
<1>5. Len(t) = n /\ \A i \in 1..n : t[i] = s[i]
  BY <1>3, <1>4
<1>6. \A i \in 2..Len(t) : t[i] \in P
  <2>1. \A i \in 2..n : i \in 2..Len(s) /\ t[i] = s[i]
    BY <1>1, <1>3, <1>5
  <2>2. QED
    BY <1>5, <2>1 DEF IsChannel
<1>7. QED
  BY <1>4, <1>6 DEF IsChannel

\* A packet sent to a channel leaves a channel.
LEMMA AppendToChannel ==
    ASSUME NEW P, NEW s, IsChannel(s, P), NEW p \in P
    PROVE  IsChannel(Append(s, p), P)
<1>1. s \in Seq(P \cup {TAIL}) /\ Len(s) \in Nat
  BY LenProperties DEF IsChannel
<1>2. /\ Append(s, p) \in Seq(P \cup {TAIL})
      /\ Len(Append(s, p)) = Len(s) + 1
      /\ \A i \in 1..Len(s) : Append(s, p)[i] = s[i]
      /\ Append(s, p)[Len(s) + 1] = p
  BY <1>1, AppendProperties
<1>3. ASSUME NEW i \in 2..Len(Append(s, p))
      PROVE  Append(s, p)[i] \in P
  <2>1. CASE i \in 2..Len(s)
    BY <1>1, <1>2, <2>1 DEF IsChannel
  <2>2. CASE i = Len(s) + 1
    BY <1>2, <2>2
  <2>3. QED
    BY <1>1, <1>2, <2>1, <2>2
<1>4. QED
  BY <1>2, <1>3 DEF IsChannel

\* What is left behind a receive() is a channel, and the batch is one too.
LEMMA ReceiveSplitsChannel ==
    ASSUME NEW P, NEW s, IsChannel(s, P), NEW r \in Receive(s)
    PROVE  IsChannel(r.batch, P) /\ IsChannel(r.rest, P)
<1>1. Len(s) \in Nat
  BY LenProperties DEF IsChannel
<1>2. CASE r \in WholePackets(s)
  <2>1. PICK n \in 1..Len(s) : r = [batch |-> SubSeq(s, 1, n),
                                    rest  |-> SubSeq(s, n + 1, Len(s))]
    BY <1>2 DEF WholePackets
  <2>2. n \in 0..Len(s) /\ n + 1 \in 2..(Len(s) + 1)
    BY <1>1
  <2>3. IsChannel(SubSeq(s, 1, n), P)
    BY <2>2, BeginningOfChannel
  <2>4. IsChannel(SubSeq(s, n + 1, Len(s)), P)
    BY <2>2, EndOfChannel, PacketsAreChannel
  <2>5. QED
    BY <2>1, <2>3, <2>4
<1>3. CASE r \in CutPacket(s)
  <2>1. PICK n \in 1..Len(s) :
            r = [batch |-> SubSeq(s, 1, n - 1),
                 rest  |-> <<TAIL>> \o SubSeq(s, n + 1, Len(s))]
    BY <1>3 DEF CutPacket
  <2>2. n - 1 \in 0..Len(s) /\ n + 1 \in 2..(Len(s) + 1)
    BY <1>1
  <2>3. IsChannel(SubSeq(s, 1, n - 1), P)
    BY <2>2, BeginningOfChannel
  <2>. DEFINE rest == SubSeq(s, n + 1, Len(s))
              S == P \cup {TAIL}
  <2>4. rest \in Seq(P)
    BY <2>2, EndOfChannel
  <2>5. rest \in Seq(S) /\ <<TAIL>> \in Seq(S) /\ Len(rest) \in Nat
    BY <2>4, SeqMonotonic, LenProperties
  <2>6. /\ <<TAIL>> \o rest \in Seq(S)
        /\ Len(<<TAIL>> \o rest) = 1 + Len(rest)
        /\ \A i \in 1..(1 + Len(rest)) : (<<TAIL>> \o rest)[i] =
               IF i <= 1 THEN <<TAIL>>[i] ELSE rest[i - 1]
    <3>1. Len(<<TAIL>>) = 1
      OBVIOUS
    <3>. HIDE DEF rest, S
    <3>2. QED
      BY <2>5, <3>1, ConcatProperties
  <2>7. \A i \in 2..(1 + Len(rest)) : (<<TAIL>> \o rest)[i] \in P
    <3>. HIDE DEF rest
    <3>. QED
      BY <2>4, <2>5, <2>6, ElementOfSeq
  <2>8. QED
    BY <2>1, <2>3, <2>6, <2>7 DEF IsChannel
<1>4. QED
  BY <1>2, <1>3 DEF Receive

\* The decoder finds nothing but packets in a channel.
LEMMA DecodedPackets ==
    ASSUME NEW P, NEW b, IsChannel(b, P), NEW packets \in Decoded(b)
    PROVE  packets \in Seq(P)
<1>1. b \in Seq(P \cup {TAIL}) /\ Len(b) \in Nat
  BY LenProperties DEF IsChannel
<1>2. CASE b # <<>> /\ Head(b) = TAIL
  BY <1>2, EndOfChannel DEF Decoded
<1>3. CASE b = <<>>
  BY <1>3 DEF Decoded
<1>4. CASE b # <<>> /\ Head(b) # TAIL
  <2>1. Len(b) >= 1 /\ b[1] # TAIL
    BY <1>1, <1>4, EmptySeq
  <2>2. b[1] \in P
    BY <1>1, <2>1, ElementOfSeq
  <2>3. \A i \in 1..Len(b) : b[i] \in P
    BY <1>1, <2>2 DEF IsChannel
  <2>4. SubSeq(b, 1, Len(b)) \in Seq(P)
    BY <1>1, <2>3, SubSeqProperties
  <2>5. QED
    BY <1>1, <1>4, <2>4, SubSeqFull DEF Decoded
<1>5. QED
  BY <1>2, <1>3, <1>4

\* Every answer to a range of numbers is a sequence of what the table holds.
LEMMA SavedEventsTyped ==
    ASSUME NEW S, NEW t \in Seq(S), NEW first \in Nat, NEW last \in Nat
    PROVE  GetSavedEvents(t, first, last) \in Seq(S)
<1>1. FirstId(first) \in Nat
  <2>1. LAST_EVENT_NUMBER + 1 \in Nat \ {0}
    BY LastEventNumberAssumption
  <2>2. \A a \in Nat, b \in Nat \ {0} : a % b \in Nat
    OBVIOUS
  <2>3. QED
    BY <2>1, <2>2 DEF FirstId, Uint64
<1>2. LastId(last) \in Nat
  BY DEF LastId
<1>3. ASSUME NEW m \in Nat, NEW n \in Nat
      PROVE  Rows(t, m, n) \in Seq(S)
  <2>. DEFINE from == IF m = 0 THEN 1 ELSE m
              to == IF n < Len(t) THEN n ELSE Len(t)
  <2>1. Len(t) \in Nat
    BY LenProperties
  <2>2. from \in Int /\ to \in Int /\ from >= 1 /\ to <= Len(t)
    BY <2>1
  <2>3. \A i \in from..to : t[i] \in S
    <3>. HIDE DEF from, to
    <3>. QED
      BY <2>1, <2>2, ElementOfSeq
  <2>4. SubSeq(t, from, to) \in Seq(S)
    <3>. HIDE DEF from, to
    <3>. QED
      BY <2>2, <2>3, SubSeqProperties
  <2>5. QED
    BY <2>4 DEF Rows
<1>4. QED
  BY <1>1, <1>2, <1>3 DEF GetSavedEvents
------------------------------------------------------------------------------
(* Type correctness.  Two facts make it inductive: the tail of a cut       *)
(* packet only ever comes first in its channel, and a handler that runs    *)
(* has a connection to serve, a packet to handle until it is back at its   *)
(* receive() and, while it responds, an event to send.                     *)

TransportOK ==
    /\ linkUp \in [Connection -> BOOLEAN]
    /\ serverValid \in [Connection -> BOOLEAN]
    /\ clientValid \in [Connection -> BOOLEAN]
    /\ toClient \in [Connection -> Seq(ServerPacket)]
    /\ handshake \in [Connection -> Nat]
    /\ packetCounter \in [Connection -> Nat]

ChannelsOK ==
    /\ toServer = [c \in Connection |-> toServer[c]]
    /\ \A c \in Connection : IsChannel(toServer[c], ClientPacket)

StorageOK ==
    /\ table \in Seq(Event)
    /\ callbacks \subseteq Connection
    /\ executors \subseteq Connection
    /\ handshakeId \in Nat
    /\ notified \in [Connection -> Nat]
    /\ strandedAtServer \in [Connection -> Nat]

HandlerOK ==
    /\ pc \in {"idle", "dispatch", "notify", "respond", "receive"}
    /\ serving \in Connection \cup {NoConnection}
    /\ stream \in Seq(ClientPacket)
    /\ pending \subseteq Connection
    /\ reply \in Seq(Event)
    /\ pc \in {"idle", "receive"} <=> stream = <<>>
    /\ pc # "idle" => serving \in Connection
    /\ pc # "notify" => pending = {}
    /\ pc = "respond" => reply # <<>>

TypeInv == TransportOK /\ ChannelsOK /\ StorageOK /\ HandlerOK

\* What is known of the connections, but for the channels.
LinksOK ==
    /\ linkUp \in [Connection -> BOOLEAN]
    /\ serverValid \in [Connection -> BOOLEAN]
    /\ clientValid \in [Connection -> BOOLEAN]
    /\ handshake \in [Connection -> Nat]
    /\ packetCounter \in [Connection -> Nat]

\* The part that does not depend on who reads what the server sends.
CoreInv == LinksOK /\ ChannelsOK /\ StorageOK /\ HandlerOK

\* The types are the core and the packets under way to the clients.
LEMMA CoreOfTypeInv ==
    TypeInv <=> CoreInv /\ toClient \in [Connection -> Seq(ServerPacket)]
BY DEF TypeInv, CoreInv, TransportOK, LinksOK

\* The strengthened invariant covers the one the runs check.
LEMMA TypeInvImpliesServerTypeOK == TypeInv => ServerTypeOK
<1>1. ASSUME ChannelsOK
      PROVE  toServer \in [Connection -> Seq(ClientPacket \cup {TAIL})]
  BY <1>1 DEF ChannelsOK, IsChannel
<1>2. QED
  BY <1>1 DEF TypeInv, TransportOK, StorageOK, HandlerOK, ServerTypeOK

\* What is sent to a client keeps the channels to the clients typed.
LEMMA SentTyped ==
    ASSUME TransportOK, NEW c \in Connection, NEW packet \in ServerPacket
    PROVE  Sent(toClient, serverValid, c, packet)
               \in [Connection -> Seq(ServerPacket)]
<1>1. toClient[c] \in Seq(ServerPacket)
  BY DEF TransportOK
<1>2. Append(toClient[c], packet) \in Seq(ServerPacket)
  BY <1>1, AppendProperties
<1>3. QED
  BY <1>2 DEF Sent, TransportOK

\* Going to the next packet keeps the handler's state typed.
LEMMA NextPacketTyped ==
    ASSUME HandlerOK, pc \notin {"idle", "receive"}, NextPacket
    PROVE  HandlerOK'
<1>1. stream \in Seq(ClientPacket) /\ stream # <<>>
  BY DEF HandlerOK
<1>2. Tail(stream) \in Seq(ClientPacket)
  BY <1>1, HeadTailProperties
<1>3. <<>> \in Seq(Event)
  OBVIOUS
<1>4. QED
  BY <1>2, <1>3 DEF HandlerOK, NextPacket

\* The packet at hand and the connection it came from.
LEMMA PacketAtHand ==
    ASSUME HandlerOK, pc \notin {"idle", "receive"}
    PROVE  serving \in Connection /\ Head(stream) \in ClientPacket
<1>1. stream \in Seq(ClientPacket) /\ stream # <<>> /\ serving \in Connection
  BY DEF HandlerOK
<1>2. QED
  BY <1>1, HeadTailProperties

\* The server starts with empty channels and an idle handler.
LEMMA InitTyped == Init => TypeInv
<1>. SUFFICES ASSUME TransportInit, ServerInit
              PROVE  TypeInv
  BY DEF Init
<1>1. TransportOK
  BY DEF TransportInit, TransportOK, NoHandshake
<1>2. ChannelsOK
  <2>1. IsChannel(<<>>, ClientPacket)
    BY EmptyChannel
  <2>2. QED
    BY <2>1 DEF TransportInit, ChannelsOK
<1>3. StorageOK
  BY DEF ServerInit, StorageOK
<1>4. HandlerOK
  BY DEF ServerInit, HandlerOK
<1>5. QED
  BY <1>1, <1>2, <1>3, <1>4 DEF TypeInv

\* Every step of the server and the network keeps the types of the core.
LEMMA CoreTyped ==
    ASSUME CoreInv, Server \/ Network
    PROVE  CoreInv'
<1>. LinksOK /\ ChannelsOK /\ StorageOK /\ HandlerOK
  BY DEF CoreInv
<1>. SUFFICES (LinksOK /\ ChannelsOK /\ StorageOK /\ HandlerOK)'
  BY DEF CoreInv
<1>1. CASE IgnorePacket
  <2>1. HandlerOK'
    BY <1>1, NextPacketTyped DEF IgnorePacket
  <2>2. QED
    BY <1>1, <2>1 DEF IgnorePacket, transportVars, LinksOK, ChannelsOK, StorageOK
<1>2. CASE OnSendEvent
  <2>1. pc = "dispatch" /\ Head(stream).type = "SendEvent"
    BY <1>2 DEF OnSendEvent, Dispatching
  <2>2. EventOf(Head(stream)) \in Event
    BY <2>1, PacketAtHand, RequestFields DEF EventOf, Event
  <2>3. StorageOK'
    <3>1. Insert(table, EventOf(Head(stream))) \in Seq(Event)
      BY <2>2, AppendProperties DEF Insert, StorageOK
    <3>2. table' \in Seq(Event)
      BY <1>2, <3>1 DEF OnSendEvent, StorageOK
    <3>3. QED
      BY <1>2, <3>2 DEF OnSendEvent, StorageOK
  <2>4. HandlerOK'
    <3>1. CASE StorageFails
      BY <2>1, <3>1, NextPacketTyped DEF StorageFails
    <3>2. CASE /\ pending' = CallbacksToRun
               /\ pc' = "notify"
               /\ UNCHANGED <<stream, serving, reply>>
      BY <2>1, <3>2 DEF CallbacksToRun, StorageOK, HandlerOK
    <3>3. QED
      BY <1>2, <3>1, <3>2 DEF OnSendEvent
  <2>5. QED
    BY <1>2, <2>3, <2>4 DEF OnSendEvent, transportVars, LinksOK, ChannelsOK
<1>3. ASSUME NEW c \in Connection, OnNewEventSaved(c)
      PROVE  (LinksOK /\ ChannelsOK /\ StorageOK /\ HandlerOK)'
  <2>1. GetNumberOfEvents(table) \in Nat
    BY LenProperties DEF GetNumberOfEvents, StorageOK
  <2>2. LinksOK' /\ ChannelsOK'
    BY <1>3 DEF OnNewEventSaved, LinksOK, ChannelsOK
  <2>3. StorageOK' /\ HandlerOK'
    BY <1>3, <2>1 DEF OnNewEventSaved, NotifiedNumber, StorageOK, HandlerOK
  <2>4. QED
    BY <2>2, <2>3
<1>4. CASE SendAck
  <2>1. HandlerOK'
    BY <1>4, NextPacketTyped DEF SendAck
  <2>2. QED
    BY <1>4, <2>1 DEF SendAck, LinksOK, ChannelsOK, StorageOK
<1>5. CASE OnSavedEventsRequest
  <2>1. pc = "dispatch" /\ Head(stream).type = "SavedEventsRequest"
    BY <1>5 DEF OnSavedEventsRequest, Dispatching
  <2>2. RequestedEvents(Head(stream)) \in Seq(Event)
    BY <2>1, PacketAtHand, RequestFields, SavedEventsTyped
       DEF RequestedEvents, StorageOK
  <2>3. HandlerOK'
    <3>1. CASE NextPacket
      BY <2>1, <3>1, NextPacketTyped
    <3>2. CASE /\ RequestedEvents(Head(stream)) # <<>>
               /\ reply' = RequestedEvents(Head(stream))
               /\ pc' = "respond"
               /\ UNCHANGED <<stream, serving, pending>>
      BY <2>1, <2>2, <3>2 DEF HandlerOK
    <3>3. QED
      BY <1>5, <3>1, <3>2 DEF OnSavedEventsRequest, StorageFails
  <2>4. QED
    BY <1>5, <2>3 DEF OnSavedEventsRequest, transportVars, LinksOK, ChannelsOK,
       StorageOK
<1>6. CASE SendSavedEvent
  <2>1. pc = "respond" /\ reply \in Seq(Event) /\ reply # <<>>
    BY <1>6 DEF SendSavedEvent, HandlerOK
  <2>2. Tail(reply) \in Seq(Event)
    BY <2>1, HeadTailProperties
  <2>3. HandlerOK'
    <3>1. CASE Tail(reply) = <<>>
      BY <1>6, <2>1, <3>1, NextPacketTyped DEF SendSavedEvent
    <3>2. CASE Tail(reply) # <<>>
      BY <1>6, <2>1, <2>2, <3>2 DEF SendSavedEvent, HandlerOK
    <3>3. QED
      BY <3>1, <3>2
  <2>4. QED
    BY <1>6, <2>3 DEF SendSavedEvent, LinksOK, ChannelsOK, StorageOK
<1>7. CASE AbandonReply
  <2>1. HandlerOK'
    BY <1>7, NextPacketTyped DEF AbandonReply
  <2>2. QED
    BY <1>7, <2>1 DEF AbandonReply, transportVars, LinksOK, ChannelsOK, StorageOK
<1>8. CASE OnNumberOfSavedEventsRequest
  <2>1. HandlerOK'
    BY <1>8, NextPacketTyped DEF OnNumberOfSavedEventsRequest, Dispatching
  <2>2. QED
    BY <1>8, <2>1 DEF OnNumberOfSavedEventsRequest, LinksOK, ChannelsOK, StorageOK
<1>9. CASE CheckProtocolsExecutors
  BY <1>9 DEF CheckProtocolsExecutors, Unregistered, Expired, transportVars,
     handlerVars, LinksOK, ChannelsOK, StorageOK, HandlerOK
<1>10. ASSUME NEW c \in Connection, Handshake(c)
       PROVE  (LinksOK /\ ChannelsOK /\ StorageOK /\ HandlerOK)'
  <2>1. handshakeId' \in Nat /\ Len(table) \in Nat
    BY <1>10, LenProperties DEF Handshake, NextHandshakeId, StorageOK
  <2>2. LinksOK' /\ ChannelsOK'
    BY <1>10, <2>1 DEF Handshake, LinksOK, ChannelsOK
  <2>3. StorageOK' /\ HandlerOK'
    BY <1>10, <2>1 DEF Handshake, handlerVars, StorageOK, HandlerOK
  <2>4. QED
    BY <2>2, <2>3
<1>11. ASSUME NEW c \in Connection, OnNewDataReceived(c)
       PROVE  (LinksOK /\ ChannelsOK /\ StorageOK /\ HandlerOK)'
  <2>1. PICK received \in Receive(toServer[c]) :
          /\ toServer' = [toServer EXCEPT ![c] = received.rest]
          /\ \E packets \in Decoded(received.batch) :
               /\ stream' = packets
               /\ pc' = IF packets = <<>> THEN "receive" ELSE "dispatch"
    BY <1>11 DEF OnNewDataReceived, Announced
  <2>2. /\ IsChannel(received.batch, ClientPacket)
        /\ IsChannel(received.rest, ClientPacket)
    BY ReceiveSplitsChannel DEF ChannelsOK
  <2>3. ChannelsOK'
    BY <2>1, <2>2 DEF ChannelsOK
  <2>4. stream' \in Seq(ClientPacket)
    BY <2>1, <2>2, DecodedPackets
  <2>5. HandlerOK'
    BY <1>11, <2>1, <2>4 DEF OnNewDataReceived, HandlerOK
  <2>6. QED
    BY <1>11, <2>3, <2>5 DEF OnNewDataReceived, LinksOK, StorageOK
<1>12. CASE Crash
  <2>1. IsChannel(<<>>, ClientPacket)
    BY EmptyChannel
  <2>2. LinksOK' /\ ChannelsOK'
    BY <1>12, <2>1 DEF Crash, LinksOK, ChannelsOK
  <2>3. StorageOK' /\ HandlerOK'
    BY <1>12 DEF Crash, TableAfterRestart, StorageOK, HandlerOK
  <2>4. QED
    BY <2>2, <2>3
<1>13. ASSUME NEW c \in Connection, LinkBreaks(c) \/ ServerNotices(c)
       PROVE  (LinksOK /\ ChannelsOK /\ StorageOK /\ HandlerOK)'
  <2>1. LinksOK' /\ ChannelsOK'
    BY <1>13 DEF LinkBreaks, ServerNotices, LinksOK, ChannelsOK
  <2>2. StorageOK' /\ HandlerOK'
    BY <1>13 DEF LinkBreaks, ServerNotices, serverVars, handlerVars, StorageOK,
       HandlerOK
  <2>3. QED
    BY <2>1, <2>2
<1>14. CASE ReceiveAgain
  <2>1. serving \in Connection
    BY <1>14 DEF ReceiveAgain, HandlerOK
  <2>2. Len(toServer[serving]) \in Nat
    BY <2>1, LenProperties DEF ChannelsOK, IsChannel
  <2>3. HandlerOK'
    BY <1>14 DEF ReceiveAgain, HandlerOK
  <2>4. StorageOK'
    <3>1. PICK k \in Nat : strandedAtServer' = [strandedAtServer EXCEPT ![serving] = k]
      BY <1>14, <2>2 DEF ReceiveAgain
    <3>2. QED
      BY <1>14, <3>1 DEF ReceiveAgain, StorageOK
  <2>5. QED
    BY <1>14, <2>3, <2>4 DEF ReceiveAgain, transportVars, LinksOK, ChannelsOK
<1>15. QED
  BY <1>1, <1>2, <1>3, <1>4, <1>5, <1>6, <1>7, <1>8, <1>9, <1>10, <1>11,
     <1>12, <1>13, <1>14 DEF Server, ServerStep, Network

\* What the server may send to c in this state.
Due(c, packet) ==
    \/ /\ packet.type = "NewEventsNotification" /\ pc = "notify" /\ c \in pending
       /\ packet.hs = handshake[c] /\ packet.number = Len(table)
    \/ /\ c = serving /\ packet.pn = Head(stream).pn /\ packet.hs = Head(stream).hs
       /\ \/ packet.type = "Ack" /\ pc = "notify"
          \/ /\ packet.type = "SavedEventsResponse" /\ pc = "respond"
             /\ packet.event = Head(reply) /\ packet.isLast = (Len(reply) = 1)
          \/ /\ packet.type = "NumberOfSavedEventsResponse" /\ pc = "dispatch"
             /\ Head(stream).type = "NumberOfSavedEventsRequest"
             /\ packet.number = Len(table)

\* A step of the server sends nothing or one packet.
LEMMA ServerSends ==
    ASSUME CoreInv, Server \/ Network
    PROVE  \/ UNCHANGED toClient
           \/ \E c \in Connection : \E packet \in ServerPacket :
                /\ Due(c, packet)
                /\ toClient' = Sent(toClient, serverValid, c, packet)
<1>. LinksOK /\ StorageOK /\ HandlerOK
  BY DEF CoreInv
<1>1. Len(table) \in Nat
  BY LenProperties DEF StorageOK
<1>2. ASSUME NEW c \in Connection, OnNewEventSaved(c), ~UNCHANGED toClient
      PROVE  \E packet \in ServerPacket :
                 /\ Due(c, packet)
                 /\ toClient' = Sent(toClient, serverValid, c, packet)
  <2>. DEFINE packet == NewEventsNotification(handshake[c], NotifiedNumber)
  <2>1. packet \in ServerPacket /\ Due(c, packet)
    BY <1>1, <1>2 DEF OnNewEventSaved, NewEventsNotification, NotifiedNumber,
       GetNumberOfEvents, ServerPacket, LinksOK, Due
  <2>2. QED
    BY <1>2, <2>1 DEF OnNewEventSaved, Send
<1>3. CASE SendAck
  <2>. DEFINE packet == Ack(Head(stream).pn, Head(stream).hs)
  <2>1. pc = "notify"
    BY <1>3 DEF SendAck
  <2>2. packet \in ServerPacket /\ Due(serving, packet)
    BY <2>1, PacketAtHand, RequestFields DEF Ack, ServerPacket, Due
  <2>3. QED
    BY <1>3, <2>1, <2>2, PacketAtHand DEF SendAck, Send
<1>4. CASE SendSavedEvent
  <2>. DEFINE packet == SavedEventsResponse(Head(stream).pn, Head(stream).hs,
                                            IsLast(reply), Head(reply))
  <2>1. pc = "respond" /\ Head(reply) \in Event
    BY <1>4, HeadTailProperties DEF SendSavedEvent, HandlerOK
  <2>2. packet \in ServerPacket /\ Due(serving, packet)
    BY <2>1, PacketAtHand, RequestFields
       DEF SavedEventsResponse, IsLast, ServerPacket, Due
  <2>3. QED
    BY <1>4, <2>1, <2>2, PacketAtHand DEF SendSavedEvent, Send
<1>5. CASE OnNumberOfSavedEventsRequest /\ ~UNCHANGED toClient
  <2>. DEFINE packet == NumberOfSavedEventsResponse(
                  Head(stream).pn, Head(stream).hs, GetNumberOfEvents(table))
  <2>1. pc = "dispatch" /\ Head(stream).type = "NumberOfSavedEventsRequest"
    BY <1>5 DEF OnNumberOfSavedEventsRequest, Dispatching
  <2>2. packet \in ServerPacket /\ Due(serving, packet)
    BY <1>1, <2>1, PacketAtHand, RequestFields
       DEF NumberOfSavedEventsResponse, GetNumberOfEvents, ServerPacket, Due
  <2>3. QED
    BY <1>5, <2>1, <2>2, PacketAtHand DEF OnNumberOfSavedEventsRequest, Send
<1>6. QED
  BY <1>2, <1>3, <1>4, <1>5 DEF Server, ServerStep, Network, ReceiveAgain,
     IgnorePacket, OnSendEvent, OnSavedEventsRequest, AbandonReply, CheckProtocolsExecutors,
     Handshake, OnNewDataReceived, Crash, LinkBreaks, ServerNotices,
     transportVars

\* Every step of server, network and clients keeps the types.
LEMMA NextTyped == TypeInv /\ [ServerNext]_vars => TypeInv'
<1>. SUFFICES ASSUME CoreInv, toClient \in [Connection -> Seq(ServerPacket)],
                     [ServerNext]_vars
              PROVE  CoreInv' /\ toClient' \in [Connection -> Seq(ServerPacket)]
  BY CoreOfTypeInv DEF TypeInv, CoreInv, TransportOK, LinksOK, ChannelsOK,
     StorageOK, HandlerOK
<1>. LinksOK /\ ChannelsOK /\ StorageOK /\ HandlerOK
  BY DEF CoreInv
<1>1. CASE Server \/ Network
  BY <1>1, CoreTyped, ServerSends, SentTyped, CoreOfTypeInv DEF TypeInv
<1>2. ASSUME NEW c \in Connection, ClientSends(c)
      PROVE  CoreInv' /\ UNCHANGED toClient
  <2>1. packetCounter'[c] \in Nat /\ handshake[c] \in Nat
    BY <1>2 DEF ClientSends, LinksOK
  <2>2. PICK packet \in Requests(packetCounter'[c], handshake[c])
                        \cup Strays(packetCounter'[c], handshake[c]) :
            toServer' = Sent(toServer, clientValid, c, packet)
    BY <1>2 DEF ClientSends
  <2>3. packet \in ClientPacket
    <3>1. Texts \subseteq Nat
      <4>1. 0..MaxSendEventText \subseteq Nat
        BY DEF MaxSendEventText, MaxPacket
      <4>2. QED
        BY <4>1, ServerAssumption, Zenon
    <3>2. \A r \in Ranges : r[1] \in Nat /\ r[2] \in Nat
      BY ServerAssumption, LastEventNumberAssumption
    <3>3. QED
      BY <2>1, <3>1, <3>2 DEF Requests, Strays, SendEvent, SavedEventsRequest,
         NumberOfSavedEventsRequest, ClientPacket
  <2>4. ChannelsOK'
    BY <2>2, <2>3, AppendToChannel DEF Sent, ChannelsOK
  <2>5. LinksOK'
    BY <1>2, <2>1 DEF ClientSends, LinksOK
  <2>6. StorageOK'
    BY <1>2 DEF ClientSends, serverVars, StorageOK
  <2>7. HandlerOK'
    BY <1>2 DEF ClientSends, serverVars, handlerVars, HandlerOK
  <2>8. QED
    BY <1>2, <2>4, <2>5, <2>6, <2>7 DEF ClientSends, CoreInv
<1>3. ASSUME NEW c \in Connection, ClientReads(c)
      PROVE  CoreInv' /\ toClient' \in [Connection -> Seq(ServerPacket)]
  <2>1. Tail(toClient[c]) \in Seq(ServerPacket)
    BY <1>3, HeadTailProperties DEF ClientReads
  <2>2. toClient' \in [Connection -> Seq(ServerPacket)]
    BY <1>3, <2>1 DEF ClientReads
  <2>3. LinksOK' /\ ChannelsOK'
    BY <1>3 DEF ClientReads, LinksOK, ChannelsOK
  <2>4. StorageOK' /\ HandlerOK'
    BY <1>3 DEF ClientReads, serverVars, handlerVars, StorageOK, HandlerOK
  <2>5. QED
    BY <2>2, <2>3, <2>4 DEF CoreInv
<1>4. CASE UNCHANGED vars
  BY <1>4 DEF vars, transportVars, serverVars, handlerVars, CoreInv, LinksOK,
     ChannelsOK, StorageOK, HandlerOK
<1>5. QED
  BY <1>1, <1>2, <1>3, <1>4 DEF ServerNext, Client

\* Types hold in every behaviour; the theorems below start from here.
LEMMA Typing == ServerSpec => []TypeInv
<1>1. QED
  BY InitTyped, NextTyped, PTL DEF ServerSpec

\* The server's state and the packets in the channels keep their types.
THEOREM TypeCorrect == ServerSpec => []ServerTypeOK
BY Typing, TypeInvImpliesServerTypeOK, PTL
------------------------------------------------------------------------------
(* The registry and the identifiers.  Both are touched by three actions:   *)
(* a handshake, the timer and a crash.                                     *)

\* All other steps leave the executors, their callbacks, their identifiers
\* and the counter as they are.
LEMMA RegistryUntouched ==
    ASSUME [ServerNext]_vars,
           ~CheckProtocolsExecutors, ~Crash,
           \A c \in Connection : ~Handshake(c)
    PROVE  UNCHANGED <<callbacks, executors, handshake, handshakeId>>
<1>1. CASE ServerStep
  BY <1>1 DEF ServerStep, ReceiveAgain, IgnorePacket, OnSendEvent,
     OnNewEventSaved, SendAck,
     OnSavedEventsRequest, SendSavedEvent, AbandonReply,
     OnNumberOfSavedEventsRequest, transportVars
<1>2. CASE \E c \in Connection : OnNewDataReceived(c)
  BY <1>2 DEF OnNewDataReceived
<1>3. CASE \E c \in Connection : LinkBreaks(c) \/ ServerNotices(c)
  BY <1>3 DEF LinkBreaks, ServerNotices, serverVars
<1>4. CASE Client
  BY <1>4 DEF Client, ClientSends, ClientReads, serverVars
<1>5. CASE UNCHANGED vars
  BY <1>5 DEF vars, transportVars, serverVars
<1>6. QED
  BY <1>1, <1>2, <1>3, <1>4, <1>5 DEF ServerNext, Server, Network

\* The three that touch the registry touch both sides of it.
LEMMA RegistryKept ==
    ASSUME RegistryMatchesExecutors, [ServerNext]_vars
    PROVE  RegistryMatchesExecutors'
<1>. USE DEF RegistryMatchesExecutors
<1>1. CASE CheckProtocolsExecutors
  BY <1>1 DEF CheckProtocolsExecutors, Unregistered
<1>2. ASSUME NEW c \in Connection, Handshake(c)
      PROVE  RegistryMatchesExecutors'
  BY <1>2 DEF Handshake
<1>3. CASE Crash
  BY <1>3 DEF Crash
<1>4. CASE /\ ~CheckProtocolsExecutors /\ ~Crash
           /\ \A c \in Connection : ~Handshake(c)
  BY <1>4, RegistryUntouched
<1>5. QED
  BY <1>1, <1>2, <1>3, <1>4

\* The storage holds the callback of an executor exactly as long as the
\* executor lives (~ProtocolExecutorV1).
THEOREM RegistryCorrect == ServerSpec => []RegistryMatchesExecutors
<1>1. Init => RegistryMatchesExecutors
  BY DEF Init, ServerInit, RegistryMatchesExecutors
<1>2. RegistryMatchesExecutors /\ [ServerNext]_vars => RegistryMatchesExecutors'
  BY RegistryKept
<1>3. QED
  BY <1>1, <1>2, PTL DEF ServerSpec

\* An executor's identifier was drawn from the counter.  A connection that
\* has none, or lost it with a crash, has no executor.
IdsInv ==
    /\ \A c \in executors : handshake[c] \in 1..handshakeId
    /\ HandshakeIdsDistinct

LEMMA InitIds == Init => IdsInv
BY DEF Init, ServerInit, IdsInv, HandshakeIdsDistinct

\* A new executor takes a new number, for a connection that had none.
LEMMA IdsKept ==
    ASSUME CoreInv, IdsInv, [ServerNext]_vars
    PROVE  IdsInv'
<1>. LinksOK /\ StorageOK
  BY DEF CoreInv
<1>. USE DEF IdsInv, HandshakeIdsDistinct
<1>1. CASE CheckProtocolsExecutors
  BY <1>1 DEF CheckProtocolsExecutors, transportVars
<1>2. ASSUME NEW c \in Connection, Handshake(c)
      PROVE  IdsInv'
  <2>1. /\ handshakeId' = handshakeId + 1
        /\ handshake' = [handshake EXCEPT ![c] = handshakeId + 1]
        /\ executors' = executors \cup {c}
        /\ handshake[c] = 0
    BY <1>2 DEF Handshake, NextHandshakeId, NoHandshake
  <2>2. c \notin executors
    BY <2>1 DEF StorageOK
  <2>3. \A d \in executors : handshake'[d] = handshake[d]
    BY <2>1, <2>2 DEF LinksOK, StorageOK
  <2>4. handshake'[c] = handshakeId + 1
    BY <2>1 DEF LinksOK
  <2>5. QED
    BY <2>1, <2>3, <2>4 DEF StorageOK
<1>3. CASE Crash
  BY <1>3 DEF Crash
<1>4. CASE /\ ~CheckProtocolsExecutors /\ ~Crash
           /\ \A c \in Connection : ~Handshake(c)
  BY <1>4, RegistryUntouched
<1>5. QED
  BY <1>1, <1>2, <1>3, <1>4

\* Two live executors never share an identifier (the static counter of
\* HandshakeV1), also after the server has started again from 0.
THEOREM HandshakesDistinct == ServerSpec => []HandshakeIdsDistinct
<1>1. TypeInv /\ IdsInv /\ [ServerNext]_vars => IdsInv'
  BY IdsKept, CoreOfTypeInv
<1>2. IdsInv => HandshakeIdsDistinct
  BY DEF IdsInv
<1>3. QED
  BY InitIds, <1>1, <1>2, Typing, PTL DEF ServerSpec
------------------------------------------------------------------------------
(* Notifications.                                                          *)

LEMMA InitNotifications == Init => NotificationsComplete
BY DEF Init, ServerInit, NotificationsComplete

\* Whoever is not told of a new event at once has its callback still to run.
LEMMA NotificationsKept ==
    ASSUME "storage" \notin Faults, CoreInv, RegistryMatchesExecutors,
           NotificationsComplete, [ServerNext]_vars
    PROVE  NotificationsComplete'
<1>. LinksOK /\ StorageOK /\ HandlerOK
  BY DEF CoreInv
<1>. USE DEF NotificationsComplete
<1>1. ASSUME UNCHANGED <<executors, serverValid, notified, table>>,
             pending = {} \/ pending' = pending
      PROVE  NotificationsComplete'
  BY <1>1
<1>2. CASE IgnorePacket
  BY <1>1, <1>2 DEF IgnorePacket, transportVars, HandlerOK
<1>3. CASE OnSendEvent
  <2>1. pending' = executors /\ executors' = executors
    BY <1>3 DEF OnSendEvent, StorageFails, CallbacksToRun,
       RegistryMatchesExecutors
  <2>2. QED
    BY <2>1
<1>4. ASSUME NEW c \in Connection, OnNewEventSaved(c)
      PROVE  NotificationsComplete'
  <2>1. /\ notified' = IF serverValid[c]
                       THEN [notified EXCEPT ![c] = Len(table)]
                       ELSE notified
        /\ pending' = pending \ {c}
        /\ UNCHANGED <<executors, serverValid, table>>
    BY <1>4 DEF OnNewEventSaved, NotifiedNumber, GetNumberOfEvents
  <2>2. QED
    BY <2>1 DEF StorageOK
<1>5. CASE SendAck
  BY <1>1, <1>5 DEF SendAck
<1>6. CASE OnSavedEventsRequest
  BY <1>1, <1>6 DEF OnSavedEventsRequest, Dispatching, transportVars, HandlerOK
<1>7. CASE SendSavedEvent
  BY <1>1, <1>7 DEF SendSavedEvent, HandlerOK
<1>8. CASE AbandonReply
  BY <1>1, <1>8 DEF AbandonReply, transportVars, HandlerOK
<1>9. CASE OnNumberOfSavedEventsRequest
  BY <1>1, <1>9 DEF OnNumberOfSavedEventsRequest, Dispatching, HandlerOK
<1>10. CASE CheckProtocolsExecutors
  BY <1>10 DEF CheckProtocolsExecutors, transportVars, handlerVars
<1>11. ASSUME NEW c \in Connection, Handshake(c)
       PROVE  NotificationsComplete'
  <2>1. /\ executors' = executors \cup {c}
        /\ serverValid' = [serverValid EXCEPT ![c] = TRUE]
        /\ notified' = [notified EXCEPT ![c] = Len(table)]
        /\ UNCHANGED <<table, pending>>
    BY <1>11 DEF Handshake, handlerVars
  <2>2. QED
    BY <2>1 DEF LinksOK, StorageOK
<1>12. ASSUME NEW c \in Connection, OnNewDataReceived(c)
       PROVE  NotificationsComplete'
  BY <1>1, <1>12 DEF OnNewDataReceived
<1>13. CASE Crash
  BY <1>13 DEF Crash
<1>14. ASSUME NEW c \in Connection, LinkBreaks(c)
       PROVE  NotificationsComplete'
  BY <1>1, <1>14 DEF LinkBreaks, serverVars, handlerVars
<1>15. ASSUME NEW c \in Connection, ServerNotices(c)
       PROVE  NotificationsComplete'
  BY <1>15 DEF ServerNotices, serverVars, handlerVars, LinksOK
<1>16. CASE Client
  BY <1>1, <1>16 DEF Client, ClientSends, ClientReads, serverVars, handlerVars
<1>17. CASE UNCHANGED vars
  BY <1>1, <1>17 DEF vars, transportVars, serverVars, handlerVars
<1>18. CASE ReceiveAgain
  BY <1>1, <1>18 DEF ReceiveAgain, transportVars
<1>19. QED
  BY <1>2, <1>3, <1>4, <1>5, <1>6, <1>7, <1>8, <1>9, <1>10, <1>11, <1>12,
     <1>13, <1>14, <1>15, <1>16, <1>17, <1>18
     DEF ServerNext, Server, ServerStep, Network

\* While the database answers, every client that could be reached has been
\* sent the number of the events in the table, but for the callbacks that
\* saveEvent is yet to run (REQ_0013).
THEOREM NotificationsCorrect ==
    ASSUME "storage" \notin Faults
    PROVE  ServerSpec => []NotificationsComplete
<1>1. /\ TypeInv /\ RegistryMatchesExecutors /\ NotificationsComplete
      /\ [ServerNext]_vars
      => NotificationsComplete'
  BY NotificationsKept, CoreOfTypeInv
<1>2. QED
  BY InitNotifications, <1>1, Typing, RegistryCorrect, PTL DEF ServerSpec
------------------------------------------------------------------------------
(* Acknowledgements.                                                       *)

\* The event of packet number pn of connection c is in the table.
Saved(c, pn) ==
    \E k \in 1..Len(table) : table[k].from = c /\ table[k].pn = pn

\* An event that is in the table stays there.
LEMMA SavedForGood ==
    ASSUME TypeInv, [ServerNext]_vars, NEW c, NEW pn, Saved(c, pn)
    PROVE  Saved(c, pn)'
<1>1. CASE UNCHANGED table
  BY <1>1 DEF Saved
<1>2. CASE OnSendEvent
  <2>1. CASE UNCHANGED table
    BY <2>1 DEF Saved
  <2>2. CASE table' = Insert(table, EventOf(Head(stream)))
    <3>. DEFINE e == EventOf(Head(stream))
    <3>1. table \in Seq(Event) /\ Len(table) \in Nat
      BY LenProperties DEF TypeInv, StorageOK
    <3>2. pc = "dispatch" /\ Head(stream).type = "SendEvent"
      BY <1>2 DEF OnSendEvent, Dispatching
    <3>3. e \in Event
      BY <3>2, PacketAtHand, RequestFields DEF EventOf, Event, TypeInv
    <3>4. /\ Len(table') = Len(table) + 1
          /\ \A k \in 1..Len(table) : table'[k] = table[k]
      BY <2>2, <3>1, <3>3, AppendProperties DEF Insert
    <3>5. QED
      BY <3>1, <3>4 DEF Saved
  <2>3. QED
    BY <1>2, <2>1, <2>2 DEF OnSendEvent
<1>3. QED
  BY <1>1, <1>2 DEF ServerNext, Server, ServerStep, Network, Client, ReceiveAgain,
     IgnorePacket, OnNewEventSaved, SendAck, OnSavedEventsRequest, SendSavedEvent,
     AbandonReply, OnNumberOfSavedEventsRequest, CheckProtocolsExecutors,
     Handshake, OnNewDataReceived, Crash, TableAfterRestart, LinkBreaks,
     ServerNotices, ClientSends, ClientReads, vars, serverVars

\* What is found in the channels after a send is what was there, or the
\* packet that was sent.
LEMMA SentElements ==
    ASSUME TransportOK, NEW c \in Connection, NEW packet \in ServerPacket,
           NEW d \in Connection,
           NEW i \in 1..Len(Sent(toClient, serverValid, c, packet)[d])
    PROVE  \/ /\ i \in 1..Len(toClient[d])
              /\ Sent(toClient, serverValid, c, packet)[d][i] = toClient[d][i]
           \/ /\ d = c
              /\ Sent(toClient, serverValid, c, packet)[d][i] = packet
<1>1. toClient[c] \in Seq(ServerPacket) /\ Len(toClient[c]) \in Nat
  BY LenProperties DEF TransportOK
<1>2. CASE serverValid[c] /\ linkUp[c] /\ d = c
  <2>1. Sent(toClient, serverValid, c, packet)[d] = Append(toClient[c], packet)
    BY <1>2 DEF Sent, TransportOK
  <2>2. /\ Len(Append(toClient[c], packet)) = Len(toClient[c]) + 1
        /\ \A j \in 1..Len(toClient[c]) :
             Append(toClient[c], packet)[j] = toClient[c][j]
        /\ Append(toClient[c], packet)[Len(toClient[c]) + 1] = packet
    BY <1>1, AppendProperties
  <2>3. i \in 1..Len(toClient[c]) \/ i = Len(toClient[c]) + 1
    BY <1>1, <2>1, <2>2
  <2>4. QED
    BY <1>2, <2>1, <2>2, <2>3
<1>3. CASE ~(serverValid[c] /\ linkUp[c] /\ d = c)
  BY <1>3 DEF Sent, TransportOK
<1>4. QED
  BY <1>2, <1>3

\* While saveEvent runs its callbacks, the event that will be acknowledged
\* is in the table.
AckInv ==
    /\ AckOnlyForSavedEvent
    /\ pc = "notify" => Saved(serving, Head(stream).pn)

\* An acknowledgement under way names an event that is in the table, now and
\* after any crash: the insert precedes the send and rows are never removed.
THEOREM AcknowledgementsCorrect == ServerSpec => []AckOnlyForSavedEvent
<1>1. Init => AckInv
  BY DEF Init, TransportInit, ServerInit, AckInv, AckOnlyForSavedEvent
<1>2. TypeInv /\ AckInv /\ [ServerNext]_vars => AckInv'
  <2>. SUFFICES ASSUME TypeInv, AckInv, [ServerNext]_vars
                PROVE  AckInv'
    OBVIOUS
  <2>. USE DEF AckInv
  <2>1. TransportOK /\ StorageOK /\ HandlerOK
    BY DEF TypeInv
  <2>2. \A c \in Connection : \A i \in 1..Len(toClient[c]) :
            toClient[c][i].type = "Ack" => Saved(c, toClient[c][i].pn)
    BY DEF AckOnlyForSavedEvent, Saved
  \* It is enough that a step adds no unfounded acknowledgement.
  <2>3. ASSUME \A c \in Connection : \A i \in 1..Len(toClient'[c]) :
                   \/ \E j \in 1..Len(toClient[c]) :
                        toClient'[c][i] = toClient[c][j]
                   \/ toClient'[c][i].type # "Ack"
                   \/ Saved(c, toClient'[c][i].pn)
        PROVE  AckOnlyForSavedEvent'
    <3>1. \A c, pn : Saved(c, pn) => \E k \in 1..Len(table') :
                                        table'[k].from = c /\ table'[k].pn = pn
      BY SavedForGood DEF Saved
    <3>2. \A c \in Connection : \A i \in 1..Len(toClient'[c]) :
              toClient'[c][i].type = "Ack" => Saved(c, toClient'[c][i].pn)
      BY <2>2, <2>3
    <3>3. QED
      BY <3>1, <3>2 DEF AckOnlyForSavedEvent
  <2>4. ASSUME UNCHANGED toClient
        PROVE  AckOnlyForSavedEvent'
    BY <2>3, <2>4
  <2>5. ASSUME NEW c \in Connection, NEW packet \in ServerPacket,
               toClient' = Sent(toClient, serverValid, c, packet),
               packet.type # "Ack" \/ Saved(c, packet.pn)
        PROVE  AckOnlyForSavedEvent'
    BY <2>1, <2>3, <2>5, SentElements
  <2>6. ASSUME UNCHANGED <<pc, serving, stream>>
        PROVE  (pc = "notify" => Saved(serving, Head(stream).pn))'
    BY <2>6, SavedForGood DEF Saved
  <2>7. CASE IgnorePacket
    BY <2>4, <2>7 DEF IgnorePacket, NextPacket, transportVars
  <2>8. CASE OnSendEvent
    <3>1. CASE StorageFails
      BY <2>4, <2>8, <3>1 DEF OnSendEvent, StorageFails, NextPacket, transportVars
    <3>2. CASE /\ table' = Insert(table, EventOf(Head(stream)))
               /\ UNCHANGED <<stream, serving, reply>>
      <4>. DEFINE e == EventOf(Head(stream))
      <4>1. pc = "dispatch" /\ Head(stream).type = "SendEvent"
        BY <2>8 DEF OnSendEvent, Dispatching
      <4>2. e \in Event
        BY <2>1, <4>1, PacketAtHand, RequestFields DEF EventOf, Event
      <4>3. /\ Len(table') = Len(table) + 1
            /\ table'[Len(table) + 1] = e
            /\ Len(table) \in Nat
        BY <2>1, <3>2, <4>2, AppendProperties, LenProperties
           DEF Insert, StorageOK
      <4>4. e.from = serving /\ e.pn = Head(stream).pn
        BY DEF EventOf
      <4>5. Saved(serving, Head(stream).pn)'
        BY <3>2, <4>3, <4>4 DEF Saved
      <4>6. QED
        BY <2>4, <2>8, <4>5 DEF OnSendEvent, transportVars
    <3>3. QED
      BY <2>8, <3>1, <3>2 DEF OnSendEvent
  <2>9. ASSUME NEW c \in Connection, OnNewEventSaved(c)
        PROVE  AckInv'
    <3>. DEFINE packet == NewEventsNotification(handshake[c], NotifiedNumber)
    <3>1. packet \in ServerPacket /\ packet.type # "Ack"
      BY <2>1, LenProperties DEF NewEventsNotification, NotifiedNumber,
         GetNumberOfEvents, ServerPacket, TransportOK, StorageOK
    <3>2. AckOnlyForSavedEvent'
      BY <2>4, <2>5, <2>9, <3>1 DEF OnNewEventSaved, Send
    <3>3. QED
      BY <2>6, <2>9, <3>2 DEF OnNewEventSaved
  <2>10. CASE SendAck
    <3>. DEFINE packet == Ack(Head(stream).pn, Head(stream).hs)
    <3>1. pc = "notify" /\ serving \in Connection
      BY <2>1, <2>10, PacketAtHand DEF SendAck
    <3>2. packet \in ServerPacket /\ packet.pn = Head(stream).pn
      BY <2>1, <3>1, PacketAtHand, RequestFields DEF Ack, ServerPacket
    <3>3. AckOnlyForSavedEvent'
      BY <2>5, <2>10, <3>1, <3>2 DEF SendAck, Send
    <3>4. QED
      BY <2>10, <3>3 DEF SendAck, NextPacket
  <2>11. CASE OnSavedEventsRequest
    BY <2>4, <2>11 DEF OnSavedEventsRequest, StorageFails, NextPacket,
       transportVars
  <2>12. CASE SendSavedEvent
    <3>. DEFINE packet == SavedEventsResponse(Head(stream).pn, Head(stream).hs,
                                              IsLast(reply), Head(reply))
    <3>1. pc = "respond" /\ serving \in Connection /\ Head(reply) \in Event
      BY <2>1, <2>12, PacketAtHand, HeadTailProperties DEF SendSavedEvent, HandlerOK
    <3>2. packet \in ServerPacket /\ packet.type # "Ack"
      BY <2>1, <3>1, PacketAtHand, RequestFields
         DEF SavedEventsResponse, IsLast, ServerPacket
    <3>3. AckOnlyForSavedEvent'
      BY <2>5, <2>12, <3>1, <3>2 DEF SendSavedEvent, Send
    <3>4. QED
      BY <2>12, <3>1, <3>3 DEF SendSavedEvent, NextPacket
  <2>13. CASE AbandonReply
    BY <2>4, <2>13 DEF AbandonReply, NextPacket, transportVars
  <2>14. CASE OnNumberOfSavedEventsRequest
    <3>. DEFINE packet == NumberOfSavedEventsResponse(
                    Head(stream).pn, Head(stream).hs, GetNumberOfEvents(table))
    <3>1. pc = "dispatch" /\ serving \in Connection
      BY <2>1, <2>14, PacketAtHand DEF OnNumberOfSavedEventsRequest, Dispatching
    <3>2. packet \in ServerPacket /\ packet.type # "Ack"
      BY <2>1, <3>1, PacketAtHand, RequestFields, LenProperties
         DEF NumberOfSavedEventsResponse, GetNumberOfEvents, ServerPacket,
             StorageOK
    <3>3. AckOnlyForSavedEvent'
      BY <2>4, <2>5, <2>14, <3>1, <3>2 DEF OnNumberOfSavedEventsRequest, Send
    <3>4. QED
      BY <2>14, <3>3 DEF OnNumberOfSavedEventsRequest, NextPacket
  <2>15. CASE CheckProtocolsExecutors
    BY <2>4, <2>6, <2>15 DEF CheckProtocolsExecutors, transportVars, handlerVars
  <2>16. ASSUME NEW c \in Connection, Handshake(c)
         PROVE  AckInv'
    BY <2>4, <2>6, <2>16 DEF Handshake, handlerVars
  <2>17. ASSUME NEW c \in Connection, OnNewDataReceived(c)
         PROVE  AckInv'
    BY <2>4, <2>17 DEF OnNewDataReceived
  <2>18. CASE Crash
    BY <2>4, <2>18 DEF Crash
  <2>19. ASSUME NEW c \in Connection, LinkBreaks(c) \/ ServerNotices(c)
         PROVE  AckInv'
    BY <2>4, <2>6, <2>19 DEF LinkBreaks, ServerNotices, serverVars, handlerVars
  <2>20. ASSUME NEW c \in Connection, ClientSends(c)
         PROVE  AckInv'
    BY <2>4, <2>6, <2>20 DEF ClientSends, serverVars, handlerVars
  <2>21. ASSUME NEW c \in Connection, ClientReads(c)
         PROVE  AckInv'
    <3>1. /\ toClient[c] \in Seq(ServerPacket) /\ toClient[c] # <<>>
          /\ toClient' = [toClient EXCEPT ![c] = Tail(toClient[c])]
      BY <2>1, <2>21 DEF ClientReads, TransportOK
    <3>2. /\ Len(Tail(toClient[c])) = Len(toClient[c]) - 1
          /\ Len(toClient[c]) \in Nat
          /\ \A i \in 1..Len(Tail(toClient[c])) :
               Tail(toClient[c])[i] = toClient[c][i + 1]
      BY <3>1, HeadTailProperties, LenProperties
    <3>3. \A d \in Connection : \A i \in 1..Len(toClient'[d]) :
              \E j \in 1..Len(toClient[d]) : toClient'[d][i] = toClient[d][j]
      <4>1. \A i \in 1..Len(Tail(toClient[c])) : i + 1 \in 1..Len(toClient[c])
        BY <3>2
      <4>2. QED
        BY <2>1, <3>1, <3>2, <4>1 DEF TransportOK
    <3>4. QED
      BY <2>3, <2>6, <2>21, <3>3 DEF ClientReads, serverVars, handlerVars
  <2>22. CASE UNCHANGED vars
    BY <2>4, <2>6, <2>22 DEF vars, transportVars, serverVars, handlerVars
  <2>23. CASE ReceiveAgain
    BY <2>4, <2>23 DEF ReceiveAgain, transportVars
  <2>24. QED
    BY <2>7, <2>8, <2>9, <2>10, <2>11, <2>12, <2>13, <2>14, <2>15, <2>16,
       <2>17, <2>18, <2>19, <2>20, <2>21, <2>22, <2>23
       DEF ServerNext, Server, ServerStep, Network, Client
<1>3. AckInv => AckOnlyForSavedEvent
  BY DEF AckInv
<1>4. QED
  BY <1>1, <1>2, <1>3, Typing, PTL DEF ServerSpec
------------------------------------------------------------------------------
(* Numbers: each is the size of the table when it is sent, and the table   *)
(* only grows.                                                             *)

\* The table never shrinks.
LEMMA TableNeverShrinks ==
    ASSUME CoreInv, [ServerNext]_vars
    PROVE  /\ Len(table) \in Nat /\ Len(table') \in Nat
           /\ Len(table) <= Len(table')
<1>1. table \in Seq(Event) /\ Len(table) \in Nat
  BY LenProperties DEF CoreInv, StorageOK
<1>2. CASE UNCHANGED table
  BY <1>1, <1>2
<1>3. CASE OnSendEvent
  <2>1. pc = "dispatch" /\ Head(stream).type = "SendEvent"
    BY <1>3 DEF OnSendEvent, Dispatching
  <2>2. EventOf(Head(stream)) \in Event
    BY <2>1, PacketAtHand, RequestFields DEF EventOf, Event, CoreInv
  <2>3. Len(Append(table, EventOf(Head(stream)))) = Len(table) + 1
    BY <1>1, <2>2, AppendProperties
  <2>4. table' = table \/ table' = Append(table, EventOf(Head(stream)))
    BY <1>3 DEF OnSendEvent, Insert
  <2>5. QED
    BY <1>1, <2>3, <2>4
<1>4. QED
  BY <1>2, <1>3 DEF ServerNext, Server, ServerStep, Network, Client, ReceiveAgain,
     IgnorePacket, OnNewEventSaved, SendAck, OnSavedEventsRequest, SendSavedEvent,
     AbandonReply, OnNumberOfSavedEventsRequest, CheckProtocolsExecutors,
     Handshake, OnNewDataReceived, Crash, TableAfterRestart, LinkBreaks,
     ServerNotices, ClientSends, ClientReads, vars, serverVars

\* The numbers in a channel to a client are in order, and none is above n.
InOrder(channel, n) ==
    \A i \in 1..Len(channel) : NumberIn(channel[i]) =>
        /\ channel[i].number \in Nat
        /\ channel[i].number <= n
        /\ \A j \in 1..(i - 1) :
               NumberIn(channel[j]) => channel[j].number <= channel[i].number

NumbersInv == \A c \in Connection : InOrder(toClient[c], Len(table))

\* The largest number goes to the end of the channel.
LEMMA NumberAppended ==
    ASSUME NEW S, NEW s \in Seq(S), NEW n \in Nat, InOrder(s, n),
           NEW p \in S, NumberIn(p) => p.number = n
    PROVE  InOrder(Append(s, p), n)
<1>1. /\ Len(s) \in Nat /\ Len(Append(s, p)) = Len(s) + 1
      /\ \A i \in 1..Len(s) : Append(s, p)[i] = s[i]
      /\ Append(s, p)[Len(s) + 1] = p
  BY AppendProperties, LenProperties
<1>. DEFINE t == Append(s, p)
<1>2. ASSUME NEW i \in 1..Len(s), NumberIn(t[i])
      PROVE  /\ t[i].number \in Nat /\ t[i].number <= n
             /\ \A j \in 1..(i - 1) : NumberIn(t[j]) => t[j].number <= t[i].number
  <2>1. \A j \in 1..(i - 1) : j \in 1..Len(s)
    BY <1>1
  <2>2. QED
    BY <1>1, <1>2, <2>1 DEF InOrder
<1>3. ASSUME NumberIn(p), NEW j \in 1..Len(s), NumberIn(t[j])
      PROVE  t[j].number <= p.number
  BY <1>1, <1>3 DEF InOrder
<1>4. QED
  <2>. SUFFICES ASSUME NEW i \in 1..Len(t), NumberIn(t[i])
                PROVE  /\ t[i].number \in Nat /\ t[i].number <= n
                       /\ \A j \in 1..(i - 1) :
                              NumberIn(t[j]) => t[j].number <= t[i].number
    BY DEF InOrder
  <2>1. CASE i \in 1..Len(s)
    BY <1>2, <2>1
  <2>2. CASE i = Len(s) + 1
    <3>1. t[i] = p /\ \A j \in 1..(i - 1) : j \in 1..Len(s)
      BY <1>1, <2>2
    <3>2. QED
      BY <1>3, <3>1
  <2>3. QED
    BY <1>1, <2>1, <2>2

\* Reading the first packet leaves the rest in order.
LEMMA NumberRead ==
    ASSUME NEW S, NEW s \in Seq(S), s # <<>>, NEW n, InOrder(s, n)
    PROVE  InOrder(Tail(s), n)
<1>1. /\ Len(s) \in Nat /\ Len(Tail(s)) = Len(s) - 1
      /\ \A i \in 1..Len(Tail(s)) : Tail(s)[i] = s[i + 1]
  BY HeadTailProperties, LenProperties
<1>2. ASSUME NEW i \in 1..Len(Tail(s)), NumberIn(Tail(s)[i])
      PROVE  /\ Tail(s)[i].number \in Nat /\ Tail(s)[i].number <= n
             /\ \A j \in 1..(i - 1) : NumberIn(Tail(s)[j]) =>
                    Tail(s)[j].number <= Tail(s)[i].number
  <2>1. i + 1 \in 1..Len(s) /\ Tail(s)[i] = s[i + 1]
    BY <1>1
  <2>2. \A j \in 1..(i - 1) : j + 1 \in 1..((i + 1) - 1) /\ Tail(s)[j] = s[j + 1]
    BY <1>1
  <2>3. QED
    BY <1>2, <2>1, <2>2 DEF InOrder
<1>3. QED
  BY <1>2 DEF InOrder

LEMMA InitNumbers == Init => NumbersInv
<1>1. \A n : InOrder(<<>>, n)
  BY DEF InOrder
<1>2. QED
  BY <1>1 DEF Init, TransportInit, NumbersInv

\* Whatever a client leaves in its channel, the server keeps it in order.
LEMMA ServerKeepsNumbers ==
    ASSUME CoreInv, Server \/ Network, NumbersInv,
           toClient = [c \in Connection |-> toClient[c]],
           \A c \in Connection : toClient[c] \in Seq(ServerPacket \cup {TAIL})
    PROVE  NumbersInv'
<1>1. /\ Len(table) \in Nat /\ Len(table') \in Nat
      /\ Len(table) <= Len(table')
  BY TableNeverShrinks DEF ServerNext
<1>2. \A s : InOrder(s, Len(table)) => InOrder(s, Len(table'))
  BY <1>1 DEF InOrder
<1>3. CASE UNCHANGED toClient
  BY <1>2, <1>3 DEF NumbersInv
<1>4. ASSUME NEW c \in Connection, NEW packet \in ServerPacket, Due(c, packet),
             toClient' = Sent(toClient, serverValid, c, packet)
      PROVE  NumbersInv'
  <2>1. NumberIn(packet) => packet.number = Len(table)
    BY <1>4 DEF Due, NumberIn
  <2>2. InOrder(Append(toClient[c], packet), Len(table))
    BY <1>1, <2>1, NumberAppended DEF NumbersInv
  <2>3. ASSUME NEW d \in Connection
        PROVE  toClient'[d] \in {toClient[d], Append(toClient[c], packet)}
    <3>1. \/ toClient' = toClient
          \/ toClient' = [toClient EXCEPT ![c] = Append(toClient[c], packet)]
      BY <1>4 DEF Sent
    <3>2. QED
      BY <3>1
  <2>4. \A d \in Connection :
            toClient'[d] = toClient[d] => InOrder(toClient'[d], Len(table'))
    BY <1>2 DEF NumbersInv
  <2>5. QED
    BY <1>2, <2>2, <2>3, <2>4 DEF NumbersInv
<1>5. QED
  BY <1>3, <1>4, ServerSends

\* So does any later end of the channel, and the tail of a cut packet before it.
LEMMA EndInOrder ==
    ASSUME NEW S, NEW s \in Seq(S), NEW m \in 1..(Len(s) + 1), NEW n,
           InOrder(s, n)
    PROVE  InOrder(SubSeq(s, m, Len(s)), n)
<1>. DEFINE t == SubSeq(s, m, Len(s))
<1>1. Len(s) \in Nat /\ m \in Int /\ Len(s) \in Int
  BY LenProperties
<1>2. \A i \in m..Len(s) : s[i] \in S
  BY <1>1, ElementOfSeq
<1>3. /\ t \in Seq(S)
      /\ Len(t) = IF m <= Len(s) THEN Len(s) - m + 1 ELSE 0
      /\ \A i \in 1..(Len(s) - m + 1) : t[i] = s[m + i - 1]
  BY <1>1, <1>2, SubSeqProperties
<1>4. Len(t) \in Nat
      /\ \A i \in 1..Len(t) : t[i] = s[m + i - 1] /\ m + i - 1 \in 1..Len(s)
  BY <1>1, <1>3
<1>. HIDE DEF t
<1>5. ASSUME NEW i \in 1..Len(t), NumberIn(t[i])
      PROVE  /\ t[i].number \in Nat /\ t[i].number <= n
             /\ \A j \in 1..(i - 1) : NumberIn(t[j]) =>
                    t[j].number <= t[i].number
  <2>1. m + i - 1 \in 1..Len(s) /\ t[i] = s[m + i - 1]
    BY <1>4
  <2>2. \A j \in 1..(i - 1) :
            m + j - 1 \in 1..((m + i - 1) - 1) /\ t[j] = s[m + j - 1]
    BY <1>1, <1>4
  <2>3. QED
    BY <1>5, <2>1, <2>2 DEF InOrder
<1>6. InOrder(t, n)
  BY <1>5 DEF InOrder
<1>7. QED
  BY <1>6 DEF t

LEMMA TailInOrder ==
    ASSUME NEW S, NEW s \in Seq(S \cup {TAIL}), NEW n, InOrder(s, n)
    PROVE  InOrder(<<TAIL>> \o s, n)
<1>. DEFINE t == <<TAIL>> \o s
<1>1. /\ Len(s) \in Nat /\ Len(t) = Len(s) + 1 /\ t[1] = TAIL
      /\ \A i \in 2..(Len(s) + 1) : t[i] = s[i - 1]
  BY PushProperties
<1>. HIDE DEF t
<1>2. ~NumberIn(TAIL)
  BY DEF NumberIn, TAIL
<1>3. ASSUME NEW i \in 1..Len(t), NumberIn(t[i])
      PROVE  /\ t[i].number \in Nat /\ t[i].number <= n
             /\ \A j \in 1..(i - 1) : NumberIn(t[j]) =>
                    t[j].number <= t[i].number
  <2>1. i # 1
    BY <1>1, <1>2, <1>3
  <2>2. i - 1 \in 1..Len(s) /\ t[i] = s[i - 1]
    BY <1>1, <2>1
  <2>3. \A j \in 1..(i - 1) : NumberIn(t[j]) =>
            j - 1 \in 1..((i - 1) - 1) /\ t[j] = s[j - 1]
    BY <1>1, <1>2
  <2>4. QED
    BY <1>3, <2>2, <2>3 DEF InOrder
<1>4. InOrder(t, n)
  BY <1>3 DEF InOrder
<1>5. QED
  BY <1>4 DEF t

\* What a receive() leaves in the channel is in order.
LEMMA RestInOrder ==
    ASSUME NEW S, NEW s \in Seq(S \cup {TAIL}), NEW n, InOrder(s, n),
           NEW r \in Receive(s)
    PROVE  InOrder(r.rest, n)
<1>1. Len(s) \in Nat
  BY LenProperties
<1>2. PICK m \in 1..(Len(s) + 1) :
          r.rest \in {SubSeq(s, m, Len(s)), <<TAIL>> \o SubSeq(s, m, Len(s))}
  <2>1. CASE r \in WholePackets(s)
    <3>1. PICK k \in 1..Len(s) : r = [batch |-> SubSeq(s, 1, k),
                                      rest  |-> SubSeq(s, k + 1, Len(s))]
      BY <2>1 DEF WholePackets
    <3>2. k + 1 \in 1..(Len(s) + 1)
      BY <1>1
    <3>3. QED
      BY <3>1, <3>2
  <2>2. CASE r \in CutPacket(s)
    <3>1. PICK k \in 1..Len(s) :
              r = [batch |-> SubSeq(s, 1, k - 1),
                   rest  |-> <<TAIL>> \o SubSeq(s, k + 1, Len(s))]
      BY <2>2 DEF CutPacket
    <3>2. k + 1 \in 1..(Len(s) + 1)
      BY <1>1
    <3>3. QED
      BY <3>1, <3>2
  <2>3. QED
    BY <2>1, <2>2 DEF Receive
<1>. DEFINE t == SubSeq(s, m, Len(s))
<1>3. t \in Seq(S \cup {TAIL})
  BY <1>1, ElementOfSeq, SubSeqProperties
<1>4. InOrder(t, n)
  BY EndInOrder
<1>5. InOrder(<<TAIL>> \o t, n)
  BY <1>3, <1>4, TailInOrder
<1>6. QED
  BY <1>2, <1>4, <1>5

\* No later packet to a client carries a smaller number than an earlier one,
\* and none a number above that of the rows: the crash and the queries of
\* other clients in between included.
THEOREM NumbersCorrect == ServerSpec => []NumbersInOrder
<1>1. TypeInv /\ NumbersInv /\ [ServerNext]_vars => NumbersInv'
  <2>. SUFFICES ASSUME TypeInv, NumbersInv, [ServerNext]_vars
                PROVE  NumbersInv'
    OBVIOUS
  <2>1. CoreInv /\ toClient \in [Connection -> Seq(ServerPacket)]
    BY CoreOfTypeInv
  <2>2. CASE Server \/ Network
    <3>1. \A c \in Connection : toClient[c] \in Seq(ServerPacket \cup {TAIL})
      BY <2>1, SeqMonotonic
    <3>2. QED
      BY <2>1, <2>2, <3>1, ServerKeepsNumbers
  <2>3. ASSUME UNCHANGED <<toClient, table>>
        PROVE  NumbersInv'
    BY <2>3 DEF NumbersInv
  <2>4. ASSUME NEW c \in Connection, ClientSends(c)
        PROVE  NumbersInv'
    BY <2>3, <2>4 DEF ClientSends, serverVars
  <2>5. ASSUME NEW c \in Connection, ClientReads(c)
        PROVE  NumbersInv'
    <3>1. /\ toClient[c] \in Seq(ServerPacket) /\ toClient[c] # <<>>
          /\ toClient' = [toClient EXCEPT ![c] = Tail(toClient[c])]
          /\ table' = table
      BY <2>1, <2>5 DEF ClientReads, serverVars
    <3>2. InOrder(Tail(toClient[c]), Len(table))
      BY <3>1, NumberRead DEF NumbersInv
    <3>3. QED
      BY <2>1, <3>1, <3>2 DEF NumbersInv
  <2>6. CASE UNCHANGED vars
    BY <2>3, <2>6 DEF vars, transportVars, serverVars
  <2>7. QED
    BY <2>2, <2>4, <2>5, <2>6 DEF ServerNext, Client
<1>2. NumbersInv => NumbersInOrder
  BY DEF NumbersInv, InOrder, NumbersInOrder
<1>3. QED
  BY InitNumbers, <1>1, <1>2, Typing, PTL DEF ServerSpec
------------------------------------------------------------------------------
(* Packet numbers: a client counts up, and nothing on the way from its     *)
(* send() to the table repeats a packet or changes their order.            *)

Packets == ClientPacket \cup {TAIL}

\* The numbers of the packets of s from place m to place n.
NumbersOf(s, m, n) == {s[i].pn : i \in {k \in m..n : s[k] # TAIL}}
Numbers(s) == NumbersOf(s, 1, Len(s))

Ascends(s) ==
    \A i, j \in 1..Len(s) :
        (i < j /\ s[i] # TAIL /\ s[j] # TAIL) => s[i].pn < s[j].pn

Before(A, B) == \A a \in A, b \in B : a < b

\* The packets of c that the handler is yet to save.
Todo(c) ==
    IF pc = "idle" \/ c # serving THEN <<>>
    ELSE IF pc = "notify" THEN Tail(stream) ELSE stream

SavedNumbers(c) == {table[k].pn : k \in {i \in 1..Len(table) : table[i].from = c}}

\* Rows, then the batch at hand, then the channel: the numbers go up.
OrderOf(c) ==
    /\ Ascends(Todo(c)) /\ Ascends(toServer[c])
    /\ Before(SavedNumbers(c), Numbers(Todo(c)))
    /\ Before(SavedNumbers(c), Numbers(toServer[c]))
    /\ Before(Numbers(Todo(c)), Numbers(toServer[c]))
    /\ SavedNumbers(c) \cup Numbers(Todo(c)) \cup Numbers(toServer[c])
           \subseteq 0..packetCounter[c]

OrderInv == SavedAtMostOnce /\ \A c \in Connection : OrderOf(c)

\* A piece of an ascending sequence ascends, and has the numbers of its place.
LEMMA PieceAscends ==
    ASSUME NEW s \in Seq(Packets), Ascends(s),
           NEW m \in Nat \ {0}, NEW n \in Int, n <= Len(s)
    PROVE  /\ SubSeq(s, m, n) \in Seq(Packets)
           /\ Ascends(SubSeq(s, m, n))
           /\ Numbers(SubSeq(s, m, n)) \subseteq NumbersOf(s, m, n)
<1>. DEFINE t == SubSeq(s, m, n)
<1>1. Len(s) \in Nat /\ m \in Int
  BY LenProperties
<1>2. \A i \in m..n : s[i] \in Packets
  BY <1>1, ElementOfSeq
<1>3. /\ t \in Seq(Packets)
      /\ Len(t) = IF m <= n THEN n - m + 1 ELSE 0
      /\ \A i \in 1..(n - m + 1) : t[i] = s[m + i - 1]
  BY <1>1, <1>2, SubSeqProperties
<1>4. \A i \in 1..Len(t) : t[i] = s[m + i - 1] /\ m + i - 1 \in m..n
  BY <1>1, <1>3
<1>. HIDE DEF t
<1>5. Ascends(t)
  <2>. SUFFICES ASSUME NEW i \in 1..Len(t), NEW j \in 1..Len(t), i < j,
                       t[i] # TAIL, t[j] # TAIL
                PROVE  t[i].pn < t[j].pn
    BY DEF Ascends
  <2>1. m + i - 1 \in 1..Len(s) /\ m + j - 1 \in 1..Len(s) /\ m + i - 1 < m + j - 1
    BY <1>1, <1>3
  <2>2. QED
    BY <1>4, <2>1 DEF Ascends
<1>6. Numbers(t) \subseteq NumbersOf(s, m, n)
  BY <1>4 DEF Numbers, NumbersOf
<1>7. QED
  BY <1>3, <1>5, <1>6 DEF t

\* The numbers of one piece, and of two that follow each other.
LEMMA PiecesInOrder ==
    ASSUME NEW s \in Seq(Packets), Ascends(s),
           NEW n \in 0..Len(s), NEW m \in 1..(Len(s) + 1), n < m
    PROVE  /\ NumbersOf(s, 1, n) \subseteq Numbers(s)
           /\ NumbersOf(s, m, Len(s)) \subseteq Numbers(s)
           /\ Before(NumbersOf(s, 1, n), NumbersOf(s, m, Len(s)))
<1>1. Len(s) \in Nat
  BY LenProperties
<1>2. \A i \in 1..n : i \in 1..Len(s)
  BY <1>1
<1>3. \A j \in m..Len(s) : j \in 1..Len(s)
  BY <1>1
<1>4. \A i \in 1..n, j \in m..Len(s) : i < j
  BY <1>1
<1>5. Before(NumbersOf(s, 1, n), NumbersOf(s, m, Len(s)))
  BY <1>2, <1>3, <1>4 DEF Ascends, NumbersOf, Before
<1>6. QED
  BY <1>2, <1>3, <1>5 DEF Numbers, NumbersOf

\* The rest of a cut packet has no number.
LEMMA TailBefore ==
    ASSUME NEW s \in Seq(Packets), Ascends(s)
    PROVE  /\ <<TAIL>> \o s \in Seq(Packets)
           /\ Ascends(<<TAIL>> \o s)
           /\ Numbers(<<TAIL>> \o s) \subseteq Numbers(s)
<1>. DEFINE t == <<TAIL>> \o s
<1>1. <<TAIL>> \in Seq(Packets) /\ Len(<<TAIL>>) = 1 /\ <<TAIL>>[1] = TAIL
  BY DEF Packets
<1>2. Len(s) \in Nat
  BY LenProperties
<1>3. /\ t \in Seq(Packets) /\ Len(t) = 1 + Len(s)
      /\ \A i \in 1..(1 + Len(s)) : t[i] = IF i <= 1 THEN <<TAIL>>[i] ELSE s[i - 1]
  BY <1>1, ConcatProperties
<1>4. \A i \in 1..Len(t) :
          \/ i = 1 /\ t[i] = TAIL
          \/ i - 1 \in 1..Len(s) /\ t[i] = s[i - 1]
  BY <1>1, <1>2, <1>3
<1>. HIDE DEF t
<1>5. Ascends(t)
  <2>. SUFFICES ASSUME NEW i \in 1..Len(t), NEW j \in 1..Len(t), i < j,
                       t[i] # TAIL, t[j] # TAIL
                PROVE  t[i].pn < t[j].pn
    BY DEF Ascends
  <2>1. /\ i - 1 \in 1..Len(s) /\ t[i] = s[i - 1]
        /\ j - 1 \in 1..Len(s) /\ t[j] = s[j - 1]
    BY <1>4
  <2>2. i - 1 < j - 1
    BY <1>2, <1>3
  <2>3. QED
    BY <2>1, <2>2 DEF Ascends
<1>6. Numbers(t) \subseteq Numbers(s)
  BY <1>4 DEF Numbers, NumbersOf
<1>7. QED
  BY <1>3, <1>5, <1>6 DEF t

\* receive() cuts the numbers in two.
LEMMA ReceiveOrder ==
    ASSUME NEW s \in Seq(Packets), Ascends(s), NEW r \in Receive(s)
    PROVE  /\ r.batch \in Seq(Packets) /\ r.rest \in Seq(Packets)
           /\ Ascends(r.batch) /\ Ascends(r.rest)
           /\ Numbers(r.batch) \subseteq Numbers(s)
           /\ Numbers(r.rest) \subseteq Numbers(s)
           /\ Before(Numbers(r.batch), Numbers(r.rest))
<1>1. Len(s) \in Nat
  BY LenProperties
<1>2. ASSUME NEW n \in 0..Len(s), NEW m \in 1..(Len(s) + 1), n < m,
             r.batch = SubSeq(s, 1, n),
             r.rest \in {SubSeq(s, m, Len(s)), <<TAIL>> \o SubSeq(s, m, Len(s))}
      PROVE  /\ r.batch \in Seq(Packets) /\ r.rest \in Seq(Packets)
             /\ Ascends(r.batch) /\ Ascends(r.rest)
             /\ Numbers(r.batch) \subseteq NumbersOf(s, 1, n)
             /\ Numbers(r.rest) \subseteq NumbersOf(s, m, Len(s))
  <2>1. /\ n \in Int /\ n <= Len(s) /\ m \in Nat \ {0}
        /\ Len(s) \in Int /\ Len(s) <= Len(s)
    BY <1>1
  <2>2. /\ r.batch \in Seq(Packets) /\ Ascends(r.batch)
        /\ Numbers(r.batch) \subseteq NumbersOf(s, 1, n)
    BY <1>2, <2>1, PieceAscends
  <2>. DEFINE t == SubSeq(s, m, Len(s))
  <2>3. /\ t \in Seq(Packets) /\ Ascends(t)
        /\ Numbers(t) \subseteq NumbersOf(s, m, Len(s))
    BY <2>1, PieceAscends
  <2>4. /\ <<TAIL>> \o t \in Seq(Packets) /\ Ascends(<<TAIL>> \o t)
        /\ Numbers(<<TAIL>> \o t) \subseteq Numbers(t)
    BY <2>3, TailBefore
  <2>. HIDE DEF t
  <2>5. r.rest = t \/ r.rest = <<TAIL>> \o t
    BY <1>2 DEF t
  <2>6. /\ r.rest \in Seq(Packets) /\ Ascends(r.rest)
        /\ Numbers(r.rest) \subseteq NumbersOf(s, m, Len(s))
    <3>1. CASE r.rest = t
      BY <2>3, <3>1
    <3>2. CASE r.rest = <<TAIL>> \o t
      BY <2>3, <2>4, <3>2
    <3>3. QED
      BY <2>5, <3>1, <3>2
  <2>7. QED
    BY <2>2, <2>6
<1>3. \E n \in 0..Len(s), m \in 1..(Len(s) + 1) :
          /\ n < m /\ r.batch = SubSeq(s, 1, n)
          /\ r.rest \in {SubSeq(s, m, Len(s)), <<TAIL>> \o SubSeq(s, m, Len(s))}
  <2>1. CASE r \in WholePackets(s)
    <3>1. PICK n \in 1..Len(s) : r = [batch |-> SubSeq(s, 1, n),
                                      rest  |-> SubSeq(s, n + 1, Len(s))]
      BY <2>1 DEF WholePackets
    <3>2. n \in 0..Len(s) /\ n + 1 \in 1..(Len(s) + 1) /\ n < n + 1
      BY <1>1
    <3>3. QED
      BY <3>1, <3>2
  <2>2. CASE r \in CutPacket(s)
    <3>1. PICK n \in 1..Len(s) :
              r = [batch |-> SubSeq(s, 1, n - 1),
                   rest  |-> <<TAIL>> \o SubSeq(s, n + 1, Len(s))]
      BY <2>2 DEF CutPacket
    <3>2. n - 1 \in 0..Len(s) /\ n + 1 \in 1..(Len(s) + 1) /\ n - 1 < n + 1
      BY <1>1
    <3>3. QED
      BY <3>1, <3>2
  <2>3. QED
    BY <2>1, <2>2 DEF Receive
<1>4. QED
  <2>1. PICK n \in 0..Len(s), m \in 1..(Len(s) + 1) :
            /\ n < m /\ r.batch = SubSeq(s, 1, n)
            /\ r.rest \in {SubSeq(s, m, Len(s)), <<TAIL>> \o SubSeq(s, m, Len(s))}
    BY <1>3
  <2>2. /\ NumbersOf(s, 1, n) \subseteq Numbers(s)
        /\ NumbersOf(s, m, Len(s)) \subseteq Numbers(s)
        /\ Before(NumbersOf(s, 1, n), NumbersOf(s, m, Len(s)))
    BY <2>1, PiecesInOrder
  <2>3. /\ r.batch \in Seq(Packets) /\ r.rest \in Seq(Packets)
        /\ Ascends(r.batch) /\ Ascends(r.rest)
        /\ Numbers(r.batch) \subseteq NumbersOf(s, 1, n)
        /\ Numbers(r.rest) \subseteq NumbersOf(s, m, Len(s))
    BY <1>2, <2>1
  <2>4. QED
    BY <2>2, <2>3 DEF Before

\* The decoder keeps the order.
LEMMA DecodedOrder ==
    ASSUME NEW b \in Seq(Packets), Ascends(b), NEW packets \in Decoded(b)
    PROVE  Ascends(packets) /\ Numbers(packets) \subseteq Numbers(b)
<1>1. Len(b) \in Nat
  BY LenProperties
<1>2. CASE b # <<>> /\ Head(b) = TAIL
  <2>1. PICK n \in 2..(Len(b) + 1) : packets = SubSeq(b, n, Len(b))
    BY <1>2 DEF Decoded
  <2>2. /\ n \in Nat \ {0} /\ Len(b) \in Int /\ Len(b) <= Len(b)
        /\ n \in 1..(Len(b) + 1) /\ 0 \in 0..Len(b) /\ 0 < n
    BY <1>1
  <2>3. Ascends(packets) /\ Numbers(packets) \subseteq NumbersOf(b, n, Len(b))
    BY <2>1, <2>2, PieceAscends
  <2>4. NumbersOf(b, n, Len(b)) \subseteq Numbers(b)
    BY <2>2, PiecesInOrder
  <2>5. QED
    BY <2>3, <2>4
<1>3. CASE ~(b # <<>> /\ Head(b) = TAIL)
  BY <1>3 DEF Decoded
<1>4. QED
  BY <1>2, <1>3

\* A packet with a number above all others goes to the end.
LEMMA AppendOrder ==
    ASSUME NEW s \in Seq(Packets), Ascends(s), NEW p \in ClientPacket,
           Before(Numbers(s), {p.pn})
    PROVE  /\ Ascends(Append(s, p))
           /\ Numbers(Append(s, p)) \subseteq Numbers(s) \cup {p.pn}
<1>. DEFINE t == Append(s, p)
<1>1. /\ Len(s) \in Nat /\ Len(t) = Len(s) + 1
      /\ \A i \in 1..Len(s) : t[i] = s[i]
      /\ t[Len(s) + 1] = p
  BY LenProperties, AppendProperties DEF Packets
<1>. HIDE DEF t
<1>2. \A i \in 1..Len(t) : \/ i \in 1..Len(s) /\ t[i] = s[i]
                           \/ i = Len(s) + 1 /\ t[i] = p
  BY <1>1
<1>3. \A i \in 1..Len(s) : s[i] # TAIL => s[i].pn \in Numbers(s)
  BY DEF Numbers, NumbersOf
<1>4. Ascends(t)
  <2>. SUFFICES ASSUME NEW i \in 1..Len(t), NEW j \in 1..Len(t), i < j,
                       t[i] # TAIL, t[j] # TAIL
                PROVE  t[i].pn < t[j].pn
    BY DEF Ascends
  <2>1. i \in 1..Len(s) /\ t[i] = s[i]
    BY <1>1, <1>2
  <2>2. CASE j \in 1..Len(s) /\ t[j] = s[j]
    BY <2>1, <2>2 DEF Ascends
  <2>3. CASE t[j] = p
    BY <1>3, <2>1, <2>3 DEF Before
  <2>4. QED
    BY <1>2, <2>2, <2>3
<1>5. Numbers(t) \subseteq Numbers(s) \cup {p.pn}
  BY <1>2, <1>3 DEF Numbers, NumbersOf
<1>6. QED
  BY <1>4, <1>5 DEF t

\* The head of a batch comes before the others.
LEMMA TailOrder ==
    ASSUME NEW s \in Seq(ClientPacket), s # <<>>, Ascends(s)
    PROVE  /\ Ascends(Tail(s))
           /\ Numbers(Tail(s)) \subseteq Numbers(s)
           /\ Head(s).pn \in Numbers(s)
           /\ Before({Head(s).pn}, Numbers(Tail(s)))
<1>1. /\ Len(s) \in Nat \ {0} /\ Len(Tail(s)) = Len(s) - 1
      /\ \A i \in 1..Len(Tail(s)) : Tail(s)[i] = s[i + 1]
      /\ Head(s) = s[1]
  BY HeadTailProperties, EmptySeq
<1>2. \A i \in 1..Len(Tail(s)) : i + 1 \in 2..Len(s) /\ Tail(s)[i] = s[i + 1]
  BY <1>1
<1>3. s[1] # TAIL
  <2>1. s[1] \in ClientPacket
    BY <1>1, ElementOfSeq
  <2>2. QED
    BY <2>1 DEF ClientPacket, TAIL
<1>4. Ascends(Tail(s))
  <2>. SUFFICES ASSUME NEW i \in 1..Len(Tail(s)), NEW j \in 1..Len(Tail(s)), i < j,
                       Tail(s)[i] # TAIL, Tail(s)[j] # TAIL
                PROVE  Tail(s)[i].pn < Tail(s)[j].pn
    BY DEF Ascends
  <2>1. i + 1 \in 1..Len(s) /\ j + 1 \in 1..Len(s) /\ i + 1 < j + 1
    BY <1>1
  <2>2. QED
    BY <1>2, <2>1 DEF Ascends
<1>5. Numbers(Tail(s)) \subseteq Numbers(s)
  BY <1>1, <1>2 DEF Numbers, NumbersOf
<1>6. Head(s).pn \in Numbers(s)
  BY <1>1, <1>3 DEF Numbers, NumbersOf
<1>7. Before({Head(s).pn}, Numbers(Tail(s)))
  <2>1. \A i \in 2..Len(s) : s[i] # TAIL => s[1].pn < s[i].pn
    BY <1>1, <1>3 DEF Ascends
  <2>2. QED
    BY <1>1, <1>2, <2>1 DEF Before, Numbers, NumbersOf
<1>8. QED
  BY <1>4, <1>5, <1>6, <1>7
------------------------------------------------------------------------------
(* One packet, one row.                                                    *)

LEMMA NothingAscends == Ascends(<<>>) /\ Numbers(<<>>) = {}
  BY DEF Ascends, Numbers, NumbersOf

\* The order holds of what is left.
LEMMA LessToDo ==
    ASSUME NEW c \in Connection, OrderOf(c),
           SavedNumbers(c)' = SavedNumbers(c),
           toServer'[c] = toServer[c],
           packetCounter'[c] = packetCounter[c],
           Ascends(Todo(c)'), Numbers(Todo(c)') \subseteq Numbers(Todo(c))
    PROVE  OrderOf(c)'
  BY DEF OrderOf, Before

\* A step that touches none of the three places.
LEMMA SameOrder ==
    ASSUME OrderInv,
           UNCHANGED <<table, toServer, packetCounter, pc, serving, stream>>
    PROVE  OrderInv'
<1>1. ASSUME NEW c \in Connection
      PROVE  OrderOf(c)'
  <2>1. SavedNumbers(c)' = SavedNumbers(c) /\ Todo(c)' = Todo(c)
    BY DEF SavedNumbers, Todo
  <2>2. Ascends(Todo(c))
    BY DEF OrderInv, OrderOf
  <2>3. QED
    BY <2>1, <2>2, LessToDo DEF OrderInv
<1>2. SavedAtMostOnce'
  BY DEF OrderInv, SavedAtMostOnce
<1>3. QED
  BY <1>1, <1>2 DEF OrderInv

\* The loop over the batch goes on.
LEMMA NextPacketOrder ==
    ASSUME HandlerOK, OrderInv, pc \notin {"idle", "receive"}, NextPacket,
           UNCHANGED <<table, toServer, packetCounter>>
    PROVE  OrderInv'
<1>1. stream \in Seq(ClientPacket) /\ stream # <<>>
  BY DEF HandlerOK
<1>2. ASSUME NEW c \in Connection
      PROVE  OrderOf(c)'
  <2>1. SavedNumbers(c)' = SavedNumbers(c)
    BY DEF SavedNumbers
  <2>2. Ascends(Todo(c)') /\ Numbers(Todo(c)') \subseteq Numbers(Todo(c))
    <3>1. CASE c # serving \/ Tail(stream) = <<>>
      <4>1. Todo(c)' = <<>>
        BY <3>1 DEF NextPacket, Todo
      <4>2. QED
        BY <4>1, NothingAscends
    <3>2. CASE c = serving /\ Tail(stream) # <<>>
      <4>1. Todo(c)' = Tail(stream)
        BY <3>2 DEF NextPacket, Todo
      <4>2. CASE pc = "notify"
        <5>1. Todo(c) = Tail(stream)
          BY <3>2, <4>2 DEF Todo
        <5>2. QED
          BY <4>1, <5>1 DEF OrderInv, OrderOf
      <4>3. CASE pc # "notify"
        <5>1. Todo(c) = stream
          BY <3>2, <4>3 DEF Todo
        <5>2. Ascends(stream)
          BY <5>1 DEF OrderInv, OrderOf
        <5>3. QED
          BY <1>1, <4>1, <5>1, <5>2, TailOrder
      <4>4. QED
        BY <4>2, <4>3
    <3>3. QED
      BY <3>1, <3>2
  <2>3. QED
    BY <2>1, <2>2, LessToDo DEF OrderInv
<1>3. SavedAtMostOnce'
  BY DEF OrderInv, SavedAtMostOnce
<1>4. QED
  BY <1>2, <1>3 DEF OrderInv

\* The new row has a number above those of the rows of its client.
LEMMA SendEventOrder ==
    ASSUME CoreInv, OrderInv, OnSendEvent
    PROVE  OrderInv'
<1>1. /\ pc = "dispatch" /\ Head(stream).type = "SendEvent"
      /\ UNCHANGED <<toServer, packetCounter>>
      /\ HandlerOK /\ serving \in Connection
      /\ stream \in Seq(ClientPacket) /\ stream # <<>>
  BY DEF OnSendEvent, Dispatching, transportVars, CoreInv, HandlerOK
<1>2. CASE StorageFails /\ UNCHANGED table
  BY <1>1, <1>2, NextPacketOrder DEF StorageFails
<1>3. CASE /\ table' = Insert(table, EventOf(Head(stream)))
           /\ pc' = "notify"
           /\ UNCHANGED <<stream, serving>>
  <2>. DEFINE e == EventOf(Head(stream))
              n == Head(stream).pn
  <2>1. table \in Seq(Event) /\ Len(table) \in Nat
    BY LenProperties DEF CoreInv, StorageOK
  <2>2. e \in Event /\ e.from = serving /\ e.pn = n
    BY <1>1, PacketAtHand, RequestFields DEF EventOf, Event
  <2>3. /\ Len(table') = Len(table) + 1
        /\ \A k \in 1..Len(table) : table'[k] = table[k]
        /\ table'[Len(table) + 1] = e
    BY <1>3, <2>1, <2>2, AppendProperties DEF Insert
  <2>. HIDE DEF e
  <2>4. Todo(serving) = stream /\ Todo(serving)' = Tail(stream)
    BY <1>1, <1>3 DEF Todo
  <2>5. Ascends(stream)
    BY <1>1, <2>4 DEF OrderInv, OrderOf
  <2>6. /\ Ascends(Tail(stream)) /\ Numbers(Tail(stream)) \subseteq Numbers(stream)
        /\ n \in Numbers(stream) /\ Before({n}, Numbers(Tail(stream)))
    BY <1>1, <2>5, TailOrder
  <2>. HIDE DEF n
  <2>7. SavedNumbers(serving)' \subseteq SavedNumbers(serving) \cup {n}
    BY <1>3, <2>1, <2>2, <2>3 DEF SavedNumbers
  <2>8. OrderOf(serving)'
    <3>1. OrderOf(serving)
      BY <1>1 DEF OrderInv
    <3>2. Before(SavedNumbers(serving)', Numbers(Todo(serving)'))
      BY <2>4, <2>6, <2>7, <3>1 DEF OrderOf, Before
    <3>3. /\ Before(SavedNumbers(serving)', Numbers(toServer[serving]))
          /\ Before(Numbers(Todo(serving)'), Numbers(toServer[serving]))
      BY <2>4, <2>6, <2>7, <3>1 DEF OrderOf, Before
    <3>4. SavedNumbers(serving)' \cup Numbers(Todo(serving)')
              \cup Numbers(toServer[serving]) \subseteq 0..packetCounter[serving]
      BY <2>4, <2>6, <2>7, <3>1 DEF OrderOf
    <3>5. Ascends(Todo(serving)') /\ Ascends(toServer[serving])
      BY <2>4, <2>6, <3>1 DEF OrderOf
    <3>6. serving' = serving
      BY <1>3
    <3>7. QED
      BY <1>1, <3>2, <3>3, <3>4, <3>5, <3>6 DEF OrderOf
  <2>9. ASSUME NEW c \in Connection, c # serving
        PROVE  OrderOf(c)'
    <3>1. Todo(c) = <<>> /\ Todo(c)' = <<>>
      BY <1>1, <1>3, <2>9 DEF Todo
    <3>2. SavedNumbers(c)' = SavedNumbers(c)
      BY <2>1, <2>2, <2>3, <2>9 DEF SavedNumbers
    <3>3. QED
      BY <1>1, <3>1, <3>2, LessToDo, NothingAscends DEF OrderInv
  <2>10. \A k \in 1..Len(table) : table[k].from = serving => table[k].pn # n
    <3>1. /\ Before(SavedNumbers(serving), Numbers(stream))
          /\ Numbers(stream) \subseteq 0..packetCounter[serving]
      BY <1>1, <2>4 DEF OrderInv, OrderOf
    <3>2. n \in Int
      BY <2>6, <3>1
    <3>3. \A m \in SavedNumbers(serving) : m < n
      BY <2>6, <3>1 DEF Before
    <3>4. \A k \in 1..Len(table) :
              table[k].from = serving => table[k].pn \in SavedNumbers(serving)
      BY DEF SavedNumbers
    <3>5. QED
      BY <3>2, <3>3, <3>4
  <2>11. SavedAtMostOnce'
    <3>. SUFFICES ASSUME NEW j \in 1..Len(table'), NEW k \in 1..Len(table'),
                         table'[j].from = table'[k].from,
                         table'[j].pn = table'[k].pn
                  PROVE  j = k
      BY DEF SavedAtMostOnce
    <3>1. /\ j \in 1..Len(table) \/ j = Len(table) + 1
          /\ k \in 1..Len(table) \/ k = Len(table) + 1
      BY <2>1, <2>3
    <3>2. CASE j \in 1..Len(table) /\ k \in 1..Len(table)
      BY <2>3, <3>2 DEF OrderInv, SavedAtMostOnce
    <3>3. CASE j \in 1..Len(table) /\ k = Len(table) + 1
      BY <2>2, <2>3, <2>10, <3>3
    <3>4. CASE j = Len(table) + 1 /\ k \in 1..Len(table)
      BY <2>2, <2>3, <2>10, <3>4
    <3>5. QED
      BY <3>1, <3>2, <3>3, <3>4
  <2>12. QED
    BY <1>3, <2>8, <2>9, <2>11 DEF OrderInv
<1>4. QED
  BY <1>2, <1>3 DEF OnSendEvent

\* A batch comes out of the channel in front of what stays in it.
LEMMA ReceivedOrder ==
    ASSUME CoreInv, OrderInv, NEW c \in Connection, OnNewDataReceived(c)
    PROVE  OrderInv'
<1>1. PICK received \in Receive(toServer[c]) :
          /\ toServer' = [toServer EXCEPT ![c] = received.rest]
          /\ \E packets \in Decoded(received.batch) :
               /\ stream' = packets
               /\ pc' = IF packets = <<>> THEN "receive" ELSE "dispatch"
          /\ serving' = c
  BY DEF OnNewDataReceived, Announced
<1>2. /\ pc = "idle" /\ UNCHANGED <<table, packetCounter>>
      /\ toServer[c] \in Seq(Packets)
  BY DEF OnNewDataReceived, CoreInv, ChannelsOK, IsChannel, Packets
<1>3. \A d \in Connection : OrderOf(d) /\ Todo(d) = <<>>
                              /\ SavedNumbers(d)' = SavedNumbers(d)
  BY <1>2 DEF OrderInv, Todo, SavedNumbers
<1>4. /\ received.batch \in Seq(Packets) /\ received.rest \in Seq(Packets)
      /\ Ascends(received.batch) /\ Ascends(received.rest)
      /\ Numbers(received.batch) \subseteq Numbers(toServer[c])
      /\ Numbers(received.rest) \subseteq Numbers(toServer[c])
      /\ Before(Numbers(received.batch), Numbers(received.rest))
  BY <1>2, <1>3, ReceiveOrder DEF OrderOf
<1>5. Ascends(stream') /\ Numbers(stream') \subseteq Numbers(received.batch)
  BY <1>1, <1>4, DecodedOrder
<1>6. OrderOf(c)'
  <2>1. Todo(c)' = stream' \/ Todo(c)' = <<>>
    BY <1>1 DEF Todo
  <2>2. /\ Ascends(Todo(c)') /\ Numbers(Todo(c)') \subseteq Numbers(received.batch)
    BY <1>5, <2>1, NothingAscends
  <2>3. toServer'[c] = received.rest
    BY <1>1 DEF CoreInv, ChannelsOK
  <2>4. /\ OrderOf(c) /\ SavedNumbers(c)' = SavedNumbers(c)
        /\ packetCounter' = packetCounter
    BY <1>2, <1>3
  <2>5. QED
    BY <1>4, <2>2, <2>3, <2>4 DEF OrderOf, Before
<1>7. ASSUME NEW d \in Connection, d # c
      PROVE  OrderOf(d)'
  <2>1. Todo(d)' = <<>>
    BY <1>1, <1>7 DEF Todo
  <2>2. toServer'[d] = toServer[d]
    BY <1>1, <1>7 DEF CoreInv, ChannelsOK
  <2>3. QED
    BY <1>2, <1>3, <2>1, <2>2, LessToDo, NothingAscends
<1>8. SavedAtMostOnce'
  BY <1>2 DEF OrderInv, SavedAtMostOnce
<1>9. QED
  BY <1>6, <1>7, <1>8 DEF OrderInv

\* A client counts a number above all it has sent, and sends it or not.
LEMMA CountOrder ==
    ASSUME CoreInv, OrderInv, NEW c \in Connection,
           packetCounter' = [packetCounter EXCEPT ![c] = @ + 1],
           NEW packet \in ClientPacket, packet.pn = packetCounter[c] + 1,
           \/ toServer' = toServer
           \/ toServer' = [toServer EXCEPT ![c] = Append(toServer[c], packet)],
           UNCHANGED <<table, pc, serving, stream>>
    PROVE  OrderInv'
<1>1. /\ packetCounter \in [Connection -> Nat]
      /\ packetCounter'[c] = packetCounter[c] + 1
  BY DEF CoreInv, LinksOK
<1>2. \A d \in Connection : /\ OrderOf(d) /\ Todo(d)' = Todo(d)
                            /\ SavedNumbers(d)' = SavedNumbers(d)
  BY DEF OrderInv, Todo, SavedNumbers
<1>3. toServer[c] \in Seq(Packets)
  BY DEF CoreInv, ChannelsOK, IsChannel, Packets
<1>4. Before(Numbers(toServer[c]), {packet.pn})
  BY <1>1, <1>2 DEF OrderOf, Before
<1>5. /\ Ascends(Append(toServer[c], packet))
      /\ Numbers(Append(toServer[c], packet))
             \subseteq Numbers(toServer[c]) \cup {packet.pn}
  BY <1>2, <1>3, <1>4, AppendOrder DEF OrderOf
<1>6. OrderOf(c)'
  <2>1. /\ Ascends(toServer'[c])
        /\ Numbers(toServer'[c]) \subseteq Numbers(toServer[c]) \cup {packet.pn}
    BY <1>2, <1>5 DEF OrderOf, CoreInv, ChannelsOK
  <2>2. /\ SavedNumbers(c) \cup Numbers(Todo(c)) \cup Numbers(toServer[c])
               \subseteq 0..packetCounter[c]
        /\ packetCounter[c] \in Nat
    BY <1>1, <1>2 DEF OrderOf
  <2>3. /\ Before(SavedNumbers(c), Numbers(toServer'[c]))
        /\ Before(Numbers(Todo(c)), Numbers(toServer'[c]))
    BY <1>2, <2>1, <2>2 DEF OrderOf, Before
  <2>4. SavedNumbers(c) \cup Numbers(Todo(c)) \cup Numbers(toServer'[c])
            \subseteq 0..packetCounter'[c]
    BY <1>1, <2>1, <2>2
  <2>5. QED
    BY <1>2, <2>1, <2>3, <2>4 DEF OrderOf
<1>7. ASSUME NEW d \in Connection, d # c
      PROVE  OrderOf(d)'
  <2>1. toServer'[d] = toServer[d] /\ packetCounter'[d] = packetCounter[d]
    BY <1>1, <1>7 DEF CoreInv, ChannelsOK
  <2>2. Ascends(Todo(d)')
    BY <1>2 DEF OrderOf
  <2>3. QED
    BY <1>2, <2>1, <2>2, LessToDo
<1>8. SavedAtMostOnce'
  BY DEF OrderInv, SavedAtMostOnce
<1>9. QED
  BY <1>6, <1>7, <1>8 DEF OrderInv

\* An arbitrary client does so with every packet it sends.
LEMMA ClientSendsOrder ==
    ASSUME TypeInv, OrderInv, NEW c \in Connection, ClientSends(c)
    PROVE  OrderInv'
<1>1. /\ packetCounter' = [packetCounter EXCEPT ![c] = @ + 1]
      /\ packetCounter'[c] = packetCounter[c] + 1
      /\ UNCHANGED <<table, pc, serving, stream>>
  BY DEF ClientSends, serverVars, handlerVars, TypeInv, TransportOK
<1>2. PICK packet \in Requests(packetCounter'[c], handshake[c])
                      \cup Strays(packetCounter'[c], handshake[c]) :
          toServer' = Sent(toServer, clientValid, c, packet)
  BY DEF ClientSends
<1>3. packet.pn = packetCounter[c] + 1
  BY <1>1, <1>2 DEF Requests, Strays, SendEvent, SavedEventsRequest,
     NumberOfSavedEventsRequest
<1>4. packet \in ClientPacket
  <2>1. packetCounter'[c] \in Nat /\ handshake[c] \in Nat
    BY <1>1 DEF TypeInv, TransportOK
  <2>2. Texts \subseteq Nat
    <3>1. 0..MaxSendEventText \subseteq Nat
      BY DEF MaxSendEventText, MaxPacket
    <3>2. QED
      BY <3>1, ServerAssumption, Zenon
  <2>3. \A r \in Ranges : r[1] \in Nat /\ r[2] \in Nat
    BY ServerAssumption, LastEventNumberAssumption
  <2>4. QED
    BY <1>2, <2>1, <2>2, <2>3 DEF Requests, Strays, SendEvent,
       SavedEventsRequest, NumberOfSavedEventsRequest, ClientPacket
<1>5. \/ toServer' = toServer
      \/ toServer' = [toServer EXCEPT ![c] = Append(toServer[c], packet)]
  BY <1>2 DEF Sent
<1>6. QED
  BY <1>1, <1>3, <1>4, <1>5, CountOrder, CoreOfTypeInv

\* Nothing is sent or saved yet.
LEMMA InitOrder == Init => OrderInv
<1>. SUFFICES ASSUME TransportInit, ServerInit
              PROVE  OrderInv
  BY DEF Init
<1>1. ASSUME NEW c \in Connection
      PROVE  OrderOf(c)
  <2>1. Todo(c) = <<>> /\ toServer[c] = <<>> /\ SavedNumbers(c) = {}
    BY DEF TransportInit, ServerInit, Todo, SavedNumbers
  <2>2. QED
    BY <2>1, NothingAscends DEF OrderOf, Before
<1>2. SavedAtMostOnce
  BY DEF ServerInit, SavedAtMostOnce
<1>3. QED
  BY <1>1, <1>2 DEF OrderInv

\* No step of the server or the network changes the order.
LEMMA ServerKeepsOrder ==
    ASSUME CoreInv, OrderInv, Server \/ Network
    PROVE  OrderInv'
<1>1. HandlerOK
  BY DEF CoreInv
<1>2. CASE IgnorePacket
  BY <1>1, <1>2, NextPacketOrder DEF IgnorePacket, transportVars
<1>3. CASE SendAck
  BY <1>1, <1>3, NextPacketOrder DEF SendAck
<1>4. CASE OnSavedEventsRequest
  <2>1. pc = "dispatch" /\ UNCHANGED <<table, toServer, packetCounter>>
    BY <1>4 DEF OnSavedEventsRequest, Dispatching, transportVars
  <2>2. CASE NextPacket
    BY <1>1, <2>1, <2>2, NextPacketOrder
  <2>3. CASE pc' = "respond" /\ UNCHANGED <<stream, serving>>
    <3>1. ASSUME NEW c \in Connection
          PROVE  OrderOf(c)'
      <4>1. Todo(c)' = Todo(c) /\ SavedNumbers(c)' = SavedNumbers(c)
        BY <2>1, <2>3 DEF Todo, SavedNumbers
      <4>2. QED
        BY <2>1, <4>1, LessToDo DEF OrderInv, OrderOf
    <3>2. QED
      BY <2>1, <3>1 DEF OrderInv, SavedAtMostOnce
  <2>4. QED
    BY <1>4, <2>2, <2>3 DEF OnSavedEventsRequest, StorageFails
<1>5. CASE SendSavedEvent
  <2>1. pc = "respond" /\ UNCHANGED <<table, toServer, packetCounter>>
    BY <1>5 DEF SendSavedEvent
  <2>2. CASE NextPacket
    BY <1>1, <2>1, <2>2, NextPacketOrder
  <2>3. CASE UNCHANGED <<pc, serving, stream>>
    BY <2>1, <2>3, SameOrder
  <2>4. QED
    BY <1>5, <2>2, <2>3 DEF SendSavedEvent
<1>6. CASE AbandonReply
  BY <1>1, <1>6, NextPacketOrder DEF AbandonReply, transportVars
<1>7. CASE OnNumberOfSavedEventsRequest
  BY <1>1, <1>7, NextPacketOrder DEF OnNumberOfSavedEventsRequest, Dispatching
<1>8. ASSUME NEW c \in Connection, OnNewEventSaved(c)
      PROVE  OrderInv'
  BY <1>8, SameOrder DEF OnNewEventSaved
<1>9. CASE CheckProtocolsExecutors
  BY <1>9, SameOrder DEF CheckProtocolsExecutors, transportVars, handlerVars
<1>10. ASSUME NEW c \in Connection,
              Handshake(c) \/ LinkBreaks(c) \/ ServerNotices(c)
       PROVE  OrderInv'
  BY <1>10, SameOrder DEF Handshake, LinkBreaks, ServerNotices,
     serverVars, handlerVars
<1>11. CASE Crash
  <2>1. /\ toServer' = [c \in Connection |-> <<>>] /\ pc' = "idle"
        /\ UNCHANGED <<table, packetCounter>>
    BY <1>11 DEF Crash, TableAfterRestart
  <2>2. ASSUME NEW c \in Connection
        PROVE  OrderOf(c)'
    <3>1. /\ Todo(c)' = <<>> /\ toServer'[c] = <<>>
          /\ SavedNumbers(c)' = SavedNumbers(c)
      BY <2>1 DEF Todo, SavedNumbers
    <3>2. OrderOf(c)
      BY DEF OrderInv
    <3>3. QED
      BY <2>1, <3>1, <3>2, NothingAscends DEF OrderOf, Before
  <2>3. QED
    BY <2>1, <2>2 DEF OrderInv, SavedAtMostOnce
<1>12. CASE ReceiveAgain
  <2>1. ASSUME NEW c \in Connection
        PROVE  OrderOf(c)'
    <3>1. Todo(c)' = <<>> /\ SavedNumbers(c)' = SavedNumbers(c)
      BY <1>12 DEF ReceiveAgain, Todo, SavedNumbers
    <3>2. QED
      BY <1>12, <3>1, LessToDo, NothingAscends
         DEF ReceiveAgain, transportVars, OrderInv
  <2>2. QED
    BY <1>12, <2>1 DEF ReceiveAgain, OrderInv, SavedAtMostOnce
<1>13. QED
  BY <1>2, <1>3, <1>4, <1>5, <1>6, <1>7, <1>8, <1>9, <1>10, <1>11, <1>12,
     SendEventOrder, ReceivedOrder DEF Server, ServerStep, Network

\* One SendEvent packet makes at most one row of the table, whatever way the
\* network cuts what it arrives in, and whenever the server dies.
THEOREM SavedOnce == ServerSpec => []SavedAtMostOnce
<1>1. TypeInv /\ OrderInv /\ [ServerNext]_vars => OrderInv'
  <2>. SUFFICES ASSUME TypeInv, OrderInv, [ServerNext]_vars
                PROVE  OrderInv'
    OBVIOUS
  <2>1. CASE Server \/ Network
    BY <2>1, CoreOfTypeInv, ServerKeepsOrder
  <2>2. ASSUME NEW c \in Connection, ClientReads(c)
        PROVE  OrderInv'
    BY <2>2, SameOrder DEF ClientReads, serverVars, handlerVars
  <2>3. CASE UNCHANGED vars
    BY <2>3, SameOrder DEF vars, transportVars, serverVars, handlerVars
  <2>4. QED
    BY <2>1, <2>2, <2>3, ClientSendsOrder DEF ServerNext, Client
<1>2. OrderInv => SavedAtMostOnce
  BY DEF OrderInv
<1>3. QED
  BY <1>1, <1>2, InitOrder, Typing, PTL DEF ServerSpec
==============================================================================
