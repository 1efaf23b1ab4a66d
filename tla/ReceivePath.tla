----------------------------- MODULE ReceivePath -----------------------------
(***************************************************************************)
(* The reading side of one end of a connection, in bytes: from the peer's  *)
(* send() over the two buffers of a QtTcpConnectionHelper to the packets   *)
(* that the loops of the handshake and of the protocol executor see.       *)
(*                                                                         *)
(* Received bytes wait in the buffer of QTcpSocket until readyRead runs    *)
(* onDataArrived, which moves them to m_rawDataFromSocket, and receive()   *)
(* returns only what is there.  Qt moves bytes and emits readyRead from    *)
(* the event loop and from waitForReadyRead, but does not emit it again    *)
(* while its slot runs.                                                    *)
(*                                                                         *)
(* `stack' is the C++ stack of the thread, the innermost frame first:      *)
(*   reader  onNewDataReceived, tryToGetServerMessages or one receive() of *)
(*           a handshake with its loop; slot: it runs inside readyRead     *)
(*   call    a blocking call of the client, which polls with readers       *)
(***************************************************************************)
EXTENDS Framing, SequencesExt

CONSTANTS
    Faults,   \* "break": the connection may be lost
    Traffic   \* for either role, the sets its first, second... packet is from

ASSUME TrafficAssumption ==
    \A side \in {"server", "client"} : Traffic[side] \in Seq(SUBSET Seq(Byte))

VARIABLES
    role,         \* whose end this is, "server" or "client"
    wire,         \* bytes sent by the peer, not yet in QTcpSocket
    readBuffer,   \* bytes in QTcpSocket
    rawData,      \* m_rawDataFromSocket
    callbackOn,   \* m_newDataReadyToReadCallback is set
    valid,        \* isValid()
    stack,
    sent,         \* history: the packets sent by the peer
    taken,        \* history: the bytes receive() has returned
    delivered     \* history: the packets the loops have decoded

buffers == <<wire, readBuffer, rawData>>
pathVars == <<role, buffers, callbackOn, valid, stack, sent, taken, delivered>>
------------------------------------------------------------------------------

Reader(task, slot) ==
    [kind |-> "reader", task |-> task, slot |-> slot, at |-> "receive",
     stream |-> <<>>]
Call(task) == [kind |-> "call", task |-> task]

\* What the callback of either executor starts.
Executor == role

Top == Head(stack)
Below == Tail(stack)
Reading(at) == stack # <<>> /\ Top.kind = "reader" /\ Top.at = at
Calling(task) == stack # <<>> /\ Top = Call(task)

\* Mutant: Qt emits readyRead inside its own slot.
NeverInSlot == FALSE

InSlot == \E i \in 1..Len(stack) : stack[i].kind = "reader" /\ stack[i].slot

\* The client has pressed "connect", the server has accepted.
PathInit ==
    /\ role \in {"server", "client"}
    /\ wire = <<>>
    /\ readBuffer = <<>>
    /\ rawData = <<>>
    /\ callbackOn = FALSE
    /\ valid = TRUE
    /\ stack = IF role = "client" THEN <<Call("invite")>> ELSE <<>>
    /\ sent = <<>>
    /\ taken = <<>>
    /\ delivered = <<>>

PeerSends ==
    /\ valid
    /\ Len(sent) < Len(Traffic[role])
    /\ \E packet \in Traffic[role][Len(sent) + 1] :
         /\ wire' = wire \o packet
         /\ sent' = Append(sent, packet)
    /\ UNCHANGED <<role, readBuffer, rawData, callbackOn, valid, stack, taken,
                   delivered>>

\* The socket leaves ConnectedState in the event loop or in waitForReadyRead.
\* If it does so in a send() of a handler, receive() is the next to notice.
Disconnected ==
    /\ "break" \in Faults
    /\ stack = <<>> \/ Reading("take")
    /\ valid' = FALSE
    /\ UNCHANGED <<role, buffers, callbackOn, stack, sent, taken, delivered>>
------------------------------------------------------------------------------
(* QtTcpConnectionHelper                                                   *)

\* Mutant: the slot assigns what it has read.
RawDataAssigned(bytes) == bytes

RawDataAfter(bytes) == rawData \o bytes

\* The slot of readyRead, when n bytes of the wire have come in.
OnDataArrived(n, below) ==
    /\ rawData' = RawDataAfter(readBuffer \o SubSeq(wire, 1, n))
    /\ readBuffer' = <<>>
    /\ wire' = SubSeq(wire, n + 1, Len(wire))
    /\ stack' = (IF callbackOn THEN <<Reader(Executor, TRUE)>> ELSE <<>>) \o below

\* readyRead from the event loop.
ReadyRead ==
    /\ valid
    /\ stack = <<>>
    /\ \E n \in 1..Len(wire) : OnDataArrived(n, <<>>)
    /\ UNCHANGED <<role, callbackOn, valid, sent, taken, delivered>>

\* The first line of receive().
WaitForReadyRead ==
    LET waited == <<[Top EXCEPT !.at = "take"]>> \o Below IN
    /\ Reading("receive")
    /\ \/ stack' = waited /\ UNCHANGED buffers
       \/ \E n \in 1..Len(wire) :
            /\ valid
            /\ \/ ~InSlot /\ OnDataArrived(n, waited)
               \/ /\ InSlot
                  /\ readBuffer' = readBuffer \o SubSeq(wire, 1, n)
                  /\ wire' = SubSeq(wire, n + 1, Len(wire))
                  /\ stack' = waited
                  /\ UNCHANGED rawData
    /\ UNCHANGED <<role, callbackOn, valid, sent, taken, delivered>>

\* Mutant: m_rawDataFromSocket is not cleared.
RawDataKept == rawData

RawDataTaken == <<>>

\* Mutant: the size of what was received is not looked at.
NothingReceivedIfInvalid == ~valid

\* receive() returns nullopt or no bytes.
NothingReceived == ~valid \/ rawData = <<>>

\* The rest of receive(); a reader returns at once without bytes.
Take ==
    /\ Reading("take")
    /\ \/ /\ NothingReceived
          /\ stack' = Below
          /\ UNCHANGED <<rawData, taken>>
       \/ /\ ~NothingReceived
          /\ stack' = <<[Top EXCEPT !.at = "packets", !.stream = rawData]>> \o Below
          /\ rawData' = RawDataTaken
          /\ taken' = taken \o rawData
    /\ UNCHANGED <<role, wire, readBuffer, callbackOn, valid, sent, delivered>>
------------------------------------------------------------------------------
(* The loops over a batch                                                  *)

Next1 == GetPacket(Top.stream)
RestOfBatch == <<[Top EXCEPT !.stream = Next1.rest]>> \o Below

\* Nothing more can be cut out of the stream: the server's handler receives
\* again, every other reader returns.
EndOfBatch ==
    /\ Reading("packets")
    /\ ~Next1.found
    /\ stack' = IF Top.task = "server"
                THEN <<Reader("server", Top.slot)>> \o Below
                ELSE Below
    /\ UNCHANGED <<role, buffers, callbackOn, valid, sent, taken, delivered>>

\* DecodedPacket throws; only the server's handshake does not go on.
IgnoreMalformed ==
    /\ Reading("packets")
    /\ Next1.found /\ ~Decodable(Next1.packet)
    /\ stack' = IF Top.task = "invitation" THEN Below ELSE RestOfBatch
    /\ UNCHANGED <<role, buffers, callbackOn, valid, sent, taken, delivered>>

Delivering(task) ==
    /\ Reading("packets")
    /\ Top.task = task
    /\ Next1.found /\ Decodable(Next1.packet)
    /\ delivered' = Append(delivered, Next1.packet)
    /\ UNCHANGED <<role, buffers, valid, sent, taken>>

\* onPacket on the server.
ServerPacketArrives ==
    /\ Delivering("server")
    /\ stack' = RestOfBatch
    /\ UNCHANGED callbackOn

\* saveMessage, or fireNewEventCallback with the blocking call of the table.
ClientPacketArrives ==
    /\ Delivering("client")
    /\ IF TypeOf(Next1.packet) = NewEventsNotificationType
       THEN /\ stack' = <<Call("client")>> \o RestOfBatch
            /\ callbackOn' = FALSE
       ELSE /\ stack' = RestOfBatch
            /\ UNCHANGED callbackOn

\* The server's handshake: the first packet of the batch decides, and the
\* constructor of the executor registers the callback.
InvitationArrives ==
    /\ Delivering("invitation")
    /\ stack' = Below
    /\ callbackOn' = (TypeOf(Next1.packet) = InviteType)

\* The client's handshake ends with the first Ack, the rest of its batch with
\* the stream; the constructor of the executor registers the callback.
AckArrives ==
    /\ Delivering("invite")
    /\ IF TypeOf(Next1.packet) = AckType
       THEN stack' = Tail(Below) /\ callbackOn' = TRUE
       ELSE stack' = RestOfBatch /\ UNCHANGED callbackOn
------------------------------------------------------------------------------
(* Who starts a reader                                                     *)

\* A tick of the server's timer while the connection waits for its handshake.
TryHandshake ==
    /\ role = "server"
    /\ stack = <<>>
    /\ valid /\ ~callbackOn
    /\ stack' = <<Reader("invitation", FALSE)>>
    /\ UNCHANGED <<role, buffers, callbackOn, valid, sent, taken, delivered>>

\* A call from the client's event loop; disconnectEventsCallback.
StartCall ==
    /\ role = "client"
    /\ stack = <<>>
    /\ valid /\ callbackOn
    /\ stack' = <<Call("client")>>
    /\ callbackOn' = FALSE
    /\ UNCHANGED <<role, buffers, valid, sent, taken, delivered>>

Poll(task) ==
    /\ Calling(task)
    /\ valid
    /\ stack' = <<Reader(task, FALSE)>> \o stack
    /\ UNCHANGED <<role, buffers, callbackOn, valid, sent, taken, delivered>>

\* Mutant: the scoped action does not connect the callback.
CallbackStaysOff == FALSE

CallbackAfterCall == TRUE

\* The call has its answer, or its loop runs out: connectEventsCallback and a
\* last tryToGetServerMessages.
EndCall ==
    /\ Calling("client")
    /\ callbackOn' = CallbackAfterCall
    /\ stack' = (IF valid THEN <<Reader("client", FALSE)>> ELSE <<>>) \o Below
    /\ UNCHANGED <<role, buffers, valid, sent, taken, delivered>>

\* Ten invitations without an Ack: the handshake fails and its connection,
\* which nobody else has, is closed.
GiveUp ==
    /\ Calling("invite")
    /\ stack' = Below
    /\ valid' = FALSE
    /\ UNCHANGED <<role, buffers, callbackOn, sent, taken, delivered>>

ReaderStep ==
    \/ WaitForReadyRead \/ Take \/ EndOfBatch \/ IgnoreMalformed
    \/ ServerPacketArrives \/ ClientPacketArrives
    \/ InvitationArrives \/ AckArrives

PathNext ==
    \/ PeerSends \/ Disconnected \/ ReadyRead \/ ReaderStep
    \/ TryHandshake \/ StartCall \/ EndCall \/ GiveUp
    \/ \E task \in {"client", "invite"} : Poll(task)

\* Between two calls the event loop serves its sockets and its timer; a reader is
\* straight-line code and a polling loop counts its iterations.
PathSpec ==
    /\ PathInit /\ [][PathNext]_pathVars
    /\ SF_pathVars(ReadyRead)
    /\ SF_pathVars(TryHandshake)
    /\ WF_pathVars(ReaderStep)
    /\ SF_pathVars(EndCall) /\ SF_pathVars(GiveUp)
------------------------------------------------------------------------------
(* Properties                                                              *)

\* The types of the buffers and of the frames, of which one at most runs in
\* the slot of readyRead.
PathTypeOK ==
    /\ role \in {"server", "client"}
    /\ {wire, readBuffer, rawData, taken} \subseteq Seq(Byte)
    /\ callbackOn \in BOOLEAN
    /\ valid \in BOOLEAN
    /\ sent \in Seq(Seq(Byte))
    /\ delivered \in Seq(Seq(Byte))
    /\ \A i \in 1..Len(stack) :
         \/ stack[i] \in [kind: {"call"}, task: {"client", "invite"}]
         \/ stack[i] \in [kind: {"reader"}, slot: BOOLEAN,
                          task: {"server", "client", "invitation", "invite"},
                          at: {"receive", "take", "packets"}, stream: Seq(Byte)]
    /\ \A i, j \in 1..Len(stack) :
         (/\ stack[i].kind = "reader" /\ stack[i].slot
          /\ stack[j].kind = "reader" /\ stack[j].slot) => i = j

\* No byte is lost, doubled or overtaken between the peer's send() and what
\* receive() returns, whoever moves it and in whichever slot.
BytesInOrder ==
    taken \o rawData \o readBuffer \o wire = FlattenSeq(sent)

\* A thread that is back in its event loop with the callback registered has
\* not left bytes that only the next readyRead would hand over.
NothingLeftInRawData ==
    (stack = <<>> /\ callbackOn /\ valid) => rawData = <<>>

\* While the slot of readyRead works on its batch, nothing new gets as far as
\* receive(): the second receive() of the server's loop finds no bytes, and
\* the calls nested in the client's slot are not answered.
NothingArrivesInSlot ==
    \A i \in 1..Len(stack) :
        (stack[i].kind = "reader" /\ stack[i].slot /\ stack[i].at = "packets")
            => rawData = <<>>
------------------------------------------------------------------------------
(* The reading side implements PacketChannel.                              *)

InFlight == Len(rawData) + Len(readBuffer) + Len(wire)

\* Length of the packets from the n-th on.
LengthFrom[n \in Nat] ==
    IF n > Len(sent) THEN 0 ELSE Len(sent[n]) + LengthFrom[n + 1]

\* The packets that are still whole, behind what is left of one that is not.
Framed(packets) == [i \in 1..Len(packets) |-> [bytes |-> packets[i]]]

Unread ==
    LET n == CHOOSE k \in 1..(Len(sent) + 1) :
                 /\ LengthFrom[k] <= InFlight
                 /\ k = 1 \/ LengthFrom[k - 1] > InFlight
    IN (IF LengthFrom[n] < InFlight THEN <<[type |-> "tail"]>> ELSE <<>>)
           \o Framed(SubSeq(sent, n, Len(sent)))

\* The packets that the open loops are going to see.
Streams == SelectSeq(stack, LAMBDA f : f.kind = "reader" /\ f.at = "packets")
OpenBatches ==
    SelectSeq([i \in 1..Len(Streams) |-> Framed(Packets[Streams[i].stream])],
              LAMBDA batch : batch # <<>>)

AllTraffic == UNION {UNION Range(Traffic[side]) : side \in {"server", "client"}}

Channel == INSTANCE PacketChannel WITH
    Faults <- Faults, Packet <- [bytes: AllTraffic],
    unread <- Unread, batches <- OpenBatches, processed <- Framed(delivered)

\* Every step of the byte level is a step of the packet level or none.
ImplementsPacketChannel == Channel!ChannelSpec
------------------------------------------------------------------------------
(* Liveness                                                                *)

\* The loop over a stream that has a length of 0 in front never ends.
Spinning == Reading("packets") /\ Endless(Top.stream)

\* Bytes that came in while the slot of readyRead was running: the event loop
\* is told of them when the next ones come.
Stranded == stack = <<>> /\ wire = <<>> /\ readBuffer # <<>>

\* Whatever is on the stack returns to the event loop, unless it has met a
\* length of 0 in the middle of a packet.
ReaderReturns == stack # <<>> ~> (stack = <<>> \/ Spinning)

\* A byte that was sent is received while the connection lives; the only two
\* ways to lose that are an endless loop and bytes stranded in the socket.
AllTaken == InFlight = 0
EveryByteIsRead == []<>(AllTaken \/ ~valid \/ Spinning \/ Stranded)

\* What ITransportConnection.h:52 says of the callback for new data.
EveryByteIsAnnounced == []<>(AllTaken \/ ~valid \/ Spinning)
==============================================================================
