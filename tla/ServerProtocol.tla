--------------------------- MODULE ServerProtocol ---------------------------
(***************************************************************************)
(* The server: the list of protocol executors that Server keeps, the       *)
(* ProtocolExecutorV1 of each connection and the callback registry of the  *)
(* storage they share.                                                     *)
(*                                                                         *)
(* The server runs one thread, the Qt event loop.  A handler that starts   *)
(* while pc = "idle" is one trip through ProtocolExecutorV1::              *)
(* onNewDataReceived; its steps are interleaved with the network and with  *)
(* the clients, never with another handler:                                *)
(*   "dispatch"  packets of the batch are left in `stream'                 *)
(*   "notify"    saveEvent is running the callbacks still in `pending'     *)
(*   "respond"   the events in `reply' have not been sent yet              *)
(*   "receive"   the batch is done with, receive() is called once more     *)
(***************************************************************************)
EXTENDS Transport, SqliteStorage

CONSTANTS
    Texts,       \* lengths of the texts a client may send
    Ranges,      \* <<first, last>> pairs a client may ask for
    MaxRequests, \* bound on the packets one client sends
    NoConnection \* the server serves nobody

ASSUME ServerAssumption ==
    /\ Texts \subseteq 0..MaxSendEventText
    /\ Ranges \subseteq (0..LAST_EVENT_NUMBER) \X (0..LAST_EVENT_NUMBER)
    /\ MaxRequests \in Nat
    /\ NoConnection \notin Connection

VARIABLES
    table,        \* the events table, the only state that survives a crash
    callbacks,    \* keys of SqliteStorage::m_callbacks
    executors,    \* Server::m_protocolsExecutors
    handshakeId,  \* the static counter of HandshakeV1
    pc, serving, stream, pending, reply,
    strandedAtServer, \* how many packets of toServer are in the QTcpSocket
                      \* already, with no readyRead to come for them
    notified      \* history: the events each client was told of; those saved
                  \* before its handshake count as told

handlerVars == <<pc, serving, stream, pending, reply>>
serverVars == <<table, callbacks, executors, handshakeId, handlerVars, notified,
                strandedAtServer>>
vars == <<transportVars, serverVars>>

------------------------------------------------------------------------------

ServerInit ==
    /\ table = <<>>
    /\ callbacks = {}
    /\ executors = {}
    /\ handshakeId = 0
    /\ pc = "idle"
    /\ serving = NoConnection
    /\ stream = <<>>
    /\ pending = {}
    /\ reply = <<>>
    /\ notified = [c \in Connection |-> 0]
    /\ strandedAtServer = [c \in Connection |-> 0]

TransportInit ==
    /\ linkUp = [c \in Connection |-> FALSE]
    /\ serverValid = [c \in Connection |-> FALSE]
    /\ clientValid = [c \in Connection |-> FALSE]
    /\ toServer = [c \in Connection |-> <<>>]
    /\ toClient = [c \in Connection |-> <<>>]
    /\ handshake = [c \in Connection |-> NoHandshake]
    /\ packetCounter = [c \in Connection |-> 0]

\* Mutants: the counter runs down; it is a member of the object.
NextHandshakeIdDown == handshakeId - 1
NextHandshakeIdLocal == 1

\* ++ on a variable static to the constructor, not to the object.
NextHandshakeId == handshakeId + 1

\* Server::handshakeOnConnections for one connection: HandshakeV1 draws the
\* next identifier, the executor registers itself with the storage.  The
\* connection is opened by the same step.
Handshake(c) ==
    /\ pc = "idle"
    /\ handshake[c] = NoHandshake
    /\ handshakeId' = NextHandshakeId
    /\ handshake' = [handshake EXCEPT ![c] = handshakeId']
    /\ linkUp' = [linkUp EXCEPT ![c] = TRUE]
    /\ serverValid' = [serverValid EXCEPT ![c] = TRUE]
    /\ clientValid' = [clientValid EXCEPT ![c] = TRUE]
    /\ executors' = executors \cup {c}
    /\ callbacks' = callbacks \cup {c}
    /\ notified' = [notified EXCEPT ![c] = Len(table)]
    /\ UNCHANGED <<toServer, toClient, packetCounter, table, handlerVars,
                   strandedAtServer>>

\* Mutant: an executor is kept while its connection has unread bytes.
ExpiredAndRead == {c \in executors : ~serverValid[c] /\ toServer[c] = <<>>}

Expired == {c \in executors : ~serverValid[c]}

\* Mutant: the destructor forgets the storage.
StillRegistered(expired) == callbacks

\* The destructor takes the executor's callback out of the storage.
Unregistered(expired) == callbacks \ expired

\* Server::checkProtocolsExecutors.  Dropping the last reference runs the
\* executor's destructor.
CheckProtocolsExecutors ==
    /\ pc = "idle"
    /\ Expired # {}
    /\ executors' = executors \ Expired
    /\ callbacks' = Unregistered(Expired)
    /\ UNCHANGED <<transportVars, table, handshakeId, handlerVars, notified,
                   strandedAtServer>>
------------------------------------------------------------------------------
(* onNewDataReceived                                                       *)

\* A trip through its while loop: a receive() and the batch it returns.
OnNewDataReceived(c) ==
    /\ pc = "idle"
    /\ c \in executors
    /\ serverValid[c]
    /\ Len(toServer[c]) > strandedAtServer[c]
    /\ \E received \in Announced(toServer[c], strandedAtServer[c]) :
         /\ toServer' = [toServer EXCEPT ![c] = received.rest]
         /\ \E packets \in Decoded(received.batch) :
              /\ stream' = packets
              /\ pc' = IF packets = <<>> THEN "receive" ELSE "dispatch"
    /\ serving' = c
    /\ strandedAtServer' = [strandedAtServer EXCEPT ![c] = 0]
    /\ UNCHANGED <<linkUp, serverValid, clientValid, toClient, handshake,
                   packetCounter, table, callbacks, executors, handshakeId,
                   pending, reply, notified>>

\* Mutant: the packet is not taken out of the stream.
SamePacket ==
    /\ stream' = stream
    /\ pc' = "dispatch"
    /\ serving' = serving
    /\ pending' = {}
    /\ reply' = <<>>

\* The for loop goes on to the next packet, or the while loop goes on.
NextPacket ==
    /\ stream' = Tail(stream)
    /\ pc' = IF Tail(stream) = <<>> THEN "receive" ELSE "dispatch"
    /\ serving' = serving
    /\ pending' = {}
    /\ reply' = <<>>

\* The second trip finds no bytes, and the handler returns: it runs in the slot
\* of readyRead, so waitForReadyRead(0) takes what has arrived into the socket,
\* and nothing takes it out.  If a part of the unread bytes arrives later, its
\* own readyRead announces all of them, as if nothing had been taken in.
ReceiveAgain ==
    /\ pc = "receive"
    /\ pc' = "idle"
    /\ serving' = NoConnection
    /\ \E k \in {0, Len(toServer[serving])} :
         strandedAtServer' = [strandedAtServer EXCEPT ![serving] = k]
    /\ UNCHANGED <<transportVars, table, callbacks, executors, handshakeId,
                   stream, pending, reply, notified>>

\* Every onPacket returns at once when the connection is lost or the packet
\* carries the identifier of another handshake.
Accepts(packet) ==
    /\ serverValid[serving]
    /\ packet.hs = handshake[serving]

Dispatching(type) ==
    /\ pc = "dispatch"
    /\ Head(stream).type = type
    /\ Accepts(Head(stream))

IgnorePacket ==
    /\ pc = "dispatch"
    /\ ~Accepts(Head(stream))
    /\ NextPacket
    /\ UNCHANGED <<transportVars, table, callbacks, executors, handshakeId,
                   notified, strandedAtServer>>

\* Mutant: the result of saveEvent is ignored.
FailureIgnored ==
    /\ "storage" \in Faults
    /\ pc' = "notify"
    /\ pending' = {}
    /\ UNCHANGED <<stream, serving, reply>>

\* The storage answers every query unless its database fails.
StorageFails == "storage" \in Faults /\ NextPacket
------------------------------------------------------------------------------
(* onPacket(SendEvent)                                                     *)

EventOf(packet) ==
    [from |-> serving, pn |-> packet.pn, size |-> packet.size]

\* Mutant: the client that sent the event is not told of it.
CallbacksOfOthers == callbacks \ {serving}

\* saveEvent calls every registered callback, the sender's own included.
CallbacksToRun == callbacks

OnSendEvent ==
    /\ Dispatching("SendEvent")
    /\ \/ /\ table' = Insert(table, EventOf(Head(stream)))
          /\ pending' = CallbacksToRun
          /\ pc' = "notify"
          /\ UNCHANGED <<stream, serving, reply>>
       \/ StorageFails /\ UNCHANGED table
    /\ UNCHANGED <<transportVars, callbacks, executors, handshakeId, notified,
                   strandedAtServer>>

Send(c, packet) ==
    toClient' = Sent(toClient, serverValid, c, packet)

\* Mutant: the AUTOINCREMENT value of the next row.
NextRowId == Len(table) + 1

\* The count onNewEventSaved puts into a notification.
NotifiedNumber == GetNumberOfEvents(table)

\* onNewEventSaved of the executor of connection c, called by saveEvent.
\* The registry is an unordered_map: any order of the callbacks.
OnNewEventSaved(c) ==
    /\ pc = "notify"
    /\ c \in pending
    /\ pending' = pending \ {c}
    /\ \/ /\ Send(c, NewEventsNotification(handshake[c], NotifiedNumber))
          /\ notified' = IF serverValid[c]
                         THEN [notified EXCEPT ![c] = NotifiedNumber]
                         ELSE notified
       \/ "storage" \in Faults /\ UNCHANGED <<toClient, notified>>
    /\ UNCHANGED <<linkUp, serverValid, clientValid, toServer, handshake,
                   packetCounter, table, callbacks, executors, handshakeId,
                   pc, serving, stream, reply, strandedAtServer>>

\* The end of onPacket(SendEvent), after saveEvent has returned.
SendAck ==
    /\ pc = "notify"
    /\ pending = {}
    /\ Send(serving, Ack(Head(stream).pn, Head(stream).hs))
    /\ NextPacket
    /\ UNCHANGED <<linkUp, serverValid, clientValid, toServer, handshake,
                   packetCounter, table, callbacks, executors, handshakeId,
                   notified, strandedAtServer>>
------------------------------------------------------------------------------
(* onPacket(SavedEventsRequest), onPacket(NumberOfSavedEventsRequest)      *)

RequestedEvents(packet) == GetSavedEvents(table, packet.first, packet.last)

OnSavedEventsRequest ==
    /\ Dispatching("SavedEventsRequest")
    /\ \/ /\ RequestedEvents(Head(stream)) # <<>>
          /\ reply' = RequestedEvents(Head(stream))
          /\ pc' = "respond"
          /\ UNCHANGED <<stream, serving, pending>>
       \/ RequestedEvents(Head(stream)) = <<>> /\ NextPacket
       \/ StorageFails
    /\ UNCHANGED <<transportVars, table, callbacks, executors, handshakeId,
                   notified, strandedAtServer>>

\* Mutants: the counter of the loop starts at 2; it starts at 0.
IsLastEarly(rest) == Len(rest) <= 2
IsLastNever(rest) == Len(rest) = 0

\* isLastEvent of the response that carries the first event of the rest.
IsLast(rest) == Len(rest) = 1

\* createSavedEventsResponse returns nullopt for a packet over 65535 bytes.
Fits(event) == event.size <= MaxResponseText

SendSavedEvent ==
    /\ pc = "respond"
    /\ Fits(Head(reply))
    /\ serverValid[serving]
    /\ Send(serving, SavedEventsResponse(Head(stream).pn, Head(stream).hs,
                                         IsLast(reply), Head(reply)))
    /\ IF Tail(reply) = <<>>
       THEN NextPacket
       ELSE reply' = Tail(reply) /\ UNCHANGED <<pc, serving, stream, pending>>
    /\ UNCHANGED <<linkUp, serverValid, clientValid, toServer, handshake,
                   packetCounter, table, callbacks, executors, handshakeId,
                   notified, strandedAtServer>>

\* The two early returns of the loop over the events.
AbandonReply ==
    /\ pc = "respond"
    /\ ~Fits(Head(reply)) \/ ~serverValid[serving]
    /\ NextPacket
    /\ UNCHANGED <<transportVars, table, callbacks, executors, handshakeId,
                   notified, strandedAtServer>>

OnNumberOfSavedEventsRequest ==
    /\ Dispatching("NumberOfSavedEventsRequest")
    /\ \/ Send(serving, NumberOfSavedEventsResponse(
                  Head(stream).pn, Head(stream).hs, GetNumberOfEvents(table)))
       \/ "storage" \in Faults /\ UNCHANGED toClient
    /\ NextPacket
    /\ UNCHANGED <<linkUp, serverValid, clientValid, toServer, handshake,
                   packetCounter, table, callbacks, executors, handshakeId,
                   notified, strandedAtServer>>
------------------------------------------------------------------------------
(* The network, the server process, the clients                            *)

LinkBreaks(c) ==
    /\ "break" \in Faults
    /\ linkUp[c]
    /\ linkUp' = [linkUp EXCEPT ![c] = FALSE]
    /\ UNCHANGED <<serverValid, clientValid, toServer, toClient, handshake,
                   packetCounter, serverVars>>

\* The server's socket leaves ConnectedState, in the event loop or inside
\* receive() or send().
ServerNotices(c) ==
    /\ ~linkUp[c]
    /\ serverValid[c]
    /\ serverValid' = [serverValid EXCEPT ![c] = FALSE]
    /\ UNCHANGED <<linkUp, clientValid, toServer, toClient, handshake,
                   packetCounter, serverVars>>

\* Mutant: the storage is opened with the constructor for ":memory:".
EmptyTable == <<>>

\* The rows are in a file, "/tmp/challenge.db".
TableAfterRestart == table

\* The process dies between two steps and systemd starts it again
\* (Restart=on-failure): only the database file is left.
Crash ==
    /\ "crash" \in Faults
    /\ handshakeId > 0
    /\ linkUp' = [c \in Connection |-> FALSE]
    /\ serverValid' = [c \in Connection |-> FALSE]
    /\ toServer' = [c \in Connection |-> <<>>]
    /\ callbacks' = {}
    /\ executors' = {}
    /\ handshakeId' = 0
    /\ pc' = "idle"
    /\ serving' = NoConnection
    /\ stream' = <<>>
    /\ pending' = {}
    /\ reply' = <<>>
    /\ table' = TableAfterRestart
    /\ strandedAtServer' = [c \in Connection |-> 0]
    /\ UNCHANGED <<clientValid, toClient, handshake, packetCounter, notified>>

Requests(pn, hs) ==
    {SendEvent(pn, hs, size) : size \in Texts}
    \cup {SavedEventsRequest(pn, hs, r[1], r[2]) : r \in Ranges}
    \cup {NumberOfSavedEventsRequest(pn, hs)}

\* Packets that carry the identifier of another handshake.
Strays(pn, hs) == {SendEvent(pn, hs + 1, size) : size \in Texts}

\* An arbitrary client with fresh packet numbers.
ClientSends(c) ==
    /\ clientValid[c]
    /\ packetCounter[c] < MaxRequests
    /\ packetCounter' = [packetCounter EXCEPT ![c] = @ + 1]
    /\ \E packet \in Requests(packetCounter'[c], handshake[c])
                     \cup Strays(packetCounter'[c], handshake[c]) :
         toServer' = Sent(toServer, clientValid, c, packet)
    /\ UNCHANGED <<linkUp, serverValid, clientValid, toClient, handshake,
                   serverVars>>

\* A batch of several packets is several of these steps.
ClientReads(c) ==
    /\ toClient[c] # <<>>
    /\ toClient' = [toClient EXCEPT ![c] = Tail(@)]
    /\ UNCHANGED <<linkUp, serverValid, clientValid, toServer, handshake,
                   packetCounter, serverVars>>

ServerStep ==
    \/ ReceiveAgain
    \/ IgnorePacket
    \/ OnSendEvent
    \/ \E c \in Connection : OnNewEventSaved(c)
    \/ SendAck
    \/ OnSavedEventsRequest
    \/ SendSavedEvent
    \/ AbandonReply
    \/ OnNumberOfSavedEventsRequest

Network ==
    \/ Crash
    \/ \E c \in Connection : LinkBreaks(c) \/ ServerNotices(c)

Server ==
    \/ ServerStep
    \/ CheckProtocolsExecutors
    \/ \E c \in Connection : Handshake(c) \/ OnNewDataReceived(c)

Client == \E c \in Connection : ClientSends(c) \/ ClientReads(c)

ServerNext == Server \/ Network \/ Client

Init == TransportInit /\ ServerInit

ServerSpec == Init /\ [][ServerNext]_vars
------------------------------------------------------------------------------
(* Properties                                                              *)

\* The types of the server's state and of the packets in the channels.
ServerTypeOK ==
    /\ linkUp \in [Connection -> BOOLEAN]
    /\ serverValid \in [Connection -> BOOLEAN]
    /\ clientValid \in [Connection -> BOOLEAN]
    /\ toServer \in [Connection -> Seq(ClientPacket \cup {TAIL})]
    /\ toClient \in [Connection -> Seq(ServerPacket)]
    /\ handshake \in [Connection -> Nat]
    /\ packetCounter \in [Connection -> Nat]
    /\ table \in Seq(Event)
    /\ callbacks \subseteq Connection
    /\ executors \subseteq Connection
    /\ handshakeId \in Nat
    /\ pc \in {"idle", "dispatch", "notify", "respond", "receive"}
    /\ serving \in Connection \cup {NoConnection}
    /\ stream \in Seq(ClientPacket)
    /\ pending \subseteq Connection
    /\ reply \in Seq(Event)
    /\ notified \in [Connection -> Nat]
    /\ strandedAtServer \in [Connection -> Nat]

\* The storage never keeps the callback of a destroyed executor, which
\* saveEvent would call through a dangling pointer, and never misses one.
RegistryMatchesExecutors == callbacks = executors

\* An acknowledgement under way names an event that is in the table: no
\* crash, lost connection or failed insert leaves a client with a promise
\* the database does not keep.
AckOnlyForSavedEvent ==
    \A c \in Connection : \A i \in 1..Len(toClient[c]) :
        toClient[c][i].type = "Ack" =>
            \E k \in 1..Len(table) :
                table[k].from = c /\ table[k].pn = toClient[c][i].pn

\* One SendEvent packet makes at most one row, whatever way the network cuts
\* the bytes it arrives in.
SavedAtMostOnce ==
    \A j, k \in 1..Len(table) :
        (table[j].from = table[k].from /\ table[j].pn = table[k].pn) => j = k

\* No executor that could still send is left out when an event is saved: but
\* for the callbacks that are yet to run, every client has been sent the
\* number of the events in the table (REQ_0013).
NotificationsComplete ==
    \A c \in executors :
        (serverValid[c] /\ c \notin pending) => notified[c] = Len(table)

NumberIn(packet) ==
    packet.type \in {"NumberOfSavedEventsResponse", "NewEventsNotification"}

\* The numbers a client reads never go back and never exceed the table: a
\* later packet is never older news than an earlier one.
NumbersInOrder ==
    \A c \in Connection : \A i \in 1..Len(toClient[c]) :
        NumberIn(toClient[c][i]) =>
            /\ toClient[c][i].number <= Len(table)
            /\ \A j \in 1..(i - 1) : NumberIn(toClient[c][j]) =>
                   toClient[c][j].number <= toClient[c][i].number

\* Two live executors never share an identifier, so a packet is never taken
\* for one of another client's handshake.
HandshakeIdsDistinct ==
    \A c, d \in executors : handshake[c] = handshake[d] => c = d
==============================================================================
