--------------------------- MODULE ClientProtocol ---------------------------
(***************************************************************************)
(* The client: ApplicationProtocolV1 (the protocol executor), its          *)
(* ServerMessagesContainer, and TableEventsModel, the Qt model that caches *)
(* what the executor returns.                                              *)
(*                                                                         *)
(* The client runs one thread and every call blocks it, but calls nest: a  *)
(* waiting call polls the socket, a notification found there resets the    *)
(* model, the view asks the model for its row count again, and that is a   *)
(* new blocking call inside the first one.  `stack' is the C++ stack,      *)
(* innermost frame first:                                                  *)
(*   call   sendEvent, getSavedEvents or getNumberOfSavedEvents            *)
(*   drain  tryToGetServerMessages, with the packets of its batch that are *)
(*          left; slot: it runs inside the slot of readyRead               *)
(***************************************************************************)
EXTENDS Transport

CONSTANTS
    UserCalls,  \* <<connection, request>>: what each client's user may do
    Views,      \* clients with a TableEventsModel on top of the executor
    MaxCalls,   \* bound on the packet number each user's calls start from
    NoValue     \* an empty std::optional

ASSUME ClientAssumption ==
    /\ Views \subseteq Connection
    /\ MaxCalls \in [Connection -> Nat]
    /\ NoValue \notin Nat

VARIABLES
    serverMessages,  \* ServerMessagesContainer: the messages by packet number
    stack,
    callbackOn,      \* connectEventsCallback() has run last
    cachedRowCount,  \* TableEventsModel::m_cachedRowCount
    cache,           \* TableEventsModel::m_cache, the event of each cached row
    strandedAtClient \* how many packets of toClient are in the QTcpSocket
                     \* already, with no readyRead to come for them

clientVars == <<serverMessages, stack, callbackOn, cachedRowCount, cache,
                strandedAtClient>>
------------------------------------------------------------------------------
(* A request names the call it makes; "row" is getSavedEvents(row, row) as *)
(* data() calls it.                                                        *)

Request ==
    [op: {"send"}, size: Nat]
    \cup [op: {"number"}]
    \cup [op: {"range", "row"}, first: Nat, last: Nat]

SendRequest(size) == [op |-> "send", size |-> size]
NumberRequest == [op |-> "number"]
RangeRequest(first, last) == [op |-> "range", first |-> first, last |-> last]
RowRequest(row) == [op |-> "row", first |-> row, last |-> row]

\* What a call returns: std::nullopt or false, true, a number, events.
NoAnswer == [ok |-> FALSE]
Confirmed == [ok |-> TRUE]
NumberAnswer(n) == [ok |-> TRUE, number |-> n]
EventsAnswer(events) == [ok |-> TRUE, events |-> events]

\* at: "wait" in the polling loop, "leave" when the answer is decided,
\* "return" when the scoped actions have run.
CallFrame(request, pn, at, answer) ==
    [kind |-> "call", request |-> request, pn |-> pn, at |-> at,
     events |-> <<>>, answer |-> answer]
DrainFrame(packets, slot) ==
    [kind |-> "drain", packets |-> packets, slot |-> slot]

Top(c) == Head(stack[c])
Below(c) == Tail(stack[c])
Calling(c, at) == stack[c] # <<>> /\ Top(c).kind = "call" /\ Top(c).at = at
Draining(c) == stack[c] # <<>> /\ Top(c).kind = "drain"
Processing(c) == Draining(c) /\ Top(c).packets # <<>>

\* readyRead is not emitted while its slot runs, so nothing a nested call
\* waits for ever reaches m_rawDataFromSocket.
InSlot(c) ==
    \E i \in 1..Len(stack[c]) :
        stack[c][i].kind = "drain" /\ stack[c][i].slot

Expecting(c) == DOMAIN serverMessages[c]
------------------------------------------------------------------------------

ClientInit ==
    /\ serverMessages = [c \in Connection |-> <<>>]
    /\ stack = [c \in Connection |-> <<>>]
    /\ callbackOn = [c \in Connection |-> TRUE]
    /\ cachedRowCount = [c \in Connection |-> NoValue]
    /\ cache = [c \in Connection |-> <<>>]
    /\ strandedAtClient = [c \in Connection |-> 0]

\* createSendEvent returns nullopt for a packet over 65535 bytes.
Encodable(request) ==
    request.op = "send" => request.size <= MaxSendEventText

Packet(request, pn, hs) ==
    CASE request.op = "send"   -> SendEvent(pn, hs, request.size)
      [] request.op = "number" -> NumberOfSavedEventsRequest(pn, hs)
      [] OTHER -> SavedEventsRequest(pn, hs, request.first, request.last)

\* Mutants: the mailbox is made for the next number; a mailbox is never
\* erased; erasing one erases all.
ExpectNext(messages, pn) ==
    [n \in DOMAIN messages \cup {pn + 1} |->
        IF n = pn + 1 THEN <<>> ELSE messages[n]]
KeepExpecting(messages, pn) == messages
ForgetAll(messages, pn) == <<>>

\* expectResponseForClientMessage, stopExpectingResponseForClientMessage
Expect(messages, pn) ==
    [n \in DOMAIN messages \cup {pn} |-> IF n = pn THEN <<>> ELSE messages[n]]
StopExpecting(messages, pn) ==
    [n \in DOMAIN messages \ {pn} |-> messages[n]]

\* The three calls up to their polling loop, on top of the frames `below'.
Call(c, request, below) ==
    LET pn == packetCounter[c] + 1
        Push(frame) == stack' = [stack EXCEPT ![c] = <<frame>> \o below]
    IN
    /\ callbackOn' = [callbackOn EXCEPT ![c] = FALSE]
    /\ \/ /\ ~clientValid[c]
          /\ Push(CallFrame(request, 0, "leave", NoAnswer))
          /\ UNCHANGED <<packetCounter, serverMessages, toServer>>
       \/ /\ clientValid[c]
          /\ packetCounter' = [packetCounter EXCEPT ![c] = pn]
          /\ \/ /\ ~Encodable(request)
                /\ Push(CallFrame(request, pn, "leave", NoAnswer))
                /\ UNCHANGED <<serverMessages, toServer>>
             \/ /\ Encodable(request)
                /\ serverMessages' =
                       [serverMessages EXCEPT ![c] = Expect(@, pn)]
                /\ toServer' = Sent(toServer, clientValid, c,
                                    Packet(request, pn, handshake[c]))
                /\ Push(CallFrame(request, pn, "wait", NoAnswer))

\* rowCount() and data() ask the executor only for what is not cached.
Cached(c, request) ==
    \/ request.op = "number" /\ cachedRowCount[c] # NoValue
    \/ request.op = "row" /\ request.first \in DOMAIN cache[c]

\* The user, or the view that paints itself, from the event loop.
UserCall(c) ==
    /\ stack[c] = <<>>
    /\ handshake[c] # NoHandshake
    /\ packetCounter[c] < MaxCalls[c]
    /\ \E request \in {call[2] : call \in {u \in UserCalls : u[1] = c}} :
         /\ ~Cached(c, request)
         /\ Call(c, request, <<>>)
    /\ UNCHANGED <<linkUp, serverValid, clientValid, toClient, handshake,
                   cachedRowCount, cache, strandedAtClient>>
------------------------------------------------------------------------------
(* tryToGetServerMessages                                                  *)

\* The frame of a loop over `packets', none if there is nothing to loop over.
Batch(packets, slot) ==
    IF packets = <<>> THEN <<>> ELSE <<DrainFrame(packets, slot)>>

\* waitForReadyRead(0) of a receive() inside the slot of readyRead: the bytes
\* that have arrived go into the socket and stay there.
TakenIn(c, unread) ==
    \E k \in {0, Len(unread)} :
        strandedAtClient' = [strandedAtClient EXCEPT ![c] = k]

\* One receive().  If the callback is connected, the readyRead that receive()
\* provokes runs the slot, and the slot takes the bytes: onDataArrived moves
\* them out of the socket, and then the slot's own receive() returns them.
Drain(c, slot, below) ==
    /\ clientValid[c]
    /\ Len(toClient[c]) > strandedAtClient[c]
    /\ ~InSlot(c)
    /\ \E received \in Announced(toClient[c], strandedAtClient[c]) :
         /\ toClient' = [toClient EXCEPT ![c] = received.rest]
         /\ TakenIn(c, IF slot THEN received.rest ELSE <<>>)
         /\ \E packets \in Decoded(received.batch) :
              stack' = [stack EXCEPT ![c] = Batch(packets, slot) \o below]

\* readyRead in the event loop: onDataArrived, onSpontaneusEventArrived.
OnDataArrived(c) ==
    /\ stack[c] = <<>>
    /\ callbackOn[c]
    /\ Drain(c, TRUE, <<>>)
    /\ UNCHANGED <<linkUp, serverValid, clientValid, toServer, handshake,
                   packetCounter, serverMessages, callbackOn, cachedRowCount,
                   cache>>

IsResponse(packet) ==
    packet.type \in {"Ack", "SavedEventsResponse", "NumberOfSavedEventsResponse"}

\* The guard of ServerMessagesContainer::saveMessage.
Expected(c, packet) ==
    IsResponse(packet) /\ packet.hs = handshake[c] /\ packet.pn \in Expecting(c)

\* The guards of fireNewEventCallback; without a model nothing is registered.
Announces(c, packet) ==
    /\ packet.type = "NewEventsNotification"
    /\ packet.hs = handshake[c]
    /\ c \in Views

\* The stack once the first packet of the innermost batch is dealt with.
AfterPacket(c) == Batch(Tail(Top(c).packets), Top(c).slot) \o Below(c)

\* push_back copies the DecodedPacket, but the copy points into the bytes of
\* the original, which die with it.  They are still there when the response
\* is read, unless a later one has been decoded into the same memory.
Reused(mailbox, packet) ==
    IF "reuse" \in Faults
    THEN {[i \in DOMAIN mailbox |-> IF i \in S THEN packet ELSE mailbox[i]] :
             S \in SUBSET DOMAIN mailbox}
    ELSE {mailbox}

SaveMessage(c) ==
    LET packet == Head(Top(c).packets) IN
    /\ Processing(c)
    /\ Expected(c, packet)
    /\ \E kept \in Reused(serverMessages[c][packet.pn], packet) :
         serverMessages' =
             [serverMessages EXCEPT ![c][packet.pn] = Append(kept, packet)]
    /\ stack' = [stack EXCEPT ![c] = AfterPacket(c)]
    /\ UNCHANGED <<transportVars, callbackOn, cachedRowCount, cache,
                   strandedAtClient>>

\* Mutant: the cached row count is not reset.
CountKept(count) == count

\* What TableEventsModel::onNewEventAdded leaves in m_cachedRowCount.
AfterNewEvent(count) == NoValue

\* fireNewEventCallback, onNewEventAdded: endResetModel makes the headers of
\* the view call rowCount() before it returns.
FireNewEventCallback(c) ==
    LET packet == Head(Top(c).packets) IN
    /\ Processing(c)
    /\ Announces(c, packet)
    /\ cachedRowCount' =
           [cachedRowCount EXCEPT ![c] = AfterNewEvent(@)]
    /\ Call(c, NumberRequest, <<[Top(c) EXCEPT !.packets = Tail(@)]>> \o Below(c))
    /\ UNCHANGED <<linkUp, serverValid, clientValid, toClient, handshake, cache,
                   strandedAtClient>>

\* A late response, a packet of another handshake.
DropMessage(c) ==
    LET packet == Head(Top(c).packets) IN
    /\ Processing(c)
    /\ ~Expected(c, packet) /\ ~Announces(c, packet)
    /\ stack' = [stack EXCEPT ![c] = AfterPacket(c)]
    /\ UNCHANGED <<transportVars, serverMessages, callbackOn, cachedRowCount,
                   cache, strandedAtClient>>

\* The nested call of the last packet has returned.
EndDrain(c) ==
    /\ Draining(c) /\ Top(c).packets = <<>>
    /\ stack' = [stack EXCEPT ![c] = Below(c)]
    /\ UNCHANGED <<transportVars, serverMessages, callbackOn, cachedRowCount,
                   cache, strandedAtClient>>
------------------------------------------------------------------------------
(* The polling loop.  moveReceivedMessages follows every poll at once, so  *)
(* the loop polls, and its counter runs out, only with an empty mailbox.   *)

Mailbox(c) == serverMessages[c][Top(c).pn]
Waiting(c) == Calling(c, "wait") /\ Top(c).pn \in Expecting(c)

Poll(c) ==
    /\ Waiting(c)
    /\ Mailbox(c) = <<>>
    /\ Drain(c, callbackOn[c], stack[c])
    /\ UNCHANGED <<linkUp, serverValid, clientValid, toServer, handshake,
                   packetCounter, serverMessages, callbackOn, cachedRowCount,
                   cache>>

\* The loop over the responses stops at the one that is marked last.
UpToLast(responses) ==
    LET n == CHOOSE i \in 1..Len(responses) :
                 /\ i = Len(responses) \/ responses[i].isLast
                 /\ \A j \in 1..(i - 1) : ~responses[j].isLast
    IN SubSeq(responses, 1, n)

Events(responses) == [i \in 1..Len(responses) |-> responses[i].event]
Complete(responses) == responses[Len(responses)].isLast

Decide(c, answer) ==
    stack' = [stack EXCEPT ![c] =
                 <<[Top(c) EXCEPT !.at = "leave", !.answer = answer]>> \o Below(c)]

\* moveReceivedMessages and the loop over what it returned.
TakeResponses(c) ==
    LET responses == Mailbox(c)
        op == Top(c).request.op
    IN
    /\ Waiting(c)
    /\ responses # <<>>
    /\ serverMessages' = [serverMessages EXCEPT ![c][Top(c).pn] = <<>>]
    /\ \/ /\ op = "send"
          /\ Decide(c, Confirmed)
       \/ /\ op = "number"
          /\ Decide(c, NumberAnswer(Head(responses).number))
       \/ LET taken == UpToLast(responses)
              events == Top(c).events \o Events(taken)
          IN
          /\ op \in {"range", "row"}
          /\ IF Complete(taken)
             THEN Decide(c, EventsAnswer(events))
             ELSE stack' = [stack EXCEPT ![c] =
                               <<[Top(c) EXCEPT !.events = events]>> \o Below(c)]
    /\ UNCHANGED <<transportVars, callbackOn, cachedRowCount, cache,
                   strandedAtClient>>

\* The loop counter runs out.
Timeout(c) ==
    /\ Waiting(c)
    /\ Mailbox(c) = <<>>
    /\ Decide(c, NoAnswer)
    /\ UNCHANGED <<transportVars, serverMessages, callbackOn, cachedRowCount,
                   cache, strandedAtClient>>

\* The scoped actions: stopExpectingResponseForClientMessage, then
\* connectEventsCallback and a last tryToGetServerMessages.
Leave(c) ==
    LET frame == [Top(c) EXCEPT !.at = "return"] IN
    /\ Calling(c, "leave")
    /\ serverMessages' = [serverMessages EXCEPT ![c] = StopExpecting(@, frame.pn)]
    /\ callbackOn' = [callbackOn EXCEPT ![c] = TRUE]
    /\ \/ Drain(c, TRUE, <<frame>> \o Below(c))
       \/ /\ stack' = [stack EXCEPT ![c] = <<frame>> \o Below(c)]
          /\ \/ UNCHANGED strandedAtClient
             \/ InSlot(c) /\ clientValid[c] /\ TakenIn(c, toClient[c])
          /\ UNCHANGED toClient
    /\ UNCHANGED <<linkUp, serverValid, clientValid, toServer, handshake,
                   packetCounter, cachedRowCount, cache>>

\* rowCount() assigns m_cachedRowCount after the call has returned.
RowCountAfter(count, frame) ==
    IF frame.request.op = "number" /\ frame.answer.ok
    THEN frame.answer.number
    ELSE count

\* data() keeps the event of its row.
CacheAfter(rows, frame) ==
    IF frame.request.op = "row" /\ frame.answer.ok /\ frame.answer.events # <<>>
    THEN [row \in DOMAIN rows \cup {frame.request.first} |->
             IF row = frame.request.first THEN frame.answer.events[1]
                                          ELSE rows[row]]
    ELSE rows

Return(c) ==
    /\ Calling(c, "return")
    /\ stack' = [stack EXCEPT ![c] = Below(c)]
    /\ IF c \in Views
       THEN /\ cachedRowCount' =
                   [cachedRowCount EXCEPT ![c] = RowCountAfter(@, Top(c))]
            /\ cache' = [cache EXCEPT ![c] = CacheAfter(@, Top(c))]
       ELSE UNCHANGED <<cachedRowCount, cache>>
    /\ UNCHANGED <<transportVars, serverMessages, callbackOn, strandedAtClient>>

\* The client's socket leaves ConnectedState.
ClientNotices(c) ==
    /\ ~linkUp[c]
    /\ clientValid[c]
    /\ clientValid' = [clientValid EXCEPT ![c] = FALSE]
    /\ UNCHANGED <<linkUp, serverValid, toServer, toClient, handshake,
                   packetCounter, clientVars>>

\* The steps of the client's thread once a call or a slot has begun, but for
\* Timeout: when it may happen is up to the whole system.
ClientStep(c) ==
    \/ SaveMessage(c) \/ FireNewEventCallback(c) \/ DropMessage(c)
    \/ EndDrain(c) \/ Poll(c) \/ TakeResponses(c)
    \/ Leave(c) \/ Return(c)
------------------------------------------------------------------------------

\* The types of the client's state.
ClientTypeOK ==
    /\ \A c \in Connection :
         /\ Expecting(c) \subseteq 1..packetCounter[c]
         /\ \A n \in Expecting(c) : serverMessages[c][n] \in Seq(ServerPacket)
         /\ DOMAIN cache[c] \subseteq Nat
         /\ \A row \in DOMAIN cache[c] : cache[c][row] \in Event
         /\ \A i \in 1..Len(stack[c]) :
              \/ /\ stack[c][i].kind = "call"
                 /\ stack[c][i].request \in Request
                 /\ stack[c][i].pn \in 0..packetCounter[c]
                 /\ stack[c][i].at \in {"wait", "leave", "return"}
                 /\ stack[c][i].events \in Seq(Event)
              \/ /\ stack[c][i].kind = "drain"
                 /\ stack[c][i].packets \in Seq(ServerPacket)
                 /\ stack[c][i].slot \in BOOLEAN
    /\ callbackOn \in [Connection -> BOOLEAN]
    /\ cachedRowCount \in [Connection -> Nat \cup {NoValue}]
    /\ strandedAtClient \in [Connection -> Nat]
==============================================================================
