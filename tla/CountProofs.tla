---------------------------- MODULE CountProofs ----------------------------
(***************************************************************************)
(* A client whose sendEvent has returned true shows a row count that       *)
(* covers the event (ReadYourWrites), for every number of clients, calls   *)
(* and events, whatever is late, breaks or crashes, as long as no packet   *)
(* is cut by a batch and the database answers.                             *)
(*                                                                         *)
(* Two orders carry the proof.  The server answers the packets of a client *)
(* in the order they were sent, so a number of events that a call returns  *)
(* covers every event its client has sent before.  And saveEvent runs the  *)
(* callbacks before it returns, so the notification of an event is in the  *)
(* channel before its acknowledgement.                                     *)
(***************************************************************************)
EXTENDS EventLogProofs

------------------------------------------------------------------------------
(* The invariant                                                           *)

IsNews(p) == p.type = "NewEventsNotification"

\* Nothing that c has sent up to packet number pn is left to be saved.
Settled(c, pn) ==
    /\ pn <= packetCounter[c]
    /\ \A e \in EventsInTransit : e.from = c => pn < e.pn

\* A count of n events covers what c had sent before packet number pn.
Covers(c, n, pn) ==
    \A k \in 1..Len(table) :
        (table[k].from = c /\ table[k].pn < pn) => k <= n

\* What may be under way to c, or in its memory.
Current(c) ==
    {p \in ServerPacket :
        /\ IsNews(p) => p.hs = handshake[c]
        /\ IsResponse(p) => Settled(c, p.pn)
        /\ p.type = "NumberOfSavedEventsResponse" => Covers(c, p.number, p.pn)}

\* Every event of c was sent before packet number pn.
Earlier(c, pn) ==
    /\ \A k \in 1..Len(table) : table[k].from = c => table[k].pn < pn
    /\ \A e \in EventsInTransit : e.from = c => e.pn < pn

\* A count of n events covers all that c has sent.
CoversAll(c, n) ==
    /\ \A k \in 1..Len(table) : table[k].from = c => k <= n
    /\ \A e \in EventsInTransit : e.from # c

\* A call for the number is younger than every event of its client, so what
\* it returns covers them all.
CountsRight(c) ==
    \A f \in CallsIn(stack[c]) : f.request.op = "number" =>
        /\ f.pn # 0 => Earlier(c, f.pn)
        /\ f.answer.ok => CoversAll(c, f.answer.number)

\* The packet numbers that c has a response to, but for its channel.
Mailed(c) == {n \in Expecting(c) : serverMessages[c][n] # <<>>}
Responded(P) == {p.pn : p \in {q \in P : IsResponse(q)}}
Heard(c) == (confirmed[c] \cup Mailed(c)) \cup Responded(Batched(stack[c]))

HasNews(s) == \E i \in 1..Len(s) : IsNews(s[i])

\* Row k of the table is one of c's that the table of c does not show, and no
\* notification that is about to be handled will change that.
Hidden(c, k) ==
    /\ table[k].from = c
    /\ cachedRowCount[c] # NoValue /\ ~(k <= cachedRowCount[c])
    /\ \A p \in Batched(stack[c]) : ~IsNews(p)

\* A response to packet number pn comes behind a notification.
AfterNews(s, pn) ==
    \A i \in 1..Len(s) : (IsResponse(s[i]) /\ s[i].pn = pn) =>
        \E j \in 1..(i - 1) : IsNews(s[j])

\* saveEvent has run the callback of the client it serves.
Told(c) ==
    /\ pc = "notify" /\ serving = c /\ c \notin pending
    /\ serverValid[c] /\ linkUp[c]

NewsFirst(c) ==
    \A k \in 1..Len(table) : Hidden(c, k) =>
        /\ table[k].pn \notin Heard(c)
        /\ AfterNews(toClient[c], table[k].pn)
        /\ Told(c) => HasNews(toClient[c])

\* Nothing moves before the handshake.
Closed(c) ==
    handshake[c] = NoHandshake => ~linkUp[c] /\ toClient[c] = <<>>

Counting(c) ==
    /\ Closed(c)
    /\ Inside(c) \subseteq Current(c)
    /\ CountsRight(c)
    /\ ConfirmedNow(c) \subseteq confirmed[c]
    /\ NewsFirst(c)
    /\ c \notin Views => cachedRowCount[c] = NoValue

ServedRegistered ==
    callbacks = executors /\ (pc # "idle" => serving \in executors)

CountInv ==
    /\ ServedRegistered
    /\ \A c \in Connection : Counting(c)

------------------------------------------------------------------------------
(* The events of a client, saved and not                                   *)

\* Whatever c has sent has a number that c has drawn.
LEMMA OwnNumbers ==
    ASSUME SystemInv
    PROVE  /\ \A e \in EventsInTransit :
                e.from \in Connection /\ e.pn \in 1..packetCounter[e.from]
           /\ \A c \in Connection : \A k \in 1..Len(table) :
                table[k].from = c => table[k].pn \in 1..packetCounter[c]
           /\ \A c \in Connection : packetCounter[c] \in Nat
<1>1. \A c \in Connection : Good(c) /\ packetCounter[c] \in Nat
  BY DEF SystemInv, CoreInv, LinksOK
<1>2. ASSUME NEW c \in Connection, NEW s, NEW e \in EventsIn(s, c),
             \A i \in 1..Len(s) : s[i] \in Asked(c) \cup {TAIL}
      PROVE  e.from = c /\ e.pn \in 1..packetCounter[c]
  <2>1. PICK i \in 1..Len(s) : /\ s[i].type = "SendEvent"
                               /\ e = [from |-> c, pn |-> s[i].pn, size |-> s[i].size]
    BY <1>2, EventsOfSeq
  <2>2. s[i] \in Asked(c)
    BY <1>2, <2>1 DEF TAIL
  <2>3. QED
    BY <2>1, <2>2 DEF Asked
<1>3. ASSUME NEW c \in Connection, NEW e \in EventsIn(toServer[c], c)
      PROVE  e.from = c /\ e.pn \in 1..packetCounter[c]
  <2>1. toServer[c] \in Seq(Asked(c) \cup {TAIL})
    BY <1>1 DEF Good, IsChannel
  <2>2. \A i \in 1..Len(toServer[c]) : toServer[c][i] \in Asked(c) \cup {TAIL}
    BY <2>1, ElementOfSeq
  <2>3. QED
    BY <1>2, <1>3, <2>2
<1>4. ASSUME NEW e \in EventsIn(Unsaved, serving)
      PROVE  e.from \in Connection /\ e.pn \in 1..packetCounter[e.from]
  <2>1. serving \in Connection
    BY <1>4, NobodyServed DEF SystemInv, CoreInv
  <2>2. stream \in Seq(Asked(serving))
    BY <1>1, <2>1 DEF Good
  <2>3. Unsaved \in Seq(Asked(serving))
    <3>1. pc = "notify" => stream # <<>>
      BY DEF SystemInv, CoreInv, HandlerOK
    <3>2. QED
      BY <2>2, <3>1, PopProperties DEF Unsaved
  <2>4. \A i \in 1..Len(Unsaved) : Unsaved[i] \in Asked(serving) \cup {TAIL}
    BY <2>3, ElementOfSeq
  <2>5. QED
    BY <1>2, <1>4, <2>1, <2>4
<1>5. ASSUME NEW c \in Connection, NEW k \in 1..Len(table), table[k].from = c
      PROVE  table[k].pn \in 1..packetCounter[c]
  <2>1. SendEvent(table[k].pn, NoHandshake, table[k].size) \in Asked(c)
    BY <1>1, <1>5 DEF Good, RowsAsked
  <2>2. QED
    BY <2>1 DEF Asked, SendEvent
<1>6. QED
  BY <1>1, <1>3, <1>4, <1>5 DEF EventsInTransit

\* A row is an old one or an event that was under way.
RowsFromEvents ==
    \A k \in 1..Len(table') :
        \/ k \in 1..Len(table) /\ table'[k] = table[k]
        \/ table'[k] \in EventsInTransit

\* A step of the server or the network adds no event and saves one at most.
LEMMA ServerEvents ==
    ASSUME CoreInv, Server \/ Network
    PROVE  EventsInTransit' \subseteq EventsInTransit /\ RowsFromEvents
<1>1. CASE pc = "notify"
  BY <1>1, NothingAddedInNotify DEF RowsFromEvents
<1>2. CASE pc # "notify" /\ pc' = "notify"
  <2>1. OnSendEvent
    BY <1>2 DEF Server, ServerStep, Network, IgnorePacket, OnNewEventSaved,
       ReceiveAgain, SendAck, OnSavedEventsRequest, SendSavedEvent,
       AbandonReply,
       OnNumberOfSavedEventsRequest, CheckProtocolsExecutors, Handshake,
       OnNewDataReceived, Crash, LinkBreaks, ServerNotices, StorageFails,
       NextPacket, serverVars, handlerVars
  <2>. DEFINE e == EventOf(Head(stream))
              sent == UNION {EventsIn(toServer[c], c) : c \in Connection}
  <2>2. /\ pc = "dispatch" /\ Head(stream).type = "SendEvent"
        /\ UNCHANGED <<toServer, stream, serving>>
        /\ stream \in Seq(ClientPacket) /\ stream # <<>>
    BY <1>2, <2>1 DEF OnSendEvent, Dispatching, transportVars, CoreInv, HandlerOK,
       StorageFails, NextPacket
  <2>3. EventsIn(stream, serving) = EventsIn(Tail(stream), serving) \cup {e}
    BY <2>2, EventsPopped DEF EventOf
  <2>4. EventsInTransit = sent \cup (EventsIn(Tail(stream), serving) \cup {e})
    BY <2>2, <2>3 DEF EventsInTransit, Unsaved
  <2>5. EventsInTransit' = sent \cup EventsIn(Tail(stream), serving)
    <3>1. Unsaved' = Tail(stream)
      BY <1>2, <2>2 DEF Unsaved
    <3>2. EventsIn(Unsaved, serving)' = EventsIn(Tail(stream), serving)
      BY <2>2, <3>1 DEF EventsIn
    <3>3. \A c \in Connection : EventsIn(toServer[c], c)' = EventsIn(toServer[c], c)
      BY <2>2 DEF EventsIn
    <3>4. QED
      BY <3>2, <3>3 DEF EventsInTransit
  <2>6. RowsFromEvents
    <3>1. \A k \in 1..Len(table') : \/ k \in 1..Len(table) /\ table'[k] = table[k]
                                    \/ table'[k] = e
      BY NewRows
    <3>2. e \in EventsInTransit
      BY <2>4
    <3>. HIDE DEF e
    <3>3. QED
      BY <3>1, <3>2 DEF RowsFromEvents
  <2>7. QED
    BY <2>4, <2>5, <2>6
<1>3. CASE pc # "notify" /\ pc' # "notify"
  <2>1. EventsInTransit' \subseteq EventsInTransit
    BY <1>3, NothingAdded
  <2>2. ASSUME NEW k \in 1..Len(table'),
               ~(k \in 1..Len(table) /\ table'[k] = table[k])
        PROVE  table'[k] \in EventsInTransit
    <3>1. /\ pc = "dispatch" /\ Head(stream).type = "SendEvent"
          /\ table'[k] = EventOf(Head(stream))
      BY <2>2, NewRows
    <3>2. stream \in Seq(ClientPacket) /\ stream # <<>>
      BY <3>1 DEF CoreInv, HandlerOK
    <3>3. EventOf(Head(stream)) \in EventsIn(stream, serving)
      BY <3>1, <3>2, EventsPopped DEF EventOf
    <3>4. QED
      BY <3>1, <3>3 DEF EventsInTransit, Unsaved
  <2>3. QED
    BY <2>1, <2>2 DEF RowsFromEvents
<1>4. QED
  BY <1>1, <1>2, <1>3

\* What the user of c starts from the event loop.
LEMMA UserCallSteps ==
    ASSUME SystemInv, NEW c \in Connection, UserCall(c)
    PROVE  /\ stack[c] = <<>>
           /\ \E f \in GoodCalls(c) :
                /\ stack'[c] = <<f>>
                /\ FailsOffline(c, f) \/ FailsTooLong(c, f) \/ GoesOut(c, f)
<1>1. PICK request \in {call[2] : call \in {u \in UserCalls : u[1] = c}} :
          Call(c, request, <<>>)
  BY DEF UserCall
<1>2. request \in GoodRequest /\ <<>> \in Seq(Frame(c))
  BY <1>1, UserCallsAssumption, EmptySeq DEF GoodRequest
<1>3. PICK f \in GoodCalls(c) :
          /\ stack'[c] = <<f>> \o <<>> /\ f.request = request
          /\ FailsOffline(c, f) \/ FailsTooLong(c, f) \/ GoesOut(c, f)
  BY <1>1, <1>2, CallSteps
<1>4. <<f>> \o <<>> = <<f>>
  BY <1>2, ConcatEmpty
<1>5. QED
  BY <1>3, <1>4 DEF UserCall

\* The packets that are left of the innermost batch, without the first.
Rest(c) == [Top(c) EXCEPT !.packets = Tail(@)]

\* A notification is taken out of its batch, and the view asks for the number.
LEMMA NotifiedSteps ==
    ASSUME SystemInv, NEW c \in Connection, FireNewEventCallback(c)
    PROVE  /\ stack[c] # <<>> /\ Processing(c) /\ IsNews(Head(Top(c).packets))
           /\ Rest(c) \in GoodDrains(c) /\ Rest(c).packets = Tail(Top(c).packets)
           /\ \E f \in GoodCalls(c) :
                /\ stack'[c] = <<f>> \o (<<Rest(c)>> \o Below(c))
                /\ f.request = NumberRequest
                /\ FailsOffline(c, f) \/ FailsTooLong(c, f) \/ GoesOut(c, f)
<1>1. /\ Call(c, NumberRequest, <<Rest(c)>> \o Below(c)) /\ Processing(c)
      /\ IsNews(Head(Top(c).packets))
  BY DEF FireNewEventCallback, Rest, Announces, IsNews
<1>2. stack[c] # <<>>
  BY <1>1 DEF Processing, Draining
<1>3. Rest(c) \in GoodDrains(c) /\ Rest(c).packets = Tail(Top(c).packets)
  <2>1. Tail(Top(c).packets) \in Seq(Replies(c)) /\ Top(c) \in GoodDrains(c)
    BY <1>1, PacketAndRest
  <2>2. QED
    BY <2>1 DEF GoodDrains, Rest
<1>4. <<Rest(c)>> \o Below(c) \in Seq(Frame(c))
  <2>1. Below(c) \in Seq(Frame(c)) /\ Rest(c) \in Frame(c)
    BY <1>2, <1>3, StackFacts DEF Frame
  <2>2. QED
    BY <2>1, PushProperties
<1>5. NumberRequest \in GoodRequest
  BY DEF NumberRequest, GoodRequest, Request
<1>6. QED
  BY <1>1, <1>2, <1>3, <1>4, <1>5, CallSteps

\* A client that is inside of a call sends no event; what it sends from its
\* event loop has the next number.
LEMMA ClientEvents ==
    ASSUME SystemInv, UNCHANGED serverVars, NEW c \in Connection, ClientThread(c)
    PROVE  /\ RowsFromEvents
           /\ \A e \in EventsInTransit' :
                \/ e \in EventsInTransit
                \/ /\ e.from = c /\ e.pn = packetCounter[c] + 1
                   /\ stack[c] = <<>>
                   /\ \E f \in GoodCalls(c) :
                        stack'[c] = <<f>> /\ f.request.op = "send"
<1>1. table' = table
  BY DEF serverVars
<1>2. RowsFromEvents
  BY <1>1 DEF RowsFromEvents
<1>3. CASE UserCall(c)
  <2>1. stack[c] = <<>>
    BY <1>3, UserCallSteps
  <2>2. PICK f \in GoodCalls(c) :
            /\ stack'[c] = <<f>>
            /\ FailsOffline(c, f) \/ FailsTooLong(c, f) \/ GoesOut(c, f)
    BY <1>3, UserCallSteps
  <2>7. CASE FailsOffline(c, f) \/ FailsTooLong(c, f)
    <3>1. EventsInTransit' = EventsInTransit
      BY <2>7, NothingSent DEF FailsOffline, FailsTooLong
    <3>2. QED
      BY <1>2, <3>1
  <2>8. CASE GoesOut(c, f)
    <3>1. \/ EventsInTransit' = EventsInTransit
          \/ /\ f.request.op = "send"
             /\ EventsInTransit' = EventsInTransit \cup
                    {[from |-> c, pn |-> f.pn, size |-> f.request.size]}
      BY <2>8, SentIsSubmitted
    <3>2. f.pn = packetCounter[c] + 1
      BY <2>8 DEF GoesOut
    <3>3. QED
      BY <1>2, <2>1, <2>2, <3>1, <3>2
  <2>9. QED
    BY <2>2, <2>7, <2>8
<1>4. CASE ~UserCall(c)
  <2>1. EventsInTransit' = EventsInTransit
    <3>1. CASE FireNewEventCallback(c)
      <4>1. PICK f \in GoodCalls(c) :
                /\ f.request = NumberRequest
                /\ FailsOffline(c, f) \/ FailsTooLong(c, f) \/ GoesOut(c, f)
        BY <3>1, NotifiedSteps
      <4>2. CASE GoesOut(c, f)
        BY <4>1, <4>2, SentIsSubmitted DEF NumberRequest
      <4>3. CASE FailsOffline(c, f) \/ FailsTooLong(c, f)
        BY <4>3, NothingSent DEF FailsOffline, FailsTooLong
      <4>4. QED
        BY <4>1, <4>2, <4>3
    <3>2. CASE ~FireNewEventCallback(c)
      <4>1. toServer' = toServer
        BY <1>4, <3>2 DEF ClientThread, InCall, ClientStep, OnDataArrived,
           SaveMessage, DropMessage, EndDrain, Poll, TakeResponses, Timeout,
           Leave, Return, ClientNotices, transportVars
      <4>2. QED
        BY <4>1, NothingSent
    <3>3. QED
      BY <3>1, <3>2
  <2>2. QED
    BY <1>2, <2>1
<1>5. QED
  BY <1>3, <1>4

------------------------------------------------------------------------------
(* What is current stays so                                                *)

\* Nothing that c has yet to have saved is new.
SameEvents(c) == \A e \in EventsInTransit' : e.from = c => e \in EventsInTransit

\* Only a number that c draws now may be new.
NewerEvents(c) ==
    \A e \in EventsInTransit' :
        e.from = c => (e \in EventsInTransit \/ e.pn = packetCounter[c] + 1)

LEMMA CurrentGrows ==
    ASSUME SystemInv, RowsFromEvents, NEW c \in Connection, NewerEvents(c),
           packetCounter'[c] \in {packetCounter[c], packetCounter[c] + 1},
           handshake'[c] = handshake[c]
    PROVE  Current(c) \subseteq Current(c)'
<1>1. /\ packetCounter[c] \in Nat
      /\ \A e \in EventsInTransit : e.from = c => e.pn \in Nat
  BY OwnNumbers
<1>2. ASSUME NEW pn \in Nat, Settled(c, pn)
      PROVE  Settled(c, pn)'
  <2>1. pn <= packetCounter[c] /\ packetCounter[c] <= packetCounter'[c]
        /\ packetCounter'[c] \in Nat
    BY <1>1, <1>2 DEF Settled
  <2>2. pn <= packetCounter'[c]
    BY <1>1, <2>1
  <2>3. ASSUME NEW e \in EventsInTransit', e.from = c
        PROVE  pn < e.pn
    <3>1. CASE e \in EventsInTransit
      BY <1>2, <2>3, <3>1 DEF Settled
    <3>2. CASE e.pn = packetCounter[c] + 1
      BY <1>1, <2>1, <3>2
    <3>3. QED
      BY <2>3, <3>1, <3>2 DEF NewerEvents
  <2>4. QED
    BY <2>2, <2>3 DEF Settled
<1>3. ASSUME NEW n, NEW pn \in Nat, Settled(c, pn), Covers(c, n, pn)
      PROVE  Covers(c, n, pn)'
  <2>. SUFFICES ASSUME NEW k \in 1..Len(table'), table'[k].from = c,
                       table'[k].pn < pn
                PROVE  k <= n
    BY DEF Covers
  <2>1. CASE k \in 1..Len(table) /\ table'[k] = table[k]
    BY <1>3, <2>1 DEF Covers
  <2>2. CASE table'[k] \in EventsInTransit
    <3>1. pn < table'[k].pn /\ table'[k].pn \in Nat
      BY <1>1, <1>3, <2>2 DEF Settled
    <3>2. QED
      BY <3>1
  <2>3. QED
    BY <2>1, <2>2 DEF RowsFromEvents
<1>4. ASSUME NEW p \in Current(c)
      PROVE  p \in Current(c)'
  <2>1. p \in ServerPacket /\ (IsResponse(p) => p.pn \in Nat)
    BY ResponseFields DEF Current
  <2>2. p.type = "NumberOfSavedEventsResponse" => IsResponse(p)
    BY DEF IsResponse
  <2>3. QED
    BY <1>2, <1>3, <1>4, <2>1, <2>2 DEF Current
<1>5. QED
  BY <1>4

\* What a call for the number knows stays true while its client sends nothing.
LEMMA CountsKept ==
    ASSUME RowsFromEvents, NEW c, SameEvents(c),
           \A f \in CallsIn(stack'[c]) : f.request.op = "number" =>
               /\ f.pn # 0 => Earlier(c, f.pn)
               /\ f.answer.ok => CoversAll(c, f.answer.number)
    PROVE  CountsRight(c)'
<1>1. ASSUME NEW pn, Earlier(c, pn)
      PROVE  Earlier(c, pn)'
  BY <1>1 DEF Earlier, RowsFromEvents, SameEvents
<1>2. ASSUME NEW n, CoversAll(c, n)
      PROVE  CoversAll(c, n)'
  BY <1>2 DEF CoversAll, RowsFromEvents, SameEvents
<1>3. QED
  BY <1>1, <1>2 DEF CountsRight

\* A packet that is no SendEvent holds no event.
LEMMA EventsBehind ==
    ASSUME NEW s \in Seq(ClientPacket), s # <<>>, Head(s).type # "SendEvent", NEW c
    PROVE  EventsIn(s, c) \subseteq EventsIn(Tail(s), c)
<1>. SUFFICES ASSUME NEW e \in EventsIn(s, c)
              PROVE  e \in EventsIn(Tail(s), c)
  OBVIOUS
<1>1. PICK i \in 1..Len(s) :
          /\ s[i].type = "SendEvent"
          /\ e = [from |-> c, pn |-> s[i].pn, size |-> s[i].size]
  BY EventsOfSeq
<1>2. /\ Len(s) \in Nat /\ Len(Tail(s)) = Len(s) - 1 /\ Head(s) = s[1]
      /\ \A j \in 1..Len(Tail(s)) : Tail(s)[j] = s[j + 1]
  BY PopProperties
<1>3. i # 1
  BY <1>1, <1>2
<1>4. i - 1 \in 1..Len(Tail(s)) /\ Tail(s)[i - 1] = s[i]
  BY <1>2, <1>3
<1>5. QED
  BY <1>1, <1>4, EventsOfSeq

\* When the server answers a packet of c it has dealt with all of c's events
\* that came before.
LEMMA AnsweredInOrder ==
    ASSUME SystemInv, OrderInv, NEW c \in Connection, NEW p \in ServerPacket,
           Due(c, p), IsResponse(p)
    PROVE  Settled(c, p.pn) /\ c = serving /\ p.pn = Head(stream).pn
<1>. DEFINE n == Head(stream).pn
<1>1. /\ c = serving /\ p.pn = n /\ pc \in {"notify", "respond", "dispatch"}
      /\ pc # "notify" => Head(stream).type # "SendEvent"
  BY DEF Due, IsResponse, SystemInv, HandlerRight
<1>2. /\ stream \in Seq(ClientPacket) /\ stream # <<>> /\ stream \in Seq(Asked(c))
  BY <1>1 DEF SystemInv, CoreInv, HandlerOK, Good
<1>3. n \in 1..packetCounter[c] /\ packetCounter[c] \in Nat
  <2>1. Head(stream) \in Asked(c)
    BY <1>2, PopProperties
  <2>2. QED
    BY <2>1, OwnNumbers DEF Asked
<1>4. OrderOf(c)
  BY DEF OrderInv
<1>5. /\ Before({n}, Numbers(Tail(stream)))
      /\ Before({n}, Numbers(toServer[c]))
  <2>1. CASE pc = "notify"
    <3>1. Todo(c) = Tail(stream)
      BY <1>1, <2>1 DEF Todo
    <3>2. n \in SavedNumbers(c)
      BY <1>1, <2>1 DEF SystemInv, HandlerRight, Saved, SavedNumbers
    <3>3. QED
      BY <1>4, <3>1, <3>2 DEF OrderOf, Before
  <2>2. CASE pc # "notify"
    <3>1. Todo(c) = stream
      BY <1>1, <2>2 DEF Todo
    <3>2. Ascends(stream) /\ Before(Numbers(stream), Numbers(toServer[c]))
      BY <1>4, <3>1 DEF OrderOf
    <3>3. n \in Numbers(stream) /\ Before({n}, Numbers(Tail(stream)))
      BY <1>2, <3>2, TailOrder
    <3>4. QED
      BY <3>2, <3>3 DEF Before
  <2>3. QED
    BY <2>1, <2>2
<1>6. ASSUME NEW e \in EventsInTransit, e.from = c
      PROVE  e.pn \in Numbers(Tail(stream)) \cup Numbers(toServer[c])
  <2>1. CASE e \in EventsIn(Unsaved, serving)
    <3>1. e \in EventsIn(Tail(stream), serving)
      BY <1>1, <1>2, <2>1, EventsBehind DEF Unsaved
    <3>2. QED
      BY <3>1, EventNumbers
  <2>2. CASE \E d \in Connection : e \in EventsIn(toServer[d], d)
    BY <1>6, <2>2, EventNumbers
  <2>3. QED
    BY <2>1, <2>2 DEF EventsInTransit
<1>. HIDE DEF n
<1>7. \A e \in EventsInTransit : e.from = c => n < e.pn
  BY <1>5, <1>6 DEF Before
<1>8. n <= packetCounter[c]
  BY <1>3
<1>9. QED
  BY <1>1, <1>7, <1>8 DEF Settled, n

\* What the server sends is current.
LEMMA DueIsCurrent ==
    ASSUME SystemInv, OrderInv, NEW c \in Connection, NEW p \in ServerPacket,
           Due(c, p)
    PROVE  p \in Current(c)
<1>1. IsNews(p) => p.hs = handshake[c]
  BY DEF Due, IsNews
<1>2. IsResponse(p) => Settled(c, p.pn)
  BY AnsweredInOrder
<1>3. ASSUME p.type = "NumberOfSavedEventsResponse"
      PROVE  Covers(c, p.number, p.pn)
  <2>1. p.number = Len(table) /\ Len(table) \in Nat
    BY <1>3, LenProperties DEF Due, SystemInv, CoreInv, StorageOK
  <2>2. QED
    BY <2>1 DEF Covers
<1>4. QED
  BY <1>1, <1>2, <1>3 DEF Current

------------------------------------------------------------------------------
(* Packets on their way, and where they are                                *)

LEMMA HeldMember == \A s, p : p \in Held(s) <=> \E i \in 1..Len(s) : s[i] = p
BY DEF Held

LEMMA HeldNothing == Held(<<>>) = {}
BY DEF Held

LEMMA HeldPopped ==
    ASSUME NEW S, NEW s \in Seq(S), s # <<>>
    PROVE  Held(s) = Held(Tail(s)) \cup {Head(s)}
<1>. DEFINE t == Tail(s)
<1>1. /\ Len(s) \in Nat \ {0} /\ Len(t) = Len(s) - 1 /\ Head(s) = s[1]
      /\ \A i \in 1..Len(t) : t[i] = s[i + 1]
  BY PopProperties
<1>. HIDE DEF t
<1>2. \A i \in 1..Len(s) : \/ s[i] = s[1]
                           \/ i - 1 \in 1..Len(t) /\ s[i] = t[i - 1]
  BY <1>1
<1>3. 1 \in 1..Len(s) /\ \A i \in 1..Len(t) : i + 1 \in 1..Len(s) /\ t[i] = s[i + 1]
  BY <1>1
<1>4. ASSUME NEW p PROVE p \in Held(s) <=> p \in Held(t) \/ p = s[1]
  BY <1>2, <1>3, HeldMember
<1>5. QED
  BY <1>1, <1>4 DEF t

LEMMA HeldAppended ==
    ASSUME NEW S, NEW s \in Seq(S), NEW p \in S
    PROVE  Held(Append(s, p)) = Held(s) \cup {p}
<1>. DEFINE t == Append(s, p)
<1>1. /\ Len(s) \in Nat /\ Len(t) = Len(s) + 1 /\ t[Len(s) + 1] = p
      /\ \A i \in 1..Len(s) : t[i] = s[i]
  BY AppendProperties, LenProperties
<1>. HIDE DEF t
<1>2. \A i \in 1..Len(t) : (i \in 1..Len(s) /\ t[i] = s[i]) \/ t[i] = p
  BY <1>1
<1>3. Len(s) + 1 \in 1..Len(t) /\ \A i \in 1..Len(s) : i \in 1..Len(t)
  BY <1>1
<1>4. ASSUME NEW q PROVE q \in Held(t) <=> q \in Held(s) \/ q = p
  BY <1>1, <1>2, <1>3, HeldMember
<1>5. QED
  BY <1>4 DEF t

LEMMA BatchedMember ==
    \A s, p : p \in Batched(s) <=>
        \E i \in 1..Len(s) : s[i].kind = "drain" /\ p \in Held(s[i].packets)
BY DEF Batched

LEMMA BatchedNothing == Batched(<<>>) = {}
BY DEF Batched

\* The packets of a frame.
FramePackets(f) == IF f.kind = "drain" THEN Held(f.packets) ELSE {}

LEMMA BatchedPopped ==
    ASSUME NEW S, NEW s \in Seq(S), s # <<>>
    PROVE  Batched(s) = FramePackets(Head(s)) \cup Batched(Tail(s))
<1>. DEFINE t == Tail(s)
<1>1. /\ Len(s) \in Nat \ {0} /\ Len(t) = Len(s) - 1 /\ Head(s) = s[1]
      /\ \A i \in 1..Len(t) : t[i] = s[i + 1]
  BY PopProperties
<1>. HIDE DEF t
<1>2. \A i \in 1..Len(s) : \/ s[i] = s[1]
                           \/ i - 1 \in 1..Len(t) /\ s[i] = t[i - 1]
  BY <1>1
<1>3. 1 \in 1..Len(s) /\ \A i \in 1..Len(t) : i + 1 \in 1..Len(s) /\ t[i] = s[i + 1]
  BY <1>1
<1>4. ASSUME NEW p, p \in Batched(s)
      PROVE  p \in FramePackets(s[1]) \/ p \in Batched(t)
  <2>1. PICK i \in 1..Len(s) : s[i].kind = "drain" /\ p \in Held(s[i].packets)
    BY <1>4, BatchedMember
  <2>2. CASE s[i] = s[1]
    BY <2>1, <2>2 DEF FramePackets
  <2>3. CASE i - 1 \in 1..Len(t) /\ s[i] = t[i - 1]
    BY <2>1, <2>3, BatchedMember
  <2>4. QED
    BY <1>2, <2>2, <2>3
<1>5. ASSUME NEW p, p \in Batched(t)
      PROVE  p \in Batched(s)
  <2>1. PICK i \in 1..Len(t) : t[i].kind = "drain" /\ p \in Held(t[i].packets)
    BY <1>5, BatchedMember
  <2>2. i + 1 \in 1..Len(s) /\ t[i] = s[i + 1]
    BY <1>3
  <2>3. QED
    BY <2>1, <2>2, BatchedMember
<1>6. ASSUME NEW p, p \in FramePackets(s[1])
      PROVE  p \in Batched(s)
  BY <1>3, <1>6, BatchedMember DEF FramePackets
<1>7. QED
  BY <1>1, <1>4, <1>5, <1>6 DEF t

LEMMA BatchedPushed ==
    ASSUME NEW S, NEW s \in Seq(S), NEW f
    PROVE  Batched(<<f>> \o s) = FramePackets(f) \cup Batched(s)
<1>. DEFINE T == S \cup {f}
            t == <<f>> \o s
<1>1. s \in Seq(T)
  BY SeqElements, ElementOfSeq
<1>2. t \in Seq(T) /\ t # <<>> /\ Head(t) = f /\ Tail(t) = s
  <2>1. /\ t \in Seq(T) /\ Len(s) \in Nat /\ Len(t) = Len(s) + 1 /\ t[1] = f
        /\ \A i \in 2..(Len(s) + 1) : t[i] = s[i - 1]
    BY <1>1, PushProperties
  <2>. HIDE DEF t
  <2>2. t # <<>>
    BY <2>1
  <2>3. /\ Head(t) = t[1] /\ Tail(t) \in Seq(T) /\ Len(Tail(t)) = Len(t) - 1
        /\ \A i \in 1..Len(Tail(t)) : Tail(t)[i] = t[i + 1]
    BY <2>1, <2>2, PopProperties
  <2>4. Len(Tail(t)) = Len(s) /\ \A i \in 1..Len(s) : Tail(t)[i] = s[i]
    BY <2>1, <2>3
  <2>5. Tail(t) = s
    BY <1>1, <2>3, <2>4, SeqEqual
  <2>6. QED
    BY <2>1, <2>2, <2>3, <2>5
<1>. HIDE DEF t, T
<1>3. Batched(t) = FramePackets(Head(t)) \cup Batched(Tail(t))
  BY <1>2, BatchedPopped
<1>4. QED
  BY <1>2, <1>3 DEF t

LEMMA BatchedOfBatch ==
    ASSUME NEW S, NEW s \in Seq(S), NEW packets, NEW slot
    PROVE  Batched(Batch(packets, slot) \o s) = Held(packets) \cup Batched(s)
<1>1. CASE packets = <<>>
  <2>1. Batch(packets, slot) \o s = s
    BY <1>1, ConcatEmpty DEF Batch
  <2>2. QED
    BY <1>1, <2>1, HeldNothing
<1>2. CASE packets # <<>>
  <2>1. FramePackets(DrainFrame(packets, slot)) = Held(packets)
    BY DEF FramePackets, DrainFrame
  <2>2. QED
    BY <1>2, <2>1, BatchedPushed DEF Batch
<1>3. QED
  BY <1>1, <1>2

------------------------------------------------------------------------------
(* What a step of a client does to the packets on their way to it          *)

\* The packet that the innermost batch has at hand.
AtHand(c) == IF Processing(c) THEN {Head(Top(c).packets)} ELSE {}

\* A step that takes nothing from the socket: the packet at hand goes from its
\* batch into its mailbox, and no notification goes unheard.
Quiet(c) ==
    /\ toClient'[c] = toClient[c]
    /\ Batched(stack'[c]) \subseteq Batched(stack[c])
    /\ Batched(stack[c]) \subseteq Batched(stack'[c]) \cup AtHand(c)
    /\ Kept(serverMessages'[c]) \subseteq Kept(serverMessages[c])
                                             \cup Batched(stack[c])
    /\ Mailed(c)' \subseteq Mailed(c) \cup Responded(Batched(stack[c]))
    /\ \/ \A p \in Batched(stack[c]) : IsNews(p) => p \in Batched(stack'[c])
       \/ cachedRowCount'[c] = NoValue
       \/ c \notin Views

\* Nothing is added to the mailboxes.
MailLess(c) ==
    /\ Kept(serverMessages'[c]) \subseteq Kept(serverMessages[c])
    /\ Mailed(c)' \subseteq Mailed(c)

\* A batch of n packets moves from the socket onto the stack.
TakesBatch(c, n) ==
    LET s == toClient[c] IN
    /\ toClient'[c] = SubSeq(s, n + 1, Len(s))
    /\ Batched(stack'[c]) = Held(SubSeq(s, 1, n)) \cup Batched(stack[c])
Takes(c) ==
    /\ \E n \in 1..Len(toClient[c]) : TakesBatch(c, n)
    /\ MailLess(c)
    /\ cachedRowCount' = cachedRowCount

LEMMA KeptMember ==
    \A m, p : p \in Kept(m) <=> \E n \in DOMAIN m : p \in Held(m[n])
BY DEF Kept

\* A mailbox is erased, emptied or made.
LEMMA LessMail ==
    ASSUME NEW c,
           \A n \in DOMAIN serverMessages'[c] :
               \/ serverMessages'[c][n] = <<>>
               \/ /\ n \in DOMAIN serverMessages[c]
                  /\ serverMessages'[c][n] = serverMessages[c][n]
    PROVE  MailLess(c)
<1>1. ASSUME NEW p \in Kept(serverMessages'[c])
      PROVE  p \in Kept(serverMessages[c])
  <2>1. PICK n \in DOMAIN serverMessages'[c] : p \in Held(serverMessages'[c][n])
    BY <1>1, KeptMember
  <2>2. serverMessages'[c][n] # <<>>
    BY <2>1, HeldNothing
  <2>3. QED
    BY <2>1, <2>2, KeptMember
<1>2. Mailed(c)' \subseteq Mailed(c)
  BY DEF Mailed, Expecting
<1>3. QED
  BY <1>1, <1>2 DEF MailLess

LEMMA CallMail ==
    ASSUME SystemInv, NEW c \in Connection, NEW request, NEW below,
           Call(c, request, below)
    PROVE  MailLess(c)
<1>. DEFINE old == serverMessages[c]
            pn == packetCounter[c] + 1
<1>1. serverMessages = [d \in Connection |-> serverMessages[d]]
  BY DEF SystemInv, PerClient
<1>2. CASE serverMessages' = serverMessages
  BY <1>2, LessMail
<1>3. CASE serverMessages' = [serverMessages EXCEPT ![c] = Expect(old, pn)]
  <2>1. serverMessages'[c] = Expect(old, pn)
    BY <1>1, <1>3
  <2>. HIDE DEF pn
  <2>2. \A n \in DOMAIN serverMessages'[c] :
            \/ serverMessages'[c][n] = <<>>
            \/ n \in DOMAIN old /\ serverMessages'[c][n] = old[n]
    BY <2>1 DEF Expect
  <2>3. QED
    BY <2>2, LessMail
<1>4. QED
  BY <1>2, <1>3 DEF Call

\* A step that takes packets out of its batches and adds none to the mailboxes.
LEMMA FewerAreQuiet ==
    ASSUME NEW c, toClient'[c] = toClient[c], MailLess(c),
           Batched(stack'[c]) \subseteq Batched(stack[c]),
           Batched(stack[c]) \subseteq Batched(stack'[c]) \cup AtHand(c),
           \/ \A p \in Batched(stack[c]) : IsNews(p) => p \in Batched(stack'[c])
           \/ cachedRowCount'[c] = NoValue
           \/ c \notin Views
    PROVE  Quiet(c)
BY DEF Quiet, MailLess

LEMMA UserCallQuiet ==
    ASSUME SystemInv, NEW c \in Connection, UserCall(c)
    PROVE  Quiet(c)
<1>1. /\ stack[c] = <<>> /\ toClient' = toClient
      /\ \E f \in GoodCalls(c) : stack'[c] = <<f>>
  BY UserCallSteps DEF UserCall
<1>2. PICK f \in GoodCalls(c) : stack'[c] = <<f>>
  BY <1>1
<1>3. <<f>> = <<f>> \o <<>> /\ FramePackets(f) = {}
  <2>1. <<>> \in Seq(Frame(c)) /\ f \in Frame(c) /\ f.kind = "call"
    BY EmptySeq DEF Frame, GoodCalls, CallFrames
  <2>2. QED
    BY <2>1, ConcatEmpty DEF FramePackets
<1>4. Batched(stack'[c]) = {} /\ Batched(stack[c]) = {}
  <2>1. Batched(<<f>> \o <<>>) = {}
    BY <1>3, BatchedPushed, BatchedNothing, EmptySeq
  <2>2. QED
    BY <1>1, <1>2, <1>3, <2>1, BatchedNothing
<1>5. MailLess(c)
  BY CallMail DEF UserCall
<1>6. QED
  BY <1>1, <1>4, <1>5, FewerAreQuiet

\* The packet at hand and the stack behind it.
LEMMA PacketAtTop ==
    ASSUME SystemInv, NEW c \in Connection, Processing(c)
    PROVE  LET h == Head(Top(c).packets) IN
           /\ h \in Replies(c) /\ h \in ServerPacket
           /\ h \in Batched(stack[c]) /\ AtHand(c) = {h}
           /\ Batched(stack[c]) =
                  ({h} \cup Held(Tail(Top(c).packets))) \cup Batched(Below(c))
           /\ Batched(AfterPacket(c)) =
                  Held(Tail(Top(c).packets)) \cup Batched(Below(c))
<1>1. /\ stack[c] # <<>> /\ Top(c).kind = "drain" /\ Top(c).packets # <<>>
      /\ Top(c) \in GoodDrains(c)
      /\ Head(Top(c).packets) \in Replies(c)
  BY PacketAndRest DEF Processing, Draining
<1>2. /\ stack[c] \in Seq(Frame(c)) /\ Below(c) \in Seq(Frame(c))
  BY <1>1, StackFacts
<1>3. Batched(stack[c]) = Held(Top(c).packets) \cup Batched(Below(c))
  BY <1>1, <1>2, BatchedPopped DEF Top, Below, FramePackets
<1>4. Held(Top(c).packets) = Held(Tail(Top(c).packets)) \cup {Head(Top(c).packets)}
  BY <1>1, HeldPopped DEF GoodDrains
<1>5. Batched(AfterPacket(c)) = Held(Tail(Top(c).packets)) \cup Batched(Below(c))
  BY <1>2, BatchedOfBatch DEF AfterPacket
<1>6. QED
  BY <1>1, <1>3, <1>4, <1>5 DEF Replies, AtHand

LEMMA SaveMessageQuiet ==
    ASSUME SystemInv, NEW c \in Connection, SaveMessage(c)
    PROVE  Quiet(c)
<1>. DEFINE h == Head(Top(c).packets)
            old == serverMessages[c]
            new == serverMessages'[c]
<1>1. /\ Processing(c) /\ Expected(c, h)
      /\ stack' = [stack EXCEPT ![c] = AfterPacket(c)] /\ toClient' = toClient
  BY DEF SaveMessage, transportVars
<1>2. PICK kept \in Reused(serverMessages[c][h.pn], h) :
          serverMessages' = [serverMessages EXCEPT ![c][h.pn] = Append(kept, h)]
  BY DEF SaveMessage
<1>3. /\ stack = [d \in Connection |-> stack[d]]
      /\ serverMessages = [d \in Connection |-> serverMessages[d]]
      /\ \A n \in Expecting(c) : serverMessages[c][n] \in Seq(Mail(c, n))
  BY DEF SystemInv, PerClient, Good
<1>4. /\ h \in Batched(stack[c]) /\ h \in Replies(c) /\ AtHand(c) = {h}
      /\ Batched(stack[c]) = {h} \cup Batched(AfterPacket(c))
  BY <1>1, PacketAtTop
<1>5. IsResponse(h) /\ h.pn \in DOMAIN old /\ ~IsNews(h) /\ h \in Mail(c, h.pn)
  BY <1>1, <1>4 DEF Expected, Expecting, IsResponse, IsNews, Mail
<1>6. /\ DOMAIN new = DOMAIN old /\ new[h.pn] = Append(kept, h)
      /\ \A n \in DOMAIN old \ {h.pn} : new[n] = old[n]
  BY <1>2, <1>3, <1>5
<1>7. Held(new[h.pn]) \subseteq Held(old[h.pn]) \cup {h}
  <2>. DEFINE M == Held(old[h.pn]) \cup {h}
  <2>1. old[h.pn] \in Seq(M)
    <3>1. old[h.pn] \in Seq(Mail(c, h.pn))
      BY <1>3, <1>5 DEF Expecting
    <3>2. \A i \in 1..Len(old[h.pn]) : old[h.pn][i] \in M
      BY DEF Held
    <3>3. QED
      BY <3>1, <3>2, SeqElements
  <2>2. h \in M
    OBVIOUS
  <2>. HIDE DEF M
  <2>3. kept \in Seq(M)
    BY <1>2, <2>1, <2>2, ReusedMail
  <2>4. Held(Append(kept, h)) = Held(kept) \cup {h}
    BY <2>2, <2>3, HeldAppended
  <2>5. Held(kept) \subseteq M
    BY <2>3, ElementOfSeq DEF Held
  <2>6. QED
    BY <1>6, <2>2, <2>4, <2>5 DEF M
<1>. HIDE DEF h, old, new
<1>8. Kept(new) \subseteq Kept(old) \cup {h}
  <2>. SUFFICES ASSUME NEW p, p \in Kept(new), p # h
                PROVE  p \in Kept(old)
    OBVIOUS
  <2>1. PICK n \in DOMAIN new : p \in Held(new[n])
    BY KeptMember
  <2>2. n \in DOMAIN old /\ p \in Held(old[n])
    <3>1. CASE n = h.pn
      BY <1>6, <1>7, <2>1, <3>1
    <3>2. CASE n # h.pn
      BY <1>6, <2>1, <3>2
    <3>3. QED
      BY <3>1, <3>2
  <2>3. QED
    BY <2>2, KeptMember
<1>9. Mailed(c)' \subseteq Mailed(c) \cup {h.pn}
  BY <1>6 DEF Mailed, Expecting, old, new
<1>10. stack'[c] = AfterPacket(c)
  BY <1>1, <1>3
<1>11. h.pn \in Responded(Batched(stack[c]))
  BY <1>4, <1>5 DEF Responded
<1>12. \A p \in Batched(stack[c]) : IsNews(p) => p \in Batched(stack'[c])
  BY <1>4, <1>5, <1>10
<1>13. QED
  BY <1>1, <1>4, <1>8, <1>9, <1>10, <1>11, <1>12 DEF Quiet, old, new

LEMMA DropMessageQuiet ==
    ASSUME SystemInv, NEW c \in Connection, DropMessage(c),
           Batched(stack[c]) \subseteq Current(c)
    PROVE  Quiet(c)
<1>. DEFINE h == Head(Top(c).packets)
<1>1. /\ Processing(c) /\ ~Announces(c, h)
      /\ stack' = [stack EXCEPT ![c] = AfterPacket(c)]
      /\ toClient' = toClient /\ serverMessages' = serverMessages
  BY DEF DropMessage, transportVars
<1>2. /\ h \in Batched(stack[c]) /\ AtHand(c) = {h}
      /\ Batched(stack[c]) = {h} \cup Batched(AfterPacket(c))
  BY <1>1, PacketAtTop
<1>. HIDE DEF h
<1>3. stack'[c] = AfterPacket(c)
  BY <1>1 DEF SystemInv, PerClient
<1>4. IsNews(h) => c \notin Views
  BY <1>1, <1>2 DEF Announces, Current, IsNews
<1>5. MailLess(c)
  BY <1>1, LessMail
<1>6. QED
  BY <1>1, <1>2, <1>3, <1>4, <1>5, FewerAreQuiet

LEMMA EndDrainQuiet ==
    ASSUME SystemInv, NEW c \in Connection, EndDrain(c)
    PROVE  Quiet(c)
<1>1. /\ Draining(c) /\ Top(c).packets = <<>>
      /\ stack'[c] = Below(c)
      /\ toClient' = toClient /\ serverMessages' = serverMessages
  BY DEF EndDrain, transportVars, SystemInv, PerClient
<1>2. stack[c] # <<>> /\ stack[c] \in Seq(Frame(c))
  BY <1>1, StackFacts DEF Draining
<1>3. Batched(stack[c]) = Batched(Below(c))
  BY <1>1, <1>2, BatchedPopped, HeldNothing DEF Top, Below, FramePackets
<1>4. MailLess(c)
  BY <1>1, LessMail
<1>5. QED
  BY <1>1, <1>3, <1>4, FewerAreQuiet

LEMMA FireNewEventQuiet ==
    ASSUME SystemInv, NEW c \in Connection, FireNewEventCallback(c)
    PROVE  Quiet(c)
<1>1. /\ Processing(c) /\ Rest(c) \in GoodDrains(c)
      /\ Rest(c).packets = Tail(Top(c).packets) /\ stack[c] # <<>>
      /\ \E f \in GoodCalls(c) : stack'[c] = <<f>> \o (<<Rest(c)>> \o Below(c))
  BY NotifiedSteps
<1>2. PICK f \in GoodCalls(c) : stack'[c] = <<f>> \o (<<Rest(c)>> \o Below(c))
  BY <1>1
<1>3. toClient' = toClient /\ cachedRowCount'[c] = NoValue
  BY DEF FireNewEventCallback, AfterNewEvent, SystemInv, PerClient
<1>4. MailLess(c)
  BY CallMail DEF FireNewEventCallback
<1>5. Below(c) \in Seq(Frame(c)) /\ Rest(c) \in Frame(c)
  BY <1>1, StackFacts DEF Frame
<1>6. <<Rest(c)>> \o Below(c) \in Seq(Frame(c))
  BY <1>5, PushProperties
<1>7. /\ FramePackets(f) = {}
      /\ FramePackets(Rest(c)) = Held(Tail(Top(c).packets))
  BY <1>1 DEF FramePackets, GoodCalls, CallFrames, GoodDrains
<1>8. Batched(stack'[c]) = Held(Tail(Top(c).packets)) \cup Batched(Below(c))
  BY <1>2, <1>5, <1>6, <1>7, BatchedPushed
<1>9. /\ Batched(stack'[c]) \subseteq Batched(stack[c])
      /\ Batched(stack[c]) \subseteq Batched(stack'[c]) \cup AtHand(c)
  BY <1>1, <1>8, PacketAtTop
<1>10. QED
  BY <1>3, <1>4, <1>9, FewerAreQuiet

LEMMA LoopQuiet ==
    ASSUME SystemInv, NEW c \in Connection, TakeResponses(c) \/ Timeout(c)
    PROVE  Quiet(c)
<1>1. Waiting(c) /\ toClient' = toClient
  BY DEF TakeResponses, Timeout, transportVars
<1>2. /\ stack[c] # <<>> /\ Top(c) \in GoodCalls(c) /\ stack[c] \in Seq(Frame(c))
      /\ Below(c) \in Seq(Frame(c))
  BY <1>1, StackFacts, WaitingFacts
<1>3. PICK g \in GoodCalls(c) : stack'[c] = <<g>> \o Below(c)
  BY LoopSteps
<1>4. FramePackets(g) = {} /\ FramePackets(Top(c)) = {}
  BY <1>2 DEF FramePackets, GoodCalls, CallFrames
<1>5. Batched(stack'[c]) = Batched(Below(c)) /\ Batched(stack[c]) = Batched(Below(c))
  <2>1. Batched(stack[c]) = FramePackets(Top(c)) \cup Batched(Below(c))
    BY <1>2, BatchedPopped DEF Top, Below
  <2>2. Batched(stack'[c]) = FramePackets(g) \cup Batched(Below(c))
    BY <1>2, <1>3, BatchedPushed
  <2>3. QED
    BY <1>4, <2>1, <2>2
<1>6. MailLess(c)
  <2>. DEFINE n == Top(c).pn
  <2>1. serverMessages = [d \in Connection |-> serverMessages[d]]
    BY DEF SystemInv, PerClient
  <2>2. CASE serverMessages' = serverMessages
    BY <2>2, LessMail
  <2>3. CASE serverMessages' = [serverMessages EXCEPT ![c][n] = <<>>]
    <3>1. serverMessages'[c] = [serverMessages[c] EXCEPT ![n] = <<>>]
      BY <2>1, <2>3
    <3>2. QED
      BY <3>1, LessMail
  <2>4. QED
    BY <2>2, <2>3 DEF TakeResponses, Timeout
<1>7. QED
  BY <1>1, <1>5, <1>6, FewerAreQuiet

LEMMA ReturnQuiet ==
    ASSUME SystemInv, NEW c \in Connection, Return(c)
    PROVE  Quiet(c)
<1>1. /\ stack[c] # <<>> /\ IsCall(Top(c)) /\ stack'[c] = Below(c)
      /\ toClient' = toClient /\ serverMessages' = serverMessages
  BY ReturnSteps DEF Return, transportVars
<1>2. stack[c] \in Seq(Frame(c)) /\ FramePackets(Top(c)) = {}
  BY <1>1, StackFacts DEF FramePackets, IsCall
<1>3. Batched(stack[c]) = Batched(stack'[c])
  <2>1. Batched(stack[c]) = FramePackets(Top(c)) \cup Batched(Below(c))
    BY <1>1, <1>2, BatchedPopped DEF Top, Below
  <2>2. QED
    BY <1>1, <1>2, <2>1
<1>4. MailLess(c)
  BY <1>1, LessMail
<1>5. QED
  BY <1>1, <1>3, <1>4, FewerAreQuiet

\* receive(): a batch of whole packets, and all of them are decoded.
LEMMA DrainTakes ==
    ASSUME "split" \notin Faults, SystemInv, NEW c \in Connection,
           NEW slot \in BOOLEAN, NEW below \in Seq(Frame(c)),
           Drain(c, slot, below), Held(toClient[c]) \subseteq ServerPacket,
           Batched(below) = Batched(stack[c])
    PROVE  \E n \in 1..Len(toClient[c]) : TakesBatch(c, n)
<1>. DEFINE s == toClient[c]
<1>1. /\ toClient = [d \in Connection |-> toClient[d]]
      /\ stack = [d \in Connection |-> stack[d]]
      /\ s \in Seq(ServerPacket)
  <2>1. s \in Seq(Replies(c) \cup {TAIL})
    BY DEF SystemInv, Good, IsChannel
  <2>2. \A i \in 1..Len(s) : s[i] \in ServerPacket
    BY DEF Held
  <2>3. s \in Seq(ServerPacket)
    BY <2>1, <2>2, SeqElements
  <2>4. QED
    BY <2>3 DEF SystemInv, PerClient
<1>2. PICK received \in Receive(s) :
          /\ toClient' = [toClient EXCEPT ![c] = received.rest]
          /\ \E packets \in Decoded(received.batch) :
               stack' = [stack EXCEPT ![c] = Batch(packets, slot) \o below]
  BY DEF Drain, Announced
<1>3. PICK packets \in Decoded(received.batch) :
          stack' = [stack EXCEPT ![c] = Batch(packets, slot) \o below]
  BY <1>2
<1>4. PICK n \in 1..Len(s) : received = [batch |-> SubSeq(s, 1, n),
                                         rest  |-> SubSeq(s, n + 1, Len(s))]
  BY <1>2 DEF Receive, WholePackets
<1>. DEFINE b == SubSeq(s, 1, n)
<1>5. packets = b
  <2>1. Len(s) \in Nat /\ Len(b) = n /\ n \in Nat \ {0} /\ b \in Seq(ServerPacket)
    <3>1. Len(s) \in Nat
      BY <1>1, LenProperties
    <3>2. 1 \in Int /\ n \in Int /\ \A i \in 1..n : s[i] \in ServerPacket
      BY <1>1, <3>1, ElementOfSeq
    <3>3. b \in Seq(ServerPacket) /\ Len(b) = IF 1 <= n THEN n - 1 + 1 ELSE 0
      BY <3>2, SubSeqProperties
    <3>4. QED
      BY <3>1, <3>3
  <2>. HIDE DEF b
  <2>2. b # <<>>
    BY <2>1
  <2>3. Head(b) \in ServerPacket
    BY <2>1, <2>2, PopProperties
  <2>4. Head(b) # TAIL
    BY <2>3 DEF ServerPacket, TAIL
  <2>5. received.batch = b
    BY <1>4 DEF b
  <2>6. QED
    BY <2>4, <2>5 DEF Decoded
<1>6. /\ toClient'[c] = SubSeq(s, n + 1, Len(s))
      /\ stack'[c] = Batch(b, slot) \o below
  BY <1>1, <1>2, <1>3, <1>4, <1>5
<1>. HIDE DEF b
<1>7. Batched(stack'[c]) = Held(b) \cup Batched(stack[c])
  BY <1>6, BatchedOfBatch
<1>8. QED
  BY <1>6, <1>7 DEF TakesBatch, b

LEMMA PollTakes ==
    ASSUME "split" \notin Faults, SystemInv, NEW c \in Connection,
           OnDataArrived(c) \/ Poll(c), Held(toClient[c]) \subseteq ServerPacket
    PROVE  Takes(c)
<1>1. /\ stack[c] \in Seq(Frame(c)) /\ callbackOn[c] \in BOOLEAN
      /\ UNCHANGED <<serverMessages, cachedRowCount>>
  BY StackFacts DEF OnDataArrived, Poll, SystemInv, PerClient
<1>2. MailLess(c)
  BY <1>1, LessMail
<1>3. \E n \in 1..Len(toClient[c]) : TakesBatch(c, n)
  <2>1. CASE OnDataArrived(c)
    <3>1. Drain(c, TRUE, stack[c])
      BY <2>1 DEF OnDataArrived
    <3>2. QED
      BY <1>1, <3>1, DrainTakes
  <2>2. CASE Poll(c)
    BY <1>1, <2>2, DrainTakes DEF Poll
  <2>3. QED
    BY <2>1, <2>2
<1>4. QED
  BY <1>1, <1>2, <1>3 DEF Takes

LEMMA LeavePackets ==
    ASSUME "split" \notin Faults, SystemInv, NEW c \in Connection, Leave(c),
           Held(toClient[c]) \subseteq ServerPacket
    PROVE  Quiet(c) \/ Takes(c)
<1>. DEFINE g == [Top(c) EXCEPT !.at = "return"]
            below == <<g>> \o Below(c)
<1>1. /\ Calling(c, "leave") /\ g \in GoodCalls(c)
      /\ cachedRowCount' = cachedRowCount
      /\ Drain(c, TRUE, below) \/ (stack'[c] = below /\ toClient' = toClient)
  BY LeaveSteps DEF Leave, SystemInv, PerClient
<1>2. stack[c] # <<>> /\ IsCall(Top(c))
  BY <1>1 DEF Calling, IsCall
<1>3. /\ stack[c] \in Seq(Frame(c)) /\ Below(c) \in Seq(Frame(c))
      /\ g \in Frame(c)
  BY <1>1, <1>2, StackFacts DEF Frame
<1>4. FramePackets(Top(c)) = {} /\ FramePackets(g) = {}
  BY <1>1, <1>2 DEF FramePackets, IsCall, GoodCalls, CallFrames
<1>5. MailLess(c)
  <2>1. serverMessages'[c] = StopExpecting(serverMessages[c], g.pn)
    BY DEF Leave, SystemInv, PerClient
  <2>. HIDE DEF g
  <2>2. QED
    BY <2>1, LessMail DEF StopExpecting
<1>. HIDE DEF g
<1>6. below \in Seq(Frame(c)) /\ Batched(below) = Batched(stack[c])
  <2>1. Batched(stack[c]) = FramePackets(Top(c)) \cup Batched(Below(c))
    BY <1>2, <1>3, BatchedPopped DEF Top, Below
  <2>2. Batched(below) = FramePackets(g) \cup Batched(Below(c))
    BY <1>3, BatchedPushed
  <2>3. QED
    BY <1>3, <1>4, <2>1, <2>2, PushProperties
<1>. HIDE DEF below
<1>7. CASE Drain(c, TRUE, below)
  BY <1>1, <1>5, <1>6, <1>7, DrainTakes DEF Takes
<1>8. CASE stack'[c] = below /\ toClient' = toClient
  BY <1>5, <1>6, <1>8, FewerAreQuiet
<1>9. QED
  BY <1>1, <1>7, <1>8

\* Every step of a client.
LEMMA ClientPackets ==
    ASSUME "split" \notin Faults, SystemInv, NEW c \in Connection,
           ClientThread(c), Inside(c) \subseteq Current(c)
    PROVE  Quiet(c) \/ Takes(c)
<1>1. /\ Held(toClient[c]) \subseteq ServerPacket
      /\ Batched(stack[c]) \subseteq Current(c)
  BY DEF Inside, Current
<1>2. CASE ClientNotices(c)
  <2>1. UNCHANGED <<toClient, stack, serverMessages>>
    BY <1>2 DEF ClientNotices, clientVars
  <2>2. QED
    BY <2>1, LessMail, FewerAreQuiet
<1>3. CASE OnDataArrived(c) \/ Poll(c)
  BY <1>1, <1>3, PollTakes
<1>4. QED
  BY <1>1, <1>2, <1>3, UserCallQuiet, SaveMessageQuiet, FireNewEventQuiet,
     DropMessageQuiet, EndDrainQuiet, LoopQuiet, LeavePackets, ReturnQuiet
     DEF ClientThread, InCall, ClientStep

------------------------------------------------------------------------------
(* What a step of a client does to its calls and to its row count          *)

\* The call g takes its answer out of the mailbox.
Decides(c, g) ==
    /\ g.pn \in Mailed(c)
    /\ g.request.op = "number" =>
           \E p \in Kept(serverMessages[c]) :
               /\ p.type = "NumberOfSavedEventsResponse"
               /\ p.pn = g.pn /\ p.number = g.answer.number

\* g was a call before, and has its answer from its mailbox if it is new.
OldCall(c, g) ==
    \E f \in CallsIn(stack[c]) :
        /\ g.pn = f.pn /\ g.request = f.request
        /\ g.answer = f.answer \/ ~g.answer.ok \/ Decides(c, g)

\* g has just begun.
NewCall(c, g) == ~g.answer.ok /\ g.pn \in {0, packetCounter[c] + 1}

LEMMA SameAreOld ==
    ASSUME NEW c, CallsIn(stack'[c]) \subseteq CallsIn(stack[c])
    PROVE  \A g \in CallsIn(stack'[c]) : OldCall(c, g)
BY DEF OldCall

\* The innermost call becomes g.
LEMMA TopIsOld ==
    ASSUME SystemInv, NEW c \in Connection, stack[c] # <<>>, IsCall(Top(c)),
           NEW g, CallsIn(stack'[c]) = CallsIn(Below(c)) \cup {g},
           g.pn = Top(c).pn, g.request = Top(c).request,
           g.answer = Top(c).answer \/ ~g.answer.ok \/ Decides(c, g)
    PROVE  \A h \in CallsIn(stack'[c]) : OldCall(c, h)
<1>1. CallsIn(stack[c]) = CallsIn(Below(c)) \cup {Top(c)}
  BY StackFacts
<1>2. QED
  BY <1>1 DEF OldCall

LEMMA LoopCalls ==
    ASSUME SystemInv, NEW c \in Connection, TakeResponses(c) \/ Timeout(c)
    PROVE  \A g \in CallsIn(stack'[c]) : OldCall(c, g)
<1>1. /\ Waiting(c) /\ stack[c] # <<>> /\ IsCall(Top(c)) /\ Top(c) \in GoodCalls(c)
      /\ Below(c) \in Seq(Frame(c)) /\ stack = [d \in Connection |-> stack[d]]
      /\ Mailbox(c) \in Seq(Mail(c, Top(c).pn))
      /\ \A p \in Mail(c, Top(c).pn) : Answers(p, Top(c).request)
  BY WaitingFacts, StackFacts DEF TakeResponses, Timeout, IsWait, Frame
<1>2. ASSUME NEW g, IsCall(g), stack'[c] = <<g>> \o Below(c),
             g.pn = Top(c).pn, g.request = Top(c).request,
             g.answer = Top(c).answer \/ ~g.answer.ok \/ Decides(c, g)
      PROVE  \A h \in CallsIn(stack'[c]) : OldCall(c, h)
  <2>. DEFINE S == Frame(c) \cup {g}
  <2>1. Below(c) \in Seq(S) /\ g \in S
    BY <1>1, SeqElements, ElementOfSeq
  <2>. HIDE DEF S
  <2>2. CallsIn(stack'[c]) = CallsIn(Below(c)) \cup {g}
    BY <1>2, <2>1, CallsPushed
  <2>3. QED
    BY <1>1, <1>2, <2>2, TopIsOld
<1>3. ASSUME NEW answer, Decide(c, answer),
             \A g : (g.pn = Top(c).pn /\ g.request = Top(c).request
                       /\ g.answer = answer) => ~answer.ok \/ Decides(c, g)
      PROVE  \A h \in CallsIn(stack'[c]) : OldCall(c, h)
  <2>. DEFINE g == [Top(c) EXCEPT !.at = "leave", !.answer = answer]
  <2>1. /\ IsCall(g) /\ g.pn = Top(c).pn /\ g.request = Top(c).request
        /\ g.answer = answer
    BY <1>1 DEF GoodCalls, CallFrames, IsCall
  <2>2. stack'[c] = <<g>> \o Below(c)
    BY <1>1, <1>3 DEF Decide
  <2>. HIDE DEF g
  <2>3. ~g.answer.ok \/ Decides(c, g)
    BY <1>3, <2>1
  <2>4. QED
    BY <1>2, <2>1, <2>2, <2>3
<1>4. CASE Timeout(c)
  <2>1. Decide(c, NoAnswer) /\ ~NoAnswer.ok
    BY <1>4 DEF Timeout, NoAnswer
  <2>2. QED
    BY <1>3, <2>1
<1>5. CASE TakeResponses(c)
  <2>. DEFINE responses == Mailbox(c)
              h == Head(responses)
  <2>1. /\ responses # <<>> /\ Top(c).pn \in Expecting(c)
        /\ responses = serverMessages[c][Top(c).pn]
    BY <1>5 DEF TakeResponses, Waiting, Mailbox
  <2>2. /\ Top(c).pn \in Mailed(c) /\ h \in Mail(c, Top(c).pn)
        /\ h \in Kept(serverMessages[c])
    <3>1. h \in Mail(c, Top(c).pn) /\ h \in Held(responses)
      BY <1>1, <2>1, PopProperties, HeldPopped
    <3>2. QED
      BY <2>1, <3>1, KeptMember DEF Mailed, Expecting
  <2>3. CASE Top(c).request.op = "send" /\ Decide(c, Confirmed)
    <3>1. ASSUME NEW g, g.pn = Top(c).pn, g.request = Top(c).request
          PROVE  Decides(c, g)
      BY <2>2, <2>3, <3>1 DEF Decides
    <3>2. QED
      BY <1>3, <2>3, <3>1
  <2>4. CASE Top(c).request.op = "number" /\ Decide(c, NumberAnswer(h.number))
    <3>1. h.type = "NumberOfSavedEventsResponse" /\ h.pn = Top(c).pn
      BY <1>1, <2>2, <2>4 DEF Mail, Answers
    <3>2. ASSUME NEW g, g.pn = Top(c).pn, g.answer = NumberAnswer(h.number)
          PROVE  Decides(c, g)
      <4>1. g.answer.number = h.number
        BY <3>2 DEF NumberAnswer
      <4>2. QED
        BY <2>2, <3>1, <3>2, <4>1 DEF Decides
    <3>. HIDE DEF h
    <3>3. QED
      BY <1>3, <2>4, <3>2
  <2>5. CASE Top(c).request.op \in {"range", "row"}
    <3>1. PICK events, taken :
              IF Complete(taken)
              THEN Decide(c, EventsAnswer(events))
              ELSE stack' = [stack EXCEPT ![c] =
                                <<[Top(c) EXCEPT !.events = events]>> \o Below(c)]
      BY <1>5, <2>5 DEF TakeResponses
    <3>2. CASE Decide(c, EventsAnswer(events))
      <4>1. ASSUME NEW g, g.pn = Top(c).pn, g.request = Top(c).request
            PROVE  Decides(c, g)
        BY <2>2, <2>5, <4>1 DEF Decides
      <4>2. QED
        BY <1>3, <3>2, <4>1
    <3>3. CASE stack' = [stack EXCEPT ![c] =
                            <<[Top(c) EXCEPT !.events = events]>> \o Below(c)]
      <4>. DEFINE g == [Top(c) EXCEPT !.events = events]
      <4>1. /\ IsCall(g) /\ g.pn = Top(c).pn /\ g.request = Top(c).request
            /\ g.answer = Top(c).answer
        BY <1>1 DEF GoodCalls, CallFrames, IsCall
      <4>2. stack'[c] = <<g>> \o Below(c)
        BY <1>1, <3>3
      <4>. HIDE DEF g
      <4>3. QED
        BY <1>2, <4>1, <4>2
    <3>4. QED
      BY <3>1, <3>2, <3>3
  <2>6. QED
    BY <1>5, <2>3, <2>4, <2>5 DEF TakeResponses
<1>6. QED
  BY <1>4, <1>5

\* Every step of a client.
LEMMA ClientCalls ==
    ASSUME SystemInv, NEW c \in Connection, ClientThread(c)
    PROVE  \A g \in CallsIn(stack'[c]) : OldCall(c, g) \/ NewCall(c, g)
<1>1. CASE SaveMessage(c) \/ DropMessage(c) \/ EndDrain(c)
  BY <1>1, QuietSteps, SameAreOld DEF SameCalls
<1>2. CASE OnDataArrived(c) \/ Poll(c)
  BY <1>2, PollSteps, SameAreOld DEF SameCalls
<1>3. CASE TakeResponses(c) \/ Timeout(c)
  BY <1>3, LoopCalls
<1>4. CASE Leave(c)
  <2>. DEFINE g == [Top(c) EXCEPT !.at = "return"]
  <2>1. TopBecomes(c, g) /\ g \in GoodCalls(c)
    BY <1>4, LeaveSteps
  <2>2. Top(c) \in GoodCalls(c)
    BY <2>1, StackFacts DEF TopBecomes
  <2>3. g.answer = Top(c).answer
    BY <2>2 DEF GoodCalls, CallFrames
  <2>. HIDE DEF g
  <2>4. QED
    BY <2>1, <2>3, TopIsOld DEF TopBecomes
<1>5. CASE Return(c)
  <2>1. stack[c] # <<>> /\ stack'[c] = Below(c)
    BY <1>5, ReturnSteps
  <2>2. CallsIn(stack'[c]) \subseteq CallsIn(stack[c])
    BY <2>1, StackFacts
  <2>3. QED
    BY <2>2, SameAreOld
<1>6. CASE ClientNotices(c)
  <2>1. stack' = stack
    BY <1>6 DEF ClientNotices, clientVars
  <2>2. QED
    BY <2>1, SameAreOld
<1>7. CASE UserCall(c) \/ FireNewEventCallback(c)
  <2>1. PICK request \in GoodRequest : \E below \in Seq(Frame(c)) :
            Call(c, request, below) /\ CallsIn(below) = CallsIn(stack[c])
    BY <1>7, NewCallSteps
  <2>2. PICK below \in Seq(Frame(c)) :
            Call(c, request, below) /\ CallsIn(below) = CallsIn(stack[c])
    BY <2>1
  <2>3. PICK f \in GoodCalls(c) :
            /\ stack'[c] = <<f>> \o below /\ f.request = request
            /\ FailsOffline(c, f) \/ FailsTooLong(c, f) \/ GoesOut(c, f)
    BY <2>2, CallSteps
  <2>4. NewCall(c, f)
    BY <2>3 DEF NewCall, FailsOffline, FailsTooLong, GoesOut, NoAnswer
  <2>5. f \in Frame(c)
    BY DEF Frame
  <2>6. \A g \in CallsIn(stack'[c]) : g \in CallsIn(below) \/ g = f
    BY <2>2, <2>3, <2>5, CallsPushed
  <2>7. QED
    BY <2>2, <2>4, <2>6 DEF OldCall
<1>8. QED
  BY <1>1, <1>2, <1>3, <1>4, <1>5, <1>6, <1>7
     DEF ClientThread, InCall, ClientStep

\* A number that a client takes for an answer covers all that it has sent:
\* the call is younger than every event, and the server counted when it had
\* dealt with all that came before the call.
LEMMA ClientKeepsCounts ==
    ASSUME SystemInv, UNCHANGED serverVars, NEW c \in Connection, ClientThread(c),
           Inside(c) \subseteq Current(c), CountsRight(c)
    PROVE  CountsRight(c)'
<1>1. /\ RowsFromEvents
      /\ \A e \in EventsInTransit' :
            \/ e \in EventsInTransit
            \/ stack[c] = <<>> /\ \E f \in GoodCalls(c) :
                                      stack'[c] = <<f>> /\ f.request.op = "send"
  BY ClientEvents
<1>2. /\ \A e \in EventsInTransit :
            e.from = c => e.pn \in 1..packetCounter[c]
      /\ \A k \in 1..Len(table) :
            table[k].from = c => table[k].pn \in 1..packetCounter[c]
      /\ packetCounter[c] \in Nat
  BY OwnNumbers
<1>3. CASE SameEvents(c)
  <2>1. ASSUME NEW g \in CallsIn(stack'[c]), g.request.op = "number", g.pn # 0
        PROVE  Earlier(c, g.pn)
    <3>1. CASE NewCall(c, g)
      <4>1. g.pn = packetCounter[c] + 1
        BY <2>1, <3>1 DEF NewCall
      <4>2. QED
        BY <1>2, <4>1 DEF Earlier
    <3>2. CASE OldCall(c, g)
      BY <2>1, <3>2 DEF OldCall, CountsRight
    <3>3. QED
      BY <3>1, <3>2, ClientCalls
  <2>2. ASSUME NEW g \in CallsIn(stack'[c]), g.request.op = "number", g.answer.ok
        PROVE  CoversAll(c, g.answer.number)
    <3>1. OldCall(c, g)
      BY <2>2, ClientCalls DEF NewCall
    <3>2. PICK f \in CallsIn(stack[c]) :
              /\ g.pn = f.pn /\ g.request = f.request
              /\ g.answer = f.answer \/ ~g.answer.ok \/ Decides(c, g)
      BY <3>1 DEF OldCall
    <3>3. CASE g.answer = f.answer
      BY <2>2, <3>2, <3>3 DEF CountsRight
    <3>4. CASE Decides(c, g)
      <4>1. PICK p \in Kept(serverMessages[c]) :
                /\ p.type = "NumberOfSavedEventsResponse"
                /\ p.pn = g.pn /\ p.number = g.answer.number
        BY <2>2, <3>4 DEF Decides
      <4>2. p \in Current(c) /\ IsResponse(p)
        BY <4>1 DEF Inside, IsResponse
      <4>3. Settled(c, g.pn) /\ Covers(c, g.answer.number, g.pn)
        BY <4>1, <4>2 DEF Current
      <4>4. g.pn # 0 /\ g.pn \in Nat
        <5>1. g.pn \in Expecting(c)
          BY <3>4 DEF Decides, Mailed
        <5>2. g.pn \in 1..packetCounter[c]
          BY <5>1, StackFacts
        <5>3. QED
          BY <1>2, <5>2
      <4>5. Earlier(c, g.pn)
        BY <2>1, <2>2, <4>4
      <4>6. ASSUME NEW e \in EventsInTransit, e.from = c
            PROVE  FALSE
        <5>1. g.pn < e.pn /\ e.pn < g.pn
          BY <4>3, <4>5, <4>6 DEF Settled, Earlier
        <5>2. e.pn \in Nat
          BY <1>2, <4>6
        <5>3. QED
          BY <4>4, <5>1, <5>2
      <4>7. \A k \in 1..Len(table) : table[k].from = c => k <= g.answer.number
        BY <4>3, <4>5 DEF Covers, Earlier
      <4>8. QED
        BY <4>6, <4>7 DEF CoversAll
    <3>5. QED
      BY <2>2, <3>2, <3>3, <3>4
  <2>3. QED
    BY <1>1, <1>3, <2>1, <2>2, CountsKept
<1>4. CASE ~SameEvents(c)
  <2>1. PICK f \in GoodCalls(c) : stack'[c] = <<f>> /\ f.request.op = "send"
    BY <1>1, <1>4 DEF SameEvents
  <2>2. \A g \in CallsIn(stack'[c]) : g = f
    <3>1. \A i \in 1..Len(<<f>>) : <<f>>[i] = f
      OBVIOUS
    <3>2. QED
      BY <2>1, <3>1, CallsMember
  <2>3. QED
    BY <2>1, <2>2 DEF CountsRight
<1>5. QED
  BY <1>3, <1>4

\* A call that confirms has an acknowledgement in its mailbox.
LEMMA ConfirmedMoves ==
    ASSUME SystemInv, NEW c \in Connection, ClientThread(c)
    PROVE  ConfirmedNow(c)' \subseteq ConfirmedNow(c) \cup Mailed(c)
<1>1. Frames(c) = CallsIn(stack[c]) /\ Frames(c)' = CallsIn(stack'[c])
  BY DEF Frames, CallsIn, IsCall
<1>. SUFFICES ASSUME NEW g \in Frames(c)', g.request.op = "send", g.answer.ok
              PROVE  g.pn \in ConfirmedNow(c) \cup Mailed(c)
  BY DEF ConfirmedNow, Answered
<1>2. OldCall(c, g)
  BY <1>1, ClientCalls DEF NewCall
<1>3. PICK f \in CallsIn(stack[c]) :
          /\ g.pn = f.pn /\ g.request = f.request
          /\ g.answer = f.answer \/ ~g.answer.ok \/ Decides(c, g)
  BY <1>2 DEF OldCall
<1>4. CASE g.answer = f.answer
  BY <1>1, <1>3, <1>4 DEF ConfirmedNow, Answered
<1>5. CASE Decides(c, g)
  BY <1>5 DEF Decides
<1>6. QED
  BY <1>3, <1>4, <1>5

\* The row count changes to none, or to what a call has returned.
LEMMA RowCountMoves ==
    ASSUME SystemInv, NEW c \in Connection, ClientThread(c)
    PROVE  /\ \/ cachedRowCount'[c] \in {cachedRowCount[c], NoValue}
              \/ \E f \in CallsIn(stack[c]) :
                   /\ f.request.op = "number" /\ f.answer.ok
                   /\ cachedRowCount'[c] = f.answer.number
           /\ c \notin Views => cachedRowCount'[c] = cachedRowCount[c]
           /\ \A d \in Connection \ {c} : cachedRowCount'[d] = cachedRowCount[d]
<1>1. cachedRowCount \in [Connection -> Nat \cup {NoValue}]
  BY DEF SystemInv, PerClient
<1>2. CASE Return(c)
  <2>1. Top(c) \in CallsIn(stack[c])
    BY <1>2, ReturnSteps, StackFacts
  <2>2. \/ cachedRowCount' = cachedRowCount
        \/ /\ c \in Views
           /\ cachedRowCount' = [cachedRowCount EXCEPT ![c] =
                                    RowCountAfter(cachedRowCount[c], Top(c))]
    BY <1>2 DEF Return
  <2>3. QED
    BY <1>1, <2>1, <2>2 DEF RowCountAfter
<1>3. CASE FireNewEventCallback(c)
  BY <1>1, <1>3 DEF FireNewEventCallback, AfterNewEvent, Announces
<1>4. CASE ~Return(c) /\ ~FireNewEventCallback(c)
  <2>1. cachedRowCount' = cachedRowCount
    BY <1>4 DEF ClientThread, InCall, ClientStep, UserCall, OnDataArrived,
       SaveMessage, DropMessage, EndDrain, Poll, TakeResponses, Timeout, Leave,
       ClientNotices, clientVars
  <2>2. QED
    BY <2>1
<1>5. QED
  BY <1>2, <1>3, <1>4

\* A channel cut in two.
LEMMA ChannelInTwo ==
    ASSUME NEW S, NEW s \in Seq(S), NEW n \in 1..Len(s)
    PROVE  /\ Len(s) \in Nat /\ n \in Nat
           /\ Len(SubSeq(s, 1, n)) = n
           /\ \A i \in 1..n : SubSeq(s, 1, n)[i] = s[i]
           /\ Len(SubSeq(s, n + 1, Len(s))) = Len(s) - n
           /\ \A i \in 1..(Len(s) - n) : SubSeq(s, n + 1, Len(s))[i] = s[n + i]
<1>1. Len(s) \in Nat /\ n \in Nat
  BY LenProperties
<1>2. Len(SubSeq(s, 1, n)) = n /\ \A i \in 1..n : SubSeq(s, 1, n)[i] = s[i]
  <2>1. 1 \in Int /\ n \in Int /\ \A i \in 1..n : s[i] \in S
    BY <1>1, ElementOfSeq
  <2>2. /\ Len(SubSeq(s, 1, n)) = IF 1 <= n THEN n - 1 + 1 ELSE 0
        /\ \A i \in 1..(n - 1 + 1) : SubSeq(s, 1, n)[i] = s[1 + i - 1]
    BY <2>1, SubSeqProperties
  <2>3. QED
    BY <1>1, <2>2
<1>3. /\ Len(SubSeq(s, n + 1, Len(s))) = Len(s) - n
      /\ \A i \in 1..(Len(s) - n) : SubSeq(s, n + 1, Len(s))[i] = s[n + i]
  <2>1. /\ n + 1 \in Int /\ Len(s) \in Int
        /\ \A i \in (n + 1)..Len(s) : s[i] \in S
    BY <1>1, ElementOfSeq
  <2>2. /\ Len(SubSeq(s, n + 1, Len(s))) =
               IF n + 1 <= Len(s) THEN Len(s) - (n + 1) + 1 ELSE 0
        /\ \A i \in 1..(Len(s) - (n + 1) + 1) :
               SubSeq(s, n + 1, Len(s))[i] = s[n + 1 + i - 1]
    BY <2>1, SubSeqProperties
  <2>3. QED
    BY <1>1, <2>2
<1>4. QED
  BY <1>1, <1>2, <1>3

LEMMA HeldInPieces ==
    ASSUME NEW S, NEW s \in Seq(S), NEW n \in 1..Len(s)
    PROVE  /\ Held(SubSeq(s, 1, n)) \subseteq Held(s)
           /\ Held(SubSeq(s, n + 1, Len(s))) \subseteq Held(s)
<1>1. ASSUME NEW t, Len(t) = n, \A i \in 1..n : t[i] = s[i]
      PROVE  Held(t) \subseteq Held(s)
  <2>1. \A i \in 1..Len(t) : i \in 1..Len(s) /\ t[i] = s[i]
    BY <1>1, ChannelInTwo
  <2>2. QED
    BY <2>1 DEF Held
<1>2. ASSUME NEW t, Len(t) = Len(s) - n,
             \A i \in 1..(Len(s) - n) : t[i] = s[n + i]
      PROVE  Held(t) \subseteq Held(s)
  <2>1. \A i \in 1..Len(t) : n + i \in 1..Len(s) /\ t[i] = s[n + i]
    BY <1>2, ChannelInTwo
  <2>2. QED
    BY <2>1 DEF Held
<1>3. PICK b, r : b = SubSeq(s, 1, n) /\ r = SubSeq(s, n + 1, Len(s))
  OBVIOUS
<1>4. Len(b) = n /\ \A i \in 1..n : b[i] = s[i]
  BY <1>3, ChannelInTwo
<1>5. Len(r) = Len(s) - n /\ \A i \in 1..(Len(s) - n) : r[i] = s[n + i]
  BY <1>3, ChannelInTwo
<1>6. Held(b) \subseteq Held(s) /\ Held(r) \subseteq Held(s)
  BY <1>1, <1>2, <1>4, <1>5
<1>7. QED
  BY <1>3, <1>6

\* The cut is made before the first notification.
LEMMA CutBeforeNews ==
    ASSUME NEW S, NEW s \in Seq(S), NEW n \in 1..Len(s),
           \A p \in Held(SubSeq(s, 1, n)) : ~IsNews(p)
    PROVE  LET rest == SubSeq(s, n + 1, Len(s)) IN
           /\ \A pn : AfterNews(s, pn) =>
                /\ pn \notin Responded(Held(SubSeq(s, 1, n)))
                /\ AfterNews(rest, pn)
           /\ HasNews(s) => HasNews(rest)
<1>. DEFINE b == SubSeq(s, 1, n)
            r == SubSeq(s, n + 1, Len(s))
<1>1. Len(s) \in Nat /\ n \in Nat
  BY ChannelInTwo
<1>2. Len(b) = n /\ \A i \in 1..n : b[i] = s[i]
  BY ChannelInTwo
<1>3. Len(r) = Len(s) - n /\ \A i \in 1..(Len(s) - n) : r[i] = s[n + i]
  BY ChannelInTwo
<1>4. \A i \in 1..n : ~IsNews(s[i])
  BY <1>2, HeldMember
<1>. HIDE DEF b, r
<1>5. ASSUME NEW pn, AfterNews(s, pn)
      PROVE  pn \notin Responded(Held(b)) /\ AfterNews(r, pn)
  <2>1. pn \notin Responded(Held(b))
    <3>. SUFFICES ASSUME NEW p \in Held(b), IsResponse(p), p.pn = pn
                  PROVE  FALSE
      BY DEF Responded
    <3>1. PICK i \in 1..Len(b) : b[i] = p
      BY HeldMember
    <3>2. i \in 1..Len(s) /\ s[i] = p /\ \A j \in 1..(i - 1) : j \in 1..n
      BY <1>1, <1>2, <3>1
    <3>3. \E j \in 1..(i - 1) : IsNews(s[j])
      BY <1>5, <3>2 DEF AfterNews
    <3>4. QED
      BY <1>4, <3>2, <3>3
  <2>2. ASSUME NEW i \in 1..Len(r), IsResponse(r[i]), r[i].pn = pn
        PROVE  \E j \in 1..(i - 1) : IsNews(r[j])
    <3>1. n + i \in 1..Len(s) /\ r[i] = s[n + i]
      BY <1>1, <1>3
    <3>2. PICK j \in 1..(n + i - 1) : IsNews(s[j])
      BY <1>5, <2>2, <3>1 DEF AfterNews
    <3>3. ~(j \in 1..n)
      BY <1>4, <3>2
    <3>4. j - n \in 1..(i - 1) /\ r[j - n] = s[j]
      BY <1>1, <1>3, <3>3
    <3>5. QED
      BY <3>2, <3>4
  <2>3. QED
    BY <2>1, <2>2 DEF AfterNews
<1>6. ASSUME HasNews(s)
      PROVE  HasNews(r)
  <2>1. PICK i \in 1..Len(s) : IsNews(s[i])
    BY <1>6 DEF HasNews
  <2>2. ~(i \in 1..n)
    BY <1>4, <2>1
  <2>3. i - n \in 1..Len(r) /\ r[i - n] = s[i]
    BY <1>1, <1>3, <2>2
  <2>4. QED
    BY <2>1, <2>3 DEF HasNews
<1>7. QED
  BY <1>5, <1>6 DEF b, r

------------------------------------------------------------------------------
(* A step of a client keeps the invariant                                  *)

\* What a client holds came out of its channel.
LEMMA InsideShrinks ==
    ASSUME "split" \notin Faults, SystemInv, NEW c \in Connection,
           ClientThread(c), Inside(c) \subseteq Current(c)
    PROVE  Inside(c)' \subseteq Inside(c)
<1>1. Inside(c)' = (Held(toClient'[c]) \cup Batched(stack'[c]))
                       \cup Kept(serverMessages'[c])
  BY DEF Inside, Held, Batched, Kept
<1>2. CASE Quiet(c)
  BY <1>1, <1>2 DEF Quiet, Inside
<1>3. CASE Takes(c)
  <2>. DEFINE s == toClient[c]
  <2>1. PICK n \in 1..Len(s) : TakesBatch(c, n)
    BY <1>3 DEF Takes
  <2>2. /\ toClient'[c] = SubSeq(s, n + 1, Len(s))
        /\ Batched(stack'[c]) = Held(SubSeq(s, 1, n)) \cup Batched(stack[c])
    BY <2>1 DEF TakesBatch
  <2>3. toClient[c] \in Seq(Replies(c) \cup {TAIL})
    BY DEF SystemInv, Good, IsChannel
  <2>4. Held(SubSeq(s, 1, n)) \subseteq Held(s)
        /\ Held(SubSeq(s, n + 1, Len(s))) \subseteq Held(s)
    <3>. HIDE DEF s
    <3>1. s \in Seq(Replies(c) \cup {TAIL})
      BY <2>3 DEF s
    <3>2. QED
      BY <3>1, HeldInPieces
  <2>5. Kept(serverMessages'[c]) \subseteq Kept(serverMessages[c])
    BY <1>3 DEF Takes, MailLess
  <2>. HIDE DEF s
  <2>6. Held(toClient'[c]) \subseteq Held(toClient[c])
        /\ Batched(stack'[c]) \subseteq Held(toClient[c]) \cup Batched(stack[c])
    BY <2>2, <2>4 DEF s
  <2>7. QED
    BY <1>1, <2>5, <2>6 DEF Inside
<1>4. QED
  BY <1>2, <1>3, ClientPackets

\* A client does not touch what saveEvent has told.
LEMMA ClientLinks ==
    ASSUME NEW c \in Connection, ClientThread(c), UNCHANGED serverVars
    PROVE  /\ UNCHANGED <<linkUp, serverValid, handshake, table>>
           /\ \A d : Told(d)' = Told(d)
<1>1. UNCHANGED <<linkUp, serverValid, handshake>>
  BY DEF ClientThread, InCall, ClientStep, UserCall, OnDataArrived, SaveMessage,
     FireNewEventCallback, DropMessage, EndDrain, Poll, TakeResponses, Leave,
     Return, Timeout, ClientNotices, transportVars
<1>2. UNCHANGED <<table, pc, serving, pending>>
  BY DEF serverVars, handlerVars
<1>3. QED
  BY <1>1, <1>2 DEF Told

\* A row that a client step leaves hidden was so before, and the step takes
\* no notification from the channel.
LEMMA HiddenBefore ==
    ASSUME "split" \notin Faults, SystemInv, UNCHANGED serverVars,
           NEW c \in Connection, ClientThread(c), Inside(c) \subseteq Current(c),
           CountsRight(c), c \notin Views => cachedRowCount[c] = NoValue,
           NEW k \in 1..Len(table), Hidden(c, k)'
    PROVE  /\ Hidden(c, k)
           /\ \A p \in Batched(stack'[c]) : ~IsNews(p)
           /\ c \in Views /\ cachedRowCount'[c] # NoValue
<1>1. /\ table[k].from = c /\ cachedRowCount'[c] # NoValue
      /\ ~(k <= cachedRowCount'[c])
      /\ \A p \in Batched(stack'[c]) : ~IsNews(p)
  BY DEF Hidden, Batched, Held, IsNews, serverVars
<1>2. cachedRowCount'[c] = cachedRowCount[c]
  <2>1. ASSUME NEW f \in CallsIn(stack[c]), f.request.op = "number", f.answer.ok,
               cachedRowCount'[c] = f.answer.number
        PROVE  FALSE
    BY <1>1, <2>1 DEF CountsRight, CoversAll
  <2>2. QED
    BY <1>1, <2>1, RowCountMoves
<1>3. c \in Views
  BY <1>1, <1>2
<1>4. \A p \in Batched(stack[c]) : ~IsNews(p)
  <2>1. CASE Quiet(c)
    BY <1>1, <1>3, <2>1 DEF Quiet
  <2>2. CASE Takes(c)
    BY <1>1, <2>2 DEF Takes, TakesBatch
  <2>3. QED
    BY <2>1, <2>2, ClientPackets
<1>5. QED
  BY <1>1, <1>2, <1>3, <1>4 DEF Hidden

\* No notification comes late: what a client hears in a step it has taken out
\* of its channel before the first notification there.
LEMMA ClientKeepsNews ==
    ASSUME "split" \notin Faults, SystemInv, UNCHANGED serverVars, RecordHistory,
           NEW c \in Connection, ClientThread(c), Inside(c) \subseteq Current(c),
           CountsRight(c), c \notin Views => cachedRowCount[c] = NoValue,
           ConfirmedNow(c) \subseteq confirmed[c], NewsFirst(c)
    PROVE  NewsFirst(c)'
<1>1. table' = table /\ Told(c)' = Told(c)
  BY ClientLinks
<1>. SUFFICES ASSUME NEW k \in 1..Len(table), Hidden(c, k)'
              PROVE  /\ table[k].pn \notin Heard(c)'
                     /\ AfterNews(toClient'[c], table[k].pn)
                     /\ Told(c) => HasNews(toClient'[c])
  BY <1>1 DEF NewsFirst, AfterNews, HasNews
<1>. DEFINE pn == table[k].pn
<1>2. /\ Hidden(c, k) /\ \A p \in Batched(stack'[c]) : ~IsNews(p)
  BY HiddenBefore
<1>3. /\ pn \notin Heard(c) /\ AfterNews(toClient[c], pn)
      /\ Told(c) => HasNews(toClient[c])
  BY <1>2 DEF NewsFirst
<1>. HIDE DEF pn
<1>4. Heard(c)' = (confirmed'[c] \cup Mailed(c)') \cup Responded(Batched(stack'[c]))
  BY DEF Heard, Responded, Batched, Held, IsResponse
<1>5. confirmed'[c] \subseteq Heard(c)
  <2>1. confirmed'[c] = confirmed[c] \cup ConfirmedNow(c)'
    BY DEF RecordHistory
  <2>2. ConfirmedNow(c)' \subseteq ConfirmedNow(c) \cup Mailed(c)
    BY ConfirmedMoves
  <2>3. QED
    BY <2>1, <2>2 DEF Heard
<1>6. CASE Quiet(c)
  <2>1. Mailed(c)' \subseteq Heard(c) /\ toClient'[c] = toClient[c]
        /\ Batched(stack'[c]) \subseteq Batched(stack[c])
    BY <1>6 DEF Quiet, Heard
  <2>2. Responded(Batched(stack'[c])) \subseteq Heard(c)
    BY <2>1 DEF Responded, Heard
  <2>3. QED
    BY <1>3, <1>4, <1>5, <2>1, <2>2 DEF pn
<1>7. CASE Takes(c)
  <2>. DEFINE s == toClient[c]
  <2>1. PICK n \in 1..Len(s) : TakesBatch(c, n)
    BY <1>7 DEF Takes
  <2>. DEFINE b == SubSeq(s, 1, n)
  <2>2. /\ toClient'[c] = SubSeq(s, n + 1, Len(s))
        /\ Batched(stack'[c]) = Held(b) \cup Batched(stack[c])
        /\ Mailed(c)' \subseteq Mailed(c)
    BY <1>7, <2>1 DEF TakesBatch, Takes, MailLess
  <2>3. s \in Seq(Replies(c) \cup {TAIL})
    BY DEF SystemInv, Good, IsChannel
  <2>4. \A p \in Held(b) : ~IsNews(p)
    BY <1>2, <2>2
  <2>5. /\ \A q : AfterNews(s, q) =>
             /\ q \notin Responded(Held(b))
             /\ AfterNews(SubSeq(s, n + 1, Len(s)), q)
        /\ HasNews(s) => HasNews(SubSeq(s, n + 1, Len(s)))
    BY <2>3, <2>4, CutBeforeNews
  <2>. HIDE DEF s, b
  <2>6. Responded(Batched(stack'[c])) \subseteq Responded(Held(b)) \cup Heard(c)
    BY <2>2 DEF Responded, Heard
  <2>7. pn \notin Responded(Held(b)) /\ AfterNews(toClient'[c], pn)
        /\ (Told(c) => HasNews(toClient'[c]))
    BY <1>3, <2>2, <2>5 DEF s
  <2>8. Mailed(c)' \subseteq Heard(c)
    BY <2>2 DEF Heard
  <2>9. QED
    BY <1>3, <1>4, <1>5, <2>6, <2>7, <2>8 DEF pn
<1>8. QED
  BY <1>6, <1>7, ClientPackets

\* What a step of c does not touch keeps its part of the invariant.
LEMMA SameCounting ==
    ASSUME SystemInv, RowsFromEvents, table' = table, NEW d \in Connection,
           SameEvents(d), Counting(d), RecordHistory,
           packetCounter'[d] = packetCounter[d],
           handshake'[d] = handshake[d], linkUp'[d] = linkUp[d],
           toClient'[d] = toClient[d], stack'[d] = stack[d],
           serverMessages'[d] = serverMessages[d],
           cachedRowCount'[d] = cachedRowCount[d],
           Told(d)' => Told(d)
    PROVE  Counting(d)'
<1>. USE DEF Counting
<1>1. Closed(d)'
  BY DEF Closed
<1>2. Inside(d)' \subseteq Current(d)'
  <2>1. Inside(d)' = Inside(d)
    BY DEF Inside, Held, Batched, Kept
  <2>2. Current(d) \subseteq Current(d)'
    BY CurrentGrows DEF SameEvents, NewerEvents
  <2>3. QED
    BY <2>1, <2>2
<1>3. CountsRight(d)'
  BY CountsKept DEF CountsRight
<1>4. ConfirmedNow(d)' = ConfirmedNow(d)
  BY DEF ConfirmedNow, Frames, Answered
<1>5. confirmed'[d] = confirmed[d]
  BY <1>4 DEF RecordHistory
<1>6. NewsFirst(d)'
  <2>1. Heard(d)' = Heard(d)
    BY <1>5 DEF Heard, Mailed, Expecting, Responded, Batched, Held, IsResponse
  <2>2. \A k : Hidden(d, k)' = Hidden(d, k)
    BY DEF Hidden, Batched, Held, IsNews
  <2>3. QED
    BY <2>1, <2>2 DEF NewsFirst, AfterNews, HasNews
<1>7. QED
  BY <1>1, <1>2, <1>3, <1>4, <1>5, <1>6

LEMMA ClientKeepsCounting ==
    ASSUME "split" \notin Faults, SystemInv, LogInv, UNCHANGED serverVars,
           RecordHistory, NEW c \in Connection, ClientThread(c), Counting(c)
    PROVE  Counting(c)'
<1>1. /\ Inside(c) \subseteq Current(c) /\ CountsRight(c) /\ NewsFirst(c)
      /\ ConfirmedNow(c) \subseteq confirmed[c]
      /\ c \notin Views => cachedRowCount[c] = NoValue
  BY DEF Counting
<1>2. handshake[c] # NoHandshake /\ handshake' = handshake
  BY UnopenedRests DEF LogInv
<1>3. Closed(c)'
  BY <1>2 DEF Closed
<1>4. Inside(c)' \subseteq Current(c)'
  <2>1. RowsFromEvents /\ NewerEvents(c)
    BY ClientEvents DEF NewerEvents
  <2>2. packetCounter'[c] \in {packetCounter[c], packetCounter[c] + 1}
    BY ClientMoves DEF Moves, Grows
  <2>3. Current(c) \subseteq Current(c)'
    BY <1>2, <2>1, <2>2, CurrentGrows
  <2>4. Inside(c)' \subseteq Inside(c)
    BY <1>1, InsideShrinks
  <2>5. QED
    BY <1>1, <2>3, <2>4
<1>5. CountsRight(c)'
  BY <1>1, ClientKeepsCounts
<1>6. ConfirmedNow(c)' \subseteq confirmed'[c]
  BY DEF RecordHistory
<1>7. NewsFirst(c)'
  BY <1>1, ClientKeepsNews
<1>8. c \notin Views => cachedRowCount'[c] = NoValue
  BY <1>1, RowCountMoves
<1>9. QED
  BY <1>3, <1>4, <1>5, <1>6, <1>7, <1>8 DEF Counting

LEMMA ClientKeepsCountInv ==
    ASSUME "split" \notin Faults, SystemInv, LogInv, CountInv,
           UNCHANGED serverVars, RecordHistory, NEW c \in Connection, ClientThread(c)
    PROVE  CountInv'
<1>1. ServedRegistered'
  BY DEF CountInv, ServedRegistered, serverVars, handlerVars
<1>2. Counting(c)'
  BY ClientKeepsCounting DEF CountInv
<1>3. ASSUME NEW d \in Connection \ {c}
      PROVE  Counting(d)'
  <2>1. /\ UNCHANGED <<linkUp, serverValid, handshake, table>> /\ Told(d)' = Told(d)
    BY ClientLinks
  <2>2. /\ packetCounter'[d] = packetCounter[d] /\ toClient'[d] = toClient[d]
        /\ stack'[d] = stack[d] /\ serverMessages'[d] = serverMessages[d]
    BY ClientMoves DEF Moves, OthersKept
  <2>3. cachedRowCount'[d] = cachedRowCount[d]
    BY RowCountMoves
  <2>4. RowsFromEvents /\ SameEvents(d)
    BY ClientEvents DEF SameEvents
  <2>5. Counting(d)
    BY DEF CountInv
  <2>6. QED
    BY <2>1, <2>2, <2>3, <2>4, <2>5, SameCounting
<1>4. QED
  BY <1>1, <1>2, <1>3 DEF CountInv
------------------------------------------------------------------------------
(* A step of the server or the network keeps the invariant                 *)

LEMMA ServerKeepsRegistered ==
    ASSUME ServedRegistered, Server \/ Network
    PROVE  ServedRegistered'
<1>. USE DEF ServedRegistered
<1>1. CASE CheckProtocolsExecutors
  BY <1>1 DEF CheckProtocolsExecutors, Unregistered, handlerVars
<1>2. ASSUME NEW c \in Connection, Handshake(c)
      PROVE  ServedRegistered'
  BY <1>2 DEF Handshake, handlerVars
<1>3. CASE Crash
  BY <1>3 DEF Crash
<1>4. ASSUME NEW c \in Connection, OnNewDataReceived(c)
      PROVE  ServedRegistered'
  BY <1>4 DEF OnNewDataReceived
<1>5. ASSUME NEW c \in Connection, LinkBreaks(c) \/ ServerNotices(c)
      PROVE  ServedRegistered'
  BY <1>5 DEF LinkBreaks, ServerNotices, serverVars, handlerVars
<1>6. CASE ServerStep
  <2>1. UNCHANGED <<callbacks, executors>>
    BY <1>6 DEF ServerStep, IgnorePacket, OnSendEvent, OnNewEventSaved, SendAck,
       ReceiveAgain, OnSavedEventsRequest, SendSavedEvent, AbandonReply,
       OnNumberOfSavedEventsRequest
  <2>2. pc # "idle" /\ (pc' = "idle" \/ serving' = serving)
    BY <1>6 DEF ServerStep, IgnorePacket, OnSendEvent, OnNewEventSaved, SendAck,
       ReceiveAgain, OnSavedEventsRequest, SendSavedEvent, AbandonReply,
       OnNumberOfSavedEventsRequest, Dispatching, NextPacket, StorageFails
  <2>3. QED
    BY <2>1, <2>2
<1>7. QED
  BY <1>1, <1>2, <1>3, <1>4, <1>5, <1>6 DEF Server, Network

\* The callback of the client that is served runs last or not: when it has
\* run, its notification is in the channel.
LEMMA ToldSteps ==
    ASSUME "storage" \notin Faults, SystemInv, ServedRegistered,
           Server \/ Network, NEW c \in Connection, Told(c)'
    PROVE  /\ table' = table
           /\ \/ Told(c) /\ toClient'[c] = toClient[c]
              \/ \E p \in ServerPacket :
                   IsNews(p) /\ toClient'[c] = Append(toClient[c], p)
<1>1. /\ pc' = "notify" /\ serving' = c /\ c \notin pending'
      /\ serverValid'[c] /\ linkUp'[c]
  BY DEF Told
<1>2. CASE OnSendEvent
  <2>1. pending' = callbacks /\ serving' = serving /\ pc = "dispatch"
    BY <1>1, <1>2 DEF OnSendEvent, CallbacksToRun, StorageFails, NextPacket,
       Dispatching
  <2>2. QED
    BY <1>1, <2>1 DEF ServedRegistered
<1>3. ASSUME NEW d \in Connection, OnNewEventSaved(d)
      PROVE  /\ table' = table
             /\ \/ Told(c) /\ toClient'[c] = toClient[c]
                \/ \E p \in ServerPacket :
                     IsNews(p) /\ toClient'[c] = Append(toClient[c], p)
  <2>. DEFINE p == NewEventsNotification(handshake[d], NotifiedNumber)
  <2>1. /\ pc = "notify" /\ serving = c /\ pending' = pending \ {d}
        /\ UNCHANGED <<table, serverValid, linkUp>>
        /\ toClient' = Sent(toClient, serverValid, d, p)
    BY <1>1, <1>3 DEF OnNewEventSaved, Send
  <2>2. IsNews(p) /\ p \in ServerPacket
    <3>1. handshake[d] \in Nat /\ Len(table) \in Nat
      BY LenProperties DEF SystemInv, CoreInv, LinksOK, StorageOK
    <3>2. QED
      BY <3>1 DEF IsNews, NewEventsNotification, NotifiedNumber,
         GetNumberOfEvents, ServerPacket
  <2>. HIDE DEF p
  <2>3. toClient = [e \in Connection |-> toClient[e]]
    BY DEF SystemInv, PerClient
  <2>4. CASE d = c
    <3>1. toClient'[c] = Append(toClient[c], p)
      BY <1>1, <2>1, <2>3, <2>4 DEF Sent
    <3>2. QED
      BY <2>1, <2>2, <3>1
  <2>5. CASE d # c
    <3>1. toClient'[c] = toClient[c]
      BY <2>1, <2>3, <2>5 DEF Sent
    <3>2. Told(c)
      BY <1>1, <2>1, <2>5 DEF Told
    <3>3. QED
      BY <2>1, <3>1, <3>2
  <2>6. QED
    BY <2>4, <2>5
<1>4. ASSUME NEW d \in Connection, LinkBreaks(d) \/ ServerNotices(d)
      PROVE  table' = table /\ Told(c) /\ toClient'[c] = toClient[c]
  <2>1. /\ UNCHANGED <<table, pc, serving, pending, toClient>>
        /\ linkUp' = [linkUp EXCEPT ![d] = FALSE] \/ linkUp' = linkUp
        /\ serverValid' = [serverValid EXCEPT ![d] = FALSE]
               \/ serverValid' = serverValid
    BY <1>4 DEF LinkBreaks, ServerNotices, serverVars, handlerVars
  <2>2. linkUp \in [Connection -> BOOLEAN] /\ serverValid \in [Connection -> BOOLEAN]
    BY DEF SystemInv, CoreInv, LinksOK
  <2>3. linkUp[c] /\ serverValid[c]
    BY <1>1, <2>1, <2>2
  <2>4. QED
    BY <1>1, <2>1, <2>3 DEF Told
<1>5. CASE /\ ~OnSendEvent
           /\ \A d \in Connection :
                ~OnNewEventSaved(d) /\ ~LinkBreaks(d) /\ ~ServerNotices(d)
  BY <1>1, <1>5 DEF Server, ServerStep, Network, IgnorePacket, SendAck,
     ReceiveAgain, OnSavedEventsRequest, SendSavedEvent, AbandonReply,
     OnNumberOfSavedEventsRequest, CheckProtocolsExecutors, Handshake,
     OnNewDataReceived, Crash, NextPacket, StorageFails, handlerVars
<1>6. QED
  BY <1>2, <1>3, <1>4, <1>5

\* Nothing that a client has heard, or is about to hear, is a response to an
\* event that is yet to be saved.
LEMMA HeardIsOld ==
    ASSUME SystemInv, OrderInv, NEW c \in Connection, Inside(c) \subseteq Current(c),
           pc = "dispatch", serving = c, Head(stream).type = "SendEvent"
    PROVE  /\ Head(stream).pn \notin Heard(c)
           /\ AfterNews(toClient[c], Head(stream).pn)
<1>. DEFINE n == Head(stream).pn
            e == EventOf(Head(stream))
<1>1. stream \in Seq(ClientPacket) /\ stream # <<>> /\ stream \in Seq(Asked(c))
  BY DEF SystemInv, CoreInv, HandlerOK, Good
<1>2. n \in Nat
  <2>1. Head(stream) \in Asked(c)
    BY <1>1, PopProperties
  <2>2. QED
    BY <2>1, OwnNumbers DEF Asked
<1>3. e \in EventsInTransit /\ e.from = c /\ e.pn = n
  <2>1. e \in EventsIn(stream, serving)
    BY <1>1, EventsPopped DEF EventOf
  <2>2. QED
    BY <2>1 DEF EventsInTransit, Unsaved, EventOf
<1>. HIDE DEF n, e
<1>4. ~Settled(c, n)
  BY <1>2, <1>3 DEF Settled
<1>5. \A p \in Inside(c) : ~(IsResponse(p) /\ p.pn = n)
  BY <1>4 DEF Current
<1>6. n \notin confirmed[c]
  <2>. SUFFICES ASSUME n \in confirmed[c] PROVE FALSE
    OBVIOUS
  <2>1. n \in SavedNumbers(c)
    <3>1. Saved(c, n)
      BY DEF SystemInv, Good
    <3>2. QED
      BY <3>1 DEF Saved, SavedNumbers
  <2>2. Todo(c) = stream
    BY DEF Todo
  <2>3. Before(SavedNumbers(c), Numbers(stream)) /\ Ascends(stream)
    BY <2>2 DEF OrderInv, OrderOf
  <2>4. n \in Numbers(stream)
    BY <1>1, <2>3, TailOrder DEF n
  <2>5. n < n
    BY <2>1, <2>3, <2>4 DEF Before
  <2>6. QED
    BY <1>2, <2>5
<1>7. n \notin Mailed(c)
  <2>. SUFFICES ASSUME n \in Mailed(c) PROVE FALSE
    OBVIOUS
  <2>1. n \in Expecting(c) /\ serverMessages[c][n] # <<>>
        /\ serverMessages[c][n] \in Seq(Mail(c, n))
    BY DEF Mailed, SystemInv, Good
  <2>. DEFINE h == Head(serverMessages[c][n])
  <2>2. h \in Mail(c, n) /\ h \in Held(serverMessages[c][n])
    BY <2>1, PopProperties, HeldPopped
  <2>. HIDE DEF h
  <2>3. h \in Inside(c)
    BY <2>1, <2>2, KeptMember DEF Inside, Expecting
  <2>4. QED
    BY <1>5, <2>2, <2>3 DEF Mail
<1>8. n \notin Responded(Batched(stack[c]))
  BY <1>5 DEF Responded, Inside
<1>9. AfterNews(toClient[c], n)
  BY <1>5 DEF AfterNews, Inside, Held
<1>10. QED
  BY <1>6, <1>7, <1>8, <1>9 DEF Heard, n

\* A packet goes in at the end of the channel.
LEMMA NewsAppended ==
    ASSUME NEW S, NEW s \in Seq(S), NEW p \in S
    PROVE  /\ IsNews(p) \/ HasNews(s) => HasNews(Append(s, p))
           /\ \A pn : /\ AfterNews(s, pn)
                      /\ (IsResponse(p) /\ p.pn = pn) => HasNews(s)
                      => AfterNews(Append(s, p), pn)
<1>1. PICK t : t = Append(s, p)
  OBVIOUS
<1>2. /\ Len(s) \in Nat /\ Len(t) = Len(s) + 1 /\ t[Len(s) + 1] = p
      /\ \A i \in 1..Len(s) : t[i] = s[i]
  BY <1>1, AppendProperties, LenProperties
<1>3. /\ Len(s) + 1 \in 1..Len(t)
      /\ \A i \in 1..Len(s) : i \in 1..Len(t)
      /\ \A i \in 1..Len(t) : i \in 1..Len(s) \/ i = Len(s) + 1
  BY <1>2
<1>4. IsNews(p) \/ HasNews(s) => HasNews(t)
  BY <1>2, <1>3 DEF HasNews
<1>5. ASSUME NEW pn, AfterNews(s, pn), (IsResponse(p) /\ p.pn = pn) => HasNews(s),
             NEW i \in 1..Len(t), IsResponse(t[i]), t[i].pn = pn
      PROVE  \E j \in 1..(i - 1) : IsNews(t[j])
  <2>1. CASE i \in 1..Len(s)
    <3>1. PICK j \in 1..(i - 1) : IsNews(s[j])
      BY <1>2, <1>5, <2>1 DEF AfterNews
    <3>2. j \in 1..Len(s)
      BY <1>2, <2>1
    <3>3. QED
      BY <1>2, <3>1, <3>2
  <2>2. CASE i = Len(s) + 1
    <3>1. PICK j \in 1..Len(s) : IsNews(s[j])
      BY <1>2, <1>5, <2>2 DEF HasNews
    <3>2. j \in 1..(i - 1)
      BY <1>2, <2>2
    <3>3. QED
      BY <1>2, <3>1, <3>2
  <2>3. QED
    BY <1>3, <2>1, <2>2
<1>6. \A pn : /\ AfterNews(s, pn)
              /\ (IsResponse(p) /\ p.pn = pn) => HasNews(s)
              => AfterNews(t, pn)
  BY <1>5 DEF AfterNews
<1>7. QED
  BY <1>1, <1>4, <1>6

\* A response of the server to an event that its client does not see yet is
\* its acknowledgement, and the notification has gone before.
LEMMA AnswerAfterNews ==
    ASSUME SystemInv, OrderInv, Server \/ Network,
           NEW c \in Connection, NEW p \in ServerPacket,
           Due(c, p), IsResponse(p), toClient' = Sent(toClient, serverValid, c, p),
           toClient'[c] # toClient[c], NEW k \in 1..Len(table), table[k].from = c,
           table[k].pn = p.pn
    PROVE  Told(c)
<1>1. c = serving /\ p.pn = Head(stream).pn
  BY AnsweredInOrder
<1>2. p.pn \in Nat
  BY ResponseFields
<1>3. pc = "notify"
  <2>. SUFFICES ASSUME pc # "notify" PROVE FALSE
    OBVIOUS
  <2>1. pc \in {"dispatch", "respond"}
    BY DEF Due, IsResponse
  <2>2. stream \in Seq(ClientPacket) /\ stream # <<>>
    BY <2>1 DEF SystemInv, CoreInv, HandlerOK
  <2>3. Todo(c) = stream
    BY <1>1, <2>1 DEF Todo
  <2>4. Before(SavedNumbers(c), Numbers(stream)) /\ Ascends(stream)
    BY <2>3 DEF OrderInv, OrderOf
  <2>5. p.pn \in Numbers(stream)
    BY <1>1, <2>2, <2>4, TailOrder
  <2>6. p.pn \in SavedNumbers(c)
    BY DEF SavedNumbers
  <2>7. p.pn < p.pn
    BY <2>4, <2>5, <2>6 DEF Before
  <2>8. QED
    BY <1>2, <2>7
<1>4. serverValid[c] /\ linkUp[c]
  BY DEF Sent
<1>5. toClient = [e \in Connection |-> toClient[e]]
  BY DEF SystemInv, PerClient
<1>6. pending = {}
  <2>1. CASE SendAck
    BY <2>1 DEF SendAck
  <2>2. ASSUME NEW d \in Connection, OnNewEventSaved(d)
        PROVE  FALSE
    <3>. DEFINE q == NewEventsNotification(handshake[d], NotifiedNumber)
    <3>1. toClient' = Sent(toClient, serverValid, d, q)
      BY <2>2 DEF OnNewEventSaved, Send
    <3>2. ~IsResponse(q) /\ q # p
      BY DEF IsResponse, NewEventsNotification
    <3>. HIDE DEF q
    <3>3. toClient'[c] = Append(toClient[c], q)
      BY <1>5, <3>1 DEF Sent
    <3>4. toClient'[c] = Append(toClient[c], p)
      BY <1>5 DEF Sent
    <3>5. \A x : Append(toClient[c], x)[Len(toClient[c]) + 1] = x
      <4>. SUFFICES ASSUME NEW x
                    PROVE  Append(toClient[c], x)[Len(toClient[c]) + 1] = x
        OBVIOUS
      <4>. DEFINE T == Replies(c) \cup {TAIL, x}
      <4>1. toClient[c] \in Seq(Replies(c) \cup {TAIL})
        BY DEF SystemInv, Good, IsChannel
      <4>2. toClient[c] \in Seq(T)
        BY <4>1, SeqElements, ElementOfSeq
      <4>. HIDE DEF T
      <4>3. x \in T
        BY DEF T
      <4>4. QED
        BY <4>2, <4>3, AppendProperties
    <3>6. /\ Append(toClient[c], q)[Len(toClient[c]) + 1] = q
          /\ Append(toClient[c], p)[Len(toClient[c]) + 1] = p
      BY <3>5
    <3>7. Append(toClient[c], q) = Append(toClient[c], p)
      BY <3>3, <3>4
    <3>8. QED
      BY <3>2, <3>6, <3>7
  <2>3. SendAck \/ \E d \in Connection : OnNewEventSaved(d)
    BY <1>3 DEF Server, ServerStep, Network, IgnorePacket, OnSendEvent, Dispatching,
       ReceiveAgain, OnSavedEventsRequest, SendSavedEvent, AbandonReply,
       OnNumberOfSavedEventsRequest, CheckProtocolsExecutors, Handshake,
       OnNewDataReceived, Crash, LinkBreaks, ServerNotices, transportVars
  <2>4. QED
    BY <2>1, <2>2, <2>3
<1>7. QED
  BY <1>1, <1>3, <1>4, <1>6 DEF Told

\* A row stays hidden only behind a notification.
LEMMA ServerKeepsNews ==
    ASSUME "storage" \notin Faults, SystemInv, OrderInv, ServedRegistered,
           Server \/ Network, UNCHANGED clientVars, RecordHistory,
           NEW c \in Connection, Inside(c) \subseteq Current(c),
           ConfirmedNow(c) \subseteq confirmed[c], NewsFirst(c)
    PROVE  NewsFirst(c)'
<1>1. /\ UNCHANGED <<serverMessages, stack, cachedRowCount>>
      /\ toClient[c] \in Seq(Replies(c) \cup {TAIL})
  BY DEF clientVars, SystemInv, Good, IsChannel
<1>2. Heard(c)' = Heard(c)
  <2>1. ConfirmedNow(c)' = ConfirmedNow(c)
    BY <1>1 DEF ConfirmedNow, Frames, Answered
  <2>2. confirmed'[c] = confirmed[c]
    BY <2>1 DEF RecordHistory
  <2>3. QED
    BY <1>1, <2>2 DEF Heard, Mailed, Expecting, Responded, Batched, Held, IsResponse
<1>3. \/ toClient'[c] = toClient[c]
      \/ \E p \in ServerPacket :
           /\ Due(c, p) /\ toClient' = Sent(toClient, serverValid, c, p)
           /\ toClient'[c] = Append(toClient[c], p)
           /\ toClient'[c] # toClient[c]
  BY ServerSends DEF Sent, SystemInv, PerClient
<1>4. ASSUME NEW k \in 1..Len(table), Hidden(c, k)
      PROVE  /\ table[k].pn \notin Heard(c)
             /\ AfterNews(toClient'[c], table[k].pn)
             /\ Told(c)' => HasNews(toClient'[c])
  <2>1. /\ table[k].pn \notin Heard(c) /\ AfterNews(toClient[c], table[k].pn)
        /\ Told(c) => HasNews(toClient[c])
    BY <1>4 DEF NewsFirst
  <2>2. AfterNews(toClient'[c], table[k].pn)
    <3>1. CASE toClient'[c] = toClient[c]
      BY <2>1, <3>1
    <3>2. ASSUME NEW p \in ServerPacket, Due(c, p),
                 toClient' = Sent(toClient, serverValid, c, p),
                 toClient'[c] = Append(toClient[c], p), toClient'[c] # toClient[c]
          PROVE  AfterNews(toClient'[c], table[k].pn)
      <4>1. (IsResponse(p) /\ p.pn = table[k].pn) => HasNews(toClient[c])
        BY <1>4, <2>1, <3>2, AnswerAfterNews DEF Hidden
      <4>2. toClient[c] \in Seq(Replies(c) \cup {TAIL, p})
        BY <1>1, SeqElements, ElementOfSeq
      <4>3. AfterNews(Append(toClient[c], p), table[k].pn)
        BY <2>1, <4>1, <4>2, NewsAppended
      <4>4. QED
        BY <3>2, <4>3
    <3>3. QED
      BY <1>3, <3>1, <3>2
  <2>3. ASSUME Told(c)'
        PROVE  HasNews(toClient'[c])
    <3>1. CASE Told(c) /\ toClient'[c] = toClient[c]
      BY <2>1, <3>1
    <3>2. ASSUME NEW p \in ServerPacket, IsNews(p),
                 toClient'[c] = Append(toClient[c], p)
          PROVE  HasNews(toClient'[c])
      <4>1. toClient[c] \in Seq(Replies(c) \cup {TAIL, p})
        BY <1>1, SeqElements, ElementOfSeq
      <4>2. HasNews(Append(toClient[c], p))
        BY <3>2, <4>1, NewsAppended
      <4>3. QED
        BY <3>2, <4>2
    <3>3. QED
      BY <2>3, <3>1, <3>2, ToldSteps
  <2>4. QED
    BY <2>1, <2>2, <2>3
<1>. SUFFICES ASSUME NEW k \in 1..Len(table'), Hidden(c, k)'
              PROVE  /\ table'[k].pn \notin Heard(c)
                     /\ AfterNews(toClient'[c], table'[k].pn)
                     /\ Told(c)' => HasNews(toClient'[c])
  BY <1>2 DEF NewsFirst, AfterNews, HasNews
<1>5. /\ table'[k].from = c /\ cachedRowCount[c] # NoValue
      /\ ~(k <= cachedRowCount[c])
      /\ \A p \in Batched(stack[c]) : ~IsNews(p)
  BY <1>1 DEF Hidden, Batched, Held, IsNews
<1>6. CASE k \in 1..Len(table) /\ table'[k] = table[k]
  BY <1>4, <1>5, <1>6 DEF Hidden
<1>7. CASE ~(k \in 1..Len(table) /\ table'[k] = table[k])
  <2>1. /\ pc = "dispatch" /\ Head(stream).type = "SendEvent"
        /\ table'[k] = EventOf(Head(stream))
    BY <1>7, NewRows DEF SystemInv
  <2>2. serving = c /\ table'[k].pn = Head(stream).pn
    BY <1>5, <2>1 DEF EventOf
  <2>3. /\ Head(stream).pn \notin Heard(c)
        /\ AfterNews(toClient[c], Head(stream).pn)
    BY <2>1, <2>2, HeardIsOld
  <2>4. table' # table
    BY <1>7
  <2>5. ~Told(c)'
    BY <2>4, ToldSteps
  <2>6. toClient'[c] = toClient[c]
    BY <2>1, <2>4 DEF Server, ServerStep, Network, IgnorePacket, OnSendEvent,
       ReceiveAgain, OnNewEventSaved, SendAck, OnSavedEventsRequest,
       SendSavedEvent,
       AbandonReply, OnNumberOfSavedEventsRequest, CheckProtocolsExecutors,
       Handshake, OnNewDataReceived, Crash, TableAfterRestart, LinkBreaks,
       ServerNotices, serverVars, transportVars
  <2>7. QED
    BY <2>2, <2>3, <2>5, <2>6
<1>8. QED
  BY <1>6, <1>7

\* The links of c, as a step of the server or the network leaves them.
LEMMA ServerLinks ==
    ASSUME SystemInv, Server \/ Network, NEW c \in Connection
    PROVE  /\ packetCounter' = packetCounter
           /\ \/ handshake'[c] = handshake[c] /\ (linkUp'[c] => linkUp[c])
              \/ /\ handshake[c] = NoHandshake /\ handshake'[c] # NoHandshake
                 /\ toClient' = toClient
<1>. linkUp \in [Connection -> BOOLEAN] /\ handshake \in [Connection -> Nat]
     /\ handshakeId \in Nat
  BY DEF SystemInv, CoreInv, LinksOK, StorageOK
<1>1. ASSUME NEW d \in Connection, Handshake(d)
      PROVE  /\ packetCounter' = packetCounter
             /\ \/ handshake'[c] = handshake[c] /\ (linkUp'[c] => linkUp[c])
                \/ /\ handshake[c] = NoHandshake /\ handshake'[c] # NoHandshake
                   /\ toClient' = toClient
  <2>1. /\ handshake' = [handshake EXCEPT ![d] = handshakeId']
        /\ linkUp' = [linkUp EXCEPT ![d] = TRUE]
        /\ handshakeId' = handshakeId + 1 /\ handshake[d] = NoHandshake
        /\ UNCHANGED <<packetCounter, toClient>>
    BY <1>1 DEF Handshake, NextHandshakeId
  <2>2. handshakeId' # NoHandshake
    BY <2>1 DEF NoHandshake
  <2>3. QED
    BY <2>1, <2>2
<1>2. CASE \A d \in Connection : ~Handshake(d)
  <2>1. UNCHANGED <<packetCounter, handshake>>
    BY <1>2 DEF Server, ServerStep, Network, IgnorePacket, OnSendEvent,
       ReceiveAgain, OnNewEventSaved, SendAck, OnSavedEventsRequest,
       SendSavedEvent,
       AbandonReply, OnNumberOfSavedEventsRequest, CheckProtocolsExecutors,
       OnNewDataReceived, Crash, LinkBreaks, ServerNotices, transportVars
  <2>2. linkUp' = linkUp \/ linkUp' = [d \in Connection |-> FALSE]
        \/ \E d \in Connection : linkUp' = [linkUp EXCEPT ![d] = FALSE]
    BY <1>2 DEF Server, ServerStep, Network, IgnorePacket, OnSendEvent,
       ReceiveAgain, OnNewEventSaved, SendAck, OnSavedEventsRequest,
       SendSavedEvent,
       AbandonReply, OnNumberOfSavedEventsRequest, CheckProtocolsExecutors,
       OnNewDataReceived, Crash, LinkBreaks, ServerNotices, transportVars
  <2>3. QED
    BY <2>1, <2>2
<1>3. QED
  BY <1>1, <1>2

LEMMA ServerKeepsCounting ==
    ASSUME "storage" \notin Faults, SystemInv, OrderInv, LogInv, ServedRegistered,
           Server \/ Network, UNCHANGED clientVars, RecordHistory,
           NEW c \in Connection, Counting(c)
    PROVE  Counting(c)'
<1>. Closed(c) /\ Inside(c) \subseteq Current(c) /\ CountsRight(c) /\ NewsFirst(c)
     /\ ConfirmedNow(c) \subseteq confirmed[c]
     /\ (c \notin Views => cachedRowCount[c] = NoValue)
  BY DEF Counting
<1>1. /\ UNCHANGED <<serverMessages, stack, cachedRowCount>>
      /\ toClient[c] \in Seq(Replies(c) \cup {TAIL})
  BY DEF clientVars, SystemInv, Good, IsChannel
<1>2. /\ packetCounter' = packetCounter
      /\ \/ handshake'[c] = handshake[c] /\ (linkUp'[c] => linkUp[c])
         \/ /\ handshake[c] = NoHandshake /\ handshake'[c] # NoHandshake
            /\ toClient' = toClient
  BY ServerLinks
<1>3. \/ toClient'[c] = toClient[c]
      \/ \E p \in ServerPacket :
           /\ Due(c, p) /\ linkUp[c]
           /\ toClient'[c] = Append(toClient[c], p)
  BY ServerSends DEF Sent, SystemInv, PerClient
<1>4. RowsFromEvents /\ SameEvents(c) /\ NewerEvents(c)
  BY ServerEvents DEF SystemInv, SameEvents, NewerEvents
<1>5. Closed(c)'
  BY <1>2, <1>3 DEF Closed
<1>6. Inside(c)' \subseteq Current(c)'
  <2>. DEFINE rest == Batched(stack[c]) \cup Kept(serverMessages[c])
  <2>1. Inside(c) = Held(toClient[c]) \cup rest
        /\ Inside(c)' = Held(toClient'[c]) \cup rest
    BY <1>1 DEF Inside, Held, Batched, Kept
  <2>2. CASE handshake'[c] = handshake[c]
    <3>1. Current(c) \subseteq Current(c)'
      BY <1>2, <1>4, <2>2, CurrentGrows
    <3>2. Held(toClient'[c]) \subseteq Current(c)
      <4>1. CASE toClient'[c] = toClient[c]
        BY <2>1, <4>1
      <4>2. ASSUME NEW p \in ServerPacket, Due(c, p),
                   toClient'[c] = Append(toClient[c], p)
            PROVE  Held(toClient'[c]) \subseteq Current(c)
        <5>1. toClient[c] \in Seq(Replies(c) \cup {TAIL, p})
          BY <1>1, SeqElements, ElementOfSeq
        <5>2. Held(Append(toClient[c], p)) = Held(toClient[c]) \cup {p}
          BY <5>1, HeldAppended
        <5>3. p \in Current(c)
          BY <4>2, DueIsCurrent
        <5>4. QED
          BY <2>1, <4>2, <5>2, <5>3
      <4>3. QED
        BY <1>3, <4>1, <4>2
    <3>3. QED
      BY <2>1, <3>1, <3>2
  <2>3. CASE handshake[c] = NoHandshake /\ toClient' = toClient
    <3>1. toClient[c] = <<>> /\ stack[c] = <<>>
      BY <2>3 DEF Closed, LogInv, Unopened
    <3>2. Expecting(c) = {}
      BY <3>1, StackFacts, NestedEmpty
    <3>3. Kept(serverMessages[c]) = {}
      BY <3>2 DEF Kept, Expecting
    <3>4. Inside(c)' = {}
      BY <2>1, <2>3, <3>1, <3>3, HeldNothing, BatchedNothing
    <3>5. QED
      BY <3>4
  <2>4. QED
    BY <1>2, <2>2, <2>3
<1>7. CountsRight(c)'
  BY <1>1, <1>4, CountsKept DEF CountsRight
<1>8. ConfirmedNow(c)' \subseteq confirmed'[c]
  BY DEF RecordHistory
<1>9. NewsFirst(c)'
  BY ServerKeepsNews
<1>10. QED
  BY <1>1, <1>5, <1>6, <1>7, <1>8, <1>9 DEF Counting

------------------------------------------------------------------------------
(* The theorem                                                             *)

LEMMA InitCount == SystemInit => CountInv
<1>. SUFFICES ASSUME SystemInit
              PROVE  CountInv
  OBVIOUS
<1>1. ServedRegistered
  BY DEF SystemInit, Init, ServerInit, ServedRegistered
<1>2. ASSUME NEW c \in Connection
      PROVE  Counting(c)
  <2>1. /\ toClient[c] = <<>> /\ ~linkUp[c] /\ stack[c] = <<>>
        /\ serverMessages[c] = <<>> /\ cachedRowCount[c] = NoValue /\ table = <<>>
    BY DEF SystemInit, Init, TransportInit, ServerInit, ClientInit
  <2>2. Inside(c) = {}
    BY <2>1 DEF Inside, Held, Batched, Kept
  <2>3. CountsRight(c) /\ ConfirmedNow(c) = {}
    BY <2>1 DEF CountsRight, CallsIn, ConfirmedNow, Frames
  <2>4. NewsFirst(c)
    BY <2>1 DEF NewsFirst, Hidden
  <2>5. QED
    BY <2>1, <2>2, <2>3, <2>4 DEF Counting, Closed
<1>3. QED
  BY <1>1, <1>2 DEF CountInv

LEMMA StepCount ==
    ASSUME "split" \notin Faults, "storage" \notin Faults,
           SystemInv, OrderInv, LogInv, CountInv, [SystemNext]_systemVars
    PROVE  CountInv'
<1>1. CASE (Server \/ Network) /\ UNCHANGED clientVars /\ RecordHistory
  BY <1>1, ServerKeepsRegistered, ServerKeepsCounting DEF CountInv
<1>2. ASSUME NEW c \in Connection, ClientThread(c), UNCHANGED serverVars,
             RecordHistory
      PROVE  CountInv'
  BY <1>2, ClientKeepsCountInv
<1>3. CASE UNCHANGED systemVars
  <2>1. UNCHANGED <<vars, clientVars, history>>
    BY <1>3 DEF systemVars
  <2>2. /\ UNCHANGED <<transportVars, serverVars>>
        /\ UNCHANGED <<serverMessages, stack, cachedRowCount, confirmed>>
    BY <2>1 DEF vars, clientVars, history
  <2>3. /\ UNCHANGED <<linkUp, serverValid, toServer, toClient, handshake,
                       packetCounter>>
        /\ UNCHANGED <<table, callbacks, executors, pc, serving, stream, pending>>
    BY <2>2 DEF transportVars, serverVars, handlerVars
  <2>4. ServedRegistered'
    BY <2>3 DEF CountInv, ServedRegistered
  <2>5. EventsInTransit' = EventsInTransit
    BY <2>3 DEF EventsInTransit, EventsIn, Unsaved
  <2>6. ASSUME NEW c \in Connection
        PROVE  Counting(c)'
    <3>1. Counting(c)
      BY DEF CountInv
    <3>2. Current(c)' = Current(c)
      BY <2>3, <2>5 DEF Current, Settled, Covers, IsNews, IsResponse
    <3>3. Inside(c)' = Inside(c) /\ Closed(c)' = Closed(c)
      BY <2>2, <2>3 DEF Inside, Held, Batched, Kept, Closed
    <3>4. CountsRight(c)' = CountsRight(c)
      BY <2>2, <2>3, <2>5 DEF CountsRight, CallsIn, IsCall, Earlier, CoversAll
    <3>5. ConfirmedNow(c)' = ConfirmedNow(c)
      BY <2>2 DEF ConfirmedNow, Frames, Answered
    <3>6. NewsFirst(c)'
      <4>1. Heard(c)' = Heard(c)
        BY <2>2 DEF Heard, Mailed, Expecting, Responded, Batched, Held, IsResponse
      <4>2. \A k : Hidden(c, k)' = Hidden(c, k)
        BY <2>2, <2>3 DEF Hidden, Batched, Held, IsNews
      <4>3. Told(c)' = Told(c)
        BY <2>3 DEF Told
      <4>4. QED
        BY <2>3, <3>1, <4>1, <4>2, <4>3 DEF Counting, NewsFirst, AfterNews, HasNews
    <3>7. QED
      BY <2>2, <3>1, <3>2, <3>3, <3>4, <3>5, <3>6 DEF Counting
  <2>7. QED
    BY <2>4, <2>6 DEF CountInv
<1>4. QED
  BY <1>1, <1>2, <1>3 DEF SystemNext

\* What the invariant says of a client in its event loop.
LEMMA CountInvImplies ==
    ASSUME SystemInv, CountInv
    PROVE  ReadYourWrites
<1>. SUFFICES ASSUME NEW c \in Connection, stack[c] = <<>>,
                     cachedRowCount[c] # NoValue, NEW k \in 1..Len(table),
                     table[k].from = c, table[k].pn \in confirmed[c],
                     ~(k <= cachedRowCount[c])
              PROVE  FALSE
  BY DEF ReadYourWrites
<1>1. Hidden(c, k)
  BY BatchedNothing DEF Hidden
<1>2. table[k].pn \notin Heard(c)
  BY <1>1 DEF CountInv, Counting, NewsFirst
<1>3. QED
  BY <1>2 DEF Heard

LEMMA CountInvariant ==
    ASSUME "split" \notin Faults, "storage" \notin Faults
    PROVE  SystemSpec => []CountInv
<1>1. SystemInit => CountInv
  BY InitCount
<1>2. SystemInv /\ OrderInv /\ LogInv /\ CountInv /\ [SystemNext]_systemVars
          => CountInv'
  BY StepCount
<1>3. QED
  BY <1>1, <1>2, SystemInvariant, SystemOrder, LogInvariant, PTL DEF SystemSpec

\* Once sendEvent has returned true, the row count that the table shows covers
\* the event (REQ_0013): saveEvent runs the callbacks before it returns, so the
\* notification overtakes the acknowledgement, and no number that the view is
\* given afterwards is older.  A batch that cuts a packet may lose the
\* notification, and a database that does not answer keeps it from being sent.
THEOREM ReadYourWritesCorrect ==
    ASSUME "split" \notin Faults, "storage" \notin Faults
    PROVE  SystemSpec => []ReadYourWrites
<1>1. SystemInv /\ CountInv => ReadYourWrites
  BY CountInvImplies
<1>2. QED
  BY <1>1, SystemInvariant, CountInvariant, PTL
============================================================================
