--------------------------- MODULE EventLogProofs ---------------------------
(***************************************************************************)
(* The system implements EventLog, for every number of clients, calls and  *)
(* events and under every fault, as long as ranges are asked for row by    *)
(* row.  The steps of a client come first: what each does to the calls its *)
(* caller is inside of, and which step of the log that is.  Then those of  *)
(* the server: the events that were sent and not yet saved, of which only  *)
(* SaveEvent puts one into the log.                                        *)
(***************************************************************************)
EXTENDS SystemProofs

\* Nobody calls getSavedEvents for more than one row, which is all the program
\* does: TableEventsModel::data asks for (row, row).
RowsOnly == \A call \in UserCalls : call[2].op # "range"

\* One row as a piece of the table.
LEMMA OneRowSlice ==
    ASSUME NEW S, NEW t \in Seq(S), NEW row \in Nat, row + 1 <= Len(t)
    PROVE  SubSeq(t, row + 1, row + 1) = <<t[row + 1]>>
<1>1. Len(t) \in Nat /\ row + 1 \in 1..Len(t)
  BY LenProperties
<1>2. t[row + 1] \in S
  BY <1>1, ElementOfSeq
<1>3. \A i \in (row + 1)..(row + 1) : t[i] \in S
  BY <1>1, <1>2
<1>4. /\ SubSeq(t, row + 1, row + 1) \in Seq(S)
      /\ Len(SubSeq(t, row + 1, row + 1)) = 1
      /\ SubSeq(t, row + 1, row + 1)[1] = t[row + 1]
  <2>. DEFINE m == row + 1
  <2>1. m \in Int /\ m <= m /\ m - m + 1 = 1 /\ m + 1 - 1 = m
    OBVIOUS
  <2>2. \A i \in m..m : t[i] \in S
    BY <1>3
  <2>. HIDE DEF m
  <2>3. /\ SubSeq(t, m, m) \in Seq(S)
        /\ Len(SubSeq(t, m, m)) = IF m <= m THEN m - m + 1 ELSE 0
        /\ \A i \in 1..(m - m + 1) : SubSeq(t, m, m)[i] = t[m + i - 1]
    BY <2>1, <2>2, SubSeqProperties
  <2>4. SubSeq(t, m, m)[1] = t[m]
    BY <2>1, <2>3
  <2>5. QED
    BY <2>1, <2>3, <2>4 DEF m
<1>5. QED
  BY <1>4, OneElement

\* What a call for a row returns is the row of the table.
LEMMA RowAnswer ==
    ASSUME SystemInv, RowsOnly, NEW c \in Connection, NEW f \in GoodCalls(c),
           f.request.op \in {"range", "row"}, f.answer.ok
    PROVE  /\ f.request.op = "row" /\ f.request.first = f.request.last
           /\ f.pn \in 1..packetCounter[c] /\ f.request.first \in Nat
           /\ f.request.first < Len(table) /\ Len(table) \in Since(c, f.pn)
           /\ f.answer.events = SubSeq(table, f.request.first + 1,
                                       f.request.first + 1)
<1>1. /\ f.request \in GoodRequest /\ Right(c, f)
      /\ table \in Seq(Event) /\ Len(table) \in Nat /\ HistoryOK(c)
  BY LenProperties DEF GoodCalls, CallFrames, SystemInv, CoreInv, StorageOK, Good
<1>2. f.request.op = "row" /\ f.request.first = f.request.last
  BY <1>1 DEF GoodRequest, RowsOnly
<1>3. f.request.first \in Nat
  BY <1>1, <1>2 DEF GoodRequest, Request
<1>4. /\ f.pn \in 1..packetCounter[c] /\ Len(f.answer.events) = 1
      /\ f.answer.events \in Seq(EventsFor(f.request))
  BY <1>1, <1>2 DEF Right
<1>. DEFINE row == f.request.first
            s == f.answer.events
            E == EventsFor(f.request)
<1>5. Len(table) \in Since(c, f.pn)
  BY <1>1, <1>4 DEF HistoryOK, Since
<1>6. \A e \in E : IsRow(e, row)
  BY <1>2 DEF EventsFor
<1>7. s \in Seq(E) /\ Len(s) = 1 /\ row \in Nat
  BY <1>3, <1>4
<1>8. s[1] \in E /\ s = <<s[1]>>
  BY <1>7, OneElement
<1>9. row + 1 <= Len(table) /\ s[1] = table[row + 1]
  BY <1>6, <1>8 DEF IsRow
<1>10. SubSeq(table, row + 1, row + 1) = <<table[row + 1]>>
  BY <1>1, <1>7, <1>9, OneRowSlice
<1>11. s = SubSeq(table, row + 1, row + 1)
  BY <1>8, <1>9, <1>10
<1>12. row < Len(table)
  BY <1>1, <1>7, <1>9
<1>13. QED
  BY <1>2, <1>3, <1>4, <1>5, <1>11, <1>12

\* A row that getSavedEvents returns is the row of the table that was asked for,
\* whole, whatever was sent, lost, resent or answered late meanwhile.
THEOREM RowAnswersExact ==
    ASSUME RowsOnly
    PROVE  SystemSpec => []RangeIsExact
<1>1. SystemInv => RangeIsExact
  <2>. SUFFICES ASSUME SystemInv, NEW c \in Connection, NEW f \in Frames(c),
                       f.request.op \in {"range", "row"}, Answered(f)
                PROVE  \E n \in Since(c, f.pn) :
                           f.answer.events = SubSeq(table, f.request.first + 1,
                             IF f.request.last < n THEN f.request.last + 1 ELSE n)
    BY DEF RangeIsExact, Since
  <2>1. f \in GoodCalls(c)
    <3>1. PICK i \in 1..Len(stack[c]) : f = stack[c][i] /\ f.kind = "call"
      BY DEF Frames
    <3>2. f \in GoodCalls(c) \cup GoodDrains(c)
      BY <3>1, ElementOfSeq DEF SystemInv, Good
    <3>3. QED
      BY <3>1, <3>2, FrameFields DEF IsCall
  <2>2. f.answer.ok
    BY DEF Answered
  <2>3. /\ f.request.first = f.request.last
        /\ f.request.first < Len(table) /\ Len(table) \in Since(c, f.pn)
        /\ f.answer.events = SubSeq(table, f.request.first + 1,
                                    f.request.first + 1)
    BY <2>1, <2>2, RowAnswer
  <2>4. QED
    BY <2>3
<1>2. QED
  BY <1>1, SystemInvariant, PTL
------------------------------------------------------------------------------
(* One packet, one row.                                                    *)

\* A call counts its packet, and sends it or not.
LEMMA CallOrder ==
    ASSUME SystemInv, OrderInv, UNCHANGED serverVars, NEW c \in Connection,
           NEW request \in GoodRequest, NEW below, Call(c, request, below)
    PROVE  OrderInv'
<1>1. /\ CoreInv /\ handshake[c] \in Nat /\ packetCounter[c] \in Nat
      /\ UNCHANGED <<table, pc, serving, stream>>
  BY DEF SystemInv, CoreInv, LinksOK, serverVars, handlerVars
<1>2. CASE UNCHANGED <<packetCounter, toServer>>
  BY <1>1, <1>2, SameOrder
<1>3. CASE ~UNCHANGED <<packetCounter, toServer>>
  <2>. DEFINE n == packetCounter[c] + 1
              p == Packet(request, n, handshake[c])
  <2>1. n \in Nat
    BY <1>1
  <2>2. p \in ClientPacket /\ p.pn = n
    BY <1>1, <2>1, PacketFields
  <2>3. /\ packetCounter' = [packetCounter EXCEPT ![c] = @ + 1]
        /\ \/ toServer' = toServer
           \/ toServer' = [toServer EXCEPT ![c] = Append(toServer[c], p)]
    BY <1>3 DEF Call, Sent
  <2>4. p.pn = packetCounter[c] + 1
    BY <2>2
  <2>. HIDE DEF p
  <2>5. QED
    BY <1>1, <2>2, <2>3, <2>4, CountOrder
<1>4. QED
  BY <1>2, <1>3

LEMMA ClientKeepsOrder ==
    ASSUME SystemInv, OrderInv, UNCHANGED serverVars, NEW c \in Connection,
           ClientThread(c)
    PROVE  OrderInv'
<1>1. CASE UNCHANGED <<toServer, packetCounter>>
  BY <1>1, SameOrder DEF serverVars, handlerVars
<1>2. CASE UserCall(c)
  <2>1. PICK request \in {call[2] : call \in {u \in UserCalls : u[1] = c}} :
            Call(c, request, <<>>)
    BY <1>2 DEF UserCall
  <2>2. request \in GoodRequest
    BY UserCallsAssumption DEF GoodRequest
  <2>3. QED
    BY <2>1, <2>2, CallOrder
<1>3. CASE FireNewEventCallback(c)
  <2>1. NumberRequest \in GoodRequest
    BY DEF NumberRequest, GoodRequest, Request
  <2>2. QED
    BY <1>3, <2>1, CallOrder DEF FireNewEventCallback
<1>4. QED
  BY <1>1, <1>2, <1>3 DEF ClientThread, InCall, ClientStep, OnDataArrived,
     SaveMessage, DropMessage, EndDrain, Poll, TakeResponses, Leave, Return,
     Timeout, ClientNotices, transportVars

LEMMA SystemOrder == SystemSpec => []OrderInv
<1>1. SystemInit => OrderInv
  BY InitOrder DEF SystemInit
<1>2. SystemInv /\ OrderInv /\ [SystemNext]_systemVars => OrderInv'
  <2>. SUFFICES ASSUME SystemInv, OrderInv, [SystemNext]_systemVars
                PROVE  OrderInv'
    OBVIOUS
  <2>1. CASE Server \/ Network
    BY <2>1, ServerKeepsOrder DEF SystemInv
  <2>2. CASE UNCHANGED systemVars
    BY <2>2, SameOrder DEF systemVars, vars, transportVars, serverVars, handlerVars
  <2>3. QED
    BY <2>1, <2>2, ClientKeepsOrder DEF SystemNext
<1>3. QED
  BY <1>1, <1>2, SystemInvariant, PTL DEF SystemSpec

\* An event that a client sends makes at most one row, whatever the client
\* does next, however the network cuts its bytes, whenever the server dies.
THEOREM SystemSavedOnce == SystemSpec => []SavedAtMostOnce
<1>1. OrderInv => SavedAtMostOnce
  BY DEF OrderInv
<1>2. QED
  BY <1>1, SystemOrder, PTL
------------------------------------------------------------------------------
(* The calls of a stack                                                    *)

CallsIn(s) == {s[i] : i \in {k \in 1..Len(s) : IsCall(s[k])}}

LEMMA FramesAreCalls == \A c : Frames(c) = CallsIn(stack[c])
BY DEF Frames, CallsIn, IsCall

LEMMA CallsMember ==
    \A s, q : q \in CallsIn(s) <=> \E i \in 1..Len(s) : s[i] = q /\ IsCall(q)
BY DEF CallsIn

LEMMA NoCalls == CallsIn(<<>>) = {}
BY DEF CallsIn

LEMMA CallsPushed ==
    ASSUME NEW S, NEW s \in Seq(S), NEW f \in S
    PROVE  CallsIn(<<f>> \o s) = CallsIn(s) \cup IF IsCall(f) THEN {f} ELSE {}
<1>. DEFINE t == <<f>> \o s
<1>1. /\ Len(s) \in Nat /\ Len(t) = Len(s) + 1 /\ t[1] = f
      /\ \A i \in 2..(Len(s) + 1) : t[i] = s[i - 1]
  BY PushProperties
<1>. SUFFICES CallsIn(t) = CallsIn(s) \cup IF IsCall(f) THEN {f} ELSE {}
  OBVIOUS
<1>. HIDE DEF t
<1>2. \A i \in 1..Len(t) : \/ i = 1 /\ t[i] = f
                           \/ i - 1 \in 1..Len(s) /\ t[i] = s[i - 1]
  BY <1>1
<1>3. 1 \in 1..Len(t) /\ \A i \in 1..Len(s) : i + 1 \in 1..Len(t) /\ t[i + 1] = s[i]
  BY <1>1
<1>. DEFINE h == IF IsCall(f) THEN {f} ELSE {}
<1>4. ASSUME NEW q PROVE q \in CallsIn(t) => q \in CallsIn(s) \cup h
  <2>. SUFFICES ASSUME q \in CallsIn(t) PROVE q \in CallsIn(s) \/ q \in h
    OBVIOUS
  <2>1. PICK i \in 1..Len(t) : t[i] = q /\ IsCall(q)
    BY CallsMember
  <2>2. CASE t[i] = f
    BY <2>1, <2>2
  <2>3. CASE i - 1 \in 1..Len(s) /\ t[i] = s[i - 1]
    BY <2>1, <2>3, CallsMember
  <2>4. QED
    BY <1>2, <2>2, <2>3
<1>5. ASSUME NEW q PROVE q \in CallsIn(s) \cup h => q \in CallsIn(t)
  <2>1. ASSUME q \in CallsIn(s) PROVE q \in CallsIn(t)
    <3>1. PICK i \in 1..Len(s) : s[i] = q /\ IsCall(q)
      BY <2>1, CallsMember
    <3>2. i + 1 \in 1..Len(t) /\ t[i + 1] = q
      BY <1>3, <3>1
    <3>3. QED
      BY <3>1, <3>2, CallsMember
  <2>2. ASSUME q \in h PROVE q \in CallsIn(t)
    <3>1. q = f /\ IsCall(f) /\ t[1] = f /\ 1 \in 1..Len(t)
      BY <1>1, <1>3, <2>2
    <3>2. QED
      BY <3>1, CallsMember
  <2>3. QED
    BY <2>1, <2>2
<1>6. QED
  BY <1>4, <1>5

LEMMA CallsPopped ==
    ASSUME NEW S, NEW s \in Seq(S), s # <<>>
    PROVE  CallsIn(s) = CallsIn(Tail(s))
                           \cup IF IsCall(Head(s)) THEN {Head(s)} ELSE {}
<1>. DEFINE t == Tail(s)
<1>1. /\ Len(s) \in Nat \ {0} /\ Len(t) = Len(s) - 1 /\ Head(s) = s[1]
      /\ \A i \in 1..Len(t) : t[i] = s[i + 1]
  BY PopProperties
<1>. SUFFICES CallsIn(s) = CallsIn(t) \cup IF IsCall(s[1]) THEN {s[1]} ELSE {}
  BY <1>1
<1>. HIDE DEF t
<1>2. \A i \in 1..Len(s) : \/ i = 1 /\ s[i] = s[1]
                           \/ i - 1 \in 1..Len(t) /\ s[i] = t[i - 1]
  BY <1>1
<1>3. 1 \in 1..Len(s) /\ \A i \in 1..Len(t) : i + 1 \in 1..Len(s) /\ t[i] = s[i + 1]
  BY <1>1
<1>. DEFINE h == IF IsCall(s[1]) THEN {s[1]} ELSE {}
<1>4. ASSUME NEW q PROVE q \in CallsIn(s) => q \in CallsIn(t) \cup h
  <2>. SUFFICES ASSUME q \in CallsIn(s) PROVE q \in CallsIn(t) \/ q \in h
    OBVIOUS
  <2>1. PICK i \in 1..Len(s) : s[i] = q /\ IsCall(q)
    BY CallsMember
  <2>2. CASE s[i] = s[1]
    BY <2>1, <2>2
  <2>3. CASE i - 1 \in 1..Len(t) /\ s[i] = t[i - 1]
    BY <2>1, <2>3, CallsMember
  <2>4. QED
    BY <1>2, <2>2, <2>3
<1>5. ASSUME NEW q PROVE q \in CallsIn(t) \cup h => q \in CallsIn(s)
  <2>1. ASSUME q \in CallsIn(t) PROVE q \in CallsIn(s)
    <3>1. PICK i \in 1..Len(t) : t[i] = q /\ IsCall(q)
      BY <2>1, CallsMember
    <3>2. i + 1 \in 1..Len(s) /\ s[i + 1] = q
      BY <1>3, <3>1
    <3>3. QED
      BY <3>1, <3>2, CallsMember
  <2>2. ASSUME q \in h PROVE q \in CallsIn(s)
    BY <1>3, <2>2, CallsMember
  <2>3. QED
    BY <2>1, <2>2
<1>6. QED
  BY <1>4, <1>5

LEMMA CallsOfBatch ==
    ASSUME NEW c, NEW packets \in Seq(Replies(c)), NEW slot \in BOOLEAN,
           NEW s \in Seq(GoodCalls(c) \cup GoodDrains(c))
    PROVE  CallsIn(Batch(packets, slot) \o s) = CallsIn(s)
<1>1. CASE packets = <<>>
  <2>1. Batch(packets, slot) \o s = s
    BY <1>1, ConcatEmptySeq DEF Batch
  <2>2. QED
    BY <2>1
<1>2. CASE packets # <<>>
  <2>. DEFINE f == DrainFrame(packets, slot)
  <2>1. f \in GoodDrains(c) /\ ~IsCall(f)
    BY DEF DrainFrame, GoodDrains, IsCall
  <2>2. Batch(packets, slot) = <<f>>
    BY <1>2 DEF Batch
  <2>. HIDE DEF f
  <2>3. f \in GoodCalls(c) \cup GoodDrains(c)
    BY <2>1
  <2>4. CallsIn(<<f>> \o s) = CallsIn(s) \cup IF IsCall(f) THEN {f} ELSE {}
    BY <2>3, CallsPushed
  <2>5. QED
    BY <2>1, <2>2, <2>4
<1>3. QED
  BY <1>1, <1>2

\* The innermost call shares its number with no other.
LEMMA TopAlone ==
    ASSUME NEW S, NEW s \in Seq(S), s # <<>>, IsCall(Head(s)), Head(s).pn # 0,
           NEW expecting, NEW on, NEW n, Nested(s, expecting, on, n)
    PROVE  \A f \in CallsIn(Tail(s)) : f.pn # Head(s).pn
<1>. DEFINE t == Tail(s)
<1>1. /\ Len(s) \in Nat \ {0} /\ Len(t) = Len(s) - 1 /\ Head(s) = s[1]
      /\ \A i \in 1..Len(t) : t[i] = s[i + 1]
  BY PopProperties
<1>. SUFFICES \A f \in CallsIn(t) : f.pn # s[1].pn
  BY <1>1
<1>. HIDE DEF t
<1>2. ASSUME NEW i \in 1..Len(t), IsCall(t[i])
      PROVE  t[i].pn # s[1].pn
  <2>1. i + 1 \in 1..Len(s) /\ 1 \in 1..Len(s) /\ i + 1 # 1 /\ t[i] = s[i + 1]
    BY <1>1
  <2>2. IsCall(s[1]) /\ s[1].pn # 0
    BY <1>1
  <2>3. QED
    BY <1>2, <2>1, <2>2 DEF Nested
<1>3. QED
  BY <1>2 DEF CallsIn

\* The numbers of the calls.
LEMMA CallsTyped ==
    ASSUME NEW c, NEW s \in Seq(GoodCalls(c) \cup GoodDrains(c)),
           NEW f \in CallsIn(s)
    PROVE  f \in GoodCalls(c) /\ IsCall(f)
<1>1. PICK i \in 1..Len(s) : IsCall(s[i]) /\ f = s[i]
  BY DEF CallsIn
<1>2. f \in GoodCalls(c) \cup GoodDrains(c)
  BY <1>1, ElementOfSeq
<1>3. QED
  BY <1>1, <1>2, FrameFields

LEMMA CallsCounted ==
    ASSUME NEW s, NEW expecting, NEW on, NEW n, Nested(s, expecting, on, n)
    PROVE  \A f \in CallsIn(s) : f.pn \in 0..n
BY DEF CallsIn, Nested
------------------------------------------------------------------------------
(* The steps of a client, and the calls it is inside of.                   *)

Frame(c) == GoodCalls(c) \cup GoodDrains(c)

\* A call made without a connection has no number, and nothing nests in it.
Offline(c) ==
    stack[c] # <<>> =>
        /\ \A f \in CallsIn(Below(c)) : f.pn # 0
        /\ IsCall(Top(c)) /\ Top(c).pn = 0 => ~clientValid[c]

\* Nothing happens before the handshake.
Unopened(c) == handshake[c] = NoHandshake => stack[c] = <<>> /\ ~clientValid[c]

LogInv == \A c \in Connection : Offline(c) /\ Unopened(c)

LEMMA StackFacts ==
    ASSUME SystemInv, NEW c \in Connection
    PROVE  /\ stack = [d \in Connection |-> stack[d]] /\ stack[c] \in Seq(Frame(c))
           /\ Expecting(c) \subseteq 1..packetCounter[c]
           /\ packetCounter[c] \in Nat
           /\ Nested(stack[c], Expecting(c), callbackOn[c], packetCounter[c])
           /\ stack[c] # <<>> =>
                /\ Below(c) \in Seq(Frame(c)) /\ Top(c) \in Frame(c)
                /\ IsCall(Top(c)) => Top(c) \in GoodCalls(c)
                /\ CallsIn(stack[c]) = CallsIn(Below(c))
                                          \cup IF IsCall(Top(c)) THEN {Top(c)} ELSE {}
<1>1. /\ PerClient /\ Good(c) /\ packetCounter[c] \in Nat
      /\ stack[c] \in Seq(Frame(c))
  BY ClientFacts DEF Frame
<1>2. Nested(stack[c], Expecting(c), callbackOn[c], packetCounter[c])
  BY <1>1 DEF Good
<1>3. Expecting(c) \subseteq 1..packetCounter[c]
  BY <1>2 DEF Nested
<1>4. ASSUME stack[c] # <<>>
      PROVE  /\ Below(c) \in Seq(Frame(c)) /\ Top(c) \in Frame(c)
             /\ IsCall(Top(c)) => Top(c) \in GoodCalls(c)
             /\ CallsIn(stack[c]) = CallsIn(Below(c))
                                       \cup IF IsCall(Top(c)) THEN {Top(c)} ELSE {}
  <2>1. CallsIn(stack[c]) = CallsIn(Tail(stack[c])) \cup
            IF IsCall(Head(stack[c])) THEN {Head(stack[c])} ELSE {}
    BY <1>1, <1>4, CallsPopped
  <2>2. QED
    BY <1>1, <1>4, <2>1, TopAndBelow DEF Top, Below, Frame
<1>5. stack = [d \in Connection |-> stack[d]]
  BY <1>1 DEF PerClient
<1>6. QED
  BY <1>1, <1>2, <1>3, <1>4, <1>5

\* The innermost call that waits or has left is the only one of its number.
LEMMA AloneOnTop ==
    ASSUME SystemInv, NEW c \in Connection, Offline(c), stack[c] # <<>>,
           IsCall(Top(c))
    PROVE  \A f \in CallsIn(Below(c)) : f.pn # Top(c).pn
<1>1. CASE Top(c).pn = 0
  BY <1>1 DEF Offline
<1>2. CASE Top(c).pn # 0
  <2>1. /\ stack[c] \in Seq(Frame(c)) /\ IsCall(Head(stack[c]))
        /\ Head(stack[c]).pn # 0
        /\ Nested(stack[c], Expecting(c), callbackOn[c], packetCounter[c])
    BY <1>2, StackFacts DEF Top
  <2>2. QED
    BY <2>1, TopAlone DEF Top, Below
<1>3. QED
  BY <1>1, <1>2

\* What nests has a connection.
LEMMA OnlineCalls ==
    ASSUME SystemInv, NEW c \in Connection, Offline(c),
           stack[c] # <<>> /\ IsCall(Top(c)) => Top(c).pn # 0
    PROVE  \A f \in CallsIn(stack[c]) : f.pn # 0
<1>1. CASE stack[c] = <<>>
  BY <1>1, NoCalls
<1>2. CASE stack[c] # <<>>
  BY <1>2, StackFacts DEF Offline
<1>3. QED
  BY <1>1, <1>2

\* A step that leaves the calls as they are.
SameCalls(c) == CallsIn(stack'[c]) = CallsIn(stack[c])

\* The innermost call becomes g.
TopBecomes(c, g) ==
    /\ stack[c] # <<>> /\ IsCall(Top(c))
    /\ IsCall(g) /\ g.pn = Top(c).pn /\ g.request = Top(c).request
    /\ CallsIn(stack'[c]) = CallsIn(Below(c)) \cup {g}

LEMMA QuietSteps ==
    ASSUME SystemInv, NEW c \in Connection,
           SaveMessage(c) \/ DropMessage(c) \/ EndDrain(c)
    PROVE  SameCalls(c) /\ stack[c] # <<>> /\ ~IsCall(Top(c))
<1>1. Draining(c) /\ stack[c] # <<>> /\ ~IsCall(Top(c))
  BY DEF SaveMessage, DropMessage, EndDrain, Processing, Draining, IsCall
<1>2. /\ stack = [d \in Connection |-> stack[d]]
      /\ Below(c) \in Seq(Frame(c)) /\ CallsIn(stack[c]) = CallsIn(Below(c))
  BY <1>1, StackFacts
<1>3. CASE EndDrain(c)
  <2>1. stack'[c] = Below(c)
    BY <1>2, <1>3 DEF EndDrain
  <2>2. QED
    BY <1>1, <1>2, <2>1 DEF SameCalls
<1>4. CASE SaveMessage(c) \/ DropMessage(c)
  <2>1. stack'[c] = AfterPacket(c) /\ Processing(c)
    BY <1>2, <1>4 DEF SaveMessage, DropMessage
  <2>2. Tail(Top(c).packets) \in Seq(Replies(c)) /\ Top(c) \in GoodDrains(c)
    BY <2>1, PacketAndRest
  <2>3. Top(c).slot \in BOOLEAN
    BY <2>2 DEF GoodDrains
  <2>4. CallsIn(AfterPacket(c)) = CallsIn(Below(c))
    BY <1>2, <2>2, <2>3, CallsOfBatch DEF AfterPacket, Frame
  <2>5. QED
    BY <1>1, <1>2, <2>1, <2>4 DEF SameCalls
<1>5. QED
  BY <1>3, <1>4

LEMMA DrainSteps ==
    ASSUME SystemInv, NEW c \in Connection, NEW slot \in BOOLEAN,
           NEW below \in Seq(Frame(c)), Drain(c, slot, below)
    PROVE  CallsIn(stack'[c]) = CallsIn(below)
<1>1. PICK packets \in Seq(Replies(c)) : stack'[c] = Batch(packets, slot) \o below
  BY DrainFacts DEF Frame
<1>2. below \in Seq(GoodCalls(c) \cup GoodDrains(c))
  BY DEF Frame
<1>3. CallsIn(Batch(packets, slot) \o below) = CallsIn(below)
  BY <1>2, CallsOfBatch
<1>4. QED
  BY <1>1, <1>3

LEMMA PollSteps ==
    ASSUME SystemInv, NEW c \in Connection, OnDataArrived(c) \/ Poll(c)
    PROVE  /\ SameCalls(c)
           /\ stack[c] # <<>> => IsCall(Top(c)) /\ Top(c).pn # 0
           /\ clientValid[c]
<1>1. /\ callbackOn[c] \in BOOLEAN /\ stack[c] \in Seq(Frame(c))
      /\ Expecting(c) \subseteq 1..packetCounter[c] /\ packetCounter[c] \in Nat
  BY StackFacts, ClientFacts DEF PerClient
<1>2. CASE OnDataArrived(c)
  <2>1. stack[c] = <<>> /\ Drain(c, TRUE, <<>>) /\ TRUE \in BOOLEAN
    BY <1>2 DEF OnDataArrived
  <2>2. <<>> \in Seq(Frame(c))
    BY <1>1, <2>1
  <2>3. CallsIn(stack'[c]) = CallsIn(<<>>)
    BY <2>1, <2>2, DrainSteps
  <2>4. QED
    BY <2>1, <2>3 DEF SameCalls, Drain
<1>3. CASE Poll(c)
  <2>1. Waiting(c) /\ Drain(c, callbackOn[c], stack[c])
    BY <1>3 DEF Poll
  <2>2. IsCall(Top(c)) /\ Top(c).pn # 0
    BY <1>1, <2>1 DEF Waiting, Calling, IsCall
  <2>3. CallsIn(stack'[c]) = CallsIn(stack[c])
    BY <1>1, <2>1, DrainSteps
  <2>4. QED
    BY <2>1, <2>2, <2>3 DEF SameCalls, Drain
<1>4. QED
  BY <1>2, <1>3

\* A frame in place of the innermost call.
LEMMA NewTop ==
    ASSUME SystemInv, NEW c \in Connection, stack[c] # <<>>, IsCall(Top(c)),
           NEW g \in Frame(c), IsCall(g), g.pn = Top(c).pn,
           g.request = Top(c).request, stack'[c] = <<g>> \o Below(c)
    PROVE  TopBecomes(c, g)
<1>1. Below(c) \in Seq(Frame(c))
  BY StackFacts
<1>2. CallsIn(<<g>> \o Below(c)) = CallsIn(Below(c))
                                     \cup IF IsCall(g) THEN {g} ELSE {}
  BY <1>1, CallsPushed
<1>3. QED
  BY <1>2 DEF TopBecomes

LEMMA LeaveSteps ==
    ASSUME SystemInv, NEW c \in Connection, Leave(c)
    PROVE  LET g == [Top(c) EXCEPT !.at = "return"] IN
           /\ Calling(c, "leave") /\ g \in GoodCalls(c)
           /\ TopBecomes(c, g)
           /\ clientValid[c] \/ stack'[c] = <<g>> \o Below(c)
<1>. DEFINE g == [Top(c) EXCEPT !.at = "return"]
<1>1. Calling(c, "leave") /\ stack[c] # <<>> /\ IsCall(Top(c))
  BY DEF Leave, Calling, IsCall
<1>2. /\ stack = [d \in Connection |-> stack[d]]
      /\ Below(c) \in Seq(Frame(c)) /\ Top(c) \in GoodCalls(c)
  BY <1>1, StackFacts
<1>3. /\ g \in GoodCalls(c) /\ IsCall(g)
      /\ g.pn = Top(c).pn /\ g.request = Top(c).request
  <2>1. Top(c) \in CallFrames /\ Top(c).events \in Seq(EventsFor(Top(c).request))
    BY <1>2 DEF GoodCalls
  <2>2. /\ g \in CallFrames /\ g.at = "return" /\ g.events = Top(c).events
        /\ g.answer = Top(c).answer /\ g.request = Top(c).request
        /\ g.pn = Top(c).pn /\ g.kind = "call"
    BY <2>1 DEF CallFrames
  <2>. HIDE DEF g
  <2>3. g.answer.ok => Right(c, g)
    BY <1>2, <2>2 DEF GoodCalls, Right
  <2>4. QED
    BY <2>1, <2>2, <2>3 DEF GoodCalls, IsCall
<1>4. \/ Drain(c, TRUE, <<g>> \o Below(c))
      \/ stack' = [stack EXCEPT ![c] = <<g>> \o Below(c)]
  BY DEF Leave
<1>. HIDE DEF g
<1>5. g \in Frame(c)
  BY <1>3 DEF Frame
<1>6. CASE stack' = [stack EXCEPT ![c] = <<g>> \o Below(c)]
  <2>1. stack'[c] = <<g>> \o Below(c)
    BY <1>2, <1>6
  <2>2. QED
    BY <1>1, <1>3, <1>5, <2>1, NewTop DEF g
<1>7. CASE Drain(c, TRUE, <<g>> \o Below(c))
  <2>. DEFINE t == <<g>> \o Below(c)
  <2>1. t \in Seq(Frame(c)) /\ TRUE \in BOOLEAN
    BY <1>2, <1>5, PushProperties
  <2>2. CallsIn(t) = CallsIn(Below(c)) \cup IF IsCall(g) THEN {g} ELSE {}
    BY <1>2, <1>5, CallsPushed
  <2>3. Drain(c, TRUE, t)
    BY <1>7
  <2>. HIDE DEF t
  <2>4. CallsIn(stack'[c]) = CallsIn(t)
    BY <2>1, <2>3, DrainSteps
  <2>5. TopBecomes(c, g) /\ clientValid[c]
    BY <1>1, <1>3, <2>2, <2>3, <2>4 DEF TopBecomes, Drain
  <2>6. QED
    BY <1>1, <1>3, <2>5 DEF g
<1>8. QED
  BY <1>4, <1>6, <1>7

\* A step of a polling loop that has an answer, or none in time.
LEMMA LoopSteps ==
    ASSUME SystemInv, NEW c \in Connection, TakeResponses(c) \/ Timeout(c)
    PROVE  /\ Calling(c, "wait") /\ Top(c).pn # 0
           /\ \E g \in GoodCalls(c) :
                /\ TopBecomes(c, g) /\ stack'[c] = <<g>> \o Below(c)
                /\ g.at \in {"wait", "leave"}
<1>1. Waiting(c)
  BY DEF TakeResponses, Timeout
<1>2. /\ Calling(c, "wait") /\ stack[c] # <<>> /\ IsWait(Top(c)) /\ IsCall(Top(c))
      /\ Top(c) \in GoodCalls(c) /\ Top(c).pn \in Expecting(c)
  BY <1>1, WaitingFacts DEF Waiting, IsWait
<1>3. Top(c).pn # 0
  BY <1>2, StackFacts
<1>4. \E g \in GoodCalls(c) :
          /\ IsOpen(g) /\ g.pn = Top(c).pn /\ g.request = Top(c).request
          /\ stack' = [stack EXCEPT ![c] = <<g>> \o Below(c)]
  <2>1. CASE TakeResponses(c)
    BY <2>1, TakenAnswer
  <2>2. CASE Timeout(c)
    <3>. DEFINE f == [Top(c) EXCEPT !.at = "leave", !.answer = NoAnswer]
    <3>1. /\ f \in GoodCalls(c) /\ IsOpen(f) /\ f.pn = Top(c).pn
          /\ f.request = Top(c).request
      BY <1>2 DEF GoodCalls, CallFrames, Answer, NoAnswer, IsOpen, IsCall
    <3>2. stack' = [stack EXCEPT ![c] = <<f>> \o Below(c)]
      BY <2>2 DEF Timeout, Decide
    <3>. HIDE DEF f
    <3>3. QED
      BY <3>1, <3>2
  <2>3. QED
    BY <2>1, <2>2
<1>5. PICK g \in GoodCalls(c) :
          /\ IsOpen(g) /\ g.pn = Top(c).pn /\ g.request = Top(c).request
          /\ stack' = [stack EXCEPT ![c] = <<g>> \o Below(c)]
  BY <1>4
<1>6. stack'[c] = <<g>> \o Below(c)
  BY <1>5, StackFacts
<1>7. g \in Frame(c) /\ IsCall(g) /\ g.at \in {"wait", "leave"}
  BY <1>5 DEF Frame, IsOpen
<1>8. TopBecomes(c, g)
  BY <1>2, <1>5, <1>6, <1>7, NewTop
<1>9. QED
  BY <1>2, <1>3, <1>6, <1>7, <1>8

LEMMA ReturnSteps ==
    ASSUME SystemInv, NEW c \in Connection, Return(c)
    PROVE  /\ stack[c] # <<>> /\ IsCall(Top(c)) /\ Top(c).at = "return"
           /\ stack'[c] = Below(c)
<1>1. stack' = [stack EXCEPT ![c] = Below(c)] /\ Calling(c, "return")
  BY DEF Return
<1>2. QED
  BY <1>1, StackFacts DEF Calling, IsCall

\* A new call goes on top of what c is doing, which is no call.
LEMMA NewCallSteps ==
    ASSUME SystemInv, NEW c \in Connection, UserCall(c) \/ FireNewEventCallback(c)
    PROVE  /\ stack[c] # <<>> => ~IsCall(Top(c))
           /\ UNCHANGED <<clientValid, handshake>>
           /\ \E request \in GoodRequest : \E below \in Seq(Frame(c)) :
                Call(c, request, below) /\ CallsIn(below) = CallsIn(stack[c])
<1>1. CASE UserCall(c)
  <2>1. PICK request \in {call[2] : call \in {u \in UserCalls : u[1] = c}} :
            Call(c, request, <<>>)
    BY <1>1 DEF UserCall
  <2>2. request \in GoodRequest
    BY UserCallsAssumption DEF GoodRequest
  <2>3. stack[c] = <<>> /\ UNCHANGED <<clientValid, handshake>>
    BY <1>1 DEF UserCall
  <2>4. <<>> \in Seq(Frame(c)) /\ CallsIn(<<>>) = CallsIn(stack[c])
    BY <2>3, StackFacts
  <2>5. QED
    BY <2>1, <2>2, <2>3, <2>4
<1>2. CASE FireNewEventCallback(c)
  <2>. DEFINE f == [Top(c) EXCEPT !.packets = Tail(@)]
              below == <<f>> \o Below(c)
  <2>1. /\ Call(c, NumberRequest, below) /\ Processing(c)
        /\ UNCHANGED <<clientValid, handshake>>
    BY <1>2 DEF FireNewEventCallback
  <2>2. stack[c] # <<>> /\ ~IsCall(Top(c))
    BY <2>1 DEF Processing, Draining, IsCall
  <2>3. f \in Frame(c) /\ ~IsCall(f)
    <3>1. Tail(Top(c).packets) \in Seq(Replies(c)) /\ Top(c) \in GoodDrains(c)
      BY <2>1, PacketAndRest
    <3>2. QED
      BY <3>1 DEF GoodDrains, IsCall, Frame
  <2>4. Below(c) \in Seq(Frame(c)) /\ CallsIn(stack[c]) = CallsIn(Below(c))
    BY <2>2, StackFacts
  <2>. HIDE DEF f
  <2>5. /\ below \in Seq(Frame(c))
        /\ CallsIn(below) = CallsIn(Below(c)) \cup IF IsCall(f) THEN {f} ELSE {}
    BY <2>3, <2>4, PushProperties, CallsPushed
  <2>6. CallsIn(below) = CallsIn(stack[c])
    BY <2>3, <2>4, <2>5
  <2>7. NumberRequest \in GoodRequest
    BY DEF NumberRequest, GoodRequest, Request
  <2>. HIDE DEF below
  <2>8. QED
    BY <2>1, <2>2, <2>5, <2>6, <2>7
<1>3. QED
  BY <1>1, <1>2

\* What a new call does: it fails for want of a connection, it fails because
\* its packet is too long, or it goes out.
FailsOffline(c, f) ==
    /\ ~clientValid[c] /\ f.pn = 0 /\ f.at = "leave" /\ f.answer = NoAnswer
    /\ UNCHANGED <<packetCounter, toServer>>
FailsTooLong(c, f) ==
    /\ f.pn = packetCounter[c] + 1 /\ f.at = "leave" /\ f.answer = NoAnswer
    /\ packetCounter'[c] = f.pn /\ UNCHANGED toServer
GoesOut(c, f) ==
    /\ f.pn = packetCounter[c] + 1 /\ f.at = "wait" /\ f.answer = NoAnswer
    /\ packetCounter'[c] = f.pn
    /\ toServer' = Sent(toServer, clientValid, c,
                        Packet(f.request, f.pn, handshake[c]))

LEMMA CallSteps ==
    ASSUME SystemInv, NEW c \in Connection, NEW request \in GoodRequest,
           NEW below \in Seq(Frame(c)), Call(c, request, below)
    PROVE  \E f \in GoodCalls(c) :
               /\ stack'[c] = <<f>> \o below /\ f.request = request
               /\ FailsOffline(c, f) \/ FailsTooLong(c, f) \/ GoesOut(c, f)
<1>. DEFINE n == packetCounter[c] + 1
<1>1. /\ stack = [d \in Connection |-> stack[d]]
      /\ packetCounter \in [Connection -> Nat] /\ n \in Nat
  BY StackFacts DEF SystemInv, CoreInv, LinksOK
<1>2. CASE ~clientValid[c]
  <2>. DEFINE f == CallFrame(request, 0, "leave", NoAnswer)
  <2>1. f \in GoodCalls(c) /\ f.pn = 0 /\ f.request = request
    BY NewFrame
  <2>2. f.at = "leave" /\ f.answer = NoAnswer
    BY DEF CallFrame
  <2>3. /\ stack' = [stack EXCEPT ![c] = <<f>> \o below]
        /\ UNCHANGED <<packetCounter, toServer>>
    BY <1>2 DEF Call
  <2>. HIDE DEF f
  <2>4. QED
    BY <1>1, <1>2, <2>1, <2>2, <2>3 DEF FailsOffline
<1>3. CASE clientValid[c] /\ ~Encodable(request)
  <2>. DEFINE f == CallFrame(request, n, "leave", NoAnswer)
  <2>1. f \in GoodCalls(c) /\ f.pn = n /\ f.request = request
    BY <1>1, NewFrame
  <2>2. f.at = "leave" /\ f.answer = NoAnswer
    BY DEF CallFrame
  <2>3. /\ stack' = [stack EXCEPT ![c] = <<f>> \o below]
        /\ packetCounter' = [packetCounter EXCEPT ![c] = n] /\ UNCHANGED toServer
    BY <1>3 DEF Call
  <2>. HIDE DEF f
  <2>4. QED
    BY <1>1, <2>1, <2>2, <2>3 DEF FailsTooLong
<1>4. CASE clientValid[c] /\ Encodable(request)
  <2>. DEFINE f == CallFrame(request, n, "wait", NoAnswer)
  <2>1. f \in GoodCalls(c) /\ f.pn = n /\ f.request = request
    BY <1>1, NewFrame
  <2>2. f.at = "wait" /\ f.answer = NoAnswer
    BY DEF CallFrame
  <2>3. /\ stack' = [stack EXCEPT ![c] = <<f>> \o below]
        /\ packetCounter' = [packetCounter EXCEPT ![c] = n]
        /\ toServer' = Sent(toServer, clientValid, c,
                            Packet(request, n, handshake[c]))
    BY <1>4 DEF Call
  <2>. HIDE DEF f
  <2>4. QED
    BY <1>1, <2>1, <2>2, <2>3 DEF GoesOut
<1>5. QED
  BY <1>2, <1>3, <1>4
------------------------------------------------------------------------------
(* Calls without a connection                                              *)

\* Nothing to show of a stack all of whose calls have numbers, or whose
\* innermost frame is the only call that may have none.
LEMMA OnlineIsFine ==
    ASSUME NEW c, stack'[c] \in Seq(Frame(c)),
           \A f \in CallsIn(stack'[c]) : f.pn # 0
    PROVE  Offline(c)'
<1>. DEFINE s == stack'[c]
<1>1. CASE s = <<>>
  BY <1>1 DEF Offline
<1>2. CASE s # <<>>
  <2>1. CallsIn(s) = CallsIn(Tail(s)) \cup IF IsCall(Head(s)) THEN {Head(s)} ELSE {}
    BY <1>2, CallsPopped
  <2>2. /\ \A f \in CallsIn(Tail(s)) : f.pn # 0
        /\ IsCall(Head(s)) => Head(s).pn # 0
    BY <2>1
  <2>3. QED
    BY <2>2 DEF Offline, Top, Below, CallsIn, IsCall
<1>3. QED
  BY <1>1, <1>2

LEMMA OfflineIsOnTop ==
    ASSUME NEW c, NEW f \in Frame(c), NEW s \in Seq(Frame(c)),
           stack'[c] = <<f>> \o s, \A g \in CallsIn(s) : g.pn # 0,
           f.pn = 0 => ~clientValid'[c]
    PROVE  Offline(c)'
<1>. DEFINE t == <<f>> \o s
<1>1. t # <<>> /\ Head(t) = f /\ Tail(t) = s
  <2>1. /\ t \in Seq(Frame(c)) /\ Len(s) \in Nat
        /\ Len(t) = Len(s) + 1 /\ t[1] = f
        /\ \A i \in 2..(Len(s) + 1) : t[i] = s[i - 1]
    BY PushProperties
  <2>. HIDE DEF t
  <2>2. t # <<>>
    BY <2>1
  <2>3. /\ Tail(t) \in Seq(Frame(c)) /\ Len(Tail(t)) = Len(s)
        /\ Head(t) = t[1]
        /\ \A i \in 1..Len(Tail(t)) : Tail(t)[i] = t[i + 1]
    BY <2>1, <2>2, PopProperties
  <2>4. \A i \in 1..Len(s) : Tail(t)[i] = s[i]
    BY <2>1, <2>3
  <2>5. Tail(t) = s
    BY <2>3, <2>4, SeqEqual
  <2>6. QED
    BY <2>1, <2>2, <2>3, <2>5
<1>. HIDE DEF t
<1>2. stack'[c] = t
  BY DEF t
<1>3. QED
  BY <1>1, <1>2 DEF Offline, Top, Below, CallsIn, IsCall

LEMMA ClientKeepsOffline ==
    ASSUME SystemInv, UNCHANGED serverVars, NEW c \in Connection, ClientThread(c),
           Offline(c)
    PROVE  Offline(c)'
<1>1. stack'[c] \in Seq(Frame(c))
  BY ClientMoves DEF Moves, Frame
<1>2. CASE SaveMessage(c) \/ DropMessage(c) \/ EndDrain(c)
  <2>1. SameCalls(c) /\ stack[c] # <<>> /\ ~IsCall(Top(c))
    BY <1>2, QuietSteps
  <2>2. QED
    BY <1>1, <2>1, OnlineCalls, OnlineIsFine DEF SameCalls
<1>3. CASE OnDataArrived(c) \/ Poll(c)
  <2>1. SameCalls(c) /\ (stack[c] # <<>> => Top(c).pn # 0)
    BY <1>3, PollSteps
  <2>2. QED
    BY <1>1, <2>1, OnlineCalls, OnlineIsFine DEF SameCalls
<1>4. CASE TakeResponses(c) \/ Timeout(c)
  <2>1. Top(c).pn # 0
    BY <1>4, LoopSteps
  <2>2. PICK g \in GoodCalls(c) : TopBecomes(c, g)
    BY <1>4, LoopSteps
  <2>3. \A f \in CallsIn(stack'[c]) : f.pn # 0
    BY <2>1, <2>2 DEF TopBecomes, Offline
  <2>4. QED
    BY <1>1, <2>3, OnlineIsFine
<1>5. CASE Leave(c)
  <2>1. PICK g \in GoodCalls(c) :
            /\ TopBecomes(c, g)
            /\ clientValid[c] \/ stack'[c] = <<g>> \o Below(c)
    BY <1>5, LeaveSteps
  <2>2. /\ stack[c] # <<>> /\ IsCall(Top(c)) /\ g.pn = Top(c).pn
        /\ \A f \in CallsIn(Below(c)) : f.pn # 0
        /\ Top(c).pn = 0 => ~clientValid[c]
        /\ clientValid' = clientValid
    BY <1>5, <2>1 DEF TopBecomes, Offline, Leave
  <2>3. CASE stack'[c] = <<g>> \o Below(c)
    <3>1. g \in Frame(c) /\ Below(c) \in Seq(Frame(c))
      BY <2>2, StackFacts DEF Frame
    <3>2. g.pn = 0 => ~clientValid'[c]
      BY <2>2
    <3>3. QED
      BY <2>2, <2>3, <3>1, <3>2, OfflineIsOnTop
  <2>4. CASE clientValid[c]
    <3>1. \A f \in CallsIn(stack'[c]) : f.pn # 0
      BY <2>1, <2>2, <2>4 DEF TopBecomes
    <3>2. QED
      BY <1>1, <3>1, OnlineIsFine
  <2>5. QED
    BY <2>1, <2>3, <2>4
<1>6. CASE Return(c)
  <2>1. stack[c] # <<>> /\ stack'[c] = Below(c)
    BY <1>6, ReturnSteps
  <2>2. QED
    BY <1>1, <2>1, OnlineIsFine DEF Offline
<1>7. CASE UserCall(c) \/ FireNewEventCallback(c)
  <2>1. /\ stack[c] # <<>> => ~IsCall(Top(c))
        /\ clientValid' = clientValid
    BY <1>7, NewCallSteps
  <2>2. PICK request \in GoodRequest, below \in Seq(Frame(c)) :
            Call(c, request, below) /\ CallsIn(below) = CallsIn(stack[c])
    BY <1>7, NewCallSteps
  <2>3. PICK f \in GoodCalls(c) :
            /\ stack'[c] = <<f>> \o below
            /\ FailsOffline(c, f) \/ FailsTooLong(c, f) \/ GoesOut(c, f)
    BY <2>2, CallSteps
  <2>4. \A g \in CallsIn(below) : g.pn # 0
    BY <2>1, <2>2, OnlineCalls
  <2>5. packetCounter[c] + 1 # 0
    BY StackFacts
  <2>6. f \in Frame(c) /\ f.pn = 0 => ~clientValid'[c]
    BY <2>1, <2>3, <2>5 DEF FailsOffline, FailsTooLong, GoesOut
  <2>7. QED
    BY <2>2, <2>3, <2>4, <2>6, OfflineIsOnTop DEF Frame
<1>8. CASE ClientNotices(c)
  <2>1. stack' = stack /\ clientValid' = [clientValid EXCEPT ![c] = FALSE]
    BY <1>8 DEF ClientNotices, clientVars
  <2>2. clientValid'[c] = FALSE
    BY <2>1 DEF SystemInv, CoreInv, LinksOK
  <2>3. QED
    BY <2>1, <2>2 DEF Offline, Top, Below, CallsIn, IsCall
<1>9. QED
  BY <1>2, <1>3, <1>4, <1>5, <1>6, <1>7, <1>8 DEF ClientThread, InCall, ClientStep

\* A client that has no handshake takes no step.
LEMMA UnopenedRests ==
    ASSUME SystemInv, NEW c \in Connection, Unopened(c), ClientThread(c)
    PROVE  handshake[c] # NoHandshake /\ handshake' = handshake
<1>1. stack[c] = <<>> => UserCall(c) \/ OnDataArrived(c) \/ ClientNotices(c)
  BY DEF ClientThread, InCall, ClientStep, SaveMessage, FireNewEventCallback,
     DropMessage, EndDrain, Poll, TakeResponses, Leave, Return, Timeout,
     Processing, Draining, Waiting, Calling
<1>2. \/ stack[c] # <<>> \/ handshake[c] # NoHandshake \/ clientValid[c]
  BY <1>1 DEF UserCall, OnDataArrived, Drain, ClientNotices
<1>3. handshake' = handshake
  BY DEF ClientThread, InCall, ClientStep, UserCall, OnDataArrived, SaveMessage,
     FireNewEventCallback, DropMessage, EndDrain, Poll, TakeResponses, Leave,
     Return, Timeout, ClientNotices, transportVars
<1>4. QED
  BY <1>2, <1>3 DEF Unopened

LEMMA LogInvariant == SystemSpec => []LogInv
<1>1. SystemInit => LogInv
  BY DEF SystemInit, Init, TransportInit, ClientInit, LogInv, Offline, Unopened
<1>2. SystemInv /\ LogInv /\ [SystemNext]_systemVars => LogInv'
  <2>. SUFFICES ASSUME SystemInv, LogInv, [SystemNext]_systemVars,
                       NEW c \in Connection
                PROVE  Offline(c)' /\ Unopened(c)'
    BY DEF LogInv
  <2>1. Offline(c) /\ Unopened(c)
    BY DEF LogInv
  <2>2. CASE UNCHANGED <<stack, clientValid, handshake>>
    BY <2>1, <2>2 DEF Offline, Unopened, Top, Below, CallsIn, IsCall
  <2>3. CASE (Server \/ Network) /\ UNCHANGED clientVars
    <3>1. CASE UNCHANGED <<clientValid, handshake>>
      BY <2>2, <2>3, <3>1 DEF clientVars
    <3>2. ASSUME NEW d \in Connection, Handshake(d)
          PROVE  Offline(c)' /\ Unopened(c)'
      <4>1. /\ handshake[d] = NoHandshake /\ stack' = stack
            /\ handshake' = [handshake EXCEPT ![d] = handshakeId']
            /\ clientValid' = [clientValid EXCEPT ![d] = TRUE]
            /\ handshakeId' # NoHandshake
        BY <2>3, <3>2 DEF Handshake, clientVars, NextHandshakeId, NoHandshake,
           SystemInv, CoreInv, StorageOK
      <4>2. stack[d] = <<>>
        BY <4>1 DEF LogInv, Unopened
      <4>3. CASE c = d
        BY <4>1, <4>2, <4>3
           DEF Offline, Unopened, SystemInv, CoreInv, LinksOK
      <4>4. CASE c # d
        <5>1. handshake'[c] = handshake[c] /\ clientValid'[c] = clientValid[c]
          BY <4>1, <4>4 DEF SystemInv, CoreInv, LinksOK
        <5>2. QED
          BY <2>1, <4>1, <5>1 DEF Offline, Unopened, Top, Below, CallsIn, IsCall
      <4>5. QED
        BY <4>3, <4>4
    <3>3. QED
      BY <2>3, <3>1, <3>2 DEF Server, ServerStep, Network, IgnorePacket,
         ReceiveAgain, OnSendEvent, OnNewEventSaved, SendAck,
         OnSavedEventsRequest, SendSavedEvent, AbandonReply,
         OnNumberOfSavedEventsRequest, CheckProtocolsExecutors,
         OnNewDataReceived, Crash, LinkBreaks, ServerNotices, transportVars
  <2>4. ASSUME NEW d \in Connection, ClientThread(d), UNCHANGED serverVars
        PROVE  Offline(c)' /\ Unopened(c)'
    <3>1. handshake[d] # NoHandshake /\ handshake' = handshake
      BY <2>4, UnopenedRests DEF LogInv
    <3>2. CASE c = d
      BY <2>1, <2>4, <3>1, <3>2, ClientKeepsOffline DEF Unopened
    <3>3. CASE c # d
      <4>1. stack'[c] = stack[c]
        BY <2>4, <3>3, ClientMoves DEF Moves, OthersKept
      <4>2. clientValid'[c] = clientValid[c]
        <5>1. CASE ClientNotices(d)
          BY <3>3, <5>1 DEF ClientNotices, SystemInv, CoreInv, LinksOK
        <5>2. CASE ~ClientNotices(d)
          BY <2>4, <5>2 DEF ClientThread, InCall, ClientStep, UserCall,
             OnDataArrived, SaveMessage, FireNewEventCallback, DropMessage,
             EndDrain, Poll, TakeResponses, Leave, Return, Timeout, transportVars
        <5>3. QED
          BY <5>1, <5>2
      <4>3. QED
        BY <2>1, <3>1, <4>1, <4>2 DEF Offline, Unopened, Top, Below, CallsIn, IsCall
    <3>4. QED
      BY <3>2, <3>3
  <2>5. CASE UNCHANGED systemVars
    BY <2>2, <2>5 DEF systemVars, vars, transportVars, clientVars
  <2>6. QED
    BY <2>3, <2>4, <2>5 DEF SystemNext
<1>3. QED
  BY <1>1, <1>2, SystemInvariant, PTL DEF SystemSpec
------------------------------------------------------------------------------
(* The open calls of the log                                               *)

OpenOf(c, F) == {OpenCall(c, f) : f \in F}
OpenNext(c, F) == {OpenCall(c, f)' : f \in F}

OpenOthers(c) == UNION {OpenOf(d, Frames(d)) : d \in Connection \ {c}}

LEMMA OpenSplit ==
    ASSUME NEW c \in Connection
    PROVE  /\ OpenCalls = OpenOf(c, CallsIn(stack[c])) \cup OpenOthers(c)
           /\ OpenCalls' = OpenNext(c, CallsIn(stack'[c])) \cup OpenOthers(c)'
<1>1. OpenCalls = OpenOf(c, Frames(c)) \cup OpenOthers(c)
  BY DEF OpenCalls, OpenOf, OpenOthers
<1>2. OpenCalls' = OpenNext(c, Frames(c)') \cup OpenOthers(c)'
  BY DEF OpenCalls, OpenOf, OpenNext, OpenOthers
<1>3. Frames(c) = CallsIn(stack[c]) /\ Frames(c)' = CallsIn(stack'[c])
  BY DEF Frames, CallsIn, IsCall
<1>4. QED
  BY <1>1, <1>2, <1>3

\* What the log sees of a call.
LEMMA OpenFields ==
    ASSUME NEW c, NEW f
    PROVE  /\ OpenCall(c, f).from = c /\ OpenCall(c, f).pn = f.pn
           /\ OpenCall(c, f).request = f.request
           /\ OpenCall(c, f).since =
                  IF f.pn = 0 THEN 0 ELSE savedAtStart[c][f.pn]
           /\ OpenCall(c, f).outcome =
                  IF Decided(f) THEN Log!Decision(f.answer) ELSE Log!Undecided
           /\ OpenCall(c, f)'.from = c /\ OpenCall(c, f)'.pn = f.pn
           /\ OpenCall(c, f)'.request = f.request
           /\ OpenCall(c, f)'.since =
                  IF f.pn = 0 THEN 0 ELSE savedAtStart'[c][f.pn]
           /\ OpenCall(c, f)'.outcome =
                  IF Decided(f) THEN Log!Decision(f.answer) ELSE Log!Undecided
BY DEF OpenCall, Log!Decision, Log!Undecided, Decided

\* A step of c changes nothing of the other clients' calls, and of its own
\* only those that change.
LEMMA OpenKept ==
    ASSUME SystemInv, NEW c \in Connection, Moves(c), UNCHANGED serverVars,
           RecordHistory
    PROVE  /\ OpenOthers(c)' = OpenOthers(c)
           /\ HistoryKept(c)
           /\ \A f : f.pn \in 0..packetCounter[c] =>
                  OpenCall(c, f)' = OpenCall(c, f)
<1>1. \A d \in Connection \ {c} : /\ stack'[d] = stack[d]
                                  /\ packetCounter'[d] = packetCounter[d]
  BY DEF Moves, OthersKept
<1>2. \A d \in Connection \ {c} : savedAtStart'[d] = savedAtStart[d]
  BY <1>1 DEF RecordHistory
<1>3. ASSUME NEW d \in Connection \ {c}
      PROVE  OpenOf(d, Frames(d))' = OpenOf(d, Frames(d))
  <2>1. Frames(d)' = Frames(d) /\ savedAtStart'[d] = savedAtStart[d]
    BY <1>1, <1>2 DEF Frames
  <2>2. \A f : OpenCall(d, f)' = OpenCall(d, f)
    BY <2>1 DEF OpenCall, Decided
  <2>3. QED
    BY <2>1, <2>2 DEF OpenOf
<1>4. OpenOthers(c)' = OpenOthers(c)
  BY <1>3 DEF OpenOthers
<1>5. TableKept
  BY TableGrows DEF SystemInv
<1>6. Grows(c) /\ HistoryOK(c)
  BY DEF Moves, SystemInv, Good
<1>7. HistoryKept(c)
  BY <1>5, <1>6, HistoryGrows
<1>8. ASSUME NEW f, f.pn \in 0..packetCounter[c]
      PROVE  OpenCall(c, f)' = OpenCall(c, f)
  <2>1. packetCounter[c] \in Nat
    BY StackFacts
  <2>2. f.pn # 0 => savedAtStart'[c][f.pn] = savedAtStart[c][f.pn]
    BY <1>7, <1>8, <2>1 DEF HistoryKept
  <2>3. QED
    BY <2>2 DEF OpenCall, Decided
<1>9. QED
  BY <1>4, <1>7, <1>8

\* The same, of the calls of a stack.
LEMMA OpenKeptIn ==
    ASSUME SystemInv, NEW c \in Connection, Moves(c), UNCHANGED serverVars,
           RecordHistory, NEW F, \A f \in F : f.pn \in 0..packetCounter[c]
    PROVE  OpenNext(c, F) = OpenOf(c, F)
<1>1. \A f \in F : OpenCall(c, f)' = OpenCall(c, f)
  BY OpenKept
<1>2. QED
  BY <1>1 DEF OpenNext, OpenOf

\* A call is not among others that have other numbers.
LEMMA OpenDistinct ==
    ASSUME NEW c \in Connection, NEW f, NEW F, \A g \in F : g.pn # f.pn
    PROVE  /\ OpenCall(c, f) \notin OpenOf(c, F) \cup OpenOthers(c)
           /\ \A other \in OpenOf(c, F) \cup OpenOthers(c) :
                <<other.from, other.pn>> # <<c, f.pn>>
<1>1. \A g \in F : OpenCall(c, g).pn # f.pn
  BY OpenFields
<1>2. \A d \in Connection \ {c} : \A g : OpenCall(d, g).from # c
  BY OpenFields
<1>3. OpenCall(c, f).from = c /\ OpenCall(c, f).pn = f.pn
  BY OpenFields
<1>4. \A other \in OpenOf(c, F) \cup OpenOthers(c) :
          other.pn # f.pn \/ other.from # c
  BY <1>1, <1>2 DEF OpenOf, OpenOthers
<1>5. QED
  BY <1>3, <1>4
------------------------------------------------------------------------------
(* Every step of a client is a step of the log.                            *)

\* A step that shows nothing to the callers.
LEMMA QuietStep ==
    ASSUME table' = table, OpenCalls' = OpenCalls,
           EventsInTransit' \subseteq EventsInTransit
    PROVE  Log!Next
BY DEF Log!Next, Log!Lose

LEMMA NothingSent ==
    ASSUME UNCHANGED serverVars, toServer' = toServer
    PROVE  EventsInTransit' = EventsInTransit
<1>1. Unsaved' = Unsaved /\ serving' = serving
  BY DEF Unsaved, serverVars, handlerVars
<1>2. QED
  BY <1>1 DEF EventsInTransit, EventsIn

LEMMA SameCallsShowNothing ==
    ASSUME SystemInv, NEW c \in Connection, Moves(c), UNCHANGED serverVars,
           RecordHistory, SameCalls(c)
    PROVE  OpenCalls' = OpenCalls
<1>. DEFINE K == CallsIn(stack[c])
<1>1. \A f \in K : f.pn \in 0..packetCounter[c]
  BY StackFacts, CallsCounted
<1>2. OpenNext(c, K) = OpenOf(c, K) /\ OpenOthers(c)' = OpenOthers(c)
  BY <1>1, OpenKeptIn, OpenKept
<1>3. CallsIn(stack'[c]) = K
  BY DEF SameCalls
<1>4. QED
  BY <1>2, <1>3, OpenSplit

\* The innermost call becomes another.
LEMMA TopInLog ==
    ASSUME SystemInv, NEW c \in Connection, Moves(c), UNCHANGED serverVars,
           RecordHistory, Offline(c), NEW g, TopBecomes(c, g)
    PROVE  /\ OpenCall(c, Top(c)) \in OpenCalls
           /\ OpenCalls' = (OpenCalls \ {OpenCall(c, Top(c))})
                              \cup {OpenCall(c, g)}
<1>. DEFINE K == CallsIn(Below(c))
            f == Top(c)
<1>1. stack[c] # <<>> /\ IsCall(f) /\ g.pn = f.pn
  BY DEF TopBecomes
<1>2. /\ CallsIn(stack[c]) = K \cup {f}
      /\ CallsIn(stack'[c]) = K \cup {g}
  BY <1>1, StackFacts DEF TopBecomes
<1>3. \A h \in K \cup {f} : h.pn \in 0..packetCounter[c]
  BY <1>2, StackFacts, CallsCounted
<1>4. \A h \in K \cup {g} : h.pn \in 0..packetCounter[c]
  BY <1>1, <1>3
<1>5. \A h \in K : h.pn # f.pn
  BY <1>1, AloneOnTop
<1>. HIDE DEF K, f
<1>6. /\ OpenCalls = OpenOf(c, K \cup {f}) \cup OpenOthers(c)
      /\ OpenCalls' = OpenOf(c, K \cup {g}) \cup OpenOthers(c)
  <2>1. OpenNext(c, K \cup {g}) = OpenOf(c, K \cup {g})
    BY <1>4, OpenKeptIn
  <2>2. OpenOthers(c)' = OpenOthers(c)
    BY OpenKept
  <2>3. QED
    BY <1>2, <2>1, <2>2, OpenSplit
<1>7. OpenCall(c, f) \notin OpenOf(c, K) \cup OpenOthers(c)
  BY <1>5, OpenDistinct
<1>8. \A h : OpenOf(c, K \cup {h}) = OpenOf(c, K) \cup {OpenCall(c, h)}
  BY DEF OpenOf
<1>9. QED
  BY <1>6, <1>7, <1>8 DEF f

\* The log allows what a call returns.
LEMMA AnswerAllowed ==
    ASSUME SystemInv, RowsOnly, NEW c \in Connection, NEW g \in GoodCalls(c),
           g.pn # 0
    PROVE  Log!Allowed(OpenCall(c, g), g.answer)
<1>. DEFINE call == OpenCall(c, g)
<1>1. /\ call.request = g.request /\ call.since = savedAtStart[c][g.pn]
      /\ call.from = c /\ call.pn = g.pn
  BY OpenFields
<1>2. /\ g.answer \in Answer /\ g.request \in Request
      /\ g.answer.ok => Right(c, g)
  BY DEF GoodCalls, CallFrames, GoodRequest
<1>3. g.answer.ok \/ g.answer = NoAnswer
  <2>1. ASSUME NEW a \in Answer
        PROVE  a.ok \/ a = NoAnswer
    <3>1. CASE a \in {NoAnswer, Confirmed}
      BY <3>1 DEF Confirmed
    <3>2. CASE a \notin {NoAnswer, Confirmed}
      <4>1. \/ a \in [ok : {TRUE}, number : Nat]
            \/ a \in [ok : {TRUE}, events : Seq(Event)]
        BY <3>2 DEF Answer
      <4>2. QED
        BY <4>1
    <3>3. QED
      BY <3>1, <3>2
  <2>2. QED
    BY <1>2, <2>1
<1>. HIDE DEF call
<1>4. CASE g.answer = NoAnswer
  BY <1>4 DEF Log!Allowed, call
<1>5. CASE g.answer.ok /\ g.request.op = "send"
  <2>1. Submitted(c, g.pn, g.request.size)
    BY <1>2, <1>5 DEF Right
  <2>2. Log!Submission(call) = [from |-> c, pn |-> g.pn, size |-> g.request.size]
    BY <1>1 DEF Log!Submission
  <2>3. QED
    BY <1>1, <1>5, <2>1, <2>2 DEF Log!Allowed, Submitted, call
<1>6. CASE g.answer.ok /\ g.request.op = "number"
  <2>1. g.answer.number \in Since(c, g.pn)
    BY <1>2, <1>6 DEF Right
  <2>2. QED
    BY <1>1, <1>6, <2>1 DEF Log!Allowed, Since, call
<1>7. CASE g.answer.ok /\ g.request.op \in {"range", "row"}
  <2>1. /\ g.request.first = g.request.last
        /\ g.request.first < Len(table) /\ Len(table) \in Since(c, g.pn)
        /\ g.answer.events = SubSeq(table, g.request.first + 1,
                                    g.request.first + 1)
    BY <1>7, RowAnswer
  <2>2. g.answer.events = Log!Slice(call.request.first, call.request.last,
                                    Len(table))
    BY <1>1, <2>1 DEF Log!Slice
  <2>3. QED
    BY <1>1, <1>7, <2>1, <2>2 DEF Log!Allowed, Since, call
<1>8. g.request.op \in {"send", "number", "range", "row"}
  BY <1>2 DEF Request
<1>9. QED
  BY <1>3, <1>4, <1>5, <1>6, <1>7, <1>8

\* The polling loop ends, or goes on with the part of the answer it has.
LEMMA LoopMaps ==
    ASSUME SystemInv, RowsOnly, NEW c \in Connection, Moves(c),
           UNCHANGED serverVars, RecordHistory, Offline(c),
           TakeResponses(c) \/ Timeout(c)
    PROVE  Log!Next
<1>1. Calling(c, "wait") /\ Top(c).pn # 0
  BY LoopSteps
<1>2. PICK g \in GoodCalls(c) : TopBecomes(c, g) /\ g.at \in {"wait", "leave"}
  BY LoopSteps
<1>. DEFINE call == OpenCall(c, Top(c))
            after == OpenCall(c, g)
<1>3. /\ call \in OpenCalls
      /\ OpenCalls' = (OpenCalls \ {call}) \cup {after}
  BY <1>2, TopInLog
<1>4. g.pn = Top(c).pn /\ g.request = Top(c).request
  BY <1>2 DEF TopBecomes
<1>5. ~Decided(Top(c))
  BY <1>1 DEF Calling, Decided
<1>6. UNCHANGED table /\ EventsInTransit' = EventsInTransit
  <2>1. toServer' = toServer
    BY DEF TakeResponses, Timeout, transportVars
  <2>2. QED
    BY <2>1, NothingSent DEF serverVars
<1>7. CASE g.at = "wait"
  <2>1. after = call
    BY <1>4, <1>5, <1>7 DEF OpenCall, Decided
  <2>2. OpenCalls' = OpenCalls
    BY <1>3, <2>1
  <2>3. QED
    BY <1>6, <2>2, QuietStep
<1>8. CASE g.at = "leave"
  <2>1. Decided(g)
    BY <1>8 DEF Decided
  <2>2. /\ ~call.outcome.decided
        /\ after.outcome.decided
        /\ after.outcome.answer = g.answer
        /\ after = [call EXCEPT !.outcome = after.outcome]
    <3>1. ~call.outcome.decided
      BY <1>5 DEF OpenCall
    <3>2. after.outcome.decided /\ after.outcome.answer = g.answer
      BY <2>1 DEF OpenCall
    <3>3. after = [call EXCEPT !.outcome = after.outcome]
      <4>. DEFINE since == IF g.pn = 0 THEN 0 ELSE savedAtStart[c][g.pn]
                  R(outcome) ==
                      [from |-> c, pn |-> g.pn, request |-> g.request,
                       since |-> since, outcome |-> outcome]
      <4>1. call = R(call.outcome)
        BY <1>4 DEF OpenCall
      <4>2. after = R(after.outcome)
        BY DEF OpenCall
      <4>. HIDE DEF call, after, since
      <4>3. \A o, p : R(p) = [R(o) EXCEPT !.outcome = p]
        OBVIOUS
      <4>. HIDE DEF R
      <4>4. QED
        BY <4>1, <4>2, <4>3
    <3>4. QED
      BY <3>1, <3>2, <3>3
  <2>3. Log!Allowed(after, g.answer)
    BY <1>1, <1>4, AnswerAllowed
  <2>4. Log!Allowed(call, g.answer)
    <3>1. /\ call.request = after.request /\ call.since = after.since
          /\ call.from = after.from /\ call.pn = after.pn
      BY <1>4, OpenFields
    <3>. HIDE DEF call, after
    <3>2. QED
      BY <2>3, <3>1 DEF Log!Allowed, Log!Submission
  <2>. HIDE DEF call, after
  <2>5. Log!Decide(call, after.outcome)
    <3>1. /\ call \in OpenCalls
          /\ OpenCalls' = (OpenCalls \ {call})
                             \cup {[call EXCEPT !.outcome = after.outcome]}
      BY <1>3, <2>2
    <3>2. Log!Allowed(call, after.outcome.answer)
      BY <2>2, <2>4
    <3>3. QED
      BY <1>6, <2>2, <3>1, <3>2 DEF Log!Decide
  <2>6. after \in OpenCalls'
    BY <1>3
  <2>7. QED
    BY <1>3, <2>5, <2>6 DEF Log!Next
<1>9. QED
  BY <1>2, <1>7, <1>8

\* The answer of a call that leaves does not change.
LEMMA LeaveMaps ==
    ASSUME SystemInv, NEW c \in Connection, Moves(c), UNCHANGED serverVars,
           RecordHistory, Offline(c), Leave(c)
    PROVE  Log!Next
<1>. DEFINE g == [Top(c) EXCEPT !.at = "return"]
<1>1. Calling(c, "leave") /\ TopBecomes(c, g) /\ g \in GoodCalls(c)
  BY LeaveSteps
<1>2. Top(c) \in GoodCalls(c) /\ Top(c).at = "leave"
  BY <1>1, StackFacts DEF Calling, IsCall
<1>3. /\ g.at = "return" /\ g.pn = Top(c).pn /\ g.request = Top(c).request
      /\ g.answer = Top(c).answer
  BY <1>2 DEF GoodCalls, CallFrames
<1>. HIDE DEF g
<1>4. OpenCall(c, g) = OpenCall(c, Top(c))
  BY <1>2, <1>3 DEF OpenCall, Decided
<1>5. OpenCalls' = OpenCalls
  BY <1>1, <1>4, TopInLog
<1>6. toServer' = toServer
  BY DEF Leave
<1>7. QED
  BY <1>5, <1>6, NothingSent, QuietStep DEF serverVars

LEMMA ReturnMaps ==
    ASSUME SystemInv, NEW c \in Connection, Moves(c), UNCHANGED serverVars,
           RecordHistory, Offline(c), Return(c)
    PROVE  Log!Next
<1>. DEFINE K == CallsIn(Below(c))
            f == Top(c)
<1>1. /\ stack[c] # <<>> /\ IsCall(f) /\ Decided(f) /\ stack'[c] = Below(c)
  BY ReturnSteps DEF Decided
<1>2. CallsIn(stack[c]) = K \cup {f} /\ CallsIn(stack'[c]) = K
  BY <1>1, StackFacts
<1>3. \A h \in K : h.pn \in 0..packetCounter[c]
  BY <1>2, StackFacts, CallsCounted
<1>4. \A h \in K : h.pn # f.pn
  BY <1>1, AloneOnTop
<1>. HIDE DEF K, f
<1>5. /\ OpenCalls = OpenOf(c, K \cup {f}) \cup OpenOthers(c)
      /\ OpenCalls' = OpenOf(c, K) \cup OpenOthers(c)
  <2>1. OpenNext(c, K) = OpenOf(c, K) /\ OpenOthers(c)' = OpenOthers(c)
    BY <1>3, OpenKeptIn, OpenKept
  <2>2. QED
    BY <1>2, <2>1, OpenSplit
<1>6. OpenCall(c, f) \notin OpenOf(c, K) \cup OpenOthers(c)
  BY <1>4, OpenDistinct
<1>7. OpenOf(c, K \cup {f}) = OpenOf(c, K) \cup {OpenCall(c, f)}
  BY DEF OpenOf
<1>8. /\ OpenCall(c, f) \in OpenCalls
      /\ OpenCalls' = OpenCalls \ {OpenCall(c, f)}
  BY <1>5, <1>6, <1>7
<1>9. OpenCall(c, f).outcome.decided
  BY <1>1 DEF OpenCall
<1>10. UNCHANGED table /\ EventsInTransit' = EventsInTransit
  <2>1. toServer' = toServer
    BY DEF Return, transportVars
  <2>2. QED
    BY <2>1, NothingSent DEF serverVars
<1>11. QED
  BY <1>8, <1>9, <1>10 DEF Log!Next, Log!End

\* Packets under way, one of them more.
LEMMA EventsAppended ==
    ASSUME NEW s \in Seq(Packets), NEW p \in ClientPacket, NEW c
    PROVE  EventsIn(Append(s, p), c) = EventsIn(s, c) \cup
               IF p.type = "SendEvent"
               THEN {[from |-> c, pn |-> p.pn, size |-> p.size]} ELSE {}
<1>. DEFINE t == Append(s, p)
            E(q) == [from |-> c, pn |-> q.pn, size |-> q.size]
<1>1. /\ Len(s) \in Nat /\ Len(t) = Len(s) + 1 /\ t[Len(s) + 1] = p
      /\ \A i \in 1..Len(s) : t[i] = s[i]
  BY AppendProperties DEF Packets
<1>. HIDE DEF t
<1>2. 1..Len(t) = 1..Len(s) \cup {Len(s) + 1}
  BY <1>1
<1>3. \A e : e \in EventsIn(s, c) <=>
          \E i \in 1..Len(s) : s[i].type = "SendEvent" /\ e = E(s[i])
  BY DEF EventsIn
<1>4. \A e : e \in EventsIn(t, c) <=>
          \E i \in 1..Len(t) : t[i].type = "SendEvent" /\ e = E(t[i])
  BY DEF EventsIn
<1>. HIDE DEF E
<1>5. \A e : e \in EventsIn(t, c) <=>
          \/ e \in EventsIn(s, c)
          \/ p.type = "SendEvent" /\ e = E(p)
  BY <1>1, <1>2, <1>3, <1>4
<1>6. EventsIn(t, c) = EventsIn(s, c) \cup IF p.type = "SendEvent"
                                           THEN {E(p)} ELSE {}
  BY <1>5
<1>7. QED
  BY <1>6 DEF t, E

OtherEvents(c) ==
    (UNION {EventsIn(toServer[d], d) : d \in Connection \ {c}})
        \cup EventsIn(Unsaved, serving)

LEMMA TransitSplit ==
    ASSUME NEW c \in Connection
    PROVE  /\ EventsInTransit = EventsIn(toServer[c], c) \cup OtherEvents(c)
           /\ EventsInTransit' = EventsIn(toServer[c], c)' \cup OtherEvents(c)'
BY DEF EventsInTransit, OtherEvents

\* The event of a sendEvent is under way once its packet has gone out.
LEMMA SentIsSubmitted ==
    ASSUME SystemInv, UNCHANGED serverVars, NEW c \in Connection,
           NEW f \in GoodCalls(c), GoesOut(c, f)
    PROVE  \/ EventsInTransit' = EventsInTransit
           \/ /\ f.request.op = "send"
              /\ EventsInTransit' = EventsInTransit \cup
                     {[from |-> c, pn |-> f.pn, size |-> f.request.size]}
<1>. DEFINE p == Packet(f.request, f.pn, handshake[c])
<1>1. /\ f.request \in GoodRequest /\ f.pn \in Nat /\ handshake[c] \in Nat
      /\ toServer = [d \in Connection |-> toServer[d]]
      /\ toServer[c] \in Seq(Packets)
  BY DEF GoodCalls, CallFrames, SystemInv, CoreInv, LinksOK, ChannelsOK,
     IsChannel, Packets
<1>2. p \in ClientPacket /\ p.pn = f.pn /\ Asks(p, f.request)
  BY <1>1, PacketFields
<1>3. toServer' = Sent(toServer, clientValid, c, p)
  BY DEF GoesOut
<1>. HIDE DEF p
<1>4. /\ toServer'[c] \in {toServer[c], Append(toServer[c], p)}
      /\ \A d \in Connection \ {c} : toServer'[d] = toServer[d]
  BY <1>1, <1>3 DEF Sent
<1>5. OtherEvents(c)' = OtherEvents(c)
  <2>1. Unsaved' = Unsaved /\ serving' = serving
    BY DEF Unsaved, serverVars, handlerVars
  <2>2. \A d \in Connection \ {c} :
            EventsIn(toServer[d], d)' = EventsIn(toServer[d], d)
    BY <1>4 DEF EventsIn
  <2>3. EventsIn(Unsaved, serving)' = EventsIn(Unsaved, serving)
    BY <2>1 DEF EventsIn
  <2>4. QED
    BY <2>2, <2>3 DEF OtherEvents
<1>6. EventsIn(toServer[c], c)' = EventsIn(toServer'[c], c)
  BY DEF EventsIn
<1>7. CASE toServer'[c] = toServer[c]
  <2>1. EventsIn(toServer[c], c)' = EventsIn(toServer[c], c)
    BY <1>6, <1>7
  <2>2. QED
    BY <1>5, <2>1, TransitSplit
<1>8. CASE toServer'[c] = Append(toServer[c], p)
  <2>1. EventsIn(toServer[c], c)' = EventsIn(toServer[c], c) \cup
            IF p.type = "SendEvent"
            THEN {[from |-> c, pn |-> p.pn, size |-> p.size]} ELSE {}
    BY <1>1, <1>2, <1>6, <1>8, EventsAppended
  <2>2. p.type = "SendEvent" =>
            f.request.op = "send" /\ p.size = f.request.size
    BY <1>2 DEF Asks
  <2>3. QED
    BY <1>2, <1>5, <2>1, <2>2, TransitSplit
<1>9. QED
  BY <1>4, <1>7, <1>8

\* A call that is new in the log begins.
LEMMA BeginStep ==
    ASSUME NEW call, table' = table, OpenCalls' = OpenCalls \cup {call},
           \A other \in OpenCalls :
               <<other.from, other.pn>> # <<call.from, call.pn>>,
           \/ call.outcome = Log!Undecided /\ call.since = Len(table)
           \/ call.outcome = Log!Decision(NoAnswer),
           \/ EventsInTransit' = EventsInTransit
           \/ /\ call.request.op = "send"
              /\ EventsInTransit' = EventsInTransit \cup {Log!Submission(call)}
    PROVE  Log!Next
<1>1. call \in OpenCalls' \ OpenCalls
  OBVIOUS
<1>2. Log!Begin(call)
  BY DEF Log!Begin
<1>3. QED
  BY <1>1, <1>2 DEF Log!Next

LEMMA NewCallMaps ==
    ASSUME SystemInv, NEW c \in Connection, Moves(c), UNCHANGED serverVars,
           RecordHistory, Offline(c), UserCall(c) \/ FireNewEventCallback(c)
    PROVE  Log!Next
<1>. DEFINE K == CallsIn(stack[c])
<1>1. stack[c] # <<>> => ~IsCall(Top(c))
  BY NewCallSteps
<1>2. PICK request \in GoodRequest, below \in Seq(Frame(c)) :
          Call(c, request, below) /\ CallsIn(below) = K
  BY NewCallSteps
<1>3. PICK f \in GoodCalls(c) :
          /\ stack'[c] = <<f>> \o below /\ f.request = request
          /\ FailsOffline(c, f) \/ FailsTooLong(c, f) \/ GoesOut(c, f)
  BY <1>2, CallSteps
<1>4. packetCounter[c] \in Nat
  BY StackFacts
<1>5. \A h \in K : h.pn \in 1..packetCounter[c]
  <2>1. \A h \in K : h.pn # 0
    BY <1>1, OnlineCalls
  <2>2. \A h \in K : h.pn \in 0..packetCounter[c]
    BY StackFacts, CallsCounted
  <2>3. QED
    BY <1>4, <2>1, <2>2
<1>6. f.pn \notin 1..packetCounter[c] /\ \A h \in K : h.pn # f.pn
  <2>1. f.pn \in {0, packetCounter[c] + 1}
    BY <1>3 DEF FailsOffline, FailsTooLong, GoesOut
  <2>2. QED
    BY <1>4, <1>5, <2>1
<1>7. CallsIn(stack'[c]) = K \cup {f}
  <2>1. f \in Frame(c) /\ IsCall(f)
    BY DEF Frame, GoodCalls, CallFrames, IsCall
  <2>2. CallsIn(<<f>> \o below) = CallsIn(below)
                                    \cup IF IsCall(f) THEN {f} ELSE {}
    BY <2>1, CallsPushed
  <2>3. QED
    BY <1>2, <1>3, <2>1, <2>2
<1>8. \A h \in K : h.pn \in 0..packetCounter[c]
  BY <1>4, <1>5
<1>. HIDE DEF K
<1>9. PICK call : call = OpenCall(c, f)'
  OBVIOUS
<1>10. OpenCalls' = OpenCalls \cup {call}
  <2>1. OpenNext(c, K) = OpenOf(c, K) /\ OpenOthers(c)' = OpenOthers(c)
    BY <1>8, OpenKeptIn, OpenKept
  <2>2. OpenNext(c, K \cup {f}) = OpenNext(c, K) \cup {call}
    BY <1>9 DEF OpenNext
  <2>3. /\ OpenCalls = OpenOf(c, K) \cup OpenOthers(c)
        /\ OpenCalls' = OpenNext(c, K \cup {f}) \cup OpenOthers(c)'
    BY <1>7, OpenSplit DEF K
  <2>4. QED
    BY <2>1, <2>2, <2>3
<1>11. /\ call.from = c /\ call.pn = f.pn /\ call.request = f.request
       /\ call.since = IF f.pn = 0 THEN 0 ELSE savedAtStart'[c][f.pn]
       /\ call.outcome = IF Decided(f) THEN Log!Decision(f.answer)
                                       ELSE Log!Undecided
  BY <1>9, OpenFields
<1>12. \A other \in OpenCalls :
           <<other.from, other.pn>> # <<call.from, call.pn>>
  <2>1. OpenCalls = OpenOf(c, K) \cup OpenOthers(c)
    BY OpenSplit DEF K
  <2>2. QED
    <3>1. \A other \in OpenOf(c, K) \cup OpenOthers(c) :
              <<other.from, other.pn>> # <<c, f.pn>>
      BY <1>6, OpenDistinct
    <3>2. call.from = c /\ call.pn = f.pn
      BY <1>11
    <3>3. QED
      BY <2>1, <3>1, <3>2
<1>13. CASE FailsOffline(c, f) \/ FailsTooLong(c, f)
  <2>1. /\ Decided(f) /\ f.answer = NoAnswer /\ toServer' = toServer
    BY <1>13 DEF FailsOffline, FailsTooLong, Decided
  <2>2. call.outcome = Log!Decision(NoAnswer)
    BY <1>11, <2>1
  <2>3. EventsInTransit' = EventsInTransit /\ table' = table
    BY <2>1, NothingSent DEF serverVars
  <2>4. QED
    BY <1>10, <1>12, <2>2, <2>3, BeginStep
<1>14. CASE GoesOut(c, f)
  <2>1. /\ ~Decided(f) /\ f.pn = packetCounter[c] + 1
        /\ packetCounter'[c] = f.pn
    BY <1>14 DEF GoesOut, Decided
  <2>2. savedAtStart'[c] = Append(savedAtStart[c], Len(table))
    BY <1>4, <2>1 DEF RecordHistory
  <2>3. savedAtStart[c] \in Seq(Nat) /\ Len(savedAtStart[c]) = packetCounter[c]
    BY DEF SystemInv, Good, HistoryOK
  <2>4. Len(table) \in Nat
    BY LenProperties DEF SystemInv, CoreInv, StorageOK
  <2>5. savedAtStart'[c][f.pn] = Len(table)
    BY <2>1, <2>2, <2>3, <2>4, AppendProperties
  <2>6. call.outcome = Log!Undecided /\ call.since = Len(table)
    BY <1>4, <1>11, <2>1, <2>5
  <2>7. Log!Submission(call) =
            [from |-> c, pn |-> f.pn, size |-> f.request.size]
    BY <1>11 DEF Log!Submission
  <2>8. \/ EventsInTransit' = EventsInTransit
        \/ /\ call.request.op = "send"
           /\ EventsInTransit' = EventsInTransit \cup {Log!Submission(call)}
    BY <1>11, <1>14, <2>7, SentIsSubmitted
  <2>9. table' = table
    BY DEF serverVars
  <2>10. QED
    BY <1>10, <1>12, <2>6, <2>8, <2>9, BeginStep
<1>15. QED
  BY <1>3, <1>13, <1>14

\* Every step of a client.
LEMMA ClientMaps ==
    ASSUME SystemInv, RowsOnly, LogInv, NEW c \in Connection, ClientThread(c),
           UNCHANGED serverVars, RecordHistory
    PROVE  Log!Next
<1>1. Moves(c) /\ Offline(c)
  BY ClientMoves DEF LogInv
<1>2. CASE \/ SaveMessage(c) \/ DropMessage(c) \/ EndDrain(c)
           \/ OnDataArrived(c) \/ Poll(c) \/ ClientNotices(c)
  <2>1. SameCalls(c)
    BY <1>2, QuietSteps, PollSteps DEF ClientNotices, clientVars, SameCalls
  <2>2. toServer' = toServer
    BY <1>2 DEF SaveMessage, DropMessage, EndDrain, OnDataArrived, Poll,
       ClientNotices, transportVars
  <2>3. /\ OpenCalls' = OpenCalls /\ EventsInTransit' = EventsInTransit
        /\ table' = table
    BY <1>1, <2>1, <2>2, SameCallsShowNothing, NothingSent DEF serverVars
  <2>4. QED
    BY <2>3, QuietStep
<1>3. CASE TakeResponses(c) \/ Timeout(c)
  BY <1>1, <1>3, LoopMaps
<1>4. CASE Leave(c)
  BY <1>1, <1>4, LeaveMaps
<1>5. CASE Return(c)
  BY <1>1, <1>5, ReturnMaps
<1>6. CASE UserCall(c) \/ FireNewEventCallback(c)
  BY <1>1, <1>6, NewCallMaps
<1>7. QED
  BY <1>2, <1>3, <1>4, <1>5, <1>6 DEF ClientThread, InCall, ClientStep
------------------------------------------------------------------------------
(* Every step of the server and the network is a step of the log.          *)

LEMMA ServerShowsNothing ==
    ASSUME SystemInv, Server \/ Network, UNCHANGED clientVars, RecordHistory
    PROVE  OpenCalls' = OpenCalls
<1>1. UNCHANGED packetCounter
  BY DEF Server, ServerStep, Network, IgnorePacket, OnSendEvent,
     ReceiveAgain, OnNewEventSaved, SendAck, OnSavedEventsRequest,
     SendSavedEvent, AbandonReply, OnNumberOfSavedEventsRequest,
     CheckProtocolsExecutors, Handshake, OnNewDataReceived, Crash, LinkBreaks,
     ServerNotices, transportVars
<1>2. \A c \in Connection : savedAtStart'[c] = savedAtStart[c]
  BY <1>1 DEF RecordHistory
<1>3. stack' = stack
  BY DEF clientVars
<1>4. ASSUME NEW c \in Connection
      PROVE  OpenOf(c, Frames(c))' = OpenOf(c, Frames(c))
  <2>1. Frames(c)' = Frames(c)
    BY <1>3 DEF Frames
  <2>2. \A f : OpenCall(c, f)' = OpenCall(c, f)
    BY <1>2 DEF OpenCall, Decided
  <2>3. QED
    BY <2>1, <2>2 DEF OpenOf
<1>5. /\ OpenCalls = UNION {OpenOf(c, Frames(c)) : c \in Connection}
      /\ OpenCalls' = UNION {OpenOf(c, Frames(c))' : c \in Connection}
  BY DEF OpenCalls, OpenOf
<1>6. QED
  BY <1>4, <1>5

\* The packets of c whose events are under way already.
InTransit(c) ==
    {p \in ClientPacket : p.type = "SendEvent" =>
        [from |-> c, pn |-> p.pn, size |-> p.size] \in EventsInTransit}

\* A sequence of packets holds the events of its SendEvents.
LEMMA EventsOfSeq ==
    ASSUME NEW s, NEW c
    PROVE  \A e : e \in EventsIn(s, c) <=>
               \E i \in 1..Len(s) :
                   /\ s[i].type = "SendEvent"
                   /\ e = [from |-> c, pn |-> s[i].pn, size |-> s[i].size]
BY DEF EventsIn

LEMMA ChannelInTransit ==
    ASSUME CoreInv, NEW c \in Connection
    PROVE  /\ IsChannel(toServer[c], InTransit(c))
           /\ serving = c /\ pc # "notify" => stream \in Seq(InTransit(c))
<1>. DEFINE s == toServer[c]
            E(p) == [from |-> c, pn |-> p.pn, size |-> p.size]
<1>1. /\ IsChannel(s, ClientPacket) /\ stream \in Seq(ClientPacket)
      /\ Len(s) \in Nat /\ Len(stream) \in Nat
  BY LenProperties DEF CoreInv, ChannelsOK, HandlerOK, IsChannel
<1>2. \A i \in 1..Len(s) : s[i].type = "SendEvent" => E(s[i]) \in EventsInTransit
  BY TransitSplit, EventsOfSeq
<1>3. ASSUME serving = c, pc # "notify"
      PROVE  \A i \in 1..Len(stream) :
                 stream[i].type = "SendEvent" => E(stream[i]) \in EventsInTransit
  <2>1. EventsIn(stream, c) \subseteq EventsInTransit
    BY <1>3 DEF EventsInTransit, Unsaved
  <2>2. QED
    BY <2>1, EventsOfSeq
<1>. HIDE DEF E
<1>4. \A p \in ClientPacket :
          (p.type = "SendEvent" => E(p) \in EventsInTransit) => p \in InTransit(c)
  BY DEF InTransit, E
<1>5. IsChannel(s, InTransit(c))
  <2>1. \A i \in 1..Len(s) : s[i] \in ClientPacket \cup {TAIL}
    BY <1>1, ElementOfSeq DEF IsChannel
  <2>2. \A i \in 1..Len(s) : s[i] \in InTransit(c) \cup {TAIL}
    BY <1>2, <1>4, <2>1
  <2>3. s \in Seq(InTransit(c) \cup {TAIL})
    <3>1. s \in Seq(ClientPacket \cup {TAIL})
      BY <1>1 DEF IsChannel
    <3>. HIDE DEF s
    <3>2. QED
      BY <2>2, <3>1, SeqElements
  <2>4. \A i \in 2..Len(s) : s[i] \in InTransit(c)
    <3>1. \A i \in 2..Len(s) : i \in 1..Len(s) /\ s[i] \in ClientPacket
      BY <1>1 DEF IsChannel
    <3>2. QED
      BY <1>2, <1>4, <3>1
  <2>5. QED
    BY <2>3, <2>4 DEF IsChannel
<1>6. ASSUME serving = c, pc # "notify"
      PROVE  stream \in Seq(InTransit(c))
  <2>1. \A i \in 1..Len(stream) : stream[i] \in ClientPacket
    BY <1>1, ElementOfSeq
  <2>2. \A i \in 1..Len(stream) : stream[i] \in InTransit(c)
    BY <1>3, <1>4, <1>6, <2>1
  <2>3. QED
    BY <1>1, <2>2, SeqElements
<1>7. QED
  BY <1>5, <1>6

LEMMA InTransitOnly ==
    ASSUME NEW c, NEW s, IsChannel(s, InTransit(c)) \/ s \in Seq(InTransit(c))
    PROVE  EventsIn(s, c) \subseteq EventsInTransit
<1>1. \A i \in 1..Len(s) : s[i] \in InTransit(c) \cup {TAIL}
  BY ElementOfSeq DEF IsChannel
<1>2. \A i \in 1..Len(s) : s[i].type = "SendEvent" => s[i] \in InTransit(c)
  BY <1>1 DEF TAIL
<1>3. \A i \in 1..Len(s) : s[i].type = "SendEvent" =>
          [from |-> c, pn |-> s[i].pn, size |-> s[i].size] \in EventsInTransit
  BY <1>2 DEF InTransit
<1>4. QED
  BY <1>3, EventsOfSeq

\* Nobody is served between two handlers, and no event is left over.
LEMMA NobodyServed ==
    ASSUME HandlerOK, serving \notin Connection
    PROVE  EventsIn(Unsaved, serving) = {}
<1>1. pc = "idle" /\ stream = <<>>
  BY DEF HandlerOK
<1>2. Unsaved = <<>>
  BY <1>1 DEF Unsaved
<1>3. QED
  BY <1>2 DEF EventsIn

\* But for what it saves, the server only loses events: reading, handling and
\* dropping packets adds none.
LEMMA NothingAdded ==
    ASSUME CoreInv, Server \/ Network, pc # "notify", pc' # "notify"
    PROVE  EventsInTransit' \subseteq EventsInTransit
<1>1. ASSUME NEW c \in Connection
      PROVE  EventsIn(toServer'[c], c) \subseteq EventsInTransit
  <2>1. /\ IsChannel(toServer[c], InTransit(c))
        /\ serving = c => stream \in Seq(InTransit(c))
    BY ChannelInTransit
  <2>2. \A P : (/\ IsChannel(toServer[c], P)
                /\ serving = c => stream \in Seq(P)) => IsChannel(toServer'[c], P)
    BY ServerReads
  <2>3. IsChannel(toServer'[c], InTransit(c))
    BY <2>1, <2>2
  <2>4. QED
    BY <2>3, InTransitOnly
<1>2. EventsIn(stream', serving') \subseteq EventsInTransit
  <2>1. CASE serving' \in Connection
    <3>1. PICK d \in Connection : d = serving'
      BY <2>1
    <3>2. /\ IsChannel(toServer[d], InTransit(d))
          /\ serving = d => stream \in Seq(InTransit(d))
      BY ChannelInTransit
    <3>3. \A P : (/\ IsChannel(toServer[d], P)
                  /\ serving = d => stream \in Seq(P)) => stream' \in Seq(P)
      BY <3>1, ServerReads
    <3>4. stream' \in Seq(InTransit(d))
      BY <3>2, <3>3
    <3>5. EventsIn(stream', d) \subseteq EventsInTransit
      BY <3>4, InTransitOnly
    <3>6. QED
      BY <3>1, <3>5
  <2>2. CASE serving' \notin Connection
    <3>1. stream' = <<>>
      BY <2>2, CoreTyped DEF CoreInv, HandlerOK
    <3>2. QED
      BY <3>1 DEF EventsIn
  <2>3. QED
    BY <2>1, <2>2
<1>3. EventsInTransit' = (UNION {EventsIn(toServer'[c], c) : c \in Connection})
                             \cup EventsIn(stream', serving')
  BY DEF EventsInTransit, EventsIn, Unsaved
<1>4. QED
  BY <1>1, <1>2, <1>3

\* While an event is announced, the rest of its batch waits.
LEMMA NothingAddedInNotify ==
    ASSUME CoreInv, Server \/ Network, pc = "notify"
    PROVE  EventsInTransit' \subseteq EventsInTransit /\ UNCHANGED table
<1>1. CASE (\E c \in Connection : OnNewEventSaved(c) \/ LinkBreaks(c)
                                     \/ ServerNotices(c))
  <2>1. UNCHANGED <<toServer, stream, pc, serving, table>>
    BY <1>1 DEF OnNewEventSaved, LinkBreaks, ServerNotices, serverVars, handlerVars
  <2>2. QED
    BY <2>1 DEF EventsInTransit, EventsIn, Unsaved
<1>2. CASE SendAck
  <2>1. /\ UNCHANGED <<toServer, table>> /\ NextPacket /\ stream' = Tail(stream)
        /\ pc' # "notify"
        /\ serving' = serving \/ Tail(stream) = <<>>
    BY <1>2 DEF SendAck, NextPacket
  <2>2. Unsaved = Tail(stream) /\ Unsaved' = Tail(stream)
    BY <2>1 DEF Unsaved
  <2>3. EventsIn(Unsaved, serving)' = EventsIn(Tail(stream), serving')
    BY <2>2 DEF EventsIn
  <2>4. EventsIn(Tail(stream), serving') = EventsIn(Tail(stream), serving)
    <3>1. CASE serving' = serving
      BY <3>1
    <3>2. CASE Tail(stream) = <<>>
      <4>1. \A d : EventsIn(<<>>, d) = {}
        BY DEF EventsIn
      <4>2. QED
        BY <3>2, <4>1
    <3>3. QED
      BY <2>1, <3>1, <3>2
  <2>5. \A c \in Connection : EventsIn(toServer[c], c)' = EventsIn(toServer[c], c)
    BY <2>1 DEF EventsIn
  <2>6. QED
    BY <2>1, <2>2, <2>3, <2>4, <2>5 DEF EventsInTransit
<1>3. CASE Crash
  <2>1. /\ \A c \in Connection : toServer'[c] = <<>>
        /\ stream' = <<>> /\ pc' = "idle" /\ table' = table
    BY <1>3 DEF Crash, TableAfterRestart
  <2>2. /\ Unsaved' = <<>>
        /\ \A c \in Connection : EventsIn(toServer[c], c)' = {}
    BY <2>1 DEF Unsaved, EventsIn
  <2>3. EventsIn(Unsaved, serving)' = {}
    BY <2>2 DEF EventsIn
  <2>4. QED
    BY <2>1, <2>2, <2>3 DEF EventsInTransit
<1>4. QED
  BY <1>1, <1>2, <1>3 DEF Server, ServerStep, Network, IgnorePacket,
     ReceiveAgain, OnSendEvent, OnSavedEventsRequest,
     SendSavedEvent,
     AbandonReply, OnNumberOfSavedEventsRequest, CheckProtocolsExecutors,
     Handshake, OnNewDataReceived, Dispatching

\* Numbers of packets that hold an event.
LEMMA EventNumbers ==
    ASSUME NEW s, NEW c, NEW e \in EventsIn(s, c)
    PROVE  e.from = c /\ e.pn \in Numbers(s)
<1>1. PICK i \in 1..Len(s) :
          /\ s[i].type = "SendEvent"
          /\ e = [from |-> c, pn |-> s[i].pn, size |-> s[i].size]
  BY EventsOfSeq
<1>2. s[i] # TAIL
  BY <1>1 DEF TAIL
<1>3. QED
  BY <1>1, <1>2 DEF Numbers, NumbersOf

\* The event at the head of a batch, and those behind it.
LEMMA EventsPopped ==
    ASSUME NEW s \in Seq(ClientPacket), s # <<>>, Head(s).type = "SendEvent", NEW c
    PROVE  EventsIn(s, c) = EventsIn(Tail(s), c) \cup
               {[from |-> c, pn |-> Head(s).pn, size |-> Head(s).size]}
<1>. DEFINE E(q) == [from |-> c, pn |-> q.pn, size |-> q.size]
            t == Tail(s)
            n == Len(s)
<1>1. /\ n \in Nat \ {0} /\ Len(t) = n - 1 /\ Head(s) = s[1]
      /\ \A i \in 1..Len(t) : t[i] = s[i + 1]
  BY HeadTailProperties, EmptySeq
<1>. HIDE DEF t
<1>2. \A e : e \in EventsIn(s, c) <=>
          \E i \in 1..n : s[i].type = "SendEvent" /\ e = E(s[i])
  BY EventsOfSeq
<1>3. \A e : e \in EventsIn(t, c) <=>
          \E i \in 1..Len(t) : t[i].type = "SendEvent" /\ e = E(t[i])
  BY EventsOfSeq
<1>. HIDE DEF E, n
<1>4. \A e : e \in EventsIn(t, c) => e \in EventsIn(s, c)
  <2>1. \A i \in 1..Len(t) : i + 1 \in 1..n
    BY <1>1
  <2>2. QED
    BY <1>1, <1>2, <1>3, <2>1
<1>5. \A e : e \in EventsIn(s, c) => e \in EventsIn(t, c) \/ e = E(s[1])
  <2>1. \A i \in 1..n : i = 1 \/ (i - 1 \in 1..Len(t) /\ t[i - 1] = s[i])
    BY <1>1
  <2>2. QED
    BY <1>2, <1>3, <2>1
<1>6. E(s[1]) \in EventsIn(s, c)
  <2>1. 1 \in 1..n /\ s[1].type = "SendEvent"
    BY <1>1
  <2>2. QED
    BY <1>2, <2>1
<1>7. EventsIn(s, c) = EventsIn(t, c) \cup {E(s[1])}
  BY <1>4, <1>5, <1>6
<1>8. QED
  BY <1>1, <1>7 DEF E, t

\* The event that OnSendEvent saves is under way once: nothing behind it has
\* its packet number.
LEMMA SaveMaps ==
    ASSUME CoreInv, OrderInv, OnSendEvent, pc' = "notify", OpenCalls' = OpenCalls
    PROVE  Log!Next
<1>. DEFINE e == [from |-> serving, pn |-> Head(stream).pn,
                  size |-> Head(stream).size]
            rest == (UNION {EventsIn(toServer[c], c) : c \in Connection})
                        \cup EventsIn(Tail(stream), serving)
<1>1. /\ pc = "dispatch" /\ Head(stream).type = "SendEvent"
      /\ UNCHANGED toServer
      /\ serving \in Connection
      /\ stream \in Seq(ClientPacket) /\ stream # <<>>
  BY DEF OnSendEvent, Dispatching, transportVars, CoreInv, HandlerOK
<1>2. table' = Append(table, e) /\ UNCHANGED <<stream, serving>>
  BY DEF OnSendEvent, StorageFails, NextPacket, Insert, EventOf
<1>3. EventsInTransit = rest \cup {e}
  <2>1. EventsInTransit = (UNION {EventsIn(toServer[c], c) : c \in Connection})
                              \cup EventsIn(stream, serving)
    BY <1>1 DEF EventsInTransit, Unsaved
  <2>2. EventsIn(stream, serving) = EventsIn(Tail(stream), serving) \cup {e}
    BY <1>1, EventsPopped
  <2>3. QED
    BY <2>1, <2>2
<1>4. EventsInTransit' = rest
  <2>1. Unsaved' = Tail(stream)
    BY <1>2 DEF Unsaved
  <2>2. EventsIn(Unsaved, serving)' = EventsIn(Tail(stream), serving)
    BY <1>2, <2>1 DEF EventsIn
  <2>3. \A c \in Connection : EventsIn(toServer[c], c)' = EventsIn(toServer[c], c)
    BY <1>1 DEF EventsIn
  <2>4. QED
    BY <2>2, <2>3 DEF EventsInTransit
<1>5. e \notin rest
  <2>. DEFINE n == Head(stream).pn
  <2>1. OrderOf(serving) /\ Todo(serving) = stream
    BY <1>1 DEF OrderInv, Todo
  <2>2. /\ n \in Numbers(stream) /\ Before({n}, Numbers(Tail(stream)))
        /\ Before(Numbers(stream), Numbers(toServer[serving]))
        /\ Ascends(stream)
    BY <1>1, <2>1, TailOrder DEF OrderOf
  <2>3. n \in Nat
    BY <1>1, RequestFields, PacketAtHand DEF CoreInv
  <2>4. n \notin Numbers(Tail(stream)) /\ n \notin Numbers(toServer[serving])
    BY <2>2, <2>3 DEF Before
  <2>5. e.from = serving /\ e.pn = n
    OBVIOUS
  <2>. HIDE DEF e, n
  <2>6. e \notin EventsIn(Tail(stream), serving)
    BY <2>4, <2>5, EventNumbers
  <2>7. ASSUME NEW c \in Connection
        PROVE  e \notin EventsIn(toServer[c], c)
    BY <2>4, <2>5, EventNumbers
  <2>8. QED
    BY <2>6, <2>7
<1>. HIDE DEF e, rest
<1>6. Log!Save(e)
  BY <1>2, <1>3, <1>4, <1>5 DEF Log!Save
<1>7. QED
  BY <1>3, <1>6 DEF Log!Next

LEMMA ServerMaps ==
    ASSUME SystemInv, OrderInv, Server \/ Network, UNCHANGED clientVars,
           RecordHistory
    PROVE  Log!Next
<1>1. CoreInv /\ OpenCalls' = OpenCalls
  BY ServerShowsNothing DEF SystemInv
<1>2. CASE pc = "notify"
  BY <1>1, <1>2, NothingAddedInNotify, QuietStep
<1>3. CASE pc # "notify" /\ pc' = "notify"
  <2>1. OnSendEvent
    BY <1>3 DEF Server, ServerStep, Network, IgnorePacket, OnNewEventSaved,
       ReceiveAgain, SendAck, OnSavedEventsRequest,
       SendSavedEvent,
       AbandonReply, OnNumberOfSavedEventsRequest, CheckProtocolsExecutors,
       Handshake, OnNewDataReceived, Crash, LinkBreaks, ServerNotices,
       StorageFails, NextPacket, serverVars, handlerVars
  <2>2. QED
    BY <1>1, <1>3, <2>1, SaveMaps
<1>4. CASE pc # "notify" /\ pc' # "notify"
  <2>1. table' = table
    BY <1>4 DEF Server, ServerStep, Network, IgnorePacket, OnSendEvent,
       ReceiveAgain, OnNewEventSaved, SendAck,
       OnSavedEventsRequest,
       SendSavedEvent, AbandonReply, OnNumberOfSavedEventsRequest,
       CheckProtocolsExecutors, Handshake, OnNewDataReceived, Crash,
       TableAfterRestart, LinkBreaks, ServerNotices, serverVars
  <2>2. QED
    BY <1>1, <1>4, <2>1, NothingAdded, QuietStep
<1>5. QED
  BY <1>2, <1>3, <1>4
------------------------------------------------------------------------------
(* The system implements EventLog.                                         *)

LEMMA InitMaps == SystemInit => Log!Init
<1>. SUFFICES ASSUME SystemInit
              PROVE  table = <<>> /\ EventsInTransit = {} /\ OpenCalls = {}
  BY DEF Log!Init
<1>1. /\ table = <<>> /\ stream = <<>> /\ pc = "idle"
      /\ \A c \in Connection : toServer[c] = <<>> /\ stack[c] = <<>>
  BY DEF SystemInit, Init, TransportInit, ServerInit, ClientInit
<1>2. EventsInTransit = {}
  <2>1. \A c : EventsIn(<<>>, c) = {}
    BY DEF EventsIn
  <2>2. Unsaved = <<>>
    BY <1>1 DEF Unsaved
  <2>3. QED
    BY <1>1, <2>1, <2>2 DEF EventsInTransit
<1>3. \A c \in Connection : Frames(c) = {}
  BY <1>1 DEF Frames
<1>4. OpenCalls = {}
  BY <1>3 DEF OpenCalls
<1>5. QED
  BY <1>1, <1>2, <1>4

\* The callers of the clients see one log: a call that returns true has its
\* event in it, a number of events is one it had during the call, and a row
\* is a row of it, whatever the network, the timing and the server process do
\* meanwhile.  The program asks for rows only (TableEventsModel::data); for
\* longer ranges the runs hole_in_range and overwritten_response refute it.
THEOREM LogImplemented ==
    ASSUME RowsOnly
    PROVE  SystemSpec => ImplementsEventLog
<1>1. SystemInit => Log!Init
  BY InitMaps
<1>2. SystemInv /\ OrderInv /\ LogInv /\ [SystemNext]_systemVars
          => [Log!Next]_(Log!logVars)
  <2>. SUFFICES ASSUME SystemInv, OrderInv, LogInv, [SystemNext]_systemVars
                PROVE  Log!Next \/ UNCHANGED Log!logVars
    OBVIOUS
  <2>1. CASE (Server \/ Network) /\ UNCHANGED clientVars /\ RecordHistory
    BY <2>1, ServerMaps
  <2>2. ASSUME NEW c \in Connection, ClientThread(c), UNCHANGED serverVars,
               RecordHistory
        PROVE  Log!Next
    BY <2>2, ClientMaps
  <2>3. CASE UNCHANGED systemVars
    <3>1. UNCHANGED <<table, toServer, serving, stream, pc, stack, savedAtStart>>
      BY <2>3 DEF systemVars, vars, serverVars, handlerVars, transportVars,
         clientVars, history
    <3>2. EventsInTransit' = EventsInTransit
      BY <3>1 DEF EventsInTransit, EventsIn, Unsaved
    <3>3. OpenCalls' = OpenCalls
      BY <3>1 DEF OpenCalls, OpenCall, Frames, Decided
    <3>4. QED
      BY <3>1, <3>2, <3>3 DEF Log!logVars
  <2>4. QED
    BY <2>1, <2>2, <2>3 DEF SystemNext
<1>3. QED
  BY <1>1, <1>2, SystemInvariant, SystemOrder, LogInvariant, PTL
     DEF SystemSpec, ImplementsEventLog, Log!Spec
==============================================================================
