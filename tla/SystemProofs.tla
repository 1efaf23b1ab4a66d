---------------------------- MODULE SystemProofs ----------------------------
(***************************************************************************)
(* What ChallengeSystem keeps for every number of clients, calls, events   *)
(* and faults: the shape of a client's stack of calls and what it expects, *)
(* and that a response under way is right for the call that waits for it.  *)
(***************************************************************************)
EXTENDS ChallengeSystem, ServerProtocolProofs

------------------------------------------------------------------------------
(* The invariant.  First the shape of a stack: s is the stack of a client  *)
(* that expects responses to the numbers in `expecting', has its callback  *)
(* connected if `on' and has counted n packets.                            *)

IsCall(f) == f.kind = "call"
IsWait(f) == IsCall(f) /\ f.at = "wait"
IsOpen(f) == IsCall(f) /\ f.at \in {"wait", "leave"}

Nested(s, expecting, on, n) ==
    /\ expecting \subseteq 1..n
    \* A call that waits has its mailbox, a mailbox has its call.
    /\ \A i \in 1..Len(s) : IsCall(s[i]) => s[i].pn \in 0..n
    /\ \A i \in 1..Len(s) : IsWait(s[i]) => s[i].pn \in expecting
    /\ \A e \in expecting : \E i \in 1..Len(s) : IsOpen(s[i]) /\ s[i].pn = e
    \* No two calls share a number.
    /\ \A i, j \in 1..Len(s) :
         (IsCall(s[i]) /\ IsCall(s[j]) /\ s[i].pn = s[j].pn /\ s[i].pn # 0)
             => i = j
    \* Somebody is going to connect the callback.
    /\ on \/ \E i \in 1..Len(s) : IsOpen(s[i])

\* The model's row is the table's.
IsRow(event, row) == row + 1 <= Len(table) /\ event = table[row + 1]

GoodRequest ==
    {r \in Request :
        /\ r.op = "row" => r.first = r.last /\ r.first < LAST_EVENT_NUMBER
        /\ r.op = "range" => \E call \in UserCalls : call[2] = r}

\* The events that may be returned to a request, and to the packet it sends.
EventsFor(request) ==
    {e \in Event : request.op = "row" => IsRow(e, request.first)}
EventsOfRange(packet) ==
    {e \in Event : (packet.first = packet.last /\ packet.first < LAST_EVENT_NUMBER)
                       => IsRow(e, packet.first)}

\* The packet that asks for a request, and the one that answers it.
Asks(packet, request) ==
    \/ /\ request.op = "send" /\ packet.type = "SendEvent"
       /\ packet.size = request.size
    \/ request.op = "number" /\ packet.type = "NumberOfSavedEventsRequest"
    \/ /\ request.op \in {"range", "row"} /\ packet.type = "SavedEventsRequest"
       /\ packet.first = request.first /\ packet.last = request.last

Answers(packet, request) ==
    \/ request.op = "send" /\ packet.type = "Ack"
    \/ request.op = "number" /\ packet.type = "NumberOfSavedEventsResponse"
    \/ /\ request.op \in {"range", "row"} /\ packet.type = "SavedEventsResponse"
       /\ packet.event \in EventsFor(request)
       /\ request.op = "row" => packet.isLast

\* The numbers of events the table has had since c drew packet number pn.
Since(c, pn) == savedAtStart[c][pn]..Len(table)

\* What may be under way between the ends of c: whoever waits for its packet
\* number asked for this, and nobody will wait for it who does not yet.
Asked(c) ==
    {p \in ClientPacket :
        /\ p.pn \in 1..packetCounter[c]
        /\ \A i \in 1..Len(stack[c]) :
             (IsWait(stack[c][i]) /\ stack[c][i].pn = p.pn)
                 => Asks(p, stack[c][i].request)}

Replies(c) ==
    {p \in ServerPacket : IsResponse(p) =>
        /\ p.pn \in 1..packetCounter[c]
        /\ p.type = "Ack" => Saved(c, p.pn)
        /\ p.type = "NumberOfSavedEventsResponse" => p.number \in Since(c, p.pn)
        /\ \A i \in 1..Len(stack[c]) :
             (IsWait(stack[c][i]) /\ stack[c][i].pn = p.pn)
                 => Answers(p, stack[c][i].request)}

\* What may be in the mailbox for packet number n.
Mail(c, n) == {p \in Replies(c) : IsResponse(p) /\ p.pn = n}

\* What a call may return.
Answer ==
    {NoAnswer, Confirmed} \cup [ok: {TRUE}, number: Nat]
    \cup [ok: {TRUE}, events: Seq(Event)]

Submitted(c, pn, size) ==
    \E k \in 1..Len(table) : table[k] = [from |-> c, pn |-> pn, size |-> size]

Right(c, f) ==
    /\ f.pn \in 1..packetCounter[c]
    /\ f.request.op = "send" => Submitted(c, f.pn, f.request.size)
    /\ f.request.op = "number" => f.answer.number \in Since(c, f.pn)
    /\ f.request.op \in {"range", "row"} =>
           f.answer.events \in Seq(EventsFor(f.request))
    /\ f.request.op = "row" => Len(f.answer.events) = 1

CallFrames ==
    [kind: {"call"}, request: GoodRequest, pn: Nat,
     at: {"wait", "leave", "return"}, events: Seq(Event), answer: Answer]

GoodCalls(c) ==
    {f \in CallFrames : /\ f.events \in Seq(EventsFor(f.request))
                        /\ f.at = "wait" /\ f.request.op = "row" => f.events = <<>>
                        /\ f.answer.ok => Right(c, f)}

GoodDrains(c) == [kind: {"drain"}, packets: Seq(Replies(c)), slot: BOOLEAN]

\* The history has an entry for every packet number that c has drawn.
HistoryOK(c) ==
    /\ savedAtStart[c] \in Seq(Nat) /\ Len(savedAtStart[c]) = packetCounter[c]
    /\ \A n \in 1..packetCounter[c] : savedAtStart[c][n] <= Len(table)

\* A row of c is one that c has asked for.
RowsAsked(c) ==
    \A k \in 1..Len(table) : table[k].from = c =>
        SendEvent(table[k].pn, NoHandshake, table[k].size) \in Asked(c)

\* Everything that is known of connection c and its client.
Good(c) ==
    /\ IsChannel(toServer[c], Asked(c))
    /\ IsChannel(toClient[c], Replies(c))
    /\ serving = c => stream \in Seq(Asked(c))
    /\ stack[c] \in Seq(GoodCalls(c) \cup GoodDrains(c))
    /\ Nested(stack[c], Expecting(c), callbackOn[c], packetCounter[c])
    /\ \A n \in Expecting(c) : serverMessages[c][n] \in Seq(Mail(c, n))
    /\ \A row \in DOMAIN cache[c] : row \in Nat /\ IsRow(cache[c][row], row)
    /\ \A pn \in confirmed[c] : Saved(c, pn)
    /\ HistoryOK(c) /\ RowsAsked(c)

\* The variables that hold something for every client.
PerClient ==
    /\ toClient = [c \in Connection |-> toClient[c]]
    /\ serverMessages = [c \in Connection |-> serverMessages[c]]
    /\ stack = [c \in Connection |-> stack[c]]
    /\ callbackOn \in [Connection -> BOOLEAN]
    /\ cachedRowCount \in [Connection -> Nat \cup {NoValue}]
    /\ cache = [c \in Connection |-> cache[c]]

OneRow(packet) == packet.first = packet.last /\ packet.first < LAST_EVENT_NUMBER

\* The server has saved what it is about to acknowledge and sends the rows
\* it was asked for.
HandlerRight ==
    /\ pc = "notify" => /\ Head(stream).type = "SendEvent"
                        /\ Saved(serving, Head(stream).pn)
    /\ pc = "respond" => /\ Head(stream).type = "SavedEventsRequest"
                         /\ reply \in Seq(EventsOfRange(Head(stream)))
                         /\ OneRow(Head(stream)) => Len(reply) = 1

SystemInv ==
    /\ CoreInv
    /\ HandlerRight
    /\ PerClient
    /\ \A c \in Connection : Good(c)
------------------------------------------------------------------------------
(* Stacks                                                                  *)

\* Nothing is expected of an empty stack.
LEMMA NestedEmpty ==
    ASSUME NEW expecting, NEW on, NEW n, Nested(<<>>, expecting, on, n)
    PROVE  on /\ expecting = {}
BY DEF Nested

\* A drain on top changes nothing.
LEMMA PushDrain ==
    ASSUME NEW S, NEW s \in Seq(S), NEW f \in S, ~IsCall(f),
           NEW expecting, NEW on, NEW n, Nested(s, expecting, on, n)
    PROVE  Nested(<<f>> \o s, expecting, on, n)
<1>. DEFINE t == <<f>> \o s
<1>1. /\ Len(s) \in Nat /\ Len(t) = Len(s) + 1 /\ t[1] = f
      /\ \A i \in 2..(Len(s) + 1) : t[i] = s[i - 1]
  BY PushProperties
<1>. SUFFICES Nested(t, expecting, on, n)
  OBVIOUS
<1>. HIDE DEF t
<1>2. \A i \in 1..Len(t) : IsCall(t[i]) => i - 1 \in 1..Len(s) /\ t[i] = s[i - 1]
  BY <1>1
<1>3. \A i \in 1..Len(s) : i + 1 \in 1..Len(t) /\ t[i + 1] = s[i]
  BY <1>1
<1>4. \A i \in 1..Len(t) : IsWait(t[i]) => IsCall(t[i])
  BY DEF IsWait
<1>5. ASSUME NEW i \in 1..Len(t), NEW j \in 1..Len(t), IsCall(t[i]), IsCall(t[j]),
             t[i].pn = t[j].pn, t[i].pn # 0
      PROVE  i = j
  <2>1. i - 1 = j - 1
    BY <1>2, <1>5 DEF Nested
  <2>2. QED
    BY <2>1
<1>6. \A i \in 1..Len(t) : /\ IsCall(t[i]) => t[i].pn \in 0..n
                           /\ IsWait(t[i]) => t[i].pn \in expecting
  BY <1>2, <1>4 DEF Nested
<1>7. ASSUME NEW e \in expecting
      PROVE  \E i \in 1..Len(t) : IsOpen(t[i]) /\ t[i].pn = e
  <2>1. PICK i \in 1..Len(s) : IsOpen(s[i]) /\ s[i].pn = e
    BY DEF Nested
  <2>2. QED
    BY <1>3, <2>1
<1>8. on \/ \E i \in 1..Len(t) : IsOpen(t[i])
  <2>1. CASE \E i \in 1..Len(s) : IsOpen(s[i])
    BY <1>3, <2>1
  <2>2. QED
    BY <2>1 DEF Nested
<1>9. QED
  BY <1>5, <1>6, <1>7, <1>8 DEF Nested

\* Neither does the end of a drain, or of a call that has left already.
LEMMA PopFrame ==
    ASSUME NEW S, NEW s \in Seq(S), s # <<>>, ~IsOpen(Head(s)),
           NEW expecting, NEW on, NEW n, Nested(s, expecting, on, n)
    PROVE  Nested(Tail(s), expecting, on, n)
<1>. DEFINE t == Tail(s)
<1>1. /\ Len(s) \in Nat \ {0} /\ Len(t) = Len(s) - 1 /\ Head(s) = s[1]
      /\ \A i \in 1..Len(t) : t[i] = s[i + 1]
  BY PopProperties
<1>. SUFFICES Nested(t, expecting, on, n)
  OBVIOUS
<1>. HIDE DEF t
<1>2. \A i \in 1..Len(t) : i + 1 \in 1..Len(s) /\ t[i] = s[i + 1]
  BY <1>1
<1>3. \A i \in 1..Len(s) : IsOpen(s[i]) => i - 1 \in 1..Len(t) /\ t[i - 1] = s[i]
  BY <1>1
<1>4. ASSUME NEW i \in 1..Len(t), NEW j \in 1..Len(t), IsCall(t[i]), IsCall(t[j]),
             t[i].pn = t[j].pn, t[i].pn # 0
      PROVE  i = j
  <2>1. i + 1 = j + 1
    BY <1>2, <1>4 DEF Nested
  <2>2. QED
    BY <2>1
<1>5. \A i \in 1..Len(t) : /\ IsCall(t[i]) => t[i].pn \in 0..n
                           /\ IsWait(t[i]) => t[i].pn \in expecting
  BY <1>2 DEF Nested
<1>6. ASSUME NEW e \in expecting
      PROVE  \E i \in 1..Len(t) : IsOpen(t[i]) /\ t[i].pn = e
  <2>1. PICK i \in 1..Len(s) : IsOpen(s[i]) /\ s[i].pn = e
    BY DEF Nested
  <2>2. QED
    BY <1>3, <2>1
<1>7. on \/ \E i \in 1..Len(t) : IsOpen(t[i])
  <2>1. CASE \E i \in 1..Len(s) : IsOpen(s[i])
    BY <1>3, <2>1
  <2>2. QED
    BY <2>1 DEF Nested
<1>8. QED
  BY <1>4, <1>5, <1>6, <1>7 DEF Nested

\* The innermost call goes on waiting or decides.
LEMMA ChangeTop ==
    ASSUME NEW S, NEW s \in Seq(S), s # <<>>, IsWait(Head(s)),
           NEW f \in S, IsOpen(f), f.pn = Head(s).pn,
           NEW expecting, NEW on, NEW n, Nested(s, expecting, on, n)
    PROVE  Nested(<<f>> \o Tail(s), expecting, on, n)
<1>. DEFINE r == Tail(s)
            t == <<f>> \o r
<1>1. /\ Len(s) \in Nat \ {0} /\ Len(r) = Len(s) - 1 /\ Head(s) = s[1]
      /\ \A i \in 1..Len(r) : r[i] = s[i + 1]
      /\ r \in Seq(S)
  BY PopProperties
<1>2. /\ Len(t) = Len(r) + 1 /\ t[1] = f
      /\ \A i \in 2..(Len(r) + 1) : t[i] = r[i - 1]
  BY <1>1, PushProperties
<1>. SUFFICES Nested(t, expecting, on, n)
  OBVIOUS
<1>. HIDE DEF r, t
<1>3. Len(t) = Len(s) /\ t[1] = f /\ \A i \in 2..Len(t) : t[i] = s[i]
  BY <1>1, <1>2
<1>4. /\ 1 \in 1..Len(s)
      /\ \A i \in 1..Len(t) : i \in 1..Len(s) /\ (i = 1 \/ t[i] = s[i])
  BY <1>1, <1>3
<1>5. IsWait(s[1]) /\ IsOpen(s[1]) /\ IsCall(s[1]) /\ IsCall(f) /\ f.pn = s[1].pn
  BY <1>1 DEF IsWait, IsOpen
<1>6. \A i \in 1..Len(t) : /\ IsCall(t[i]) <=> IsCall(s[i])
                           /\ IsCall(t[i]) => t[i].pn = s[i].pn
                           /\ IsOpen(t[i]) <=> IsOpen(s[i])
                           /\ IsWait(t[i]) => IsWait(s[i])
  BY <1>3, <1>4, <1>5
<1>7. QED
  BY <1>3, <1>6 DEF Nested

\* The scoped actions of the innermost call.
LEMMA LeaveTop ==
    ASSUME NEW S, NEW s \in Seq(S), s # <<>>, IsOpen(Head(s)),
           NEW f \in S, IsCall(f), f.at = "return", f.pn = Head(s).pn,
           NEW expecting, NEW on, NEW n, Nested(s, expecting, on, n)
    PROVE  Nested(<<f>> \o Tail(s), expecting \ {f.pn}, TRUE, n)
<1>. DEFINE r == Tail(s)
            t == <<f>> \o r
<1>1. /\ Len(s) \in Nat \ {0} /\ Len(r) = Len(s) - 1 /\ Head(s) = s[1]
      /\ \A i \in 1..Len(r) : r[i] = s[i + 1]
      /\ r \in Seq(S)
  BY PopProperties
<1>2. /\ Len(t) = Len(r) + 1 /\ t[1] = f
      /\ \A i \in 2..(Len(r) + 1) : t[i] = r[i - 1]
  BY <1>1, PushProperties
<1>. SUFFICES Nested(t, expecting \ {f.pn}, TRUE, n)
  OBVIOUS
<1>. HIDE DEF r, t
<1>3. Len(t) = Len(s) /\ t[1] = f /\ \A i \in 2..Len(t) : t[i] = s[i]
  BY <1>1, <1>2
<1>4. /\ 1 \in 1..Len(s)
      /\ \A i \in 1..Len(t) : i \in 1..Len(s) /\ (i = 1 \/ t[i] = s[i])
  BY <1>1, <1>3
<1>5. IsOpen(s[1]) /\ IsCall(s[1]) /\ f.pn = s[1].pn /\ ~IsOpen(f) /\ ~IsWait(f)
  BY <1>1 DEF IsWait, IsOpen
<1>6. \A i \in 1..Len(t) : /\ IsCall(t[i]) <=> IsCall(s[i])
                           /\ IsCall(t[i]) => t[i].pn = s[i].pn
                           /\ IsWait(t[i]) => IsWait(s[i]) /\ IsCall(s[i]) /\ i # 1
                           /\ IsOpen(s[i]) /\ i # 1 => IsOpen(t[i])
  BY <1>3, <1>4, <1>5 DEF IsWait
<1>7. expecting \subseteq 1..n /\ s[1].pn \in 0..n
  BY <1>4, <1>5 DEF Nested
<1>8. ASSUME NEW i \in 1..Len(t), IsWait(t[i])
      PROVE  t[i].pn \in expecting \ {f.pn}
  <2>1. t[i].pn \in expecting /\ t[i].pn # 0
    BY <1>3, <1>6, <1>7, <1>8 DEF Nested
  <2>2. t[i].pn # s[1].pn
    BY <1>3, <1>4, <1>5, <1>6, <1>8, <2>1 DEF Nested
  <2>3. QED
    BY <1>5, <2>1, <2>2
<1>9. ASSUME NEW e \in expecting \ {f.pn}
      PROVE  \E i \in 1..Len(t) : IsOpen(t[i]) /\ t[i].pn = e
  <2>1. PICK i \in 1..Len(s) : IsOpen(s[i]) /\ s[i].pn = e
    BY <1>9 DEF Nested
  <2>2. i # 1
    BY <1>5, <2>1
  <2>3. QED
    BY <1>3, <1>4, <1>6, <2>1, <2>2
<1>10. QED
  BY <1>3, <1>6, <1>7, <1>8, <1>9 DEF Nested

\* A new call on top of the others.
LEMMA PushCall ==
    ASSUME NEW S, NEW s \in Seq(S), NEW f \in S, IsOpen(f),
           NEW expecting, NEW on, NEW n \in Nat, Nested(s, expecting, on, n),
           NEW m \in {n, n + 1}, f.pn = 0 \/ (f.pn = m /\ m = n + 1),
           NEW more,
           \/ ~IsWait(f) /\ more = expecting
           \/ f.pn # 0 /\ more = expecting \cup {f.pn}
    PROVE  Nested(<<f>> \o s, more, FALSE, m)
<1>. DEFINE t == <<f>> \o s
<1>1. /\ Len(s) \in Nat /\ Len(t) = Len(s) + 1 /\ t[1] = f
      /\ \A i \in 2..(Len(s) + 1) : t[i] = s[i - 1]
  BY PushProperties
<1>. SUFFICES Nested(t, more, FALSE, m)
  OBVIOUS
<1>. HIDE DEF t
<1>2. \A i \in 1..Len(t) : i = 1 \/ (i - 1 \in 1..Len(s) /\ t[i] = s[i - 1])
  BY <1>1
<1>3. \A i \in 1..Len(s) : i + 1 \in 1..Len(t) /\ t[i + 1] = s[i]
  BY <1>1
<1>4. 1 \in 1..Len(t) /\ t[1] = f /\ IsCall(f)
  BY <1>1 DEF IsOpen
<1>5. expecting \subseteq 1..n /\ 1..n \subseteq 1..m /\ 0..n \subseteq 0..m
  BY DEF Nested
<1>6. more \subseteq 1..m /\ expecting \subseteq more /\ f.pn \in 0..m
  <2>1. f.pn \in 0..m /\ (f.pn # 0 => f.pn \in 1..m)
    OBVIOUS
  <2>2. expecting \subseteq 1..m
    BY <1>5
  <2>3. QED
    BY <2>1, <2>2
<1>7. ASSUME NEW i \in 1..Len(t)
      PROVE  /\ IsCall(t[i]) => t[i].pn \in 0..m
             /\ IsWait(t[i]) => t[i].pn \in more
  <2>1. CASE i = 1
    BY <1>4, <1>6, <2>1
  <2>2. CASE i - 1 \in 1..Len(s) /\ t[i] = s[i - 1]
    BY <1>5, <1>6, <2>2 DEF Nested
  <2>3. QED
    BY <1>2, <2>1, <2>2
<1>8. ASSUME NEW e \in more
      PROVE  \E i \in 1..Len(t) : IsOpen(t[i]) /\ t[i].pn = e
  <2>1. CASE e \in expecting
    <3>1. PICK i \in 1..Len(s) : IsOpen(s[i]) /\ s[i].pn = e
      BY <2>1 DEF Nested
    <3>2. QED
      BY <1>3, <3>1
  <2>2. CASE e = f.pn
    BY <1>4, <2>2
  <2>3. QED
    BY <2>1, <2>2
<1>9. \A i \in 1..Len(s) : IsCall(s[i]) => s[i].pn \in 0..n
  BY DEF Nested
<1>10. ASSUME NEW i \in 1..Len(t), NEW j \in 1..Len(t), IsCall(t[i]), IsCall(t[j]),
              t[i].pn = t[j].pn, t[i].pn # 0
       PROVE  i = j
  <2>1. ASSUME NEW k \in 1..Len(t), k # 1, IsCall(t[k]), t[k].pn = f.pn, f.pn # 0
        PROVE  FALSE
    <3>1. k - 1 \in 1..Len(s) /\ IsCall(s[k - 1]) /\ s[k - 1].pn = f.pn
      BY <1>2, <2>1
    <3>2. f.pn \in 0..n /\ f.pn = n + 1
      BY <1>9, <2>1, <3>1
    <3>3. QED
      BY <3>2
  <2>2. CASE i # 1 /\ j # 1
    <3>1. /\ i - 1 \in 1..Len(s) /\ t[i] = s[i - 1]
          /\ j - 1 \in 1..Len(s) /\ t[j] = s[j - 1]
      BY <1>2, <2>2
    <3>2. i - 1 = j - 1
      BY <1>10, <3>1 DEF Nested
    <3>3. QED
      BY <3>2
  <2>3. QED
    BY <1>4, <1>10, <2>1, <2>2
<1>11. \E i \in 1..Len(t) : IsOpen(t[i])
  BY <1>4
<1>12. QED
  BY <1>6, <1>7, <1>8, <1>10, <1>11 DEF Nested

\* From s to t no call starts to wait, but for numbers above n.
NoNewWait(s, t, n) ==
    \A j \in 1..Len(t) : IsWait(t[j]) =>
        \/ t[j].pn > n
        \/ \E i \in 1..Len(s) : /\ IsWait(s[i]) /\ s[i].pn = t[j].pn
                                /\ s[i].request = t[j].request

\* Nothing starts to wait when frames go.
LEMMA PopWaits ==
    ASSUME NEW S, NEW s \in Seq(S), s # <<>>, NEW n
    PROVE  NoNewWait(s, Tail(s), n)
<1>. DEFINE t == Tail(s)
<1>1. /\ Len(s) \in Nat \ {0} /\ Len(t) = Len(s) - 1
      /\ \A i \in 1..Len(t) : t[i] = s[i + 1]
  BY PopProperties
<1>. HIDE DEF t
<1>2. \A i \in 1..Len(t) : i + 1 \in 1..Len(s) /\ t[i] = s[i + 1]
  BY <1>1
<1>3. NoNewWait(s, t, n)
  BY <1>2 DEF NoNewWait
<1>4. QED
  BY <1>3 DEF t

\* A new frame waits for a new number, or for what the old top waited for.
LEMMA PushWaits ==
    ASSUME NEW S, NEW s \in Seq(S), NEW t \in Seq(S), NEW f \in S, NEW n,
           NoNewWait(s, t, n),
           IsWait(f) => \/ f.pn > n
                        \/ /\ s # <<>> /\ IsWait(Head(s))
                           /\ f.pn = Head(s).pn /\ f.request = Head(s).request
    PROVE  NoNewWait(s, <<f>> \o t, n)
<1>. DEFINE u == <<f>> \o t
<1>1. /\ Len(t) \in Nat /\ Len(u) = Len(t) + 1 /\ u[1] = f
      /\ \A i \in 2..(Len(t) + 1) : u[i] = t[i - 1]
  BY PushProperties
<1>. SUFFICES NoNewWait(s, u, n)
  OBVIOUS
<1>. HIDE DEF u
<1>2. s # <<>> => 1 \in 1..Len(s) /\ Head(s) = s[1]
  <2>1. s # <<>> => Len(s) \in Nat \ {0} /\ Head(s) = s[1]
    BY PopProperties
  <2>2. QED
    BY <2>1
<1>3. ASSUME NEW i \in 1..Len(u), IsWait(u[i])
      PROVE  \/ u[i].pn > n
             \/ \E j \in 1..Len(s) : /\ IsWait(s[j]) /\ s[j].pn = u[i].pn
                                     /\ s[j].request = u[i].request
  <2>1. CASE i = 1
    BY <1>1, <1>2, <1>3, <2>1
  <2>2. CASE i # 1
    <3>1. i - 1 \in 1..Len(t) /\ u[i] = t[i - 1]
      BY <1>1, <2>2
    <3>2. QED
      BY <1>3, <3>1 DEF NoNewWait
  <2>3. QED
    BY <2>1, <2>2
<1>4. QED
  BY <1>3 DEF NoNewWait

\* An unchanged stack.
LEMMA SameWaits == \A s, n : NoNewWait(s, s, n)
BY DEF NoNewWait
------------------------------------------------------------------------------
(* Growth.  While the table and the counter grow and nobody starts to wait *)
(* for an old number, whatever was good stays good.                        *)

TableKept ==
    /\ Len(table) \in Nat /\ Len(table') \in Nat /\ Len(table) <= Len(table')
    /\ \A k \in 1..Len(table) : table'[k] = table[k]

\* Rows stay where they are.
LEMMA RowsKept ==
    ASSUME TableKept
    PROVE  /\ \A c, pn : Saved(c, pn) => Saved(c, pn)'
           /\ \A e : \A row \in Nat : IsRow(e, row) => IsRow(e, row)'
           /\ \A r \in GoodRequest : EventsFor(r) \subseteq EventsFor(r)'
           /\ \A p : p.first \in Nat => EventsOfRange(p) \subseteq EventsOfRange(p)'
           /\ \A c, pn, n : Submitted(c, pn, n) => Submitted(c, pn, n)'
<1>1. \A k \in 1..Len(table) : k \in 1..Len(table') /\ table'[k] = table[k]
  BY DEF TableKept
<1>2. \A c, pn : Saved(c, pn) => Saved(c, pn)'
  BY <1>1 DEF Saved
<1>3. \A e : \A row \in Nat : IsRow(e, row) => IsRow(e, row)'
  <2>1. \A row \in Nat : row + 1 <= Len(table) =>
            row + 1 \in 1..Len(table) /\ row + 1 <= Len(table')
    BY DEF TableKept
  <2>2. QED
    BY <1>1, <2>1 DEF IsRow
<1>4. \A r \in GoodRequest : r.op = "row" => r.first \in Nat
  BY DEF GoodRequest, Request
<1>5. \A r \in GoodRequest : EventsFor(r) \subseteq EventsFor(r)'
  BY <1>3, <1>4 DEF EventsFor
<1>6. \A p : p.first \in Nat => EventsOfRange(p) \subseteq EventsOfRange(p)'
  BY <1>3 DEF EventsOfRange
<1>7. \A c, pn, n : Submitted(c, pn, n) => Submitted(c, pn, n)'
  BY <1>1 DEF Submitted
<1>8. QED
  BY <1>2, <1>3, <1>5, <1>6, <1>7

\* The frames of a good stack.
LEMMA FrameFields ==
    ASSUME NEW c, NEW f \in GoodCalls(c) \cup GoodDrains(c)
    PROVE  /\ IsCall(f) => f \in GoodCalls(c)
           /\ f.kind = "drain" => f \in GoodDrains(c)
           /\ f.kind \in {"call", "drain"}
<1>1. CASE f \in GoodCalls(c)
  BY <1>1 DEF GoodCalls, CallFrames, IsCall
<1>2. CASE f \in GoodDrains(c)
  BY <1>2 DEF GoodDrains, IsCall
<1>3. QED
  BY <1>1, <1>2

\* Who waits has made a request of its client's user.
LEMMA WaitRequests ==
    ASSUME NEW c, stack[c] \in Seq(GoodCalls(c) \cup GoodDrains(c))
    PROVE  \A i \in 1..Len(stack[c]) : IsWait(stack[c][i]) =>
               stack[c][i].request \in GoodRequest
<1>1. \A i \in 1..Len(stack[c]) : stack[c][i] \in GoodCalls(c) \cup GoodDrains(c)
  BY ElementOfSeq
<1>2. \A f \in GoodCalls(c) \cup GoodDrains(c) : IsWait(f) => f.request \in GoodRequest
  BY FrameFields DEF IsWait, GoodCalls, CallFrames
<1>3. QED
  BY <1>1, <1>2

\* The fields of what the server sends.
LEMMA ResponseFields ==
    ASSUME NEW p \in ServerPacket
    PROVE  /\ IsResponse(p) => p.pn \in Nat
           /\ p.type = "SavedEventsResponse" => p.isLast \in BOOLEAN
           /\ p.type = "SavedEventsResponse" => p.event \in Event
           /\ p.type = "NumberOfSavedEventsResponse" => p.number \in Nat
<1>1. CASE p \in [type: {"Ack"}, pn: Nat, hs: Nat]
  BY <1>1
<1>2. CASE p \in [type: {"SavedEventsResponse"}, pn: Nat, hs: Nat,
                  isLast: BOOLEAN, event: Event]
  BY <1>2
<1>3. CASE p \in [type: {"NumberOfSavedEventsResponse"}, pn: Nat, hs: Nat,
                  number: Nat]
  BY <1>3
<1>4. CASE p \in [type: {"NewEventsNotification"}, hs: Nat, number: Nat]
  BY <1>4 DEF IsResponse
<1>5. QED
  BY <1>1, <1>2, <1>3, <1>4 DEF ServerPacket

\* The growth of one connection's part of the state.
Grows(c) ==
    /\ packetCounter[c] \in Nat
    /\ packetCounter'[c] \in {packetCounter[c], packetCounter[c] + 1}
    /\ NoNewWait(stack[c], stack'[c], packetCounter[c])

\* What was recorded stays recorded.
HistoryKept(c) ==
    /\ HistoryOK(c)
    /\ \A n \in 1..packetCounter[c] : savedAtStart'[c][n] = savedAtStart[c][n]

\* A step records the number of events if it draws a packet number.
LEMMA HistoryGrows ==
    ASSUME RecordHistory, TableKept, NEW c \in Connection, Grows(c), HistoryOK(c)
    PROVE  HistoryKept(c) /\ HistoryOK(c)'
<1>. DEFINE before == savedAtStart[c]
<1>1. /\ savedAtStart'[c] = IF packetCounter'[c] = packetCounter[c] THEN before
                            ELSE Append(before, Len(table))
      /\ packetCounter[c] \in Nat
      /\ packetCounter'[c] \in {packetCounter[c], packetCounter[c] + 1}
      /\ Len(table) \in Nat /\ Len(table') \in Nat /\ Len(table) <= Len(table')
  BY DEF RecordHistory, Grows, TableKept
<1>2. /\ before \in Seq(Nat) /\ Len(before) = packetCounter[c]
      /\ \A n \in 1..packetCounter[c] : before[n] \in Nat /\ before[n] <= Len(table)
  BY ElementOfSeq DEF HistoryOK
<1>. HIDE DEF before
<1>3. CASE packetCounter'[c] = packetCounter[c]
  <2>1. savedAtStart'[c] = before
    BY <1>1, <1>3
  <2>2. \A n \in 1..packetCounter[c] : before[n] <= Len(table')
    BY <1>1, <1>2
  <2>3. QED
    BY <1>2, <1>3, <2>1, <2>2 DEF HistoryKept, HistoryOK, before
<1>4. CASE packetCounter'[c] = packetCounter[c] + 1
  <2>. DEFINE after == Append(before, Len(table))
  <2>1. savedAtStart'[c] = after
    BY <1>1, <1>4
  <2>2. /\ after \in Seq(Nat) /\ Len(after) = packetCounter[c] + 1
        /\ \A n \in 1..packetCounter[c] : after[n] = before[n]
        /\ after[packetCounter[c] + 1] = Len(table)
    BY <1>1, <1>2, AppendProperties
  <2>. HIDE DEF after
  <2>3. \A n \in 1..(packetCounter[c] + 1) :
            n \in 1..packetCounter[c] \/ n = packetCounter[c] + 1
    BY <1>1
  <2>4. \A n \in 1..(packetCounter[c] + 1) : after[n] <= Len(table')
    <3>1. ASSUME NEW n \in 1..packetCounter[c]
          PROVE  after[n] <= Len(table')
      <4>1. after[n] \in Nat /\ after[n] <= Len(table)
        BY <1>2, <2>2
      <4>2. QED
        BY <1>1, <4>1
    <3>2. after[packetCounter[c] + 1] <= Len(table')
      BY <1>1, <2>2
    <3>3. QED
      BY <2>3, <3>1, <3>2
  <2>5. QED
    BY <1>2, <1>4, <2>1, <2>2, <2>4 DEF HistoryKept, HistoryOK, before
<1>5. QED
  BY <1>1, <1>3, <1>4

\* What the table has had since then are numbers.
LEMMA SinceNumbers ==
    ASSUME NEW c, HistoryOK(c), NEW pn, pn \in 1..packetCounter[c]
    PROVE  Since(c, pn) \subseteq Nat
<1>1. savedAtStart[c][pn] \in Nat
  BY ElementOfSeq DEF HistoryOK
<1>2. QED
  BY <1>1 DEF Since

\* A number of events the table has had since then stays one.
LEMMA SinceGrows ==
    ASSUME TableKept, NEW c, HistoryKept(c), NEW pn, pn \in 1..packetCounter[c]
    PROVE  \A n : n \in Since(c, pn) => n \in Since(c, pn)' /\ n \in Nat
<1>1. savedAtStart'[c][pn] = savedAtStart[c][pn] /\ savedAtStart[c][pn] \in Nat
  BY ElementOfSeq DEF HistoryKept, HistoryOK
<1>2. QED
  BY <1>1 DEF Since, TableKept

\* Who waits after a step waited before, or draws a new number.
LEMMA WaitedBefore ==
    ASSUME NEW c, Grows(c), NEW j \in 1..Len(stack'[c]), IsWait(stack'[c][j]),
           ~(stack'[c][j].pn > packetCounter[c])
    PROVE  \E i \in 1..Len(stack[c]) :
               /\ IsWait(stack[c][i]) /\ stack[c][i].pn = stack'[c][j].pn
               /\ stack[c][i].request = stack'[c][j].request
BY DEF Grows, NoNewWait

\* What the client has asked for stays so.
LEMMA AskedGrows ==
    ASSUME NEW c, Grows(c)
    PROVE  Asked(c) \subseteq Asked(c)'
<1>1. \A p, r : Asks(p, r) <=> Asks(p, r)'
  BY DEF Asks
<1>. SUFFICES ASSUME NEW p \in ClientPacket, p \in Asked(c)
              PROVE  p \in Asked(c)'
  BY DEF Asked
<1>2. ~(p.pn > packetCounter[c]) /\ p.pn \in 1..packetCounter'[c]
  BY RequestFields DEF Asked, Grows
<1>3. ASSUME NEW j \in 1..Len(stack'[c]), IsWait(stack'[c][j]),
             stack'[c][j].pn = p.pn
      PROVE  Asks(p, stack'[c][j].request)
  <2>1. PICK i \in 1..Len(stack[c]) :
            /\ IsWait(stack[c][i]) /\ stack[c][i].pn = p.pn
            /\ stack[c][i].request = stack'[c][j].request
    BY <1>2, <1>3, WaitedBefore
  <2>2. QED
    BY <2>1 DEF Asked
<1>4. QED
  BY <1>1, <1>2, <1>3 DEF Asked, IsWait, IsCall

\* What may be under way stays so.
LEMMA PacketsGrow ==
    ASSUME TableKept, NEW c, Grows(c), HistoryKept(c),
           stack[c] \in Seq(GoodCalls(c) \cup GoodDrains(c))
    PROVE  /\ Asked(c) \subseteq Asked(c)'
           /\ Replies(c) \subseteq Replies(c)'
           /\ \A n : Mail(c, n) \subseteq Mail(c, n)'
<1>1. \A i \in 1..Len(stack[c]) : IsWait(stack[c][i]) =>
          stack[c][i].request \in GoodRequest
  BY WaitRequests
<1>2. Replies(c) \subseteq Replies(c)'
  <2>. SUFFICES ASSUME NEW p \in ServerPacket, p \in Replies(c), IsResponse(p)
                PROVE  p \in Replies(c)'
    BY DEF Replies, IsResponse
  <2>1. /\ p.pn \in 1..packetCounter[c] /\ ~(p.pn > packetCounter[c])
        /\ p.pn \in 1..packetCounter'[c]
    BY ResponseFields DEF Replies, Grows
  <2>2. p.type = "Ack" => Saved(c, p.pn)'
    BY RowsKept DEF Replies
  <2>3. p.type = "NumberOfSavedEventsResponse" => p.number \in Since(c, p.pn)'
    <3>. DEFINE pn == p.pn
                n == p.number
    <3>1. p.type = "NumberOfSavedEventsResponse" => n \in Since(c, pn)
      BY DEF Replies
    <3>2. pn \in 1..packetCounter[c]
      BY <2>1
    <3>. HIDE DEF pn, n
    <3>3. n \in Since(c, pn) => n \in Since(c, pn)'
      BY <3>2, SinceGrows
    <3>4. QED
      BY <3>1, <3>3 DEF pn, n
  <2>4. ASSUME NEW j \in 1..Len(stack'[c]), IsWait(stack'[c][j]),
               stack'[c][j].pn = p.pn, NEW r, r = stack'[c][j].request
        PROVE  Answers(p, r)'
    <3>1. PICK i \in 1..Len(stack[c]) :
              /\ IsWait(stack[c][i]) /\ stack[c][i].pn = p.pn
              /\ stack[c][i].request = r
      BY <2>1, <2>4, WaitedBefore
    <3>2. Answers(p, r) /\ r \in GoodRequest
      BY <1>1, <3>1 DEF Replies
    <3>3. EventsFor(r) \subseteq EventsFor(r)'
      BY <3>2, RowsKept
    <3>4. QED
      BY <3>2, <3>3 DEF Answers
  <2>5. QED
    BY <2>1, <2>2, <2>3, <2>4 DEF Replies
<1>3. \A n : Mail(c, n) \subseteq Mail(c, n)'
  BY <1>2 DEF Mail, IsResponse
<1>4. QED
  BY <1>2, <1>3, AskedGrows

\* The frames of a stack stay good.
LEMMA FramesGrow ==
    ASSUME TableKept, NEW c, Grows(c), HistoryKept(c),
           Replies(c) \subseteq Replies(c)'
    PROVE  /\ GoodCalls(c) \subseteq GoodCalls(c)'
           /\ GoodDrains(c) \subseteq GoodDrains(c)'
<1>1. ASSUME NEW f \in GoodCalls(c)
      PROVE  f \in GoodCalls(c)'
  <2>1. f \in CallFrames /\ f.request \in GoodRequest
    BY DEF GoodCalls, CallFrames
  <2>. DEFINE before == EventsFor(f.request)
  <2>2. \A s : s \in Seq(EventsFor(f.request)) => s \in Seq(EventsFor(f.request))'
    <3>1. EventsFor(f.request) \subseteq EventsFor(f.request)'
      BY <2>1, RowsKept
    <3>2. QED
      BY <3>1, SeqMonotonic
  <2>3. f.events \in Seq(EventsFor(f.request))'
    BY <2>2 DEF GoodCalls
  <2>4. ASSUME NEW pn, pn = f.pn, NEW n, n = f.answer.number, Right(c, f)
        PROVE  Right(c, f)'
    <3>1. pn \in 1..packetCounter[c] /\ pn \in 1..packetCounter'[c]
      BY <2>4 DEF Right, Grows
    <3>2. n \in Since(c, pn) => n \in Since(c, pn)'
      BY <3>1, SinceGrows
    <3>3. \A m : Submitted(c, pn, m) => Submitted(c, pn, m)'
      BY RowsKept
    <3>4. QED
      BY <2>2, <2>4, <3>1, <3>2, <3>3 DEF Right
  <2>5. QED
    BY <2>1, <2>3, <2>4 DEF GoodCalls
<1>2. ASSUME NEW f \in GoodDrains(c)
      PROVE  f \in GoodDrains(c)'
  <2>1. f.packets \in Seq(Replies(c)')
    <3>1. f.packets \in Seq(Replies(c))
      BY DEF GoodDrains
    <3>2. QED
      BY <3>1, SeqMonotonic
  <2>2. QED
    BY <2>1 DEF GoodDrains
<1>3. QED
  BY <1>1, <1>2

\* A channel over some packets is one over more.
LEMMA ChannelGrows ==
    ASSUME NEW P, NEW Q, P \subseteq Q, NEW s, IsChannel(s, P)
    PROVE  IsChannel(s, Q)
<1>1. s \in Seq(Q \cup {TAIL})
  BY SeqMonotonic DEF IsChannel
<1>2. QED
  BY <1>1 DEF IsChannel

\* What is good for c now is good after a step in which it only grows.
LEMMA GoodGrows ==
    ASSUME TableKept, CoreInv, NEW c \in Connection, Grows(c), Good(c),
           HistoryKept(c)
    PROVE  /\ Asked(c) \subseteq Asked(c)' /\ Replies(c) \subseteq Replies(c)'
           /\ IsChannel(toServer[c], Asked(c)')
           /\ IsChannel(toClient[c], Replies(c)')
           /\ serving = c => stream \in Seq(Asked(c)')
           /\ stack[c] \in Seq(GoodCalls(c)' \cup GoodDrains(c)')
           /\ \A n \in Expecting(c) : serverMessages[c][n] \in Seq(Mail(c, n)')
           /\ \A row \in DOMAIN cache[c] : \A e :
                e = cache[c][row] => row \in Nat /\ IsRow(e, row)'
           /\ \A pn \in confirmed[c] : Saved(c, pn)'
<1>1. /\ Asked(c) \subseteq Asked(c)' /\ Replies(c) \subseteq Replies(c)'
      /\ \A n : Mail(c, n) \subseteq Mail(c, n)'
  BY PacketsGrow DEF Good
<1>2. GoodCalls(c) \subseteq GoodCalls(c)' /\ GoodDrains(c) \subseteq GoodDrains(c)'
  BY <1>1, FramesGrow
<1>3. IsChannel(toServer[c], Asked(c)') /\ IsChannel(toClient[c], Replies(c)')
  BY <1>1, ChannelGrows DEF Good
<1>4. serving = c => stream \in Seq(Asked(c)')
  BY <1>1, SeqMonotonic DEF Good
<1>5. stack[c] \in Seq(GoodCalls(c)' \cup GoodDrains(c)')
  <2>1. GoodCalls(c) \cup GoodDrains(c) \subseteq GoodCalls(c)' \cup GoodDrains(c)'
    BY <1>2
  <2>2. QED
    BY <2>1, SeqMonotonic DEF Good
<1>6. ASSUME NEW n \in Expecting(c)
      PROVE  serverMessages[c][n] \in Seq(Mail(c, n)')
  <2>1. serverMessages[c][n] \in Seq(Mail(c, n)) /\ Mail(c, n) \subseteq Mail(c, n)'
    BY <1>1, <1>6 DEF Good
  <2>2. QED
    BY <2>1, SeqMonotonic
<1>7. \A row \in DOMAIN cache[c] : \A e :
          e = cache[c][row] => row \in Nat /\ IsRow(e, row)'
  BY RowsKept DEF Good
<1>8. \A pn \in confirmed[c] : Saved(c, pn)'
  BY RowsKept DEF Good
<1>9. QED
  BY <1>1, <1>3, <1>4, <1>5, <1>6, <1>7, <1>8
------------------------------------------------------------------------------
(* Steps of the server and the network                                     *)

\* Rows are only ever appended.
LEMMA TableGrows ==
    ASSUME CoreInv, Server \/ Network \/ UNCHANGED serverVars
    PROVE  TableKept
<1>1. table \in Seq(Event) /\ Len(table) \in Nat /\ HandlerOK
  BY LenProperties DEF CoreInv, StorageOK
<1>2. CASE UNCHANGED table
  BY <1>1, <1>2 DEF TableKept
<1>3. CASE OnSendEvent /\ ~UNCHANGED table
  <2>. DEFINE e == EventOf(Head(stream))
  <2>1. pc = "dispatch" /\ Head(stream).type = "SendEvent"
    BY <1>3 DEF OnSendEvent, Dispatching
  <2>2. e \in Event
    BY <1>1, <2>1, PacketAtHand, RequestFields DEF EventOf, Event
  <2>3. table' = Append(table, e)
    BY <1>3 DEF OnSendEvent, Insert
  <2>4. QED
    BY <1>1, <2>2, <2>3, AppendProperties DEF TableKept
<1>4. QED
  BY <1>2, <1>3 DEF Server, ServerStep, Network, IgnorePacket, OnNewEventSaved,
     ReceiveAgain, SendAck, OnSavedEventsRequest, SendSavedEvent, AbandonReply,
     OnNumberOfSavedEventsRequest, CheckProtocolsExecutors, Handshake,
     OnNewDataReceived, Crash, TableAfterRestart, LinkBreaks, ServerNotices,
     serverVars

\* A new row is the event of the packet at hand.
LEMMA NewRows ==
    ASSUME CoreInv, Server \/ Network \/ UNCHANGED serverVars,
           NEW k \in 1..Len(table')
    PROVE  \/ k \in 1..Len(table) /\ table'[k] = table[k]
           \/ /\ pc = "dispatch" /\ Head(stream).type = "SendEvent"
              /\ table'[k] = EventOf(Head(stream))
<1>1. table \in Seq(Event) /\ Len(table) \in Nat /\ HandlerOK
  BY LenProperties DEF CoreInv, StorageOK
<1>2. CASE UNCHANGED table
  BY <1>2
<1>3. CASE OnSendEvent /\ ~UNCHANGED table
  <2>. DEFINE e == EventOf(Head(stream))
  <2>1. pc = "dispatch" /\ Head(stream).type = "SendEvent"
    BY <1>3 DEF OnSendEvent, Dispatching
  <2>2. e \in Event
    BY <1>1, <2>1, PacketAtHand, RequestFields DEF EventOf, Event
  <2>3. table' = Append(table, e)
    BY <1>3 DEF OnSendEvent, Insert
  <2>. HIDE DEF e
  <2>4. /\ Len(table') = Len(table) + 1 /\ table'[Len(table) + 1] = e
        /\ \A i \in 1..Len(table) : table'[i] = table[i]
    BY <1>1, <2>2, <2>3, AppendProperties
  <2>5. k \in 1..Len(table) \/ k = Len(table) + 1
    BY <1>1, <2>4
  <2>6. QED
    BY <2>1, <2>4, <2>5 DEF e
<1>4. QED
  BY <1>2, <1>3 DEF Server, ServerStep, Network, IgnorePacket, OnNewEventSaved,
     ReceiveAgain, SendAck, OnSavedEventsRequest, SendSavedEvent, AbandonReply,
     OnNumberOfSavedEventsRequest, CheckProtocolsExecutors, Handshake,
     OnNewDataReceived, Crash, TableAfterRestart, LinkBreaks, ServerNotices,
     serverVars

\* It does not matter in which handshake the client asked for a row.
LEMMA AskedInAnyHandshake ==
    ASSUME NEW c, NEW p, p \in Asked(c), p.type = "SendEvent"
    PROVE  SendEvent(p.pn, NoHandshake, p.size) \in Asked(c)
<1>. DEFINE q == SendEvent(p.pn, NoHandshake, p.size)
<1>1. q.pn = p.pn /\ q.size = p.size /\ q.type = "SendEvent"
  BY DEF SendEvent
<1>2. q \in ClientPacket
  BY RequestFields DEF SendEvent, ClientPacket, NoHandshake, Asked
<1>. HIDE DEF q
<1>3. \A r : Asks(p, r) => Asks(q, r)
  BY <1>1 DEF Asks
<1>4. q \in Asked(c)
  BY <1>1, <1>2, <1>3 DEF Asked
<1>5. QED
  BY <1>4 DEF q

\* The rows of a client stay rows it has asked for, and so do new ones.
LEMMA RowsStayAsked ==
    ASSUME CoreInv, Server \/ Network \/ UNCHANGED serverVars, NEW c \in Connection,
           Good(c), Asked(c) \subseteq Asked(c)'
    PROVE  RowsAsked(c)'
<1>. SUFFICES ASSUME NEW k, k \in 1..Len(table'), NEW row, row = table'[k],
                     row.from = c
              PROVE  SendEvent(row.pn, NoHandshake, row.size) \in Asked(c)
  BY DEF RowsAsked, SendEvent
<1>1. CASE k \in 1..Len(table) /\ table'[k] = table[k]
  BY <1>1 DEF Good, RowsAsked
<1>2. CASE /\ pc = "dispatch" /\ Head(stream).type = "SendEvent"
           /\ row = EventOf(Head(stream))
  <2>1. /\ serving = c /\ row.pn = Head(stream).pn /\ row.size = Head(stream).size
        /\ stream # <<>>
    BY <1>2 DEF EventOf, CoreInv, HandlerOK
  <2>2. Head(stream) \in Asked(c)
    BY <2>1, HeadTailProperties DEF Good
  <2>3. QED
    BY <1>2, <2>1, <2>2, AskedInAnyHandshake
<1>3. QED
  BY <1>1, <1>2, NewRows

\* A range of one row is that row.
LEMMA RangeOfOneRow ==
    ASSUME table \in Seq(Event), NEW p, p.first \in Nat, p.last \in Nat
    PROVE  /\ RequestedEvents(p) \in Seq(EventsOfRange(p))
           /\ OneRow(p) => Len(RequestedEvents(p)) <= 1
<1>1. RequestedEvents(p) \in Seq(Event)
  BY SavedEventsTyped DEF RequestedEvents
<1>2. CASE ~(p.first = p.last /\ p.first < LAST_EVENT_NUMBER)
  <2>1. EventsOfRange(p) = Event /\ ~OneRow(p)
    BY <1>2 DEF EventsOfRange, OneRow
  <2>2. QED
    BY <1>1, <2>1
<1>3. CASE p.first = p.last /\ p.first < LAST_EVENT_NUMBER
  <2>. DEFINE row == p.first
              to == IF row + 1 < Len(table) THEN row + 1 ELSE Len(table)
  <2>1. FirstId(row) = row + 1 /\ LastId(row) = row + 1
    <3>1. LAST_EVENT_NUMBER + 1 \in Nat \ {0} /\ row + 1 \in Nat
          /\ row + 1 < LAST_EVENT_NUMBER + 1
      BY <1>3, LastEventNumberAssumption
    <3>2. \A a \in Nat, b \in Nat \ {0} : a < b => a % b = a
      OBVIOUS
    <3>3. (row + 1) % (LAST_EVENT_NUMBER + 1) = row + 1
      BY <3>1, <3>2
    <3>4. QED
      BY <1>3, <3>3, LastEventNumberAssumption DEF FirstId, Uint64, LastId
  <2>2. ~(row > row) /\ row + 1 # 0
    OBVIOUS
  <2>3. RequestedEvents(p) = SubSeq(table, row + 1, to)
    BY <1>3, <2>1, <2>2 DEF RequestedEvents, GetSavedEvents, Rows
  <2>4. Len(table) \in Nat
    BY LenProperties
  <2>5. row + 1 \in Int /\ to \in Int
    BY <2>4
  <2>6. \A i \in (row + 1)..to : table[i] \in EventsOfRange(p)
    <3>1. \A i \in (row + 1)..to : i = row + 1 /\ i \in 1..Len(table)
      BY <2>4
    <3>2. QED
      BY <3>1, ElementOfSeq DEF EventsOfRange, IsRow
  <2>7. /\ SubSeq(table, row + 1, to) \in Seq(EventsOfRange(p))
        /\ Len(SubSeq(table, row + 1, to)) =
               IF row + 1 <= to THEN to - (row + 1) + 1 ELSE 0
    <3>. HIDE DEF row, to
    <3>. QED
      BY <2>5, <2>6, SubSeqProperties
  <2>8. to <= row + 1
    BY <2>4
  <2>9. (IF row + 1 <= to THEN to - (row + 1) + 1 ELSE 0) <= 1
    <3>. HIDE DEF row, to
    <3>. QED
      BY <2>5, <2>8
  <2>10. QED
    BY <2>3, <2>7, <2>9
<1>4. QED
  BY <1>2, <1>3

\* The server goes on to acknowledge what it has saved, and to send what it
\* was asked for.
LEMMA HandlerStaysRight ==
    ASSUME CoreInv, HandlerRight, Server \/ Network
    PROVE  HandlerRight'
<1>. StorageOK /\ HandlerOK
  BY DEF CoreInv
<1>1. TableKept
  BY TableGrows
<1>2. CASE pc' \in {"idle", "dispatch", "receive"}
  BY <1>2 DEF HandlerRight
<1>3. CASE OnSendEvent
  <2>. DEFINE e == EventOf(Head(stream))
  <2>1. pc = "dispatch" /\ Head(stream).type = "SendEvent"
    BY <1>3 DEF OnSendEvent, Dispatching
  <2>2. CASE StorageFails
    BY <1>2, <2>2 DEF StorageFails, NextPacket
  <2>3. CASE ~StorageFails
    <3>1. /\ table' = Append(table, e) /\ UNCHANGED <<stream, serving>>
          /\ pc' = "notify"
      BY <1>3, <2>3 DEF OnSendEvent, Insert
    <3>2. e \in Event
      BY <2>1, PacketAtHand, RequestFields DEF EventOf, Event
    <3>3. /\ Len(table') \in Nat \ {0} /\ table'[Len(table')] = e
      BY <3>1, <3>2, AppendProperties, LenProperties DEF StorageOK
    <3>4. Saved(serving, Head(stream).pn)'
      BY <3>1, <3>3 DEF Saved, EventOf
    <3>5. QED
      BY <2>1, <3>1, <3>4 DEF HandlerRight
  <2>4. QED
    BY <2>2, <2>3
<1>4. ASSUME UNCHANGED <<pc, serving, stream>>, pc # "respond"
      PROVE  HandlerRight'
  <2>1. ASSUME NEW c, NEW pn, c = serving, pn = Head(stream).pn, pc = "notify"
        PROVE  Saved(c, pn)'
    BY <1>1, <2>1, RowsKept DEF HandlerRight
  <2>2. QED
    BY <1>4, <2>1 DEF HandlerRight, Saved
<1>5. CASE OnSavedEventsRequest /\ pc' = "respond"
  <2>1. /\ pc = "dispatch" /\ Head(stream).type = "SavedEventsRequest"
        /\ UNCHANGED <<stream, table>> /\ reply' = RequestedEvents(Head(stream))
    BY <1>5 DEF OnSavedEventsRequest, Dispatching, NextPacket, StorageFails
  <2>2. Head(stream).first \in Nat /\ Head(stream).last \in Nat
    BY <2>1, PacketAtHand, RequestFields
  <2>3. /\ RequestedEvents(Head(stream)) \in Seq(EventsOfRange(Head(stream)))
        /\ OneRow(Head(stream)) => Len(RequestedEvents(Head(stream))) <= 1
    BY <2>2, RangeOfOneRow DEF StorageOK
  <2>4. RequestedEvents(Head(stream)) # <<>>
    BY <1>5, <2>1 DEF OnSavedEventsRequest, NextPacket, StorageFails
  <2>5. Len(RequestedEvents(Head(stream))) \in Nat \ {0}
    BY <2>3, <2>4, EmptySeq, LenProperties
  <2>6. OneRow(Head(stream)) => Len(RequestedEvents(Head(stream))) = 1
    <3>1. \A n \in Nat \ {0} : n <= 1 => n = 1
      OBVIOUS
    <3>2. QED
      BY <2>3, <2>5, <3>1, Zenon
  <2>7. QED
    BY <1>5, <2>1, <2>3, <2>6 DEF HandlerRight, EventsOfRange, IsRow, OneRow
<1>6. ASSUME pc = "respond", pc' = "respond", UNCHANGED stream,
             reply' = reply \/ (reply' = Tail(reply) /\ Tail(reply) # <<>>)
      PROVE  HandlerRight'
  <2>1. /\ Head(stream).type = "SavedEventsRequest" /\ reply # <<>>
        /\ reply \in Seq(EventsOfRange(Head(stream)))
        /\ OneRow(Head(stream)) => Len(reply) = 1
    BY <1>6 DEF HandlerRight, HandlerOK
  <2>2. reply' \in Seq(EventsOfRange(Head(stream)))
    BY <1>6, <2>1, HeadTailProperties
  <2>3. EventsOfRange(Head(stream)) \subseteq EventsOfRange(Head(stream))'
    <3>1. Head(stream).first \in Nat
      BY <1>6, <2>1, PacketAtHand, RequestFields
    <3>2. ASSUME NEW p, p = Head(stream)
          PROVE  EventsOfRange(p) \subseteq EventsOfRange(p)'
      BY <1>1, <3>1, <3>2, RowsKept
    <3>3. QED
      BY <1>6, <3>2 DEF EventsOfRange, IsRow
  <2>4. reply' \in Seq(EventsOfRange(Head(stream))')
    BY <2>2, <2>3, SeqMonotonic
  <2>5. OneRow(Head(stream)) => reply' = reply
    <3>1. Len(reply) = 1 => Tail(reply) = <<>>
      <4>1. /\ Tail(reply) \in Seq(EventsOfRange(Head(stream)))
            /\ Len(Tail(reply)) = Len(reply) - 1
        BY <2>1, PopProperties
      <4>2. Len(reply) = 1 => Len(Tail(reply)) = 0
        BY <4>1
      <4>3. QED
        BY <4>1, <4>2, EmptySeq
    <3>2. QED
      BY <1>6, <2>1, <3>1
  <2>6. QED
    BY <1>6, <2>1, <2>4, <2>5 DEF HandlerRight, OneRow
<1>7. CASE pc = "respond" /\ UNCHANGED <<pc, stream, reply>>
  BY <1>6, <1>7
<1>8. CASE SendSavedEvent
  <2>1. CASE Tail(reply) = <<>>
    BY <1>2, <1>8, <2>1 DEF SendSavedEvent, NextPacket
  <2>2. CASE Tail(reply) # <<>>
    BY <1>6, <1>8, <2>2 DEF SendSavedEvent
  <2>3. QED
    BY <2>1, <2>2
<1>9. CASE UNCHANGED handlerVars
  BY <1>4, <1>7, <1>9 DEF handlerVars
<1>10. CASE \E c \in Connection : OnNewEventSaved(c)
  BY <1>4, <1>10 DEF OnNewEventSaved
<1>11. CASE OnSavedEventsRequest /\ pc' # "respond"
  BY <1>2, <1>11 DEF OnSavedEventsRequest, NextPacket, StorageFails
<1>12. CASE \/ ReceiveAgain \/ IgnorePacket \/ SendAck \/ AbandonReply
            \/ OnNumberOfSavedEventsRequest \/ Crash
            \/ \E c \in Connection : OnNewDataReceived(c)
  BY <1>2, <1>12 DEF ReceiveAgain, IgnorePacket, SendAck, AbandonReply,
     OnNumberOfSavedEventsRequest, Crash, OnNewDataReceived, NextPacket
<1>13. CASE \/ CheckProtocolsExecutors
            \/ \E c \in Connection : Handshake(c) \/ LinkBreaks(c) \/ ServerNotices(c)
  BY <1>9, <1>13 DEF CheckProtocolsExecutors, Handshake, LinkBreaks,
     ServerNotices, serverVars
<1>14. QED
  BY <1>3, <1>5, <1>8, <1>10, <1>11, <1>12, <1>13
     DEF Server, ServerStep, Network

\* What the server may send is right for whoever waits for it.
LEMMA DueIsReply ==
    ASSUME CoreInv, HandlerRight, NEW c \in Connection, Good(c),
           NEW p \in ServerPacket, Due(c, p)
    PROVE  p \in Replies(c)
<1>. SUFFICES ASSUME IsResponse(p)
              PROVE  p \in Replies(c)
  BY DEF Replies
<1>. DEFINE asked == Head(stream)
<1>1. /\ HandlerOK /\ pc \notin {"idle", "receive"}
      /\ c = serving /\ p.pn = asked.pn
  BY DEF Due, IsResponse, CoreInv
<1>2. stream # <<>> /\ stream \in Seq(Asked(c))
  BY <1>1 DEF HandlerOK, Good
<1>3. asked \in Asked(c)
  BY <1>2, HeadTailProperties
<1>4. \/ /\ p.type = "Ack" /\ asked.type = "SendEvent"
      \/ /\ p.type = "SavedEventsResponse" /\ asked.type = "SavedEventsRequest"
         /\ p.event \in EventsOfRange(asked)
         /\ OneRow(asked) => p.isLast
      \/ /\ p.type = "NumberOfSavedEventsResponse"
         /\ asked.type = "NumberOfSavedEventsRequest"
         /\ p.number = Len(table)
  <2>1. pc = "respond" => Head(reply) \in EventsOfRange(asked)
    BY <1>1, HeadTailProperties DEF HandlerRight, HandlerOK
  <2>2. QED
    BY <1>1, <2>1 DEF Due, IsResponse, HandlerRight
<1>5. p.type = "Ack" => Saved(c, p.pn)
  BY <1>1 DEF Due, HandlerRight
<1>6. ASSUME NEW i \in 1..Len(stack[c]), IsWait(stack[c][i]),
             stack[c][i].pn = p.pn
      PROVE  Answers(p, stack[c][i].request)
  <2>. DEFINE r == stack[c][i].request
  <2>1. Asks(asked, r)
    BY <1>1, <1>3, <1>6 DEF Asked
  <2>2. r \in GoodRequest
    BY <1>6, WaitRequests DEF Good
  <2>3. CASE p.type = "SavedEventsResponse"
    <3>1. /\ r.op \in {"range", "row"}
          /\ asked.first = r.first /\ asked.last = r.last
      BY <1>4, <2>1, <2>3 DEF Asks
    <3>2. p.event \in EventsFor(r)
      BY <1>4, <2>2, <2>3, <3>1 DEF EventsOfRange, EventsFor, GoodRequest
    <3>3. r.op = "row" => p.isLast
      BY <1>4, <2>2, <2>3, <3>1 DEF OneRow, GoodRequest
    <3>4. QED
      BY <2>3, <3>1, <3>2, <3>3 DEF Answers
  <2>4. CASE p.type # "SavedEventsResponse"
    BY <1>4, <2>1, <2>4 DEF Asks, Answers
  <2>5. QED
    BY <2>3, <2>4
<1>7. p.pn \in 1..packetCounter[c]
  BY <1>1, <1>3 DEF Asked
<1>8. p.type = "NumberOfSavedEventsResponse" => p.number \in Since(c, p.pn)
  <2>1. Len(table) \in Nat
    BY LenProperties DEF CoreInv, StorageOK
  <2>2. /\ savedAtStart[c][p.pn] \in Nat
        /\ savedAtStart[c][p.pn] <= Len(table)
    BY <1>7, ElementOfSeq DEF Good, HistoryOK
  <2>3. Len(table) \in Since(c, p.pn)
    BY <2>1, <2>2 DEF Since
  <2>4. QED
    BY <1>4, <2>3
<1>9. QED
  BY <1>5, <1>6, <1>7, <1>8 DEF Replies

\* The calls that have decided to return true are right to.
LEMMA ConfirmedRight ==
    ASSUME RecordHistory, NEW c \in Connection,
           stack[c]' \in Seq(GoodCalls(c)' \cup GoodDrains(c)'),
           \A pn \in confirmed[c] : Saved(c, pn)'
    PROVE  \A pn \in confirmed'[c] : Saved(c, pn)'
<1>1. confirmed'[c] = confirmed[c] \cup ConfirmedNow(c)'
  BY DEF RecordHistory
<1>2. ASSUME NEW f \in Frames(c)', f.request.op = "send", Answered(f)
      PROVE  Saved(c, f.pn)'
  <2>1. PICK i \in 1..Len(stack'[c]) :
            f = stack'[c][i] /\ stack'[c][i].kind = "call"
    BY <1>2 DEF Frames
  <2>2. f \in GoodCalls(c)' \cup GoodDrains(c)'
    BY <2>1, ElementOfSeq
  <2>3. f \in GoodCalls(c)'
    BY <2>1, <2>2 DEF GoodDrains
  <2>4. Submitted(c, f.pn, f.request.size)'
    BY <1>2, <2>3 DEF GoodCalls, Answered, Right
  <2>5. \A pn, n : Submitted(c, pn, n)' => Saved(c, pn)'
    BY DEF Submitted, Saved
  <2>6. QED
    BY <2>4, <2>5
<1>3. QED
  BY <1>1, <1>2 DEF ConfirmedNow, Answered

\* The bytes a step of server and network takes from a client, and the batch
\* it leaves to be handled.
LEMMA ServerReads ==
    ASSUME CoreInv, Server \/ Network, NEW c \in Connection, NEW P,
           IsChannel(toServer[c], P), serving = c => stream \in Seq(P)
    PROVE  /\ IsChannel(toServer'[c], P)
           /\ serving' = c => stream' \in Seq(P)
<1>. LinksOK /\ ChannelsOK /\ HandlerOK
  BY DEF CoreInv
<1>1. CASE UNCHANGED <<toServer, serving, stream>>
  BY <1>1
<1>2. CASE /\ NextPacket /\ pc \notin {"idle", "receive"}
           /\ UNCHANGED toServer
  <2>1. stream # <<>>
    BY <1>2 DEF HandlerOK
  <2>2. serving' = c => serving = c
    BY <1>2 DEF NextPacket
  <2>3. serving = c => Tail(stream) \in Seq(P)
    BY <2>1, HeadTailProperties
  <2>4. QED
    BY <1>2, <2>2, <2>3 DEF NextPacket
<1>3. ASSUME NEW d \in Connection, OnNewDataReceived(d)
      PROVE  /\ IsChannel(toServer'[c], P)
             /\ serving' = c => stream' \in Seq(P)
  <2>1. PICK received \in Receive(toServer[d]) :
            /\ toServer' = [toServer EXCEPT ![d] = received.rest]
            /\ stream' \in Decoded(received.batch)
            /\ serving' = d
    BY <1>3 DEF OnNewDataReceived, Announced
  <2>2. CASE c = d
    <3>1. IsChannel(received.batch, P) /\ IsChannel(received.rest, P)
      BY <2>2, ReceiveSplitsChannel
    <3>2. stream' \in Seq(P)
      BY <2>1, <3>1, DecodedPackets
    <3>3. toServer'[c] = received.rest
      BY <2>1, <2>2 DEF ChannelsOK
    <3>4. QED
      BY <2>1, <3>1, <3>2, <3>3
  <2>3. CASE c # d
    <3>1. serving' # c
      BY <2>1, <2>3
    <3>2. toServer'[c] = toServer[c]
      BY <2>1, <2>3 DEF ChannelsOK
    <3>3. QED
      BY <3>1, <3>2
  <2>4. QED
    BY <2>2, <2>3
<1>4. CASE Crash
  <2>1. serving' # c /\ toServer'[c] = <<>>
    BY <1>4, ServerAssumption DEF Crash
  <2>2. QED
    BY <2>1, EmptyChannel
<1>5. CASE \/ IgnorePacket \/ OnSendEvent \/ SendAck \/ OnSavedEventsRequest
           \/ SendSavedEvent \/ AbandonReply \/ OnNumberOfSavedEventsRequest
  BY <1>1, <1>2, <1>5 DEF IgnorePacket, OnSendEvent, SendAck,
     OnSavedEventsRequest, SendSavedEvent, AbandonReply,
     OnNumberOfSavedEventsRequest, Dispatching, StorageFails, transportVars
<1>6. CASE \/ CheckProtocolsExecutors
           \/ \E d \in Connection : \/ OnNewEventSaved(d) \/ Handshake(d)
                                    \/ LinkBreaks(d) \/ ServerNotices(d)
  BY <1>1, <1>6 DEF CheckProtocolsExecutors, OnNewEventSaved, Handshake,
     LinkBreaks, ServerNotices, transportVars, serverVars, handlerVars
<1>7. CASE ReceiveAgain
  <2>1. /\ UNCHANGED <<toServer, stream>>
        /\ serving' # c
    BY <1>7, ServerAssumption DEF ReceiveAgain, transportVars
  <2>2. QED
    BY <2>1
<1>8. QED
  BY <1>3, <1>4, <1>5, <1>6, <1>7 DEF Server, ServerStep, Network

\* A step of the server or the network keeps the invariant.
LEMMA ServerKeepsInv ==
    ASSUME SystemInv, Server \/ Network, UNCHANGED clientVars, RecordHistory
    PROVE  SystemInv'
<1>. CoreInv /\ HandlerRight /\ PerClient /\ \A c \in Connection : Good(c)
  BY DEF SystemInv
<1>1. CoreInv' /\ HandlerRight' /\ TableKept
  BY CoreTyped, HandlerStaysRight, TableGrows
<1>2. UNCHANGED packetCounter
  BY DEF Server, ServerStep, Network, IgnorePacket, OnSendEvent,
     ReceiveAgain, OnNewEventSaved, SendAck, OnSavedEventsRequest,
     SendSavedEvent, AbandonReply, OnNumberOfSavedEventsRequest,
     CheckProtocolsExecutors, Handshake, OnNewDataReceived, Crash, LinkBreaks,
     ServerNotices, transportVars
<1>3. UNCHANGED <<serverMessages, stack, callbackOn, cachedRowCount, cache>>
  BY DEF clientVars
<1>4. \/ UNCHANGED toClient
      \/ \E c \in Connection : \E packet \in ServerPacket :
           /\ Due(c, packet)
           /\ toClient' = Sent(toClient, serverValid, c, packet)
  BY ServerSends
<1>5. PerClient'
  <2>1. toClient' = [c \in Connection |-> toClient'[c]]
    BY <1>4 DEF Sent, PerClient
  <2>2. QED
    BY <1>3, <2>1 DEF PerClient
<1>6. ASSUME NEW c \in Connection
      PROVE  Good(c)'
  <2>1. Grows(c)
    BY <1>2, <1>3, SameWaits DEF Grows, CoreInv, LinksOK
  <2>. HistoryKept(c) /\ HistoryOK(c)'
    BY <1>1, <2>1, HistoryGrows DEF Good
  <2>2. /\ Asked(c) \subseteq Asked(c)' /\ Replies(c) \subseteq Replies(c)'
        /\ IsChannel(toServer[c], Asked(c)')
        /\ IsChannel(toClient[c], Replies(c)')
        /\ serving = c => stream \in Seq(Asked(c)')
        /\ stack[c] \in Seq(GoodCalls(c)' \cup GoodDrains(c)')
        /\ \A n \in Expecting(c) : serverMessages[c][n] \in Seq(Mail(c, n)')
        /\ \A row \in DOMAIN cache[c] : \A e :
             e = cache[c][row] => row \in Nat /\ IsRow(e, row)'
        /\ \A pn \in confirmed[c] : Saved(c, pn)'
    BY <1>1, <2>1, GoodGrows
  <2>3. IsChannel(toServer'[c], Asked(c)')
        /\ (serving' = c => stream' \in Seq(Asked(c)'))
    BY <2>2, ServerReads
  <2>4. IsChannel(toClient'[c], Replies(c)')
    <3>1. CASE toClient'[c] = toClient[c]
      BY <2>2, <3>1
    <3>2. ASSUME NEW packet \in ServerPacket, Due(c, packet),
                 toClient' = Sent(toClient, serverValid, c, packet)
          PROVE  IsChannel(toClient'[c], Replies(c)')
      <4>1. packet \in Replies(c)'
        BY <2>2, <3>2, DueIsReply
      <4>2. toClient'[c] \in {toClient[c], Append(toClient[c], packet)}
        BY <3>2 DEF Sent, PerClient
      <4>3. IsChannel(Append(toClient[c], packet), Replies(c)')
        BY <2>2, <4>1, AppendToChannel
      <4>4. CASE toClient'[c] = toClient[c]
        BY <2>2, <4>4
      <4>5. CASE toClient'[c] = Append(toClient[c], packet)
        BY <4>3, <4>5, Zenon
      <4>6. QED
        BY <4>2, <4>4, <4>5
    <3>3. ASSUME NEW d \in Connection, NEW packet \in ServerPacket, d # c,
                 toClient' = Sent(toClient, serverValid, d, packet)
          PROVE  toClient'[c] = toClient[c]
      BY <3>3 DEF Sent, PerClient
    <3>4. QED
      BY <1>4, <3>1, <3>2, <3>3
  <2>5. \A pn \in confirmed'[c] : Saved(c, pn)'
    BY <1>3, <2>2, ConfirmedRight
  <2>6. Nested(stack'[c], Expecting(c)', callbackOn'[c], packetCounter'[c])
    BY <1>2, <1>3 DEF Good, Expecting
  <2>7. \A n \in Expecting(c)' : serverMessages'[c][n] \in Seq(Mail(c, n)')
    BY <1>3, <2>2 DEF Expecting
  <2>8. \A row \in DOMAIN cache'[c] : row \in Nat /\ IsRow(cache[c][row], row)'
    BY <1>3, <2>2 DEF IsRow
  <2>9. RowsAsked(c)'
    BY <2>2, RowsStayAsked
  <2>10. QED
    BY <1>3, <2>2, <2>3, <2>4, <2>5, <2>6, <2>7, <2>8, <2>9 DEF Good
<1>7. QED
  BY <1>1, <1>5, <1>6 DEF SystemInv
------------------------------------------------------------------------------
(* Steps of the clients                                                    *)

\* A step of c leaves the other clients alone.
OthersKept(c) ==
    \A d \in Connection \ {c} :
        /\ toServer'[d] = toServer[d] /\ toClient'[d] = toClient[d]
        /\ packetCounter'[d] = packetCounter[d] /\ stack'[d] = stack[d]
        /\ serverMessages'[d] = serverMessages[d]
        /\ callbackOn'[d] = callbackOn[d] /\ cache'[d] = cache[d]

\* What a step of c has to keep.
Moves(c) ==
    /\ LinksOK' /\ toServer' = [d \in Connection |-> toServer'[d]] /\ PerClient'
    /\ OthersKept(c)
    /\ Grows(c)
    /\ toServer'[c] = toServer[c] \/ IsChannel(toServer'[c], Asked(c)')
    /\ IsChannel(toClient'[c], Replies(c))
    /\ stack'[c] \in Seq(GoodCalls(c) \cup GoodDrains(c))
    /\ Nested(stack'[c], Expecting(c)', callbackOn'[c], packetCounter'[c])
    /\ \A n \in Expecting(c)' : serverMessages'[c][n] \in Seq(Mail(c, n))
    /\ \A row \in DOMAIN cache'[c] : row \in Nat /\ IsRow(cache'[c][row], row)

LEMMA MovesKeepInv ==
    ASSUME SystemInv, UNCHANGED serverVars, RecordHistory,
           NEW c \in Connection, Moves(c)
    PROVE  SystemInv'
<1>. CoreInv /\ HandlerRight /\ PerClient /\ \A d \in Connection : Good(d)
  BY DEF SystemInv
<1>1. TableKept /\ UNCHANGED <<table, pc, serving, stream, reply>>
  BY TableGrows DEF serverVars, handlerVars
<1>2. HandlerRight'
  BY <1>1 DEF HandlerRight, Saved, EventsOfRange, IsRow, OneRow
<1>3. ASSUME NEW d \in Connection
      PROVE  Grows(d)
  <2>1. CASE d = c
    BY <2>1 DEF Moves
  <2>2. CASE d # c
    <3>1. packetCounter'[d] = packetCounter[d] /\ stack'[d] = stack[d]
      BY <2>2 DEF Moves, OthersKept
    <3>2. packetCounter[d] \in Nat
      BY DEF CoreInv, LinksOK
    <3>3. QED
      BY <3>1, <3>2, SameWaits DEF Grows
  <2>3. QED
    BY <2>1, <2>2
<1>4. ASSUME NEW d \in Connection
      PROVE  Good(d)'
  <2>. HistoryKept(d) /\ HistoryOK(d)'
    BY <1>1, <1>3, HistoryGrows DEF Good
  <2>1. /\ Asked(d) \subseteq Asked(d)' /\ Replies(d) \subseteq Replies(d)'
        /\ IsChannel(toServer[d], Asked(d)')
        /\ IsChannel(toClient[d], Replies(d)')
        /\ serving = d => stream \in Seq(Asked(d)')
        /\ stack[d] \in Seq(GoodCalls(d)' \cup GoodDrains(d)')
        /\ \A n \in Expecting(d) : serverMessages[d][n] \in Seq(Mail(d, n)')
        /\ \A row \in DOMAIN cache[d] : \A e :
             e = cache[d][row] => row \in Nat /\ IsRow(e, row)'
        /\ \A pn \in confirmed[d] : Saved(d, pn)'
    BY <1>1, <1>3, GoodGrows
  <2>2. ASSUME /\ IsChannel(toServer'[d], Asked(d)')
               /\ IsChannel(toClient'[d], Replies(d)')
               /\ stack'[d] \in Seq(GoodCalls(d)' \cup GoodDrains(d)')
               /\ Nested(stack'[d], Expecting(d)', callbackOn'[d], packetCounter'[d])
               /\ \A n \in Expecting(d)' : serverMessages'[d][n] \in Seq(Mail(d, n)')
               /\ \A row \in DOMAIN cache'[d] : row \in Nat /\ IsRow(cache[d][row], row)'
        PROVE  Good(d)'
    <3>1. \A pn \in confirmed'[d] : Saved(d, pn)'
      BY <2>1, <2>2, ConfirmedRight
    <3>2. serving' = d => stream' \in Seq(Asked(d)')
      BY <1>1, <2>1
    <3>3. RowsAsked(d)'
      BY <2>1, RowsStayAsked
    <3>4. QED
      BY <2>2, <3>1, <3>2, <3>3 DEF Good
  <2>3. CASE d # c
    <3>1. /\ toServer'[d] = toServer[d] /\ toClient'[d] = toClient[d]
          /\ packetCounter'[d] = packetCounter[d] /\ stack'[d] = stack[d]
          /\ serverMessages'[d] = serverMessages[d]
          /\ callbackOn'[d] = callbackOn[d] /\ cache'[d] = cache[d]
      BY <2>3 DEF Moves, OthersKept
    <3>2. Nested(stack'[d], Expecting(d)', callbackOn'[d], packetCounter'[d])
      BY <3>1 DEF Good, Expecting
    <3>3. \A n \in Expecting(d)' : serverMessages'[d][n] \in Seq(Mail(d, n)')
      BY <2>1, <3>1 DEF Expecting
    <3>4. \A row \in DOMAIN cache'[d] : row \in Nat /\ IsRow(cache[d][row], row)'
      BY <2>1, <3>1 DEF IsRow
    <3>5. QED
      BY <2>1, <2>2, <3>1, <3>2, <3>3, <3>4
  <2>4. CASE d = c
    <3>1. /\ toServer'[d] = toServer[d] \/ IsChannel(toServer'[d], Asked(d)')
          /\ IsChannel(toClient'[d], Replies(d))
          /\ stack'[d] \in Seq(GoodCalls(d) \cup GoodDrains(d))
          /\ Nested(stack'[d], Expecting(d)', callbackOn'[d], packetCounter'[d])
          /\ \A n \in Expecting(d)' : serverMessages'[d][n] \in Seq(Mail(d, n))
          /\ \A row \in DOMAIN cache'[d] : row \in Nat /\ IsRow(cache'[d][row], row)
      BY <2>4 DEF Moves
    <3>2. IsChannel(toServer'[d], Asked(d)')
      BY <2>1, <3>1
    <3>3. IsChannel(toClient'[d], Replies(d)')
      BY <2>1, <3>1, ChannelGrows
    <3>4. stack'[d] \in Seq(GoodCalls(d)' \cup GoodDrains(d)')
      <4>1. GoodCalls(d) \cup GoodDrains(d) \subseteq GoodCalls(d)' \cup GoodDrains(d)'
        BY <1>1, <1>3, <2>1, FramesGrow
      <4>2. QED
        BY <3>1, <4>1, SeqMonotonic
    <3>5. \A n \in Expecting(d)' : serverMessages'[d][n] \in Seq(Mail(d, n)')
      <4>1. \A n : Mail(d, n) \subseteq Mail(d, n)'
        BY <2>1 DEF Mail, IsResponse
      <4>2. QED
        BY <3>1, <4>1, SeqMonotonic
    <3>6. \A row \in DOMAIN cache'[d] : row \in Nat /\ IsRow(cache[d][row], row)'
      BY <1>1, <3>1 DEF IsRow
    <3>7. QED
      BY <2>2, <3>1, <3>2, <3>3, <3>4, <3>5, <3>6
  <2>5. QED
    BY <2>3, <2>4
<1>5. CoreInv'
  <2>1. ChannelsOK'
    <3>1. \A d \in Connection : Asked(d)' \subseteq ClientPacket
      BY DEF Asked
    <3>2. \A d \in Connection : IsChannel(toServer'[d], ClientPacket)
      BY <1>4, <3>1, ChannelGrows DEF Good
    <3>3. QED
      BY <3>2 DEF ChannelsOK, Moves
  <2>2. StorageOK' /\ HandlerOK'
    BY DEF CoreInv, serverVars, handlerVars, StorageOK, HandlerOK
  <2>3. QED
    BY <2>1, <2>2 DEF CoreInv, Moves
<1>6. QED
  BY <1>2, <1>4, <1>5 DEF SystemInv, Moves

\* What is known of the client whose turn it is.
LEMMA ClientFacts ==
    ASSUME SystemInv, NEW c \in Connection
    PROVE  /\ LinksOK /\ PerClient /\ Good(c)
           /\ toServer = [d \in Connection |-> toServer[d]]
           /\ packetCounter[c] \in Nat
           /\ stack[c] \in Seq(GoodCalls(c) \cup GoodDrains(c))
BY DEF SystemInv, CoreInv, ChannelsOK, LinksOK, Good

\* The innermost frame and those below it.
LEMMA TopAndBelow ==
    ASSUME NEW c, stack[c] \in Seq(GoodCalls(c) \cup GoodDrains(c)),
           stack[c] # <<>>
    PROVE  /\ Top(c) \in GoodCalls(c) \cup GoodDrains(c)
           /\ IsCall(Top(c)) => Top(c) \in GoodCalls(c)
           /\ Top(c).kind = "drain" => Top(c) \in GoodDrains(c) /\ ~IsOpen(Top(c))
           /\ Below(c) \in Seq(GoodCalls(c) \cup GoodDrains(c))
           /\ \A n : NoNewWait(stack[c], Below(c), n)
<1>1. /\ Top(c) \in GoodCalls(c) \cup GoodDrains(c)
      /\ Below(c) \in Seq(GoodCalls(c) \cup GoodDrains(c))
  BY PopProperties DEF Top, Below
<1>2. \A n : NoNewWait(stack[c], Below(c), n)
  BY PopWaits DEF Below
<1>3. QED
  BY <1>1, <1>2, FrameFields DEF IsOpen, IsCall

\* A batch, if it is not empty, on top of a stack.
LEMMA BatchOnTop ==
    ASSUME NEW c, NEW packets \in Seq(Replies(c)), NEW slot \in BOOLEAN,
           NEW s \in Seq(GoodCalls(c) \cup GoodDrains(c)),
           NEW below \in Seq(GoodCalls(c) \cup GoodDrains(c)),
           NEW expecting, NEW on, NEW n, Nested(below, expecting, on, n),
           NEW m, NoNewWait(s, below, m)
    PROVE  /\ Batch(packets, slot) \o below \in Seq(GoodCalls(c) \cup GoodDrains(c))
           /\ Nested(Batch(packets, slot) \o below, expecting, on, n)
           /\ NoNewWait(s, Batch(packets, slot) \o below, m)
<1>. DEFINE S == GoodCalls(c) \cup GoodDrains(c)
            f == DrainFrame(packets, slot)
<1>1. CASE packets = <<>>
  <2>1. Batch(packets, slot) \o below = below
    BY <1>1, ConcatEmptySeq DEF Batch
  <2>2. QED
    BY <2>1
<1>2. CASE packets # <<>>
  <2>1. Batch(packets, slot) = <<f>>
    BY <1>2 DEF Batch
  <2>2. f \in S /\ ~IsCall(f) /\ ~IsWait(f)
    BY DEF DrainFrame, GoodDrains, IsCall, IsWait
  <2>. HIDE DEF f
  <2>3. <<f>> \o below \in Seq(S)
    BY <2>2, PushProperties
  <2>4. Nested(<<f>> \o below, expecting, on, n)
    BY <2>2, PushDrain
  <2>5. NoNewWait(s, <<f>> \o below, m)
    BY <2>2, PushWaits
  <2>6. QED
    BY <2>1, <2>3, <2>4, <2>5
<1>3. QED
  BY <1>1, <1>2

\* The transport is as it was.
LEMMA QuietMoves ==
    ASSUME SystemInv, NEW c \in Connection, UNCHANGED transportVars
    PROVE  /\ LinksOK'
           /\ toServer' = [d \in Connection |-> toServer'[d]]
           /\ toClient' = [d \in Connection |-> toClient'[d]]
           /\ \A d : /\ toServer'[d] = toServer[d] /\ toClient'[d] = toClient[d]
                     /\ packetCounter'[d] = packetCounter[d]
           /\ IsChannel(toClient'[c], Replies(c))
           /\ NoNewWait(stack[c], stack'[c], packetCounter[c]) => Grows(c)
<1>1. LinksOK /\ PerClient /\ Good(c) /\ packetCounter[c] \in Nat
      /\ toServer = [d \in Connection |-> toServer[d]]
  BY ClientFacts
<1>2. QED
  BY <1>1 DEF transportVars, LinksOK, PerClient, Good, Grows

\* The packet at hand of a client that drains, and the stack behind it.
LEMMA PacketAndRest ==
    ASSUME SystemInv, NEW c \in Connection, Processing(c)
    PROVE  /\ Head(Top(c).packets) \in Replies(c)
           /\ Tail(Top(c).packets) \in Seq(Replies(c))
           /\ Top(c) \in GoodDrains(c)
           /\ AfterPacket(c) \in Seq(GoodCalls(c) \cup GoodDrains(c))
           /\ Nested(AfterPacket(c), Expecting(c), callbackOn[c], packetCounter[c])
           /\ NoNewWait(stack[c], AfterPacket(c), packetCounter[c])
<1>. Good(c) /\ stack[c] \in Seq(GoodCalls(c) \cup GoodDrains(c))
  BY ClientFacts
<1>. DEFINE n == packetCounter[c]
<1>1. stack[c] # <<>> /\ Top(c).kind = "drain" /\ Top(c).packets # <<>>
  BY DEF Processing, Draining
<1>2. /\ Top(c) \in GoodDrains(c) /\ ~IsOpen(Top(c))
      /\ Below(c) \in Seq(GoodCalls(c) \cup GoodDrains(c))
      /\ NoNewWait(stack[c], Below(c), n)
  BY <1>1, TopAndBelow
<1>3. /\ Head(Top(c).packets) \in Replies(c)
      /\ Tail(Top(c).packets) \in Seq(Replies(c))
      /\ Top(c).slot \in BOOLEAN
  BY <1>1, <1>2, HeadTailProperties DEF GoodDrains
<1>4. Nested(Below(c), Expecting(c), callbackOn[c], n)
  BY <1>1, <1>2, PopFrame DEF Top, Below, Good
<1>5. QED
  BY <1>2, <1>3, <1>4, BatchOnTop DEF AfterPacket

\* A copy over freed memory is the copy of another response to the same call.
LEMMA ReusedMail ==
    ASSUME NEW M, NEW mailbox \in Seq(M), NEW packet \in M,
           NEW kept \in Reused(mailbox, packet)
    PROVE  kept \in Seq(M)
<1>1. CASE "reuse" \in Faults
  <2>1. PICK T \in SUBSET DOMAIN mailbox :
            kept = [i \in DOMAIN mailbox |-> IF i \in T THEN packet ELSE mailbox[i]]
    BY <1>1 DEF Reused
  <2>2. /\ Len(mailbox) \in Nat /\ mailbox \in [1..Len(mailbox) -> M]
        /\ DOMAIN mailbox = 1..Len(mailbox)
    BY LenProperties
  <2>3. kept \in [1..Len(mailbox) -> M]
    BY <2>1, <2>2
  <2>4. QED
    BY <2>2, <2>3, SeqDef
<1>2. CASE "reuse" \notin Faults
  BY <1>2 DEF Reused
<1>3. QED
  BY <1>1, <1>2

LEMMA SaveMessageMoves ==
    ASSUME SystemInv, NEW c \in Connection, SaveMessage(c)
    PROVE  Moves(c)
<1>. DEFINE packet == Head(Top(c).packets)
            pn == packet.pn
<1>1. /\ Processing(c) /\ Expected(c, packet)
      /\ \E kept \in Reused(serverMessages[c][pn], packet) :
           serverMessages' = [serverMessages EXCEPT ![c][pn] = Append(kept, packet)]
      /\ stack' = [stack EXCEPT ![c] = AfterPacket(c)]
      /\ UNCHANGED <<transportVars, callbackOn, cachedRowCount, cache>>
  BY DEF SaveMessage
<1>2. PerClient /\ Good(c)
  BY ClientFacts
<1>3. /\ packet \in Replies(c)
      /\ AfterPacket(c) \in Seq(GoodCalls(c) \cup GoodDrains(c))
      /\ Nested(AfterPacket(c), Expecting(c), callbackOn[c], packetCounter[c])
      /\ NoNewWait(stack[c], AfterPacket(c), packetCounter[c])
  BY <1>1, PacketAndRest
<1>4. stack'[c] = AfterPacket(c) /\ PerClient'
  BY <1>1, <1>2, QuietMoves DEF PerClient
<1>5. pn \in Expecting(c) /\ packet \in Mail(c, pn)
  BY <1>1, <1>3 DEF Expected, Mail
<1>6. PICK kept \in Reused(serverMessages[c][pn], packet) :
          serverMessages' = [serverMessages EXCEPT ![c][pn] = Append(kept, packet)]
  BY <1>1
<1>7. Append(kept, packet) \in Seq(Mail(c, pn))
  <2>1. serverMessages[c][pn] \in Seq(Mail(c, pn))
    BY <1>2, <1>5 DEF Good
  <2>2. kept \in Seq(Mail(c, pn))
    BY <1>5, <2>1, ReusedMail
  <2>3. QED
    BY <1>5, <2>2, AppendProperties
<1>8. Expecting(c)' = Expecting(c)
  BY <1>2, <1>6 DEF Expecting, PerClient
<1>9. \A n \in Expecting(c)' : serverMessages'[c][n] \in Seq(Mail(c, n))
  <2>1. \A n \in Expecting(c) : n # pn => serverMessages'[c][n] = serverMessages[c][n]
    BY <1>2, <1>6 DEF Expecting, PerClient
  <2>2. serverMessages'[c][pn] = Append(kept, packet)
    BY <1>2, <1>5, <1>6 DEF Expecting, PerClient
  <2>3. QED
    BY <1>2, <1>7, <1>8, <2>1, <2>2 DEF Good
<1>10. OthersKept(c)
  BY <1>1, <1>2, QuietMoves DEF OthersKept, PerClient
<1>11. \A row \in DOMAIN cache'[c] : row \in Nat /\ IsRow(cache'[c][row], row)
  BY <1>1, <1>2 DEF Good
<1>12. Nested(stack'[c], Expecting(c)', callbackOn'[c], packetCounter'[c])
  BY <1>1, <1>3, <1>4, <1>8, QuietMoves
<1>13. QED
  BY <1>1, <1>3, <1>4, <1>9, <1>10, <1>11, <1>12, QuietMoves DEF Moves

LEMMA DropMessageMoves ==
    ASSUME SystemInv, NEW c \in Connection, DropMessage(c) \/ EndDrain(c)
    PROVE  Moves(c)
<1>1. PerClient /\ Good(c)
  BY ClientFacts
<1>2. UNCHANGED <<transportVars, serverMessages, callbackOn, cachedRowCount, cache>>
  BY DEF DropMessage, EndDrain
<1>3. \E t \in Seq(GoodCalls(c) \cup GoodDrains(c)) :
          /\ stack' = [stack EXCEPT ![c] = t]
          /\ Nested(t, Expecting(c), callbackOn[c], packetCounter[c])
          /\ NoNewWait(stack[c], t, packetCounter[c])
  <2>1. CASE DropMessage(c)
    BY <2>1, PacketAndRest DEF DropMessage
  <2>2. CASE EndDrain(c)
    <3>1. stack[c] # <<>> /\ Top(c).kind = "drain"
      BY <2>2 DEF EndDrain, Draining
    <3>2. stack[c] \in Seq(GoodCalls(c) \cup GoodDrains(c))
      BY ClientFacts
    <3>3. /\ Below(c) \in Seq(GoodCalls(c) \cup GoodDrains(c))
          /\ NoNewWait(stack[c], Below(c), packetCounter[c])
          /\ ~IsOpen(Top(c))
      BY <3>1, <3>2, TopAndBelow
    <3>4. Nested(Below(c), Expecting(c), callbackOn[c], packetCounter[c])
      BY <1>1, <3>1, <3>2, <3>3, PopFrame DEF Top, Below, Good
    <3>5. QED
      BY <2>2, <3>3, <3>4 DEF EndDrain
  <2>3. QED
    BY <2>1, <2>2
<1>4. PICK t \in Seq(GoodCalls(c) \cup GoodDrains(c)) :
          /\ stack' = [stack EXCEPT ![c] = t]
          /\ Nested(t, Expecting(c), callbackOn[c], packetCounter[c])
          /\ NoNewWait(stack[c], t, packetCounter[c])
  BY <1>3
<1>5. stack'[c] = t /\ PerClient' /\ OthersKept(c)
  BY <1>1, <1>2, <1>4, QuietMoves DEF PerClient, OthersKept
<1>6. \A n \in Expecting(c)' : serverMessages'[c][n] \in Seq(Mail(c, n))
  BY <1>1, <1>2 DEF Good, Expecting
<1>7. \A row \in DOMAIN cache'[c] : row \in Nat /\ IsRow(cache'[c][row], row)
  BY <1>1, <1>2 DEF Good
<1>8. Nested(stack'[c], Expecting(c)', callbackOn'[c], packetCounter'[c])
  BY <1>2, <1>4, <1>5, QuietMoves DEF Expecting
<1>9. QED
  BY <1>2, <1>4, <1>5, <1>6, <1>7, <1>8, QuietMoves DEF Moves

\* The responses up to the last one are some of them, at least one.
LEMMA UpToLastProperties ==
    ASSUME NEW M, NEW responses \in Seq(M), responses # <<>>
    PROVE  /\ UpToLast(responses) \in Seq(M)
           /\ (\A p \in M : p.isLast) => /\ Len(UpToLast(responses)) = 1
                                        /\ UpToLast(responses)[1] = responses[1]
<1>. DEFINE OK(i) == /\ i = Len(responses) \/ responses[i].isLast
                     /\ \A j \in 1..(i - 1) : ~responses[j].isLast
            T == {i \in 1..Len(responses) :
                     i = Len(responses) \/ responses[i].isLast}
            n == CHOOSE i \in 1..Len(responses) : OK(i)
<1>1. Len(responses) \in Nat \ {0}
  BY EmptySeq
<1>2. Len(responses) \in T /\ T \subseteq Nat /\ T \subseteq 1..Len(responses)
  BY <1>1
<1>3. \E i \in 1..Len(responses) : OK(i)
  <2>1. PICK x \in T : \A y \in T : x <= y
    BY <1>2, Least
  <2>2. \A j \in 1..(x - 1) : j \in 1..Len(responses) /\ j \notin T
    BY <1>1, <2>1
  <2>3. QED
    BY <2>1, <2>2
<1>4. n \in 1..Len(responses)
  BY <1>3
<1>5. UpToLast(responses) = SubSeq(responses, 1, n)
  BY DEF UpToLast
<1>. HIDE DEF n
<1>6. \A i \in 1..n : responses[i] \in M
  BY <1>1, <1>4, ElementOfSeq
<1>7. n \in Int
  BY <1>4
<1>8. SubSeq(responses, 1, n) \in Seq(M)
  BY <1>6, <1>7, SubSeqProperties
<1>9. ASSUME \A p \in M : p.isLast
      PROVE  /\ Len(SubSeq(responses, 1, n)) = 1
             /\ SubSeq(responses, 1, n)[1] = responses[1]
  <2>1. OK(n)
    BY <1>3 DEF n
  <2>2. 1 \in 1..Len(responses) /\ responses[1] \in M
    BY <1>1, ElementOfSeq
  <2>3. ~(1 \in 1..(n - 1))
    BY <1>9, <2>1, <2>2
  <2>4. n = 1
    BY <1>4, <2>3
  <2>5. QED
    BY <1>6, <1>7, <2>2, <2>4, SubSeqProperties
<1>10. QED
  BY <1>5, <1>8, <1>9

\* The call on top waits, and its mailbox holds what answers it.
LEMMA WaitingFacts ==
    ASSUME SystemInv, NEW c \in Connection, Waiting(c)
    PROVE  /\ stack[c] # <<>> /\ IsWait(Top(c)) /\ Top(c) \in GoodCalls(c)
           /\ Below(c) \in Seq(GoodCalls(c) \cup GoodDrains(c))
           /\ Mailbox(c) \in Seq(Mail(c, Top(c).pn))
           /\ \A p \in Mail(c, Top(c).pn) : Answers(p, Top(c).request)
<1>. Good(c) /\ stack[c] \in Seq(GoodCalls(c) \cup GoodDrains(c))
  BY ClientFacts
<1>1. stack[c] # <<>> /\ IsWait(Top(c)) /\ IsCall(Top(c))
  BY DEF Waiting, Calling, IsWait, IsCall
<1>2. Top(c) \in GoodCalls(c) /\ Below(c) \in Seq(GoodCalls(c) \cup GoodDrains(c))
  BY <1>1, TopAndBelow
<1>3. Mailbox(c) \in Seq(Mail(c, Top(c).pn))
  BY DEF Waiting, Mailbox, Good
<1>4. 1 \in 1..Len(stack[c]) /\ Top(c) = stack[c][1]
  <2>1. Len(stack[c]) \in Nat \ {0} /\ Head(stack[c]) = stack[c][1]
    BY <1>1, PopProperties
  <2>2. QED
    BY <2>1 DEF Top
<1>5. \A p \in Mail(c, Top(c).pn) : Answers(p, Top(c).request)
  BY <1>1, <1>4 DEF Mail, Replies
<1>6. QED
  BY <1>1, <1>2, <1>3, <1>5

\* The innermost call waits on or decides: nothing but its frame changes.
LEMMA TopMoves ==
    ASSUME SystemInv, NEW c \in Connection, Waiting(c),
           NEW f \in GoodCalls(c), IsOpen(f), f.pn = Top(c).pn,
           f.request = Top(c).request,
           stack' = [stack EXCEPT ![c] = <<f>> \o Below(c)],
           \/ UNCHANGED serverMessages
           \/ serverMessages' = [serverMessages EXCEPT ![c][Top(c).pn] = <<>>],
           UNCHANGED <<transportVars, callbackOn, cachedRowCount, cache>>
    PROVE  Moves(c)
<1>. DEFINE t == <<f>> \o Below(c)
            S == GoodCalls(c) \cup GoodDrains(c)
<1>1. PerClient /\ Good(c) /\ stack[c] \in Seq(S)
  BY ClientFacts
<1>2. /\ stack[c] # <<>> /\ IsWait(Top(c)) /\ Top(c) \in GoodCalls(c)
      /\ Below(c) \in Seq(S) /\ Top(c).pn \in Expecting(c)
  BY WaitingFacts DEF Waiting
<1>3. t \in Seq(S)
  <2>1. f \in S
    OBVIOUS
  <2>2. QED
    BY <1>2, <2>1, PushProperties
<1>4. Nested(t, Expecting(c), callbackOn[c], packetCounter[c])
  <2>1. f \in S
    OBVIOUS
  <2>2. QED
    BY <1>1, <1>2, <2>1, ChangeTop DEF Top, Below, Good
<1>5. NoNewWait(stack[c], t, packetCounter[c])
  <2>1. f \in S /\ NoNewWait(stack[c], Below(c), packetCounter[c])
    BY <1>1, <1>2, TopAndBelow
  <2>2. QED
    BY <1>1, <1>2, <2>1, PushWaits DEF Top
<1>6. stack'[c] = t
  BY <1>1 DEF PerClient
<1>. HIDE DEF t
<1>7. PerClient' /\ OthersKept(c)
  BY <1>1, QuietMoves DEF PerClient, OthersKept
<1>8. Expecting(c)' = Expecting(c)
  BY <1>1 DEF Expecting, PerClient
<1>9. \A n \in Expecting(c)' : serverMessages'[c][n] \in Seq(Mail(c, n))
  <2>1. \A n \in Expecting(c) : serverMessages'[c][n] \in {serverMessages[c][n], <<>>}
    BY <1>1 DEF Expecting, PerClient
  <2>2. \A n : <<>> \in Seq(Mail(c, n))
    OBVIOUS
  <2>3. QED
    BY <1>1, <1>8, <2>1, <2>2 DEF Good
<1>10. \A row \in DOMAIN cache'[c] : row \in Nat /\ IsRow(cache'[c][row], row)
  BY <1>1 DEF Good
<1>11. Nested(stack'[c], Expecting(c)', callbackOn'[c], packetCounter'[c])
  BY <1>4, <1>6, <1>8, QuietMoves
<1>12. QED
  BY <1>3, <1>5, <1>6, <1>7, <1>9, <1>10, <1>11, QuietMoves DEF Moves

LEMMA TimeoutMoves ==
    ASSUME SystemInv, NEW c \in Connection, Timeout(c)
    PROVE  Moves(c)
<1>. DEFINE f == [Top(c) EXCEPT !.at = "leave", !.answer = NoAnswer]
<1>1. Waiting(c) /\ Top(c) \in GoodCalls(c)
  BY WaitingFacts DEF Timeout
<1>2. /\ f \in GoodCalls(c) /\ IsOpen(f) /\ f.pn = Top(c).pn
      /\ f.request = Top(c).request
  BY <1>1 DEF GoodCalls, CallFrames, Answer, NoAnswer, IsOpen, IsCall
<1>3. stack' = [stack EXCEPT ![c] = <<f>> \o Below(c)]
  BY DEF Timeout, Decide
<1>. HIDE DEF f
<1>4. QED
  BY <1>1, <1>2, <1>3, TopMoves DEF Timeout

\* A saved event of c that a call waits for is the one the call has sent.
LEMMA AcknowledgedRow ==
    ASSUME SystemInv, NEW c \in Connection, NEW i \in 1..Len(stack[c]),
           IsWait(stack[c][i]), stack[c][i].request.op = "send",
           Saved(c, stack[c][i].pn)
    PROVE  Submitted(c, stack[c][i].pn, stack[c][i].request.size)
<1>1. table \in Seq(Event) /\ RowsAsked(c)
  BY DEF SystemInv, CoreInv, StorageOK, Good
<1>2. PICK k \in 1..Len(table) : table[k].from = c /\ table[k].pn = stack[c][i].pn
  BY DEF Saved
<1>. DEFINE p == SendEvent(table[k].pn, NoHandshake, table[k].size)
<1>3. p \in Asked(c) /\ p.pn = stack[c][i].pn /\ p.size = table[k].size
  BY <1>1, <1>2 DEF RowsAsked, SendEvent
<1>4. Asks(p, stack[c][i].request)
  BY <1>3 DEF Asked
<1>. HIDE DEF p
<1>5. table[k].size = stack[c][i].request.size
  BY <1>3, <1>4 DEF Asks
<1>6. table[k] \in Event
  BY <1>1, ElementOfSeq
<1>7. table[k] = [from |-> c, pn |-> stack[c][i].pn,
                  size |-> stack[c][i].request.size]
  BY <1>2, <1>5, <1>6 DEF Event
<1>8. QED
  BY <1>7 DEF Submitted

\* What a response in the mailbox of the call on top says.
LEMMA ResponseSays ==
    ASSUME SystemInv, NEW c \in Connection, Waiting(c),
           NEW h \in Mail(c, Top(c).pn)
    PROVE  /\ Top(c).pn \in 1..packetCounter[c]
           /\ Top(c).request.op = "send" =>
                  Submitted(c, Top(c).pn, Top(c).request.size)
           /\ Top(c).request.op = "number" =>
                  h.number \in Since(c, Top(c).pn) /\ h.number \in Nat
<1>1. /\ stack[c] # <<>> /\ IsWait(Top(c)) /\ Answers(h, Top(c).request)
      /\ Good(c) /\ stack[c] \in Seq(GoodCalls(c) \cup GoodDrains(c))
  BY WaitingFacts, ClientFacts
<1>2. 1 \in 1..Len(stack[c]) /\ Top(c) = stack[c][1]
  <2>1. Len(stack[c]) \in Nat \ {0} /\ Head(stack[c]) = stack[c][1]
    BY <1>1, PopProperties
  <2>2. QED
    BY <2>1 DEF Top
<1>3. h \in Replies(c) /\ IsResponse(h) /\ h.pn = Top(c).pn
  BY DEF Mail
<1>4. Top(c).pn \in 1..packetCounter[c]
  BY <1>3 DEF Replies
<1>5. ASSUME Top(c).request.op = "send"
      PROVE  Submitted(c, Top(c).pn, Top(c).request.size)
  <2>1. h.type = "Ack"
    BY <1>1, <1>5 DEF Answers
  <2>2. Saved(c, Top(c).pn)
    BY <1>3, <2>1 DEF Replies
  <2>3. QED
    BY <1>1, <1>2, <1>5, <2>2, AcknowledgedRow
<1>6. ASSUME Top(c).request.op = "number"
      PROVE  h.number \in Since(c, Top(c).pn) /\ h.number \in Nat
  <2>1. h.type = "NumberOfSavedEventsResponse"
    BY <1>1, <1>6 DEF Answers
  <2>2. h.number \in Since(c, Top(c).pn)
    BY <1>3, <2>1 DEF Replies
  <2>3. Since(c, Top(c).pn) \subseteq Nat
    BY <1>1, <1>4, SinceNumbers DEF Good
  <2>4. QED
    BY <2>2, <2>3
<1>7. QED
  BY <1>4, <1>5, <1>6

\* The events a call has when it has read its mailbox.
LEMMA TakenEvents ==
    ASSUME SystemInv, NEW c \in Connection, Waiting(c), Mailbox(c) # <<>>,
           Top(c).request.op \in {"range", "row"},
           NEW taken, taken = UpToLast(Mailbox(c)),
           NEW events, events = Top(c).events \o Events(taken)
    PROVE  /\ events \in Seq(EventsFor(Top(c).request)) /\ events \in Seq(Event)
           /\ Top(c).request.op = "row" => Len(events) = 1 /\ Complete(taken)
<1>. DEFINE M == Mail(c, Top(c).pn)
            E == EventsFor(Top(c).request)
<1>1. /\ Mailbox(c) \in Seq(M) /\ Top(c) \in GoodCalls(c) /\ IsWait(Top(c))
      /\ \A p \in M : Answers(p, Top(c).request)
  BY WaitingFacts
<1>2. /\ Top(c).events \in Seq(E)
      /\ Top(c).request.op = "row" => Top(c).events = <<>>
  BY <1>1 DEF GoodCalls, IsWait
<1>3. \A p \in M : /\ p.event \in E
                   /\ Top(c).request.op = "row" => p.isLast
  BY <1>1 DEF Answers
<1>4. E \subseteq Event
  BY DEF EventsFor
<1>5. /\ taken \in Seq(M)
      /\ Top(c).request.op = "row" => Len(taken) = 1 /\ taken[1] = Mailbox(c)[1]
  <2>. HIDE DEF M
  <2>1. QED
    BY <1>1, <1>3, UpToLastProperties
<1>6. Top(c).request.op = "row" => Mailbox(c)[1] \in M
  BY <1>1, PopProperties
<1>. HIDE DEF M, E
<1>7. Len(taken) \in Nat /\ \A i \in 1..Len(taken) : taken[i] \in M
  BY <1>5, LenProperties
<1>8. Events(taken) \in [1..Len(taken) -> E]
  BY <1>3, <1>7 DEF Events
<1>9. Events(taken) \in Seq(E)
  BY <1>7, <1>8, SeqDef
<1>10. events \in Seq(E) /\ Len(events) = Len(Top(c).events) + Len(Events(taken))
  BY <1>2, <1>9, ConcatProperties
<1>11. events \in Seq(Event)
  BY <1>4, <1>10, SeqMonotonic
<1>12. ASSUME Top(c).request.op = "row"
       PROVE  Len(events) = 1 /\ Complete(taken)
  <2>1. Len(taken) = 1 /\ taken[1] = Mailbox(c)[1] /\ taken[1].isLast
    BY <1>3, <1>5, <1>6, <1>12
  <2>2. Len(Events(taken)) = 1 /\ Len(Top(c).events) = 0
    BY <1>2, <1>8, <1>9, <1>12, <2>1, LenProperties
  <2>3. QED
    BY <1>10, <2>1, <2>2 DEF Complete
<1>13. QED
  BY <1>10, <1>11, <1>12 DEF E

\* A call that decides to return what is right is a good frame.
LEMMA DecidedFrame ==
    ASSUME NEW c, Top(c) \in GoodCalls(c), NEW answer \in Answer, Decide(c, answer),
           Top(c).pn \in 1..packetCounter[c],
           Top(c).request.op = "send" =>
               Submitted(c, Top(c).pn, Top(c).request.size),
           Top(c).request.op = "number" => answer.number \in Since(c, Top(c).pn),
           Top(c).request.op \in {"range", "row"} =>
               answer.events \in Seq(EventsFor(Top(c).request)),
           Top(c).request.op = "row" => Len(answer.events) = 1
    PROVE  \E f \in GoodCalls(c) :
               /\ IsOpen(f) /\ f.pn = Top(c).pn /\ f.request = Top(c).request
               /\ stack' = [stack EXCEPT ![c] = <<f>> \o Below(c)]
<1>. DEFINE f == [Top(c) EXCEPT !.at = "leave", !.answer = answer]
<1>1. /\ f \in CallFrames /\ f.events = Top(c).events
      /\ f.request = Top(c).request /\ f.answer = answer
      /\ IsOpen(f) /\ f.pn = Top(c).pn /\ f.at = "leave"
  BY DEF GoodCalls, CallFrames, IsOpen, IsCall
<1>2. stack' = [stack EXCEPT ![c] = <<f>> \o Below(c)]
  BY DEF Decide
<1>. HIDE DEF f
<1>3. Right(c, f)
  BY <1>1 DEF Right
<1>4. f \in GoodCalls(c)
  BY <1>1, <1>3 DEF GoodCalls
<1>5. QED
  BY <1>1, <1>2, <1>4

\* The answer a call finds in its mailbox is right for its request.
LEMMA TakenAnswer ==
    ASSUME SystemInv, NEW c \in Connection, TakeResponses(c)
    PROVE  \E f \in GoodCalls(c) :
               /\ IsOpen(f) /\ f.pn = Top(c).pn /\ f.request = Top(c).request
               /\ stack' = [stack EXCEPT ![c] = <<f>> \o Below(c)]
<1>. DEFINE responses == Mailbox(c)
            request == Top(c).request
            taken == UpToLast(responses)
            events == Top(c).events \o Events(taken)
            number == Head(responses).number
<1>1. /\ Waiting(c) /\ responses # <<>> /\ responses \in Seq(Mail(c, Top(c).pn))
      /\ Top(c) \in GoodCalls(c) /\ IsWait(Top(c))
  BY WaitingFacts DEF TakeResponses
<1>2. Head(responses) \in Mail(c, Top(c).pn)
  BY <1>1, HeadTailProperties
<1>3. /\ Top(c).pn \in 1..packetCounter[c]
      /\ request.op = "send" => Submitted(c, Top(c).pn, request.size)
      /\ request.op = "number" => number \in Since(c, Top(c).pn) /\ number \in Nat
  BY <1>1, <1>2, ResponseSays
<1>4. request.op \in {"range", "row"} =>
          /\ events \in Seq(EventsFor(request)) /\ events \in Seq(Event)
          /\ request.op = "row" => Len(events) = 1 /\ Complete(taken)
  BY <1>1, TakenEvents
<1>5. \/ request.op = "send" /\ Decide(c, Confirmed)
      \/ request.op = "number" /\ Decide(c, NumberAnswer(number))
      \/ request.op \in {"range", "row"} /\ Decide(c, EventsAnswer(events))
      \/ /\ request.op \in {"range", "row"} /\ ~Complete(taken)
         /\ stack' = [stack EXCEPT ![c] =
                         <<[Top(c) EXCEPT !.events = events]>> \o Below(c)]
  BY DEF TakeResponses
<1>. HIDE DEF responses, events, taken, number
<1>6. CASE request.op = "send" /\ Decide(c, Confirmed)
  <2>1. Confirmed \in Answer
    BY DEF Answer
  <2>2. QED
    BY <1>1, <1>3, <1>6, <2>1, DecidedFrame
<1>7. CASE request.op = "number" /\ Decide(c, NumberAnswer(number))
  <2>. DEFINE answer == NumberAnswer(number)
  <2>1. answer \in Answer /\ answer.number = number
    BY <1>3, <1>7 DEF Answer, NumberAnswer
  <2>. HIDE DEF answer
  <2>2. QED
    BY <1>1, <1>3, <1>7, <2>1, DecidedFrame DEF answer
<1>8. CASE request.op \in {"range", "row"} /\ Decide(c, EventsAnswer(events))
  <2>. DEFINE answer == EventsAnswer(events)
  <2>1. answer \in Answer /\ answer.events = events
    BY <1>4, <1>8 DEF Answer, EventsAnswer
  <2>. HIDE DEF answer
  <2>2. QED
    BY <1>1, <1>3, <1>4, <1>8, <2>1, DecidedFrame DEF answer
<1>9. CASE /\ request.op \in {"range", "row"} /\ ~Complete(taken)
           /\ stack' = [stack EXCEPT ![c] =
                           <<[Top(c) EXCEPT !.events = events]>> \o Below(c)]
  <2>. DEFINE f == [Top(c) EXCEPT !.events = events]
  <2>1. /\ f \in CallFrames /\ f.events = events /\ f.request = request
        /\ f.answer = Top(c).answer /\ IsOpen(f) /\ f.pn = Top(c).pn
    BY <1>1, <1>4, <1>9 DEF GoodCalls, CallFrames, IsOpen, IsWait, IsCall
  <2>2. stack' = [stack EXCEPT ![c] = <<f>> \o Below(c)]
    BY <1>9
  <2>. HIDE DEF f
  <2>3. f.answer.ok => Right(c, f)
    BY <1>1, <2>1 DEF GoodCalls, Right
  <2>4. f.request.op # "row"
    BY <1>4, <1>9, <2>1
  <2>5. f \in GoodCalls(c)
    BY <1>4, <1>9, <2>1, <2>3, <2>4 DEF GoodCalls
  <2>6. QED
    BY <2>1, <2>2, <2>5
<1>10. QED
  BY <1>5, <1>6, <1>7, <1>8, <1>9

LEMMA TakeResponsesMoves ==
    ASSUME SystemInv, NEW c \in Connection, TakeResponses(c)
    PROVE  Moves(c)
<1>1. PICK f \in GoodCalls(c) :
          /\ IsOpen(f) /\ f.pn = Top(c).pn /\ f.request = Top(c).request
          /\ stack' = [stack EXCEPT ![c] = <<f>> \o Below(c)]
  BY TakenAnswer
<1>2. QED
  BY <1>1, TopMoves DEF TakeResponses

LEMMA ReturnMoves ==
    ASSUME SystemInv, NEW c \in Connection, Return(c)
    PROVE  Moves(c)
<1>. DEFINE S == GoodCalls(c) \cup GoodDrains(c)
            f == Top(c)
<1>1. PerClient /\ Good(c) /\ stack[c] \in Seq(S)
  BY ClientFacts
<1>2. /\ stack[c] # <<>> /\ IsCall(f) /\ ~IsOpen(f)
      /\ stack' = [stack EXCEPT ![c] = Below(c)]
      /\ UNCHANGED <<transportVars, serverMessages, callbackOn>>
  BY DEF Return, Calling, IsCall, IsOpen
<1>3. f \in GoodCalls(c) /\ Below(c) \in Seq(S)
      /\ NoNewWait(stack[c], Below(c), packetCounter[c])
  BY <1>1, <1>2, TopAndBelow
<1>4. Nested(Below(c), Expecting(c), callbackOn[c], packetCounter[c])
  BY <1>1, <1>2, PopFrame DEF Top, Below, Good
<1>5. stack'[c] = Below(c)
  BY <1>1, <1>2 DEF PerClient
<1>6. /\ f.request \in GoodRequest
      /\ f.answer.ok => Right(c, f)
  BY <1>3 DEF GoodCalls, CallFrames
<1>7. RowCountAfter(cachedRowCount[c], f) \in Nat \cup {NoValue}
  <2>1. CASE f.request.op = "number" /\ f.answer.ok
    <3>1. f.pn \in 1..packetCounter[c] /\ f.answer.number \in Since(c, f.pn)
      BY <1>6, <2>1 DEF Right
    <3>2. f.answer.number \in Nat
      BY <1>1, <3>1, SinceNumbers DEF Good
    <3>3. QED
      BY <2>1, <3>2 DEF RowCountAfter
  <2>2. CASE ~(f.request.op = "number" /\ f.answer.ok)
    BY <1>1, <2>2 DEF RowCountAfter, PerClient
  <2>3. QED
    BY <2>1, <2>2
<1>8. \A row \in DOMAIN CacheAfter(cache[c], f) :
          row \in Nat /\ IsRow(CacheAfter(cache[c], f)[row], row)
  <2>1. CASE /\ f.request.op = "row" /\ f.answer.ok
             /\ f.answer.events # <<>>
    <3>1. f.request.first \in Nat
      BY <1>6, <2>1 DEF GoodRequest, Request
    <3>2. f.answer.events \in Seq(EventsFor(f.request))
      BY <1>6, <2>1 DEF Right
    <3>3. f.answer.events[1] \in EventsFor(f.request)
      BY <2>1, <3>2, PopProperties
    <3>4. IsRow(f.answer.events[1], f.request.first)
      BY <2>1, <3>3 DEF EventsFor
    <3>5. CacheAfter(cache[c], f) =
              [row \in DOMAIN cache[c] \cup {f.request.first} |->
                  IF row = f.request.first THEN f.answer.events[1]
                                           ELSE cache[c][row]]
      BY <2>1 DEF CacheAfter
    <3>6. QED
      BY <1>1, <3>1, <3>4, <3>5 DEF Good
  <2>2. CASE ~(/\ f.request.op = "row" /\ f.answer.ok
               /\ f.answer.events # <<>>)
    <3>1. CacheAfter(cache[c], f) = cache[c]
      BY <2>2 DEF CacheAfter
    <3>2. QED
      BY <1>1, <3>1 DEF Good
  <2>3. QED
    BY <2>1, <2>2
<1>. HIDE DEF f
<1>9. /\ cachedRowCount' \in [Connection -> Nat \cup {NoValue}]
      /\ cache' = [d \in Connection |-> cache'[d]]
      /\ cache'[c] = cache[c] \/ cache'[c] = CacheAfter(cache[c], f)
      /\ \A d \in Connection \ {c} : cache'[d] = cache[d]
  <2>1. CASE c \in Views
    <3>1. /\ cachedRowCount' =
               [cachedRowCount EXCEPT ![c] = RowCountAfter(cachedRowCount[c], f)]
          /\ cache' = [cache EXCEPT ![c] = CacheAfter(cache[c], f)]
      BY <2>1 DEF Return, f
    <3>2. QED
      BY <1>1, <1>7, <3>1 DEF PerClient
  <2>2. CASE c \notin Views
    BY <1>1, <2>2 DEF Return, PerClient
  <2>3. QED
    BY <2>1, <2>2
<1>10. PerClient' /\ OthersKept(c)
  BY <1>1, <1>2, <1>9, QuietMoves DEF PerClient, OthersKept
<1>11. \A n \in Expecting(c)' : serverMessages'[c][n] \in Seq(Mail(c, n))
  BY <1>1, <1>2 DEF Good, Expecting
<1>12. \A row \in DOMAIN cache'[c] : row \in Nat /\ IsRow(cache'[c][row], row)
  BY <1>1, <1>8, <1>9 DEF Good
<1>13. Nested(stack'[c], Expecting(c)', callbackOn'[c], packetCounter'[c])
  BY <1>2, <1>4, <1>5, QuietMoves DEF Expecting
<1>14. QED
  BY <1>2, <1>3, <1>5, <1>10, <1>11, <1>12, <1>13, QuietMoves DEF Moves

LEMMA ClientNoticesMoves ==
    ASSUME SystemInv, NEW c \in Connection, ClientNotices(c)
    PROVE  Moves(c)
<1>1. LinksOK /\ PerClient /\ Good(c) /\ packetCounter[c] \in Nat
      /\ toServer = [d \in Connection |-> toServer[d]]
  BY ClientFacts
<1>2. /\ clientValid' = [clientValid EXCEPT ![c] = FALSE]
      /\ UNCHANGED <<linkUp, serverValid, toServer, toClient, handshake,
                     packetCounter, serverMessages, stack, callbackOn,
                     cachedRowCount, cache>>
  BY DEF ClientNotices, clientVars
<1>3. LinksOK' /\ PerClient' /\ OthersKept(c)
  BY <1>1, <1>2 DEF LinksOK, PerClient, OthersKept
<1>4. Grows(c)
  BY <1>1, <1>2, SameWaits DEF Grows
<1>5. /\ Nested(stack'[c], Expecting(c)', callbackOn'[c], packetCounter'[c])
      /\ \A n \in Expecting(c)' : serverMessages'[c][n] \in Seq(Mail(c, n))
      /\ \A row \in DOMAIN cache'[c] : row \in Nat /\ IsRow(cache'[c][row], row)
  BY <1>1, <1>2 DEF Good, Expecting
<1>6. QED
  BY <1>1, <1>2, <1>3, <1>4, <1>5 DEF Moves, Good

\* What a receive() takes from the socket and puts on the stack.
LEMMA DrainFacts ==
    ASSUME SystemInv, NEW c \in Connection, NEW slot \in BOOLEAN,
           NEW below \in Seq(GoodCalls(c) \cup GoodDrains(c)),
           Drain(c, slot, below)
    PROVE  /\ toClient' = [d \in Connection |-> toClient'[d]]
           /\ \A d \in Connection \ {c} :
                toClient'[d] = toClient[d] /\ stack'[d] = stack[d]
           /\ IsChannel(toClient'[c], Replies(c))
           /\ stack' = [d \in Connection |-> stack'[d]]
           /\ \E packets \in Seq(Replies(c)) :
                stack'[c] = Batch(packets, slot) \o below
<1>1. PerClient /\ IsChannel(toClient[c], Replies(c))
  BY ClientFacts DEF Good
<1>2. PICK received \in Receive(toClient[c]) :
          /\ toClient' = [toClient EXCEPT ![c] = received.rest]
          /\ \E packets \in Decoded(received.batch) :
               stack' = [stack EXCEPT ![c] = Batch(packets, slot) \o below]
  BY DEF Drain, Announced
<1>3. IsChannel(received.batch, Replies(c)) /\ IsChannel(received.rest, Replies(c))
  BY <1>1, ReceiveSplitsChannel
<1>4. PICK packets \in Decoded(received.batch) :
          stack' = [stack EXCEPT ![c] = Batch(packets, slot) \o below]
  BY <1>2
<1>5. packets \in Seq(Replies(c))
  BY <1>3, DecodedPackets
<1>6. toClient'[c] = received.rest /\ stack'[c] = Batch(packets, slot) \o below
  BY <1>1, <1>2, <1>4 DEF PerClient
<1>7. QED
  BY <1>1, <1>2, <1>3, <1>4, <1>5, <1>6 DEF PerClient

\* A receive() onto the stack as it is.
LEMMA PollMoves ==
    ASSUME SystemInv, NEW c \in Connection, OnDataArrived(c) \/ Poll(c)
    PROVE  Moves(c)
<1>. DEFINE S == GoodCalls(c) \cup GoodDrains(c)
<1>1. /\ LinksOK /\ PerClient /\ Good(c) /\ packetCounter[c] \in Nat
      /\ toServer = [d \in Connection |-> toServer[d]] /\ stack[c] \in Seq(S)
  BY ClientFacts
<1>2. UNCHANGED <<linkUp, serverValid, clientValid, toServer, handshake,
                  packetCounter, serverMessages, callbackOn, cachedRowCount,
                  cache>>
  BY DEF OnDataArrived, Poll
<1>3. \E slot \in BOOLEAN : Drain(c, slot, stack[c])
  BY <1>1 DEF OnDataArrived, Poll, PerClient
<1>4. PICK slot \in BOOLEAN : Drain(c, slot, stack[c])
  BY <1>3
<1>5. /\ toClient' = [d \in Connection |-> toClient'[d]]
      /\ \A d \in Connection \ {c} :
           toClient'[d] = toClient[d] /\ stack'[d] = stack[d]
      /\ IsChannel(toClient'[c], Replies(c))
      /\ stack' = [d \in Connection |-> stack'[d]]
      /\ \E packets \in Seq(Replies(c)) :
           stack'[c] = Batch(packets, slot) \o stack[c]
  BY <1>1, <1>4, DrainFacts
<1>6. PICK packets \in Seq(Replies(c)) : stack'[c] = Batch(packets, slot) \o stack[c]
  BY <1>5
<1>7. /\ stack'[c] \in Seq(S)
      /\ Nested(stack'[c], Expecting(c), callbackOn[c], packetCounter[c])
      /\ NoNewWait(stack[c], stack'[c], packetCounter[c])
  <2>. DEFINE t == Batch(packets, slot) \o stack[c]
  <2>1. /\ Nested(stack[c], Expecting(c), callbackOn[c], packetCounter[c])
        /\ NoNewWait(stack[c], stack[c], packetCounter[c])
    BY <1>1, SameWaits DEF Good
  <2>2. /\ t \in Seq(S)
        /\ Nested(t, Expecting(c), callbackOn[c], packetCounter[c])
        /\ NoNewWait(stack[c], t, packetCounter[c])
    BY <1>1, <2>1, BatchOnTop
  <2>3. stack'[c] = t
    BY <1>6
  <2>. HIDE DEF t
  <2>4. QED
    BY <2>2, <2>3
<1>8. LinksOK' /\ PerClient' /\ OthersKept(c) /\ Grows(c)
  BY <1>1, <1>2, <1>5, <1>7 DEF LinksOK, PerClient, OthersKept, Grows
<1>9. /\ Nested(stack'[c], Expecting(c)', callbackOn'[c], packetCounter'[c])
      /\ \A n \in Expecting(c)' : serverMessages'[c][n] \in Seq(Mail(c, n))
      /\ \A row \in DOMAIN cache'[c] : row \in Nat /\ IsRow(cache'[c][row], row)
  BY <1>1, <1>2, <1>7 DEF Good, Expecting
<1>10. QED
  BY <1>1, <1>2, <1>5, <1>7, <1>8, <1>9 DEF Moves

LEMMA LeaveMoves ==
    ASSUME SystemInv, NEW c \in Connection, Leave(c)
    PROVE  Moves(c)
<1>. DEFINE S == GoodCalls(c) \cup GoodDrains(c)
            f == [Top(c) EXCEPT !.at = "return"]
            below == <<f>> \o Below(c)
            rest == Expecting(c) \ {f.pn}
<1>1. /\ LinksOK /\ PerClient /\ Good(c) /\ packetCounter[c] \in Nat
      /\ toServer = [d \in Connection |-> toServer[d]] /\ stack[c] \in Seq(S)
  BY ClientFacts
<1>2. /\ stack[c] # <<>> /\ IsCall(Top(c)) /\ IsOpen(Top(c))
      /\ serverMessages' =
             [serverMessages EXCEPT ![c] = StopExpecting(serverMessages[c], f.pn)]
      /\ callbackOn' = [callbackOn EXCEPT ![c] = TRUE]
      /\ UNCHANGED <<linkUp, serverValid, clientValid, toServer, handshake,
                     packetCounter, cachedRowCount, cache>>
  BY DEF Leave, Calling, IsCall, IsOpen
<1>3. /\ Top(c) \in GoodCalls(c) /\ Below(c) \in Seq(S)
      /\ NoNewWait(stack[c], Below(c), packetCounter[c])
  BY <1>1, <1>2, TopAndBelow
<1>4. /\ f \in S /\ IsCall(f) /\ ~IsWait(f) /\ f.at = "return"
      /\ f.pn = Top(c).pn
  <2>1. /\ f \in CallFrames /\ f.events = Top(c).events
        /\ f.request = Top(c).request /\ f.answer = Top(c).answer
        /\ f.pn = Top(c).pn /\ IsCall(f) /\ f.at = "return"
    BY <1>3 DEF GoodCalls, CallFrames, IsCall
  <2>. HIDE DEF f
  <2>2. f.answer.ok => Right(c, f)
    BY <1>3, <2>1 DEF GoodCalls, Right
  <2>3. f \in GoodCalls(c)
    BY <1>3, <2>1, <2>2 DEF GoodCalls
  <2>4. QED
    BY <2>1, <2>3 DEF IsWait
<1>5. \/ Drain(c, TRUE, below)
      \/ stack' = [stack EXCEPT ![c] = below] /\ UNCHANGED toClient
  BY DEF Leave
<1>. HIDE DEF f
<1>6. below \in Seq(S)
  BY <1>3, <1>4, PushProperties
<1>7. Nested(below, rest, TRUE, packetCounter[c])
  BY <1>1, <1>2, <1>4, LeaveTop DEF Top, Below, Good
<1>8. NoNewWait(stack[c], below, packetCounter[c])
  BY <1>1, <1>3, <1>4, PushWaits
<1>. HIDE DEF below
<1>9. /\ toClient' = [d \in Connection |-> toClient'[d]]
      /\ stack' = [d \in Connection |-> stack'[d]]
      /\ \A d \in Connection \ {c} :
           toClient'[d] = toClient[d] /\ stack'[d] = stack[d]
      /\ IsChannel(toClient'[c], Replies(c))
      /\ stack'[c] \in Seq(S)
      /\ Nested(stack'[c], rest, TRUE, packetCounter[c])
      /\ NoNewWait(stack[c], stack'[c], packetCounter[c])
  <2>1. CASE Drain(c, TRUE, below)
    <3>1. /\ toClient' = [d \in Connection |-> toClient'[d]]
          /\ \A d \in Connection \ {c} :
               toClient'[d] = toClient[d] /\ stack'[d] = stack[d]
          /\ IsChannel(toClient'[c], Replies(c))
          /\ stack' = [d \in Connection |-> stack'[d]]
          /\ \E packets \in Seq(Replies(c)) :
               stack'[c] = Batch(packets, TRUE) \o below
      BY <1>6, <2>1, DrainFacts
    <3>2. PICK packets \in Seq(Replies(c)) :
              stack'[c] = Batch(packets, TRUE) \o below
      BY <3>1
    <3>3. /\ stack'[c] \in Seq(S)
          /\ Nested(stack'[c], rest, TRUE, packetCounter[c])
          /\ NoNewWait(stack[c], stack'[c], packetCounter[c])
      <4>. DEFINE t == Batch(packets, TRUE) \o below
      <4>1. TRUE \in BOOLEAN
        OBVIOUS
      <4>2. /\ t \in Seq(S)
            /\ Nested(t, rest, TRUE, packetCounter[c])
            /\ NoNewWait(stack[c], t, packetCounter[c])
        BY <1>1, <1>6, <1>7, <1>8, <4>1, BatchOnTop
      <4>3. stack'[c] = t
        BY <3>2
      <4>. HIDE DEF t
      <4>4. QED
        BY <4>2, <4>3
    <3>4. QED
      BY <3>1, <3>3
  <2>2. CASE stack' = [stack EXCEPT ![c] = below] /\ UNCHANGED toClient
    BY <1>1, <1>6, <1>7, <1>8, <2>2 DEF PerClient, Good
  <2>3. QED
    BY <1>5, <2>1, <2>2
<1>10. /\ Expecting(c)' = rest
       /\ \A n \in rest : serverMessages'[c][n] = serverMessages[c][n]
  BY <1>1, <1>2 DEF Expecting, PerClient, StopExpecting
<1>11. LinksOK' /\ PerClient' /\ OthersKept(c) /\ Grows(c)
  <2>1. LinksOK' /\ Grows(c)
    BY <1>1, <1>2, <1>9 DEF LinksOK, Grows
  <2>. DEFINE messages == StopExpecting(serverMessages[c], f.pn)
  <2>2. serverMessages' = [serverMessages EXCEPT ![c] = messages]
    BY <1>2
  <2>. HIDE DEF messages
  <2>3. PerClient'
    BY <1>1, <1>2, <1>9, <2>2 DEF PerClient
  <2>4. OthersKept(c)
    BY <1>1, <1>2, <1>9, <2>2 DEF OthersKept, PerClient
  <2>5. QED
    BY <2>1, <2>3, <2>4
<1>12. /\ Nested(stack'[c], Expecting(c)', callbackOn'[c], packetCounter'[c])
       /\ \A n \in Expecting(c)' : serverMessages'[c][n] \in Seq(Mail(c, n))
       /\ \A row \in DOMAIN cache'[c] : row \in Nat /\ IsRow(cache'[c][row], row)
  BY <1>1, <1>2, <1>9, <1>10 DEF Good, PerClient
<1>13. QED
  BY <1>1, <1>2, <1>9, <1>11, <1>12 DEF Moves

\* The frame of a new call.
LEMMA NewFrame ==
    ASSUME NEW c, NEW request \in GoodRequest, NEW pn \in Nat,
           NEW at \in {"wait", "leave"}
    PROVE  LET f == CallFrame(request, pn, at, NoAnswer) IN
           /\ f \in GoodCalls(c)
           /\ IsOpen(f) /\ f.pn = pn /\ f.request = request
           /\ IsWait(f) <=> at = "wait"
<1>. DEFINE f == CallFrame(request, pn, at, NoAnswer)
<1>1. /\ f \in CallFrames /\ f.pn = pn /\ f.request = request /\ f.at = at
      /\ f.events = <<>> /\ f.answer = NoAnswer /\ f.kind = "call"
  BY DEF CallFrame, CallFrames, Answer
<1>. HIDE DEF f
<1>2. f.events \in Seq(EventsFor(f.request))
  BY <1>1
<1>3. ~f.answer.ok
  BY <1>1 DEF NoAnswer
<1>4. f \in GoodCalls(c)
  BY <1>1, <1>2, <1>3 DEF GoodCalls
<1>5. QED
  BY <1>1, <1>4 DEF f, IsOpen, IsWait, IsCall

\* The packet of a call.
LEMMA PacketFields ==
    ASSUME NEW request \in GoodRequest, NEW pn \in Nat, NEW hs \in Nat
    PROVE  /\ Packet(request, pn, hs) \in ClientPacket
           /\ Packet(request, pn, hs).pn = pn
           /\ Asks(Packet(request, pn, hs), request)
<1>1. request \in Request
  BY DEF GoodRequest
<1>2. CASE request \in [op: {"send"}, size: Nat]
  BY <1>2 DEF Packet, SendEvent, ClientPacket, Asks
<1>3. CASE request \in [op: {"number"}]
  BY <1>3 DEF Packet, NumberOfSavedEventsRequest, ClientPacket, Asks
<1>4. CASE request \in [op: {"range", "row"}, first: Nat, last: Nat]
  BY <1>4 DEF Packet, SavedEventsRequest, ClientPacket, Asks
<1>5. QED
  BY <1>1, <1>2, <1>3, <1>4 DEF Request

\* A call that goes out asks for what its frame waits for.
LEMMA PacketIsAsked ==
    ASSUME SystemInv, NEW c \in Connection, NEW request \in GoodRequest,
           NEW pn \in Nat, pn = packetCounter[c] + 1, packetCounter'[c] = pn,
           NEW below \in Seq(GoodCalls(c) \cup GoodDrains(c)),
           NEW expecting, NEW on, Nested(below, expecting, on, packetCounter[c]),
           NEW f \in GoodCalls(c), f.request = request,
           stack'[c] = <<f>> \o below
    PROVE  Packet(request, pn, handshake[c]) \in Asked(c)'
<1>. DEFINE p == Packet(request, pn, handshake[c])
<1>1. handshake[c] \in Nat /\ packetCounter[c] \in Nat
  BY ClientFacts DEF LinksOK
<1>2. p \in ClientPacket /\ p.pn = pn /\ Asks(p, request)
  BY <1>1, PacketFields
<1>. HIDE DEF p
<1>3. ASSUME NEW i \in 1..Len(stack'[c]), IsWait(stack'[c][i]),
             stack'[c][i].pn = p.pn
      PROVE  Asks(p, stack'[c][i].request)
  <2>. DEFINE t == <<f>> \o below
  <2>1. /\ Len(below) \in Nat /\ Len(t) = Len(below) + 1 /\ t[1] = f
        /\ \A j \in 2..(Len(below) + 1) : t[j] = below[j - 1]
    <3>1. f \in GoodCalls(c) \cup GoodDrains(c)
      OBVIOUS
    <3>2. QED
      BY <3>1, PushProperties
  <2>2. stack'[c] = t
    OBVIOUS
  <2>. HIDE DEF t
  <2>3. CASE i = 1
    BY <1>2, <2>1, <2>2, <2>3
  <2>4. CASE i # 1
    <3>1. i - 1 \in 1..Len(below) /\ below[i - 1] = stack'[c][i]
      BY <2>1, <2>2, <2>4
    <3>2. IsCall(below[i - 1])
      BY <1>3, <3>1 DEF IsWait
    <3>3. p.pn \in 0..packetCounter[c]
      BY <1>3, <3>1, <3>2 DEF Nested
    <3>4. QED
      BY <1>1, <1>2, <3>3
  <2>5. QED
    BY <2>3, <2>4
<1>4. p \in Asked(c)'
  <2>1. \A q, r : Asks(q, r) <=> Asks(q, r)'
    BY DEF Asks
  <2>2. p.pn \in 1..packetCounter'[c]
    BY <1>1, <1>2
  <2>3. QED
    BY <1>2, <1>3, <2>1, <2>2 DEF Asked, IsWait, IsCall
<1>5. QED
  BY <1>4 DEF p

\* The stack with a new call on top.
LEMMA NewCallStack ==
    ASSUME NEW c, NEW f \in GoodCalls(c), IsOpen(f),
           NEW below \in Seq(GoodCalls(c) \cup GoodDrains(c)),
           NEW expecting, NEW on, NEW n, NEW m, NEW more,
           Nested(below, expecting, on, n),
           /\ n \in Nat /\ m \in {n, n + 1}
           /\ f.pn = 0 \/ (f.pn = m /\ m = n + 1)
           /\ \/ ~IsWait(f) /\ more = expecting
              \/ f.pn # 0 /\ more = expecting \cup {f.pn},
           NEW s, NoNewWait(s, below, n),
           s \in Seq(GoodCalls(c) \cup GoodDrains(c))
    PROVE  /\ <<f>> \o below \in Seq(GoodCalls(c) \cup GoodDrains(c))
           /\ Nested(<<f>> \o below, more, FALSE, m)
           /\ NoNewWait(s, <<f>> \o below, n)
<1>. DEFINE S == GoodCalls(c) \cup GoodDrains(c)
<1>1. f \in S /\ below \in Seq(S) /\ s \in Seq(S)
  OBVIOUS
<1>2. IsWait(f) => f.pn > n
  OBVIOUS
<1>. HIDE DEF S
<1>3. <<f>> \o below \in Seq(S)
  BY <1>1, PushProperties
<1>4. Nested(<<f>> \o below, more, FALSE, m)
  BY <1>1, PushCall
<1>5. NoNewWait(s, <<f>> \o below, n)
  BY <1>1, <1>2, PushWaits
<1>6. QED
  BY <1>3, <1>4, <1>5 DEF S

\* What a client has counted once a call has begun.
Counts(c, m) == m \in {packetCounter[c], packetCounter[c] + 1}

\* What the three ways of a call to begin have in common.
LEMMA NewCallMoves ==
    ASSUME SystemInv, NEW c \in Connection,
           NEW t \in Seq(GoodCalls(c) \cup GoodDrains(c)),
           NEW more, NEW m, Counts(c, m),
           Nested(t, more, FALSE, m), NoNewWait(stack[c], t, packetCounter[c]),
           packetCounter' = [packetCounter EXCEPT ![c] = m],
           stack' = [stack EXCEPT ![c] = t],
           callbackOn' = [callbackOn EXCEPT ![c] = FALSE],
           NEW messages, DOMAIN messages = more,
           \A e \in more : messages[e] \in Seq(Mail(c, e)),
           serverMessages' = [serverMessages EXCEPT ![c] = messages],
           NEW channel, toServer' = [toServer EXCEPT ![c] = channel],
           channel = toServer[c] \/ IsChannel(channel, Asked(c)'),
           UNCHANGED <<linkUp, serverValid, clientValid, toClient, handshake, cache>>,
           cachedRowCount' \in [Connection -> Nat \cup {NoValue}]
    PROVE  Moves(c)
<1>1. /\ LinksOK /\ PerClient /\ Good(c) /\ packetCounter[c] \in Nat
      /\ toServer = [d \in Connection |-> toServer[d]]
  BY ClientFacts
<1>2. stack'[c] = t /\ packetCounter'[c] = m /\ callbackOn'[c] = FALSE
      /\ serverMessages'[c] = messages /\ Expecting(c)' = more
  BY <1>1 DEF PerClient, LinksOK, Expecting
<1>3. Grows(c)
  BY <1>1, <1>2 DEF Grows, Counts
<1>4. LinksOK' /\ PerClient'
  <2>1. m \in Nat
    BY <1>1 DEF Counts
  <2>2. QED
    BY <1>1, <2>1 DEF LinksOK, PerClient
<1>5. OthersKept(c) /\ toServer' = [d \in Connection |-> toServer'[d]]
  BY <1>1 DEF OthersKept, PerClient, LinksOK
<1>6. toServer'[c] = toServer[c] \/ IsChannel(toServer'[c], Asked(c)')
  BY <1>1
<1>7. \A e \in Expecting(c)' : serverMessages'[c][e] \in Seq(Mail(c, e))
  BY <1>2
<1>8. /\ IsChannel(toClient'[c], Replies(c))
      /\ \A row \in DOMAIN cache'[c] : row \in Nat /\ IsRow(cache'[c][row], row)
  BY <1>1 DEF Good
<1>9. QED
  BY <1>2, <1>3, <1>4, <1>5, <1>6, <1>7, <1>8 DEF Moves

\* A call that cannot send goes straight to its scoped actions.
LEMMA CallLeaves ==
    ASSUME SystemInv, NEW c \in Connection, NEW request \in GoodRequest,
           NEW below \in Seq(GoodCalls(c) \cup GoodDrains(c)),
           Nested(below, Expecting(c), callbackOn[c], packetCounter[c]),
           NoNewWait(stack[c], below, packetCounter[c]),
           NEW pn \in {0, packetCounter[c] + 1},
           packetCounter' = [packetCounter EXCEPT ![c] =
                                IF pn = 0 THEN packetCounter[c] ELSE pn],
           stack' = [stack EXCEPT ![c] =
                        <<CallFrame(request, pn, "leave", NoAnswer)>> \o below],
           callbackOn' = [callbackOn EXCEPT ![c] = FALSE],
           UNCHANGED <<serverMessages, toServer>>,
           UNCHANGED <<linkUp, serverValid, clientValid, toClient, handshake, cache>>,
           cachedRowCount' \in [Connection -> Nat \cup {NoValue}]
    PROVE  Moves(c)
<1>. DEFINE f == CallFrame(request, pn, "leave", NoAnswer)
            t == <<f>> \o below
            m == IF pn = 0 THEN packetCounter[c] ELSE pn
            messages == serverMessages[c]
            channel == toServer[c]
            more == Expecting(c)
<1>1. /\ PerClient /\ Good(c) /\ packetCounter[c] \in Nat
      /\ stack[c] \in Seq(GoodCalls(c) \cup GoodDrains(c))
      /\ toServer = [d \in Connection |-> toServer[d]]
  BY ClientFacts
<1>2. /\ m \in {packetCounter[c], packetCounter[c] + 1} /\ m \in Nat
      /\ packetCounter[c] <= m
      /\ pn = 0 \/ (pn = m /\ m = packetCounter[c] + 1)
      /\ pn \in Nat
  BY <1>1
<1>3. f \in GoodCalls(c) /\ IsOpen(f) /\ f.pn = pn /\ ~IsWait(f)
  BY <1>2, NewFrame
<1>. HIDE DEF f
<1>4. stack' = [stack EXCEPT ![c] = t]
  BY DEF f
<1>5. packetCounter' = [packetCounter EXCEPT ![c] = m]
  OBVIOUS
<1>6. /\ serverMessages' = [serverMessages EXCEPT ![c] = messages]
      /\ DOMAIN messages = more
      /\ \A e \in more : messages[e] \in Seq(Mail(c, e))
      /\ toServer' = [toServer EXCEPT ![c] = channel] /\ channel = toServer[c]
  BY <1>1 DEF PerClient, Expecting, Good
<1>. HIDE DEF m, messages, channel, more
<1>7. /\ t \in Seq(GoodCalls(c) \cup GoodDrains(c))
      /\ Nested(t, more, FALSE, m)
      /\ NoNewWait(stack[c], t, packetCounter[c])
  BY <1>1, <1>2, <1>3, NewCallStack DEF more
<1>. HIDE DEF t
<1>8. Counts(c, m)
  BY <1>2 DEF Counts
<1>9. channel = toServer[c] \/ IsChannel(channel, Asked(c)')
  BY <1>6
<1>10. QED
  BY <1>4, <1>5, <1>6, <1>7, <1>8, <1>9, NewCallMoves

\* A call that sends makes its mailbox and waits.
LEMMA CallWaits ==
    ASSUME SystemInv, UNCHANGED serverVars, NEW c \in Connection,
           NEW request \in GoodRequest,
           NEW below \in Seq(GoodCalls(c) \cup GoodDrains(c)),
           Nested(below, Expecting(c), callbackOn[c], packetCounter[c]),
           NoNewWait(stack[c], below, packetCounter[c]),
           NEW pn, pn = packetCounter[c] + 1,
           packetCounter' = [packetCounter EXCEPT ![c] = pn],
           serverMessages' =
               [serverMessages EXCEPT ![c] = Expect(serverMessages[c], pn)],
           toServer' = Sent(toServer, clientValid, c,
                            Packet(request, pn, handshake[c])),
           stack' = [stack EXCEPT ![c] =
                        <<CallFrame(request, pn, "wait", NoAnswer)>> \o below],
           callbackOn' = [callbackOn EXCEPT ![c] = FALSE],
           UNCHANGED <<linkUp, serverValid, clientValid, toClient, handshake, cache>>,
           cachedRowCount' \in [Connection -> Nat \cup {NoValue}]
    PROVE  Moves(c)
<1>. DEFINE f == CallFrame(request, pn, "wait", NoAnswer)
            t == <<f>> \o below
            p == Packet(request, pn, handshake[c])
            messages == Expect(serverMessages[c], pn)
            more == Expecting(c) \cup {pn}
            channel == Sent(toServer, clientValid, c, p)[c]
<1>1. /\ LinksOK /\ PerClient /\ Good(c) /\ packetCounter[c] \in Nat /\ CoreInv
      /\ toServer = [d \in Connection |-> toServer[d]]
      /\ stack[c] \in Seq(GoodCalls(c) \cup GoodDrains(c))
  BY ClientFacts DEF SystemInv
<1>2. /\ pn \in {packetCounter[c], packetCounter[c] + 1} /\ pn \in Nat /\ pn # 0
      /\ packetCounter[c] <= pn
  BY <1>1
<1>3. f \in GoodCalls(c) /\ IsOpen(f) /\ f.pn = pn /\ f.request = request
  BY <1>2, NewFrame
<1>. HIDE DEF f
<1>4. stack' = [stack EXCEPT ![c] = t] /\ stack'[c] = t /\ packetCounter'[c] = pn
  BY <1>1 DEF PerClient, LinksOK, f
<1>5. /\ t \in Seq(GoodCalls(c) \cup GoodDrains(c))
      /\ Nested(t, more, FALSE, pn)
      /\ NoNewWait(stack[c], t, packetCounter[c])
  BY <1>1, <1>2, <1>3, NewCallStack
<1>6. p \in Asked(c)'
  BY <1>1, <1>2, <1>3, <1>4, PacketIsAsked
<1>. HIDE DEF t, p
<1>7. /\ DOMAIN messages = more
      /\ \A e \in more : messages[e] \in Seq(Mail(c, e))
  <2>1. \A e \in more : \/ e \in Expecting(c) /\ messages[e] = serverMessages[c][e]
                        \/ messages[e] = <<>>
    BY DEF Expect, Expecting
  <2>2. \A e : <<>> \in Seq(Mail(c, e))
    BY EmptySeq
  <2>3. \A e \in Expecting(c) : serverMessages[c][e] \in Seq(Mail(c, e))
    BY <1>1 DEF Good
  <2>4. DOMAIN messages = more
    BY DEF Expect, Expecting
  <2>. HIDE DEF messages, more
  <2>5. QED
    BY <2>1, <2>2, <2>3, <2>4
<1>8. channel = toServer[c] \/ IsChannel(channel, Asked(c)')
  <2>1. Grows(c)
    BY <1>1, <1>2, <1>4, <1>5 DEF Grows
  <2>2. IsChannel(toServer[c], Asked(c)')
    BY <1>1, <2>1, AskedGrows, ChannelGrows DEF Good
  <2>3. IsChannel(Append(toServer[c], p), Asked(c)')
    BY <1>6, <2>2, AppendToChannel
  <2>4. channel \in {toServer[c], Append(toServer[c], p)}
    BY <1>1 DEF Sent
  <2>. HIDE DEF channel
  <2>5. QED
    BY <2>3, <2>4
<1>9. toServer' = [toServer EXCEPT ![c] = channel]
  BY <1>1 DEF Sent, p
<1>. HIDE DEF messages, more, channel
<1>10. serverMessages' = [serverMessages EXCEPT ![c] = messages]
  BY DEF messages
<1>11. Counts(c, pn)
  BY <1>2 DEF Counts
<1>12. QED
  BY <1>4, <1>5, <1>7, <1>8, <1>9, <1>10, <1>11, NewCallMoves

\* The three calls up to their polling loop.
LEMMA CallMoves ==
    ASSUME SystemInv, UNCHANGED serverVars, NEW c \in Connection,
           NEW request \in GoodRequest,
           NEW below \in Seq(GoodCalls(c) \cup GoodDrains(c)),
           Nested(below, Expecting(c), callbackOn[c], packetCounter[c]),
           NoNewWait(stack[c], below, packetCounter[c]),
           Call(c, request, below),
           UNCHANGED <<linkUp, serverValid, clientValid, toClient, handshake, cache>>,
           cachedRowCount' \in [Connection -> Nat \cup {NoValue}]
    PROVE  Moves(c)
<1>1. LinksOK /\ packetCounter[c] \in Nat
  BY ClientFacts
<1>2. callbackOn' = [callbackOn EXCEPT ![c] = FALSE]
  BY DEF Call
<1>3. CASE ~clientValid[c]
  <2>1. /\ stack' = [stack EXCEPT ![c] =
                        <<CallFrame(request, 0, "leave", NoAnswer)>> \o below]
        /\ UNCHANGED <<packetCounter, serverMessages, toServer>>
    BY <1>3 DEF Call
  <2>2. packetCounter' = [packetCounter EXCEPT ![c] = packetCounter[c]]
    BY <1>1, <2>1 DEF LinksOK
  <2>3. QED
    BY <1>2, <2>1, <2>2, CallLeaves
<1>4. CASE clientValid[c] /\ ~Encodable(request)
  <2>. DEFINE pn == packetCounter[c] + 1
  <2>1. /\ stack' = [stack EXCEPT ![c] =
                        <<CallFrame(request, pn, "leave", NoAnswer)>> \o below]
        /\ packetCounter' = [packetCounter EXCEPT ![c] = pn]
        /\ UNCHANGED <<serverMessages, toServer>>
    BY <1>4 DEF Call
  <2>2. pn # 0 /\ pn \in {0, packetCounter[c] + 1}
    BY <1>1
  <2>. HIDE DEF pn
  <2>3. packetCounter' = [packetCounter EXCEPT ![c] =
                             IF pn = 0 THEN packetCounter[c] ELSE pn]
    BY <2>1, <2>2
  <2>4. QED
    BY <1>2, <2>1, <2>2, <2>3, CallLeaves
<1>5. CASE clientValid[c] /\ Encodable(request)
  <2>. DEFINE pn == packetCounter[c] + 1
  <2>1. /\ stack' = [stack EXCEPT ![c] =
                        <<CallFrame(request, pn, "wait", NoAnswer)>> \o below]
        /\ packetCounter' = [packetCounter EXCEPT ![c] = pn]
        /\ serverMessages' =
               [serverMessages EXCEPT ![c] = Expect(serverMessages[c], pn)]
        /\ toServer' = Sent(toServer, clientValid, c,
                            Packet(request, pn, handshake[c]))
    BY <1>5 DEF Call
  <2>2. pn = packetCounter[c] + 1
    OBVIOUS
  <2>. HIDE DEF pn
  <2>3. QED
    BY <1>2, <2>1, <2>2, CallWaits
<1>6. QED
  BY <1>3, <1>4, <1>5

\* The user of c, or the view that paints itself.
LEMMA UserCallMoves ==
    ASSUME SystemInv, UNCHANGED serverVars, NEW c \in Connection, UserCall(c)
    PROVE  Moves(c)
<1>1. /\ PerClient /\ Good(c) /\ stack[c] \in Seq(GoodCalls(c) \cup GoodDrains(c))
  BY ClientFacts
<1>2. PICK request \in {call[2] : call \in {u \in UserCalls : u[1] = c}} :
          Call(c, request, <<>>)
  BY DEF UserCall
<1>3. request \in GoodRequest
  BY UserCallsAssumption DEF GoodRequest
<1>4. stack[c] = <<>> /\ <<>> \in Seq(GoodCalls(c) \cup GoodDrains(c))
  BY <1>1 DEF UserCall
<1>5. /\ Nested(<<>>, Expecting(c), callbackOn[c], packetCounter[c])
      /\ NoNewWait(stack[c], <<>>, packetCounter[c])
  BY <1>1, <1>4, SameWaits DEF Good
<1>6. /\ UNCHANGED <<linkUp, serverValid, clientValid, toClient, handshake, cache>>
      /\ cachedRowCount' \in [Connection -> Nat \cup {NoValue}]
  BY <1>1 DEF UserCall, PerClient
<1>7. QED
  BY <1>2, <1>3, <1>4, <1>5, <1>6, CallMoves

\* A notification makes the view ask for its row count.
LEMMA FireNewEventMoves ==
    ASSUME SystemInv, UNCHANGED serverVars, NEW c \in Connection,
           FireNewEventCallback(c)
    PROVE  Moves(c)
<1>. DEFINE S == GoodCalls(c) \cup GoodDrains(c)
            f == [Top(c) EXCEPT !.packets = Tail(@)]
            below == <<f>> \o Below(c)
            n == packetCounter[c]
<1>1. /\ PerClient /\ Good(c) /\ n \in Nat /\ stack[c] \in Seq(S)
  BY ClientFacts
<1>2. Processing(c) /\ Call(c, NumberRequest, below)
  BY DEF FireNewEventCallback
<1>3. stack[c] # <<>> /\ Top(c).kind = "drain"
  BY <1>2 DEF Processing, Draining
<1>4. /\ Top(c) \in GoodDrains(c) /\ ~IsOpen(Top(c))
      /\ Below(c) \in Seq(S) /\ NoNewWait(stack[c], Below(c), n)
  BY <1>1, <1>3, TopAndBelow
<1>5. f \in S /\ ~IsCall(f) /\ ~IsWait(f)
  <2>1. Tail(Top(c).packets) \in Seq(Replies(c))
    BY <1>2, PacketAndRest
  <2>2. QED
    BY <1>4, <2>1 DEF GoodDrains, IsCall, IsWait
<1>6. Nested(Below(c), Expecting(c), callbackOn[c], n)
  BY <1>1, <1>3, <1>4, PopFrame DEF Top, Below, Good
<1>. HIDE DEF f
<1>7. /\ below \in Seq(S)
      /\ Nested(below, Expecting(c), callbackOn[c], n)
      /\ NoNewWait(stack[c], below, n)
  BY <1>1, <1>4, <1>5, <1>6, PushProperties, PushDrain, PushWaits
<1>. HIDE DEF below
<1>8. NumberRequest \in GoodRequest
  BY DEF NumberRequest, GoodRequest, Request
<1>9. /\ UNCHANGED <<linkUp, serverValid, clientValid, toClient, handshake, cache>>
      /\ cachedRowCount' \in [Connection -> Nat \cup {NoValue}]
  BY <1>1 DEF FireNewEventCallback, PerClient, AfterNewEvent
<1>10. QED
  BY <1>2, <1>7, <1>8, <1>9, CallMoves
------------------------------------------------------------------------------
(* The invariant                                                           *)

LEMMA InitInv == SystemInit => SystemInv
<1>. SUFFICES ASSUME SystemInit
              PROVE  SystemInv
  OBVIOUS
<1>1. /\ Init /\ ClientInit /\ confirmed = [c \in Connection |-> {}]
      /\ savedAtStart = [c \in Connection |-> <<>>]
  BY DEF SystemInit
<1>2. CoreInv
  BY <1>1, InitTyped, CoreOfTypeInv
<1>3. TransportInit /\ ServerInit
  BY <1>1 DEF Init
<1>4. HandlerRight
  BY <1>3 DEF ServerInit, HandlerRight
<1>5. PerClient
  BY <1>1, <1>3 DEF ClientInit, TransportInit, PerClient
<1>6. ASSUME NEW c \in Connection
      PROVE  Good(c)
  <2>1. /\ toServer[c] = <<>> /\ toClient[c] = <<>> /\ stack[c] = <<>>
        /\ serverMessages[c] = <<>> /\ cache[c] = <<>> /\ callbackOn[c] = TRUE
        /\ confirmed[c] = {} /\ stream = <<>> /\ table = <<>>
        /\ savedAtStart[c] = <<>> /\ packetCounter[c] = 0
    BY <1>1, <1>3 DEF ClientInit, TransportInit, ServerInit
  <2>2. IsChannel(toServer[c], Asked(c)) /\ IsChannel(toClient[c], Replies(c))
    BY <2>1, EmptyChannel
  <2>3. /\ stream \in Seq(Asked(c))
        /\ stack[c] \in Seq(GoodCalls(c) \cup GoodDrains(c))
    BY <2>1, EmptySeq
  <2>4. DOMAIN serverMessages[c] = {} /\ DOMAIN cache[c] = {}
    BY <2>1
  <2>5. Nested(stack[c], Expecting(c), callbackOn[c], packetCounter[c])
    BY <2>1, <2>4 DEF Nested, Expecting
  <2>6. HistoryOK(c) /\ RowsAsked(c)
    BY <2>1 DEF HistoryOK, RowsAsked
  <2>7. QED
    BY <2>1, <2>2, <2>3, <2>4, <2>5, <2>6 DEF Good, Expecting
<1>7. QED
  BY <1>2, <1>4, <1>5, <1>6 DEF SystemInv

\* A step of the client c.
LEMMA ClientMoves ==
    ASSUME SystemInv, UNCHANGED serverVars, NEW c \in Connection, ClientThread(c)
    PROVE  Moves(c)
<1>1. CASE UserCall(c)
  BY <1>1, UserCallMoves
<1>2. CASE OnDataArrived(c) \/ Poll(c)
  BY <1>2, PollMoves
<1>3. CASE SaveMessage(c)
  BY <1>3, SaveMessageMoves
<1>4. CASE FireNewEventCallback(c)
  BY <1>4, FireNewEventMoves
<1>5. CASE DropMessage(c) \/ EndDrain(c)
  BY <1>5, DropMessageMoves
<1>6. CASE TakeResponses(c)
  BY <1>6, TakeResponsesMoves
<1>7. CASE Leave(c)
  BY <1>7, LeaveMoves
<1>8. CASE Return(c)
  BY <1>8, ReturnMoves
<1>9. CASE Timeout(c)
  BY <1>9, TimeoutMoves
<1>10. CASE ClientNotices(c)
  BY <1>10, ClientNoticesMoves
<1>11. QED
  BY <1>1, <1>2, <1>3, <1>4, <1>5, <1>6, <1>7, <1>8, <1>9, <1>10
  DEF ClientThread, InCall, ClientStep

LEMMA ClientKeepsInv ==
    ASSUME SystemInv, NEW c \in Connection, ClientThread(c),
           UNCHANGED serverVars, RecordHistory
    PROVE  SystemInv'
BY ClientMoves, MovesKeepInv

\* Nothing happens.
LEMMA StutterKeepsInv ==
    ASSUME SystemInv, UNCHANGED systemVars
    PROVE  SystemInv'
<1>1. UNCHANGED <<vars, clientVars, history>>
  BY DEF systemVars
<1>2. /\ UNCHANGED <<transportVars, serverVars>>
      /\ UNCHANGED <<serverMessages, stack, callbackOn, cachedRowCount, cache>>
      /\ UNCHANGED <<savedAtStart, confirmed>>
  BY <1>1 DEF vars, clientVars, history
<1>3. /\ UNCHANGED <<linkUp, serverValid, clientValid, toServer, toClient,
                     handshake, packetCounter>>
      /\ UNCHANGED <<table, callbacks, executors, handshakeId, notified>>
      /\ UNCHANGED <<pc, serving, stream, pending, reply, strandedAtServer>>
  BY <1>2 DEF transportVars, serverVars, handlerVars
<1>4. CoreInv'
  BY <1>3 DEF SystemInv, CoreInv, LinksOK, ChannelsOK, StorageOK, HandlerOK
<1>5. HandlerRight' /\ PerClient'
  BY <1>2, <1>3 DEF SystemInv, HandlerRight, PerClient, Saved, EventsOfRange,
     IsRow, OneRow
<1>6. ASSUME NEW c \in Connection
      PROVE  Good(c)'
  <2>1. Good(c) /\ TableKept /\ CoreInv
    BY <1>2, TableGrows DEF SystemInv
  <2>2. Grows(c)
    BY <1>2, <1>3, <2>1, SameWaits DEF Grows, CoreInv, LinksOK
  <2>. HistoryKept(c) /\ HistoryOK(c)'
    BY <1>2, <1>3, <2>1 DEF Good, HistoryKept, HistoryOK
  <2>3. /\ Asked(c) \subseteq Asked(c)'
        /\ IsChannel(toServer[c], Asked(c)')
        /\ IsChannel(toClient[c], Replies(c)')
        /\ serving = c => stream \in Seq(Asked(c)')
        /\ stack[c] \in Seq(GoodCalls(c)' \cup GoodDrains(c)')
        /\ \A n \in Expecting(c) : serverMessages[c][n] \in Seq(Mail(c, n)')
        /\ \A row \in DOMAIN cache[c] : \A e :
             e = cache[c][row] => row \in Nat /\ IsRow(e, row)'
        /\ \A pn \in confirmed[c] : Saved(c, pn)'
    BY <2>1, <2>2, GoodGrows
  <2>4. Nested(stack'[c], Expecting(c)', callbackOn'[c], packetCounter'[c])
    BY <1>2, <1>3, <2>1 DEF Good, Expecting
  <2>5. \A n \in Expecting(c)' : serverMessages'[c][n] \in Seq(Mail(c, n)')
    BY <1>2, <2>3 DEF Expecting
  <2>6. \A row \in DOMAIN cache'[c] : row \in Nat /\ IsRow(cache[c][row], row)'
    BY <1>2, <2>3 DEF IsRow
  <2>7. RowsAsked(c)'
    BY <1>2, <2>1, <2>3, RowsStayAsked
  <2>8. QED
    BY <1>2, <1>3, <2>3, <2>4, <2>5, <2>6, <2>7 DEF Good
<1>7. QED
  BY <1>4, <1>5, <1>6 DEF SystemInv

LEMMA StepInv == SystemInv /\ [SystemNext]_systemVars => SystemInv'
<1>. SUFFICES ASSUME SystemInv, [SystemNext]_systemVars
              PROVE  SystemInv'
  OBVIOUS
<1>1. CASE SystemNext
  BY <1>1, ServerKeepsInv, ClientKeepsInv DEF SystemNext
<1>2. CASE UNCHANGED systemVars
  BY <1>2, StutterKeepsInv
<1>3. QED
  BY <1>1, <1>2

LEMMA SystemInvariant == SystemSpec => []SystemInv
BY InitInv, StepInv, PTL DEF SystemSpec
------------------------------------------------------------------------------
(* What the invariant says of the properties the runs check                *)

StrandedOK == strandedAtClient \in [Connection -> Nat]

\* What is stranded in the socket of a client is a number of packets.
LEMMA StrandedTyped == SystemSpec => []StrandedOK
<1>1. SystemInit => StrandedOK
  BY DEF SystemInit, ClientInit, StrandedOK
<1>2. ASSUME StrandedOK, NEW c \in Connection, NEW unread,
             Len(unread) \in Nat, TakenIn(c, unread)
      PROVE  StrandedOK'
  BY <1>2 DEF StrandedOK, TakenIn
<1>3. ASSUME SystemInv, StrandedOK, NEW c \in Connection, NEW slot \in BOOLEAN,
             NEW below, Drain(c, slot, below)
      PROVE  StrandedOK'
  <2>1. PICK received \in Receive(toClient[c]) :
            TakenIn(c, IF slot THEN received.rest ELSE <<>>)
    BY <1>3 DEF Drain, Announced
  <2>2. IsChannel(received.rest, Replies(c))
    BY <1>3, ClientFacts, ReceiveSplitsChannel DEF Good
  <2>3. Len(IF slot THEN received.rest ELSE <<>>) \in Nat
    BY <2>2, LenProperties DEF IsChannel
  <2>4. QED
    BY <1>2, <1>3, <2>1, <2>3
<1>4. ASSUME SystemInv, StrandedOK, NEW c \in Connection, ClientThread(c)
      PROVE  StrandedOK'
  <2>1. CASE Poll(c) \/ OnDataArrived(c)
    <3>1. callbackOn[c] \in BOOLEAN
      BY <1>4 DEF SystemInv, PerClient
    <3>2. QED
      BY <1>3, <1>4, <2>1, <3>1 DEF Poll, OnDataArrived
  <2>2. CASE Leave(c)
    <3>1. Len(toClient[c]) \in Nat
      BY <1>4, LenProperties DEF SystemInv, Good, IsChannel
    <3>2. QED
      BY <1>2, <1>3, <1>4, <2>2, <3>1 DEF Leave, StrandedOK
  <2>3. CASE UNCHANGED strandedAtClient
    BY <1>4, <2>3 DEF StrandedOK
  <2>4. QED
    BY <1>4, <2>1, <2>2, <2>3 DEF ClientThread, UserCall, InCall, ClientStep,
       SaveMessage, FireNewEventCallback, DropMessage, EndDrain, TakeResponses,
       Return, Timeout, ClientNotices, clientVars
<1>5. SystemInv /\ StrandedOK /\ [SystemNext]_systemVars => StrandedOK'
  BY <1>4 DEF SystemNext, systemVars, clientVars, StrandedOK
<1>6. QED
  BY <1>1, <1>5, SystemInvariant, PTL DEF SystemSpec

\* The client's state keeps its types, whatever is under way when.
THEOREM ClientTypeCorrect == SystemSpec => []ClientTypeOK
<1>1. ASSUME SystemInv, NEW c \in Connection
      PROVE  /\ Expecting(c) \subseteq 1..packetCounter[c]
             /\ \A n \in Expecting(c) : serverMessages[c][n] \in Seq(ServerPacket)
             /\ DOMAIN cache[c] \subseteq Nat
             /\ \A row \in DOMAIN cache[c] : cache[c][row] \in Event
             /\ \A i \in 1..Len(stack[c]) :
                  \/ /\ stack[c][i].kind = "call"
                     /\ stack[c][i].request \in Request
                     /\ stack[c][i].pn \in 0..packetCounter[c]
                     /\ stack[c][i].at \in {"wait", "leave", "return"}
                     /\ stack[c][i].events \in Seq(Event)
                  \/ /\ stack[c][i].kind = "drain"
                     /\ stack[c][i].packets \in Seq(ServerPacket)
                     /\ stack[c][i].slot \in BOOLEAN
  <2>1. Good(c) /\ table \in Seq(Event)
    BY <1>1 DEF SystemInv, CoreInv, StorageOK
  <2>2. Nested(stack[c], Expecting(c), callbackOn[c], packetCounter[c])
    BY <2>1 DEF Good
  <2>3. /\ Expecting(c) \subseteq 1..packetCounter[c]
        /\ \A i \in 1..Len(stack[c]) :
             IsCall(stack[c][i]) => stack[c][i].pn \in 0..packetCounter[c]
    BY <2>2 DEF Nested
  <2>4. ASSUME NEW n \in Expecting(c)
        PROVE  serverMessages[c][n] \in Seq(ServerPacket)
    <3>1. serverMessages[c][n] \in Seq(Mail(c, n)) /\ Mail(c, n) \subseteq ServerPacket
      BY <2>1, <2>4 DEF Good, Mail, Replies
    <3>2. QED
      BY <3>1, SeqMonotonic
  <2>5. ASSUME NEW row \in DOMAIN cache[c]
        PROVE  row \in Nat /\ cache[c][row] \in Event
    <3>1. row \in Nat /\ row + 1 <= Len(table) /\ cache[c][row] = table[row + 1]
      BY <2>1, <2>5 DEF Good, IsRow
    <3>2. Len(table) \in Nat
      BY <2>1, LenProperties
    <3>3. row + 1 \in 1..Len(table)
      BY <3>1, <3>2
    <3>4. QED
      BY <2>1, <3>1, <3>3, ElementOfSeq
  <2>6. ASSUME NEW i \in 1..Len(stack[c]), NEW f, f = stack[c][i]
        PROVE  \/ /\ f.kind = "call" /\ f.request \in Request
                  /\ f.at \in {"wait", "leave", "return"}
                  /\ f.events \in Seq(Event)
               \/ /\ f.kind = "drain" /\ f.packets \in Seq(ServerPacket)
                  /\ f.slot \in BOOLEAN
    <3>1. f \in GoodCalls(c) \cup GoodDrains(c)
      BY <2>1, <2>6, ElementOfSeq DEF Good
    <3>2. CASE f \in GoodCalls(c)
      BY <3>2 DEF GoodCalls, CallFrames, GoodRequest
    <3>3. CASE f \in GoodDrains(c)
      <4>1. f.packets \in Seq(Replies(c)) /\ Replies(c) \subseteq ServerPacket
        BY <3>3 DEF GoodDrains, Replies
      <4>2. f.packets \in Seq(ServerPacket)
        BY <4>1, SeqMonotonic
      <4>3. QED
        BY <3>3, <4>2 DEF GoodDrains
    <3>4. QED
      BY <3>1, <3>2, <3>3
  <2>7. QED
    BY <2>3, <2>4, <2>5, <2>6 DEF IsCall
<1>2. SystemInv /\ StrandedOK => ClientTypeOK
  <2>1. SystemInv => /\ callbackOn \in [Connection -> BOOLEAN]
                     /\ cachedRowCount \in [Connection -> Nat \cup {NoValue}]
    BY DEF SystemInv, PerClient
  <2>2. QED
    BY <1>1, <2>1 DEF ClientTypeOK, StrandedOK
<1>3. QED
  BY <1>2, SystemInvariant, StrandedTyped, PTL

\* A waiting call always finds its mailbox, however many calls and batches
\* the nested polls opened and closed inside it: the assertions in the polling
\* loops of ApplicationProtocolV1 hold.
THEOREM ResponsesExpected == SystemSpec => []ResponseIsExpected
<1>1. SystemInv => ResponseIsExpected
  <2>. SUFFICES ASSUME SystemInv, NEW c \in Connection, NEW f \in Frames(c),
                       f.at = "wait"
                PROVE  f.pn \in Expecting(c)
    BY DEF ResponseIsExpected
  <2>1. PICK i \in 1..Len(stack[c]) : f = stack[c][i] /\ f.kind = "call"
    BY DEF Frames
  <2>2. Nested(stack[c], Expecting(c), callbackOn[c], packetCounter[c])
    BY DEF SystemInv, Good
  <2>3. QED
    BY <2>1, <2>2 DEF Nested, IsWait, IsCall
<1>2. QED
  BY <1>1, SystemInvariant, PTL

\* A client back in its event loop has the callback connected and has erased
\* every mailbox, whatever order nested calls, timeouts and lost connections
\* came in.
THEOREM EventLoopCleanCorrect == SystemSpec => []EventLoopIsClean
<1>1. SystemInv => EventLoopIsClean
  <2>. SUFFICES ASSUME SystemInv, NEW c \in Connection, stack[c] = <<>>
                PROVE  callbackOn[c] /\ Expecting(c) = {}
    BY DEF EventLoopIsClean
  <2>1. Nested(stack[c], Expecting(c), callbackOn[c], packetCounter[c])
    BY DEF SystemInv, Good
  <2>2. QED
    BY <2>1, NestedEmpty
<1>2. QED
  BY <1>1, SystemInvariant, PTL

\* An acknowledgement under way to a real client, one that nests its calls and
\* loses its connection, names an event that is in the table.
THEOREM SystemAcknowledgements == SystemSpec => []AckOnlyForSavedEvent
<1>1. SystemInv => AckOnlyForSavedEvent
  <2>. SUFFICES ASSUME SystemInv, NEW c \in Connection,
                       NEW i \in 1..Len(toClient[c]),
                       toClient[c][i].type = "Ack"
                PROVE  Saved(c, toClient[c][i].pn)
    BY DEF AckOnlyForSavedEvent, Saved
  <2>1. toClient[c] \in Seq(Replies(c) \cup {TAIL})
    BY DEF SystemInv, Good, IsChannel
  <2>2. toClient[c][i] \in Replies(c)
    BY <2>1, ElementOfSeq DEF TAIL
  <2>3. QED
    BY <2>2 DEF Replies, IsResponse
<1>2. QED
  BY <1>1, SystemInvariant, PTL

\* sendEvent returns true only if the event is in the database and stays
\* there: an acknowledgement is believed only by the call that waits for it.
THEOREM ConfirmedCorrect == SystemSpec => []ConfirmedEventIsSaved
<1>1. SystemInv => ConfirmedEventIsSaved
  BY DEF SystemInv, Good, Saved, ConfirmedEventIsSaved
<1>2. QED
  BY <1>1, SystemInvariant, PTL

\* A row TableEventsModel has cached is that row of the database: data() never
\* keeps the answer to another request under its row.
THEOREM CacheCorrect == SystemSpec => []CacheMatchesStorage
<1>1. SystemInv => CacheMatchesStorage
  BY DEF SystemInv, Good, IsRow, CacheMatchesStorage
<1>2. QED
  BY <1>1, SystemInvariant, PTL
------------------------------------------------------------------------------
(* What the server promises to arbitrary clients, it keeps with the real   *)
(* ones: their threads touch nothing of it but the ends of the channels.   *)

LEMMA ServerPartKept ==
    ASSUME [SystemNext]_systemVars
    PROVE  \/ Server \/ Network
           \/ UNCHANGED <<serverVars, serverValid, handshake>>
<1>1. ASSUME NEW c \in Connection, ClientThread(c), UNCHANGED serverVars
      PROVE  UNCHANGED <<serverVars, serverValid, handshake>>
  BY <1>1 DEF ClientThread, UserCall, OnDataArrived, InCall, ClientStep,
     SaveMessage, FireNewEventCallback, DropMessage, EndDrain, Poll,
     TakeResponses, Leave, Return, Timeout, ClientNotices, transportVars
<1>2. CASE UNCHANGED systemVars
  BY <1>2 DEF systemVars, vars, transportVars
<1>3. QED
  BY <1>1, <1>2 DEF SystemNext

\* The registry of callbacks follows the executors in the whole system too.
THEOREM SystemRegistry == SystemSpec => []RegistryMatchesExecutors
<1>1. SystemInit => RegistryMatchesExecutors
  BY DEF SystemInit, Init, ServerInit, RegistryMatchesExecutors
<1>2. RegistryMatchesExecutors /\ [SystemNext]_systemVars
          => RegistryMatchesExecutors'
  <2>. SUFFICES ASSUME RegistryMatchesExecutors, [SystemNext]_systemVars
                PROVE  RegistryMatchesExecutors'
    OBVIOUS
  <2>1. CASE Server \/ Network
    BY <2>1, RegistryKept DEF ServerNext
  <2>2. CASE UNCHANGED serverVars
    BY <2>2 DEF serverVars, RegistryMatchesExecutors
  <2>3. QED
    BY <2>1, <2>2, ServerPartKept
<1>3. QED
  BY <1>1, <1>2, PTL DEF SystemSpec

\* Live executors have different identifiers (the static counter of HandshakeV1),
\* so no client takes a packet for one of its own that is not.
THEOREM SystemHandshakes == SystemSpec => []HandshakeIdsDistinct
<1>1. SystemInit => IdsInv
  BY InitIds DEF SystemInit
<1>2. SystemInv /\ IdsInv /\ [SystemNext]_systemVars => IdsInv'
  <2>. SUFFICES ASSUME SystemInv, IdsInv, [SystemNext]_systemVars
                PROVE  IdsInv'
    OBVIOUS
  <2>1. CASE Server \/ Network
    BY <2>1, IdsKept DEF ServerNext, SystemInv
  <2>2. CASE UNCHANGED <<serverVars, serverValid, handshake>>
    BY <2>2 DEF serverVars, IdsInv, HandshakeIdsDistinct
  <2>3. QED
    BY <2>1, <2>2, ServerPartKept
<1>3. IdsInv => HandshakeIdsDistinct
  BY DEF IdsInv
<1>4. QED
  BY <1>1, <1>2, <1>3, SystemInvariant, PTL DEF SystemSpec

\* While the database answers, every connected client, whatever it is busy
\* with, has been sent the number of the events, but for callbacks to run.
THEOREM SystemNotifications ==
    ASSUME "storage" \notin Faults
    PROVE  SystemSpec => []NotificationsComplete
<1>1. SystemInit => NotificationsComplete
  BY InitNotifications DEF SystemInit
<1>2. /\ SystemInv /\ RegistryMatchesExecutors /\ NotificationsComplete
      /\ [SystemNext]_systemVars
      => NotificationsComplete'
  <2>. SUFFICES ASSUME SystemInv, RegistryMatchesExecutors,
                       NotificationsComplete, [SystemNext]_systemVars
                PROVE  NotificationsComplete'
    OBVIOUS
  <2>1. CASE Server \/ Network
    BY <2>1, NotificationsKept DEF ServerNext, SystemInv
  <2>2. CASE UNCHANGED <<serverVars, serverValid, handshake>>
    BY <2>2 DEF serverVars, handlerVars, NotificationsComplete
  <2>3. QED
    BY <2>1, <2>2, ServerPartKept
<1>3. QED
  BY <1>1, <1>2, SystemInvariant, SystemRegistry, PTL DEF SystemSpec

\* A client's thread leaves a channel alone or takes from its front.
LEMMA ClientReceives ==
    ASSUME SystemInv, NEW c \in Connection, ClientThread(c)
    PROVE  \/ toClient' = toClient
           \/ \E received \in Receive(toClient[c]) :
                toClient' = [toClient EXCEPT ![c] = received.rest]
BY DEF ClientThread, UserCall, OnDataArrived, InCall, ClientStep,
   SaveMessage, FireNewEventCallback, DropMessage, EndDrain, Poll,
   TakeResponses, Leave, Return, Timeout, ClientNotices, transportVars, Drain,
   Announced

\* The numbers under way to a client never go back and never exceed the rows,
\* also when its nested calls read them and the network cuts them.
THEOREM SystemNumbers == SystemSpec => []NumbersInOrder
<1>1. SystemInit => NumbersInv
  BY InitNumbers DEF SystemInit
<1>2. SystemInv /\ NumbersInv /\ [SystemNext]_systemVars => NumbersInv'
  <2>. SUFFICES ASSUME SystemInv, NumbersInv, [SystemNext]_systemVars
                PROVE  NumbersInv'
    OBVIOUS
  <2>1. /\ CoreInv /\ toClient = [c \in Connection |-> toClient[c]]
        /\ \A c \in Connection : toClient[c] \in Seq(Replies(c) \cup {TAIL})
    BY DEF SystemInv, PerClient, Good, IsChannel
  <2>2. \A c \in Connection : toClient[c] \in Seq(ServerPacket \cup {TAIL})
    <3>1. \A c : Replies(c) \cup {TAIL} \subseteq ServerPacket \cup {TAIL}
      BY DEF Replies
    <3>2. QED
      BY <2>1, <3>1, SeqMonotonic
  <2>3. CASE Server \/ Network
    BY <2>1, <2>2, <2>3, ServerKeepsNumbers
  <2>4. CASE UNCHANGED <<toClient, table>>
    BY <2>4 DEF NumbersInv
  <2>5. ASSUME NEW c \in Connection, ClientThread(c), UNCHANGED serverVars
        PROVE  NumbersInv'
    <3>1. CASE toClient' = toClient
      BY <2>4, <2>5, <3>1 DEF serverVars
    <3>2. ASSUME NEW received \in Receive(toClient[c]),
                 toClient' = [toClient EXCEPT ![c] = received.rest]
          PROVE  NumbersInv'
      <4>1. InOrder(received.rest, Len(table))
        BY <2>2, RestInOrder DEF NumbersInv
      <4>2. QED
        BY <2>1, <2>5, <3>2, <4>1 DEF NumbersInv, serverVars
    <3>3. QED
      BY <2>5, <3>1, <3>2, ClientReceives
  <2>6. CASE UNCHANGED systemVars
    BY <2>4, <2>6 DEF systemVars, vars, transportVars, serverVars
  <2>7. QED
    BY <2>3, <2>5, <2>6 DEF SystemNext
<1>3. NumbersInv => NumbersInOrder
  BY DEF NumbersInv, InOrder, NumbersInOrder
<1>4. QED
  BY <1>1, <1>2, <1>3, SystemInvariant, PTL DEF SystemSpec
=============================================================================
