----------------------------- MODULE ReadProofs -----------------------------
(***************************************************************************)
(* While a connection holds, nobody drops the request of a getSavedEvents  *)
(* for events that were in the table when it was made, or the end of its   *)
(* answer (SavedEventsCanBeRead), for every number of clients, calls and   *)
(* events.                                                                 *)
(*                                                                         *)
(* The proof follows the request on its way.  As long as the call waits,   *)
(* its request is in the channel or in the batch of the server, or the     *)
(* response that ends the answer is under way or in the mailbox.  Without  *)
(* the "late" fault the polling loop runs out only when nothing moves any  *)
(* more, so what it waited for is then in the socket of one of the ends,   *)
(* behind a readyRead that has been spent.                                 *)
(***************************************************************************)
EXTENDS CountProofs

\* The events that clients send can be sent back: the texts that fit into a
\* SendEvent fit into a SavedEventsResponse, whose header is longer.
ShortTexts ==
    \A call \in UserCalls :
        (call[2].op = "send" /\ Encodable(call[2])) => Fits(call[2])

------------------------------------------------------------------------------
(* The invariant                                                           *)

IsRead(f) == IsCall(f) /\ f.request.op \in {"range", "row"}

\* There was something to read when the call was made.
Readable(c, f) ==
    /\ f.request.first < savedAtStart[c][f.pn]
    /\ f.request.first <= f.request.last

\* What f waits for is in a socket that nobody is told to read.
OutOfReach(c, f) ==
    \/ /\ serving # c /\ Len(toServer[c]) = strandedAtServer[c]
       /\ RequestOf(c, f) \in Held(toServer[c])
    \/ \E i \in 1..Len(toClient[c]) :
          i <= strandedAtClient[c] /\ Finishes(c, f, toClient[c][i])

\* A call that can be answered has its request or its answer under way, and is
\* answered unless one of them is out of reach.
InTime(c, f) ==
    /\ f.pn # 0
    /\ Readable(c, f) =>
         /\ f.at = "wait" => OnItsWay(c, f)
         /\ f.at = "leave" =>
              "late" \in Faults \/ f.answer.ok \/ OutOfReach(c, f)

\* No call reads inside of another call or of a batch.
ReadsLast(s) == \A i \in 1..Len(s) : IsRead(s[i]) => i = Len(s)

\* Nothing is nested in a read whose answer is decided.
LeavesAlone(s) ==
    \A f \in CallsIn(s) : (IsRead(f) /\ f.at = "leave") => s = <<f>>

Reading(c) ==
    /\ linkUp[c] => serverValid[c] /\ clientValid[c]
    /\ TAIL \notin Held(toServer[c])
    /\ ReadsLast(stack[c]) /\ LeavesAlone(stack[c])
    /\ linkUp[c] => \A f \in CallsIn(stack[c]) : IsRead(f) => InTime(c, f)

AllFit ==
    /\ \A k \in 1..Len(table) : Fits(table[k])
    /\ \A e \in EventsInTransit : Fits(e)
    /\ \A i \in 1..Len(reply) : Fits(reply[i])

ReadInv == AllFit /\ \A c \in Connection : Reading(c)

------------------------------------------------------------------------------
(* Channels and stacks                                                     *)

\* What a cut leaves in front of it and behind it.
LEMMA HeldCut ==
    ASSUME NEW S, NEW s \in Seq(S), NEW n \in 1..Len(s)
    PROVE  Held(s) = Held(SubSeq(s, 1, n)) \cup Held(SubSeq(s, n + 1, Len(s)))
<1>1. PICK b, r : b = SubSeq(s, 1, n) /\ r = SubSeq(s, n + 1, Len(s))
  OBVIOUS
<1>2. /\ Len(s) \in Nat /\ n \in Nat
      /\ Len(b) = n /\ \A i \in 1..n : b[i] = s[i]
      /\ Len(r) = Len(s) - n /\ \A i \in 1..(Len(s) - n) : r[i] = s[n + i]
  BY <1>1, ChannelInTwo
<1>3. ASSUME NEW p \in Held(s)
      PROVE  p \in Held(b) \cup Held(r)
  <2>1. PICK i \in 1..Len(s) : s[i] = p
    BY <1>3, HeldMember
  <2>2. CASE i \in 1..n
    BY <1>2, <2>1, <2>2, HeldMember
  <2>3. CASE ~(i \in 1..n)
    <3>1. i - n \in 1..Len(r) /\ r[i - n] = s[i]
      BY <1>2, <2>3
    <3>2. QED
      BY <2>1, <3>1, HeldMember
  <2>4. QED
    BY <2>2, <2>3
<1>4. Held(b) \subseteq Held(s) /\ Held(r) \subseteq Held(s)
  BY <1>1, HeldInPieces
<1>5. QED
  BY <1>1, <1>3, <1>4

LEMMA ReadsLastPushed ==
    ASSUME NEW S, NEW s \in Seq(S), NEW f \in S, ReadsLast(s),
           ~IsRead(f) \/ s = <<>>
    PROVE  ReadsLast(<<f>> \o s)
<1>. DEFINE t == <<f>> \o s
<1>1. /\ Len(s) \in Nat /\ Len(t) = Len(s) + 1 /\ t[1] = f
      /\ \A i \in 2..(Len(s) + 1) : t[i] = s[i - 1]
  BY PushProperties
<1>. HIDE DEF t
<1>2. ASSUME NEW i \in 1..Len(t), IsRead(t[i])
      PROVE  i = Len(t)
  <2>1. CASE i = 1
    <3>1. s = <<>>
      BY <1>1, <1>2, <2>1
    <3>2. QED
      BY <1>1, <2>1, <3>1
  <2>2. CASE i # 1
    <3>1. i - 1 \in 1..Len(s) /\ t[i] = s[i - 1] /\ i \in Nat
      BY <1>1, <2>2
    <3>2. i - 1 = Len(s)
      BY <1>2, <3>1 DEF ReadsLast
    <3>3. QED
      BY <1>1, <3>1, <3>2
  <2>3. QED
    BY <2>1, <2>2
<1>3. QED
  BY <1>2 DEF ReadsLast, t

LEMMA ReadsLastPopped ==
    ASSUME NEW S, NEW s \in Seq(S), s # <<>>, ReadsLast(s)
    PROVE  ReadsLast(Tail(s)) /\ (IsRead(Head(s)) => Tail(s) = <<>>)
<1>. DEFINE t == Tail(s)
<1>1. /\ Len(s) \in Nat \ {0} /\ t \in Seq(S) /\ Len(t) = Len(s) - 1
      /\ Head(s) = s[1] /\ \A i \in 1..Len(t) : t[i] = s[i + 1]
  BY PopProperties
<1>. HIDE DEF t
<1>2. ASSUME NEW i \in 1..Len(t), IsRead(t[i])
      PROVE  i = Len(t)
  <2>1. i + 1 \in 1..Len(s) /\ t[i] = s[i + 1] /\ i \in Nat
    BY <1>1
  <2>2. i + 1 = Len(s)
    BY <1>2, <2>1 DEF ReadsLast
  <2>3. QED
    BY <1>1, <2>1, <2>2
<1>3. ASSUME IsRead(Head(s))
      PROVE  t = <<>>
  <2>1. Len(s) = 1
    BY <1>1, <1>3 DEF ReadsLast
  <2>2. Len(t) = 0
    BY <1>1, <2>1
  <2>3. QED
    BY <1>1, <2>2, EmptySeq
<1>4. QED
  BY <1>2, <1>3 DEF ReadsLast, t

LEMMA ReadsLastOfBatch ==
    ASSUME NEW c, NEW packets \in Seq(Replies(c)), NEW slot \in BOOLEAN,
           NEW s \in Seq(Frame(c)), ReadsLast(s)
    PROVE  ReadsLast(Batch(packets, slot) \o s)
<1>1. CASE packets = <<>>
  BY <1>1, ConcatEmpty DEF Batch
<1>2. CASE packets # <<>>
  <2>1. /\ DrainFrame(packets, slot) \in Frame(c)
        /\ ~IsRead(DrainFrame(packets, slot))
    BY DEF DrainFrame, Frame, GoodDrains, IsRead, IsCall
  <2>2. QED
    BY <1>2, <2>1, ReadsLastPushed DEF Batch
<1>3. QED
  BY <1>1, <1>2
------------------------------------------------------------------------------
(* What a client sends, and what it may still get                          *)

\* How a call of the user begins.
LEMMA UserCallBegins ==
    ASSUME SystemInv, NEW c \in Connection, UserCall(c)
    PROVE  /\ stack[c] = <<>>
           /\ \E f \in GoodCalls(c) :
                /\ stack'[c] = <<f>>
                /\ \E call \in UserCalls : f.request = call[2]
                /\ \/ FailsOffline(c, f)
                   \/ FailsTooLong(c, f) /\ ~Encodable(f.request)
                   \/ GoesOut(c, f) /\ Encodable(f.request)
<1>1. PICK f \in GoodCalls(c) :
          /\ stack'[c] = <<f>>
          /\ FailsOffline(c, f) \/ FailsTooLong(c, f) \/ GoesOut(c, f)
  BY UserCallSteps
<1>2. PICK request \in {call[2] : call \in {u \in UserCalls : u[1] = c}} :
          Call(c, request, <<>>)
  BY DEF UserCall
<1>3. PICK pn, at :
          /\ stack' = [stack EXCEPT ![c] =
                          <<CallFrame(request, pn, at, NoAnswer)>> \o <<>>]
          /\ at = "wait" => Encodable(request)
          /\ at = "leave" /\ clientValid[c] => ~Encodable(request)
  BY <1>2 DEF Call
<1>4. f = CallFrame(request, pn, at, NoAnswer)
  <2>. DEFINE g == CallFrame(request, pn, at, NoAnswer)
  <2>1. <<>> \in Seq({g}) /\ g \in {g}
    BY EmptySeq
  <2>. HIDE DEF g
  <2>2. <<g>> \o <<>> = <<g>>
    <3>1. Len(<<>>) = 0 /\ Len(<<g>> \o <<>>) = 1 /\ (<<g>> \o <<>>)[1] = g
      BY <2>1, PushProperties
    <3>2. <<g>> \o <<>> \in Seq({g}) /\ <<g>> \in Seq({g}) /\ Len(<<g>>) = 1
          /\ <<g>>[1] = g
      BY <2>1, PushProperties
    <3>3. QED
      BY <3>1, <3>2, SeqEqual
  <2>3. stack'[c] = <<g>> \o <<>>
    BY <1>3 DEF SystemInv, PerClient, g
  <2>4. <<f>>[1] = f /\ <<g>>[1] = g
    OBVIOUS
  <2>5. QED
    BY <1>1, <2>2, <2>3, <2>4 DEF g
<1>5. f.request = request /\ f.at = at
  BY <1>4 DEF CallFrame
<1>6. \E call \in UserCalls : f.request = call[2]
  BY <1>2, <1>5
<1>7. FailsTooLong(c, f) => FailsOffline(c, f) \/ ~Encodable(f.request)
  <2>1. ASSUME FailsTooLong(c, f), ~clientValid[c]
        PROVE  FALSE
    <3>1. packetCounter'[c] = packetCounter[c] + 1 /\ packetCounter[c] \in Nat
      BY <2>1, StackFacts DEF FailsTooLong
    <3>2. packetCounter' = packetCounter
      BY <1>2, <2>1 DEF Call
    <3>3. QED
      BY <3>1, <3>2
  <2>2. QED
    BY <1>3, <1>5, <2>1 DEF FailsTooLong
<1>8. GoesOut(c, f) => Encodable(f.request)
  BY <1>3, <1>5 DEF GoesOut
<1>9. QED
  BY <1>1, <1>6, <1>7, <1>8, UserCallSteps

\* A client sends nothing or one request.
LEMMA ClientSendsOne ==
    ASSUME SystemInv, NEW c \in Connection, ClientThread(c)
    PROVE  \/ toServer'[c] = toServer[c]
           \/ \E p \in ClientPacket : toServer'[c] = Append(toServer[c], p)
<1>1. CASE UserCall(c) \/ FireNewEventCallback(c)
  <2>1. PICK request \in GoodRequest : \E below \in Seq(Frame(c)) :
            Call(c, request, below)
    BY <1>1, NewCallSteps
  <2>2. PICK f \in GoodCalls(c) :
            FailsOffline(c, f) \/ FailsTooLong(c, f) \/ GoesOut(c, f)
    BY <2>1, CallSteps
  <2>3. CASE GoesOut(c, f)
    <3>1. /\ f.request \in GoodRequest /\ f.pn \in Nat
          /\ handshake[c] \in Nat
          /\ toServer = [d \in Connection |-> toServer[d]]
      BY DEF GoodCalls, CallFrames, SystemInv, CoreInv, LinksOK, ChannelsOK
    <3>2. Packet(f.request, f.pn, handshake[c]) \in ClientPacket
      BY <3>1, PacketFields
    <3>3. QED
      BY <2>3, <3>1, <3>2 DEF GoesOut, Sent
  <2>4. QED
    BY <2>2, <2>3 DEF FailsOffline, FailsTooLong
<1>2. CASE ~(UserCall(c) \/ FireNewEventCallback(c))
  BY <1>2 DEF ClientThread, InCall, ClientStep, OnDataArrived, SaveMessage,
     DropMessage, EndDrain, Poll, TakeResponses, Timeout, Leave, Return,
     ClientNotices, transportVars
<1>3. QED
  BY <1>1, <1>2

LEMMA RequestsStay ==
    ASSUME SystemInv, NEW c \in Connection, ClientThread(c)
    PROVE  /\ Held(toServer[c]) \subseteq Held(toServer'[c])
           /\ TAIL \notin Held(toServer[c]) => TAIL \notin Held(toServer'[c])
<1>1. toServer[c] \in Seq(ClientPacket \cup {TAIL})
  BY DEF SystemInv, CoreInv, ChannelsOK, IsChannel
<1>2. \A p \in ClientPacket : Held(Append(toServer[c], p)) = Held(toServer[c]) \cup {p}
  BY <1>1, HeldAppended
<1>3. TAIL \notin ClientPacket
  BY DEF ClientPacket, TAIL
<1>4. QED
  BY <1>2, <1>3, ClientSendsOne

\* A mailbox holds the responses to its number.
LEMMA FinishIsMail ==
    ASSUME SystemInv, NEW c \in Connection, NEW f, NEW p,
           p \in Kept(serverMessages[c]), Finishes(c, f, p)
    PROVE  f.pn \in Expecting(c) /\ p \in Held(serverMessages[c][f.pn])
<1>1. PICK n \in Expecting(c) : p \in Held(serverMessages[c][n])
  BY KeptMember DEF Expecting
<1>2. serverMessages[c][n] \in Seq(Mail(c, n))
  BY DEF SystemInv, Good
<1>3. p \in Mail(c, n)
  BY <1>1, <1>2, ElementOfSeq DEF Held
<1>4. QED
  BY <1>1, <1>3 DEF Mail, Finishes

\* A call that waits for the rest of the range.
WaitsToRead(f) == IsRead(f) /\ f.at = "wait"

LEMMA WaitingRead ==
    ASSUME SystemInv, NEW c \in Connection, NEW f \in CallsIn(stack[c]),
           WaitsToRead(f)
    PROVE  /\ f.pn \in Expecting(c) /\ f.pn \in 1..packetCounter[c]
           /\ \A p \in Replies(c) : (IsResponse(p) /\ p.pn = f.pn) =>
                  Answers(p, f.request)
<1>1. PICK i \in 1..Len(stack[c]) : stack[c][i] = f /\ IsWait(f)
  BY CallsMember DEF WaitsToRead, IsRead, IsWait
<1>2. f.pn \in Expecting(c)
  BY <1>1, StackFacts DEF Nested
<1>3. QED
  BY <1>1, <1>2, StackFacts DEF Replies

\* The mailbox of a call is left alone while others use theirs.
MailStays(c, n) ==
    n \in DOMAIN serverMessages'[c] /\ serverMessages'[c][n] = serverMessages[c][n]

\* A step of the call on top, which may change its frame.
TopStep(c) == TakeResponses(c) \/ Timeout(c) \/ Leave(c)

LEMMA MailboxStays ==
    ASSUME SystemInv, LogInv, NEW c \in Connection, ClientThread(c),
           ~SaveMessage(c), NEW f \in CallsIn(stack[c]), WaitsToRead(f),
           TopStep(c) => f \in CallsIn(Below(c))
    PROVE  MailStays(c, f.pn)
<1>1. /\ f.pn \in DOMAIN serverMessages[c] /\ f.pn \in 1..packetCounter[c]
      /\ packetCounter[c] \in Nat
      /\ serverMessages = [d \in Connection |-> serverMessages[d]]
  BY WaitingRead, StackFacts DEF Expecting, SystemInv, PerClient
<1>2. CASE serverMessages' = serverMessages
  BY <1>1, <1>2 DEF MailStays
<1>3. CASE UserCall(c)
  BY <1>3, NoCalls DEF UserCall
<1>4. CASE FireNewEventCallback(c)
  <2>1. \/ serverMessages' = serverMessages
        \/ serverMessages' = [serverMessages EXCEPT ![c] =
                                 Expect(serverMessages[c], packetCounter[c] + 1)]
    BY <1>4 DEF FireNewEventCallback, Call
  <2>2. f.pn # packetCounter[c] + 1
    BY <1>1
  <2>3. QED
    BY <1>1, <1>2, <2>1, <2>2 DEF Expect, MailStays
<1>5. CASE TopStep(c)
  <2>1. stack[c] # <<>> /\ IsCall(Top(c))
    BY <1>5, LoopSteps, LeaveSteps DEF TopStep, TopBecomes
  <2>2. f.pn # Top(c).pn
    BY <1>5, <2>1, AloneOnTop DEF LogInv
  <2>3. CASE TakeResponses(c)
    <3>1. serverMessages' = [serverMessages EXCEPT ![c][Top(c).pn] = <<>>]
      BY <2>3 DEF TakeResponses
    <3>2. QED
      BY <1>1, <2>2, <3>1 DEF MailStays
  <2>4. CASE Timeout(c)
    BY <1>2, <2>4 DEF Timeout
  <2>5. CASE Leave(c)
    <3>1. Top(c) \in GoodCalls(c)
      BY <2>1, StackFacts
    <3>2. serverMessages'[c] = StopExpecting(serverMessages[c], Top(c).pn)
      BY <1>1, <2>5, <3>1 DEF Leave, GoodCalls, CallFrames
    <3>3. QED
      BY <1>1, <2>2, <3>2 DEF StopExpecting, MailStays
  <2>6. QED
    BY <1>5, <2>3, <2>4, <2>5 DEF TopStep
<1>6. QED
  BY <1>2, <1>3, <1>4, <1>5 DEF ClientThread, InCall, ClientStep, TopStep,
     OnDataArrived, DropMessage, EndDrain, Poll, Return, ClientNotices, clientVars

\* The response that ends an answer is not dropped while its call waits: it
\* goes from the channel into a batch and from there into the mailbox.  A copy
\* over freed memory is harmless where every response is the last.
FinishStays(c, f) ==
    (\E p \in Inside(c) : Finishes(c, f, p)) =>
        \E p \in Inside(c)' : Finishes(c, f, p)'

\* The packet that a call waits for is expected.
LEMMA FinishExpected ==
    ASSUME SystemInv, NEW c \in Connection, NEW f \in CallsIn(stack[c]),
           WaitsToRead(f), Processing(c), NEW p \in AtHand(c), Finishes(c, f, p)
    PROVE  /\ p = Head(Top(c).packets) /\ Expected(c, p)
           /\ p.type # "NewEventsNotification"
BY WaitingRead DEF AtHand, Finishes, Expected, IsResponse

\* The mailboxes once the packet at hand is saved.
LEMMA SavedMail ==
    ASSUME "reuse" \in Faults => RowsOnly,
           SystemInv, NEW c \in Connection, SaveMessage(c),
           NEW f \in CallsIn(stack[c]), WaitsToRead(f)
    PROVE  LET h == Head(Top(c).packets)
               kept == Kept(serverMessages'[c]) IN
           /\ h \in kept
           /\ \A p \in Held(serverMessages[c][f.pn]) :
                Finishes(c, f, p) => p \in kept \/ Finishes(c, f, h)
<1>. DEFINE h == Head(Top(c).packets)
            old == serverMessages[c]
            new == serverMessages'[c]
<1>1. /\ Processing(c) /\ Expected(c, h)
      /\ \E kept \in Reused(serverMessages[c][h.pn], h) :
            serverMessages' = [serverMessages EXCEPT ![c][h.pn] = Append(kept, h)]
  BY DEF SaveMessage
<1>2. PICK kept \in Reused(old[h.pn], h) :
          serverMessages' = [serverMessages EXCEPT ![c][h.pn] = Append(kept, h)]
  BY <1>1
<1>3. /\ h.pn \in DOMAIN old /\ IsResponse(h) /\ h \in Replies(c)
      /\ h.hs = handshake[c] /\ old[h.pn] \in Seq(Mail(c, h.pn))
      /\ h \in Mail(c, h.pn)
  BY <1>1, PacketAtTop DEF Expected, Expecting, SystemInv, Good, Mail
<1>4. /\ DOMAIN new = DOMAIN old /\ new[h.pn] = Append(kept, h)
      /\ \A n \in DOMAIN old \ {h.pn} : new[n] = old[n]
  BY <1>2, <1>3 DEF SystemInv, PerClient
<1>. HIDE DEF h, old, new
<1>5. kept \in Seq(Mail(c, h.pn))
  BY <1>2, <1>3, ReusedMail
<1>6. Held(new[h.pn]) = Held(kept) \cup {h}
  BY <1>3, <1>4, <1>5, HeldAppended
<1>7. h \in Kept(new)
  BY <1>3, <1>4, <1>6, KeptMember
<1>8. ASSUME NEW p \in Held(old[f.pn]), Finishes(c, f, p)
      PROVE  p \in Kept(new) \/ Finishes(c, f, h)
  <2>1. f.pn \in DOMAIN old
    BY WaitingRead DEF Expecting, old
  <2>2. CASE f.pn # h.pn
    BY <1>4, <1>8, <2>1, <2>2, KeptMember
  <2>3. CASE f.pn = h.pn /\ "reuse" \in Faults
    <3>1. Answers(h, f.request)
      BY <1>3, <2>3, WaitingRead
    <3>2. f \in GoodCalls(c)
      BY StackFacts, CallsTyped DEF Frame
    <3>3. f.request.op = "row"
      BY <2>3, <3>2 DEF RowsOnly, GoodCalls, CallFrames, GoodRequest, WaitsToRead,
         IsRead
    <3>4. QED
      BY <1>3, <2>3, <3>1, <3>3 DEF Answers, Finishes
  <2>4. CASE f.pn = h.pn /\ "reuse" \notin Faults
    <3>1. kept = old[f.pn]
      BY <1>2, <2>4 DEF Reused
    <3>2. QED
      BY <1>3, <1>4, <1>6, <1>8, <2>4, <3>1, KeptMember
  <2>5. QED
    BY <2>2, <2>3, <2>4
<1>9. QED
  BY <1>7, <1>8 DEF h, old, new

LEMMA FinishIsKept ==
    ASSUME "split" \notin Faults, "reuse" \in Faults => RowsOnly,
           SystemInv, LogInv, NEW c \in Connection, ClientThread(c),
           UNCHANGED serverVars, Inside(c) \subseteq Current(c),
           ~ClientNotices(c), NEW f \in CallsIn(stack[c]), WaitsToRead(f),
           TopStep(c) => f \in CallsIn(Below(c))
    PROVE  FinishStays(c, f)
<1>. SUFFICES ASSUME NEW p \in Inside(c), Finishes(c, f, p)
              PROVE  \E q \in Inside(c)' : Finishes(c, f, q)'
  BY DEF FinishStays
<1>1. /\ handshake'[c] = handshake[c]
      /\ Inside(c)' = (Held(toClient'[c]) \cup Batched(stack'[c]))
                          \cup Kept(serverMessages'[c])
  BY ClientLinks DEF Inside, Held, Batched, Kept
<1>2. \A q : Finishes(c, f, q) => Finishes(c, f, q)'
  BY <1>1 DEF Finishes
<1>. SUFFICES \E q \in Inside(c)' : Finishes(c, f, q)
  BY <1>2
<1>3. CASE p \in Kept(serverMessages[c])
  <2>1. p \in Held(serverMessages[c][f.pn])
    BY <1>3, FinishIsMail
  <2>2. CASE SaveMessage(c)
    BY <1>1, <2>1, <2>2, SavedMail
  <2>3. CASE ~SaveMessage(c)
    <3>1. MailStays(c, f.pn)
      BY <2>3, MailboxStays
    <3>2. p \in Kept(serverMessages'[c])
      BY <2>1, <3>1, KeptMember DEF MailStays
    <3>3. QED
      BY <1>1, <3>2
  <2>4. QED
    BY <2>2, <2>3
<1>4. CASE p \in Batched(stack[c])
  <2>1. CASE p \in Batched(stack'[c])
    BY <1>1, <2>1
  <2>2. CASE p \in AtHand(c)
    <3>1. Processing(c)
      BY <2>2 DEF AtHand
    <3>2. /\ p = Head(Top(c).packets) /\ Expected(c, p)
          /\ p.type # "NewEventsNotification"
      BY <2>2, <3>1, FinishExpected
    <3>3. SaveMessage(c)
      BY <3>1, <3>2 DEF ClientThread, InCall, ClientStep, UserCall, OnDataArrived,
         FireNewEventCallback, Announces, DropMessage, EndDrain, Poll,
         TakeResponses, Timeout, Leave, Return, Waiting, Calling, Processing,
         Draining
    <3>4. p \in Kept(serverMessages'[c])
      BY <3>2, <3>3, SavedMail
    <3>5. QED
      BY <1>1, <3>4
  <2>3. p \in Batched(stack'[c]) \cup AtHand(c)
    BY <1>4, ClientPackets DEF Quiet, Takes, TakesBatch
  <2>4. QED
    BY <2>1, <2>2, <2>3
<1>5. CASE p \in Held(toClient[c])
  <2>1. CASE Quiet(c)
    BY <1>1, <1>5, <2>1 DEF Quiet
  <2>2. CASE Takes(c)
    <3>. DEFINE s == toClient[c]
    <3>1. s \in Seq(Replies(c) \cup {TAIL})
      BY DEF SystemInv, Good, IsChannel
    <3>2. PICK n \in 1..Len(s) : TakesBatch(c, n)
      BY <2>2 DEF Takes
    <3>3. Held(s) = Held(SubSeq(s, 1, n)) \cup Held(SubSeq(s, n + 1, Len(s)))
      BY <3>1, HeldCut
    <3>4. /\ toClient'[c] = SubSeq(s, n + 1, Len(s))
          /\ Held(SubSeq(s, 1, n)) \subseteq Batched(stack'[c])
      BY <3>2 DEF TakesBatch
    <3>5. QED
      BY <1>1, <1>5, <3>3, <3>4
  <2>3. QED
    BY <2>1, <2>2, ClientPackets
<1>6. QED
  BY <1>3, <1>4, <1>5 DEF Inside
------------------------------------------------------------------------------
(* A step of a client keeps the invariant                                  *)

LEMMA DrainReadsLast ==
    ASSUME SystemInv, NEW c \in Connection, NEW slot \in BOOLEAN,
           NEW below \in Seq(Frame(c)), Drain(c, slot, below), ReadsLast(below)
    PROVE  ReadsLast(stack'[c])
<1>1. PICK packets \in Seq(Replies(c)) : stack'[c] = Batch(packets, slot) \o below
  BY DrainFacts DEF Frame
<1>2. QED
  BY <1>1, ReadsLastOfBatch

\* Reads stay where they are, and begin in the event loop.
LEMMA ClientReadsLast ==
    ASSUME SystemInv, NEW c \in Connection, ClientThread(c), ReadsLast(stack[c])
    PROVE  ReadsLast(stack'[c])
<1>1. /\ stack = [d \in Connection |-> stack[d]] /\ stack[c] \in Seq(Frame(c))
      /\ stack[c] # <<>> =>
            /\ Below(c) \in Seq(Frame(c)) /\ Top(c) \in Frame(c)
            /\ ReadsLast(Below(c))
            /\ IsRead(Top(c)) => Below(c) = <<>>
  BY StackFacts, ReadsLastPopped DEF Below, Top
<1>2. CASE UserCall(c)
  <2>1. PICK f \in GoodCalls(c) : stack'[c] = <<f>>
    BY <1>2, UserCallBegins
  <2>2. Len(stack'[c]) = 1
    BY <2>1
  <2>3. QED
    BY <2>2 DEF ReadsLast
<1>3. CASE OnDataArrived(c)
  <2>1. Drain(c, TRUE, <<>>) /\ stack[c] = <<>>
    BY <1>3 DEF OnDataArrived
  <2>2. QED
    BY <1>1, <2>1, DrainReadsLast
<1>4. CASE Poll(c)
  <2>1. Drain(c, callbackOn[c], stack[c]) /\ callbackOn[c] \in BOOLEAN
    BY <1>4 DEF Poll, SystemInv, PerClient
  <2>2. QED
    BY <1>1, <2>1, DrainReadsLast
<1>5. CASE SaveMessage(c) \/ DropMessage(c)
  <2>1. /\ stack'[c] = AfterPacket(c) /\ Processing(c)
    BY <1>1, <1>5 DEF SaveMessage, DropMessage
  <2>2. /\ Tail(Top(c).packets) \in Seq(Replies(c)) /\ Top(c).slot \in BOOLEAN
        /\ stack[c] # <<>>
    BY <2>1, PacketAndRest DEF GoodDrains, Processing, Draining
  <2>3. QED
    BY <1>1, <2>1, <2>2, ReadsLastOfBatch DEF AfterPacket
<1>6. CASE EndDrain(c) \/ Return(c)
  BY <1>1, <1>6 DEF EndDrain, Return, Draining, Calling
<1>7. CASE FireNewEventCallback(c)
  <2>1. PICK f \in GoodCalls(c) :
            /\ stack'[c] = <<f>> \o (<<Rest(c)>> \o Below(c))
            /\ f.request = NumberRequest
    BY <1>7, NotifiedSteps
  <2>2. stack[c] # <<>> /\ Rest(c) \in GoodDrains(c)
    BY <1>7, NotifiedSteps
  <2>3. ~IsRead(f) /\ ~IsRead(Rest(c)) /\ f \in Frame(c) /\ Rest(c) \in Frame(c)
    BY <2>1, <2>2 DEF IsRead, IsCall, NumberRequest, GoodDrains, Frame
  <2>4. /\ ReadsLast(<<Rest(c)>> \o Below(c))
        /\ <<Rest(c)>> \o Below(c) \in Seq(Frame(c))
    BY <1>1, <2>2, <2>3, ReadsLastPushed, PushProperties
  <2>5. QED
    BY <2>1, <2>3, <2>4, ReadsLastPushed
<1>8. ASSUME NEW g, TopBecomes(c, g), g \in GoodCalls(c)
      PROVE  ReadsLast(<<g>> \o Below(c)) /\ <<g>> \o Below(c) \in Seq(Frame(c))
  <2>1. /\ stack[c] # <<>> /\ g \in Frame(c)
        /\ IsRead(g) => IsRead(Top(c))
    BY <1>8 DEF TopBecomes, Frame, IsRead
  <2>2. QED
    BY <1>1, <2>1, ReadsLastPushed, PushProperties
<1>9. CASE TakeResponses(c) \/ Timeout(c)
  <2>1. PICK g \in GoodCalls(c) :
            TopBecomes(c, g) /\ stack'[c] = <<g>> \o Below(c)
    BY <1>9, LoopSteps
  <2>2. QED
    BY <1>8, <2>1
<1>10. CASE Leave(c)
  <2>. DEFINE g == [Top(c) EXCEPT !.at = "return"]
  <2>1. TopBecomes(c, g) /\ g \in GoodCalls(c)
    BY <1>10, LeaveSteps
  <2>2. \/ Drain(c, TRUE, <<g>> \o Below(c))
        \/ stack' = [stack EXCEPT ![c] = <<g>> \o Below(c)]
    BY <1>10 DEF Leave
  <2>3. stack'[c] = <<g>> \o Below(c) \/ Drain(c, TRUE, <<g>> \o Below(c))
    BY <1>1, <2>2
  <2>. HIDE DEF g
  <2>4. QED
    BY <1>8, <2>1, <2>3, DrainReadsLast
<1>11. CASE ClientNotices(c)
  BY <1>11 DEF ClientNotices, clientVars
<1>12. QED
  BY <1>2, <1>3, <1>4, <1>5, <1>6, <1>7, <1>9, <1>10, <1>11
  DEF ClientThread, InCall, ClientStep

\* The call on top that reads is alone.
LEMMA ReadOnTop ==
    ASSUME SystemInv, NEW c \in Connection, stack[c] # <<>>, IsRead(Top(c)),
           ReadsLast(stack[c])
    PROVE  /\ Below(c) = <<>> /\ Batched(stack[c]) = {} /\ ~InSlot(c)
           /\ Top(c) \in CallsIn(stack[c])
<1>1. Below(c) = <<>> /\ stack[c] \in Seq(Frame(c))
  BY StackFacts, ReadsLastPopped DEF Below, Top
<1>2. Batched(stack[c]) = {}
  BY <1>1, BatchedPopped, BatchedNothing
  DEF Below, Top, FramePackets, IsRead, IsCall
<1>3. ~InSlot(c)
  <2>1. \A i \in 1..Len(stack[c]) : stack[c][i] = Top(c)
    <3>1. Len(stack[c]) \in Nat \ {0} /\ Len(Below(c)) = Len(stack[c]) - 1
          /\ Top(c) = stack[c][1]
      BY <1>1, PopProperties DEF Below, Top
    <3>2. Len(Below(c)) = 0
      BY <1>1
    <3>3. QED
      BY <3>1, <3>2
  <2>2. QED
    BY <2>1 DEF InSlot, IsRead, IsCall
<1>4. QED
  BY <1>1, <1>2, <1>3, StackFacts DEF IsRead

\* A new call that reads begins in the event loop.
LEMMA ReadsBefore ==
    ASSUME SystemInv, NEW c \in Connection, ClientThread(c),
           ~UserCall(c), ~TopStep(c),
           NEW f \in CallsIn(stack'[c]), IsRead(f)
    PROVE  f \in CallsIn(stack[c])
<1>1. CASE FireNewEventCallback(c)
  <2>1. PICK g \in GoodCalls(c) :
            /\ stack'[c] = <<g>> \o (<<Rest(c)>> \o Below(c))
            /\ g.request = NumberRequest
    BY <1>1, NotifiedSteps
  <2>2. /\ stack[c] # <<>> /\ Rest(c) \in Frame(c) /\ ~IsCall(Rest(c))
        /\ g \in Frame(c)
    BY <1>1, <2>1, NotifiedSteps DEF GoodDrains, Frame, IsCall
  <2>3. Below(c) \in Seq(Frame(c)) /\ CallsIn(Below(c)) \subseteq CallsIn(stack[c])
    BY <2>2, StackFacts
  <2>4. \A s \in Seq(Frame(c)), h \in Frame(c) :
            /\ <<h>> \o s \in Seq(Frame(c))
            /\ CallsIn(<<h>> \o s) = CallsIn(s) \cup IF IsCall(h) THEN {h} ELSE {}
    BY CallsPushed, PushProperties
  <2>5. CallsIn(stack'[c]) \subseteq CallsIn(Below(c)) \cup {g}
    BY <2>1, <2>2, <2>3, <2>4
  <2>6. QED
    BY <2>1, <2>3, <2>5 DEF IsRead, NumberRequest
<1>2. CASE SaveMessage(c) \/ DropMessage(c) \/ EndDrain(c) \/ OnDataArrived(c)
           \/ Poll(c) \/ Return(c)
  BY <1>2, QuietSteps, PollSteps, ReturnSteps, StackFacts DEF SameCalls
<1>3. CASE ClientNotices(c)
  BY <1>3 DEF ClientNotices, clientVars
<1>4. QED
  BY <1>1, <1>2, <1>3 DEF ClientThread, InCall, ClientStep, TopStep

\* A call that is alone and has its answer goes on to leave.
LEMMA LeavingIsNext ==
    ASSUME NEW c \in Connection, ClientThread(c),
           NEW f, stack[c] = <<f>>, IsCall(f), f.at = "leave"
    PROVE  /\ Leave(c) \/ ClientNotices(c)
           /\ CallsIn(Below(c)) = {}
<1>1. stack[c] # <<>> /\ Top(c) = f /\ Below(c) = <<>>
  BY DEF Top, Below
<1>2. ~Processing(c) /\ ~Draining(c) /\ ~Waiting(c) /\ ~Calling(c, "return")
  BY <1>1 DEF Processing, Draining, Waiting, Calling, IsCall
<1>3. QED
  BY <1>1, <1>2, NoCalls
  DEF ClientThread, InCall, ClientStep, UserCall, OnDataArrived, SaveMessage,
      FireNewEventCallback, DropMessage, EndDrain, Poll, TakeResponses, Return,
      Timeout

\* What a leaving call becomes has left.
LEMMA LeftIsReturning ==
    ASSUME SystemInv, NEW c \in Connection, Leave(c)
    PROVE  \E g : TopBecomes(c, g) /\ g.at = "return"
<1>1. /\ Calling(c, "leave")
      /\ TopBecomes(c, [Top(c) EXCEPT !.at = "return"])
  BY LeaveSteps
<1>2. Top(c) \in GoodCalls(c)
  BY <1>1, StackFacts DEF TopBecomes
<1>3. [Top(c) EXCEPT !.at = "return"].at = "return"
  BY <1>2 DEF GoodCalls, CallFrames
<1>4. QED
  BY <1>1, <1>3

\* A read that has its answer is alone, and so is one that gets it.
LEMMA ClientLeavesAlone ==
    ASSUME SystemInv, NEW c \in Connection, ClientThread(c),
           ReadsLast(stack[c]), LeavesAlone(stack[c])
    PROVE  LeavesAlone(stack'[c])
<1>. SUFFICES ASSUME NEW f \in CallsIn(stack'[c]), IsRead(f), f.at = "leave"
              PROVE  stack'[c] = <<f>>
  BY DEF LeavesAlone
<1>1. CASE Leave(c)
  <2>1. PICK g : TopBecomes(c, g) /\ g.at = "return"
    BY <1>1, LeftIsReturning
  <2>2. /\ stack[c] # <<>> /\ Calling(c, "leave")
        /\ CallsIn(stack[c]) = CallsIn(Below(c)) \cup {Top(c)}
    BY <1>1, <2>1, StackFacts DEF TopBecomes, Leave
  <2>3. f \in CallsIn(Below(c))
    BY <2>1 DEF TopBecomes
  <2>4. stack[c] = <<f>>
    BY <2>2, <2>3 DEF LeavesAlone
  <2>5. QED
    BY <2>3, <2>4, LeavingIsNext DEF IsRead
<1>2. CASE ~Leave(c) /\ f \in CallsIn(stack[c])
  <2>1. stack[c] = <<f>>
    BY <1>2 DEF LeavesAlone
  <2>2. ClientNotices(c)
    BY <1>2, <2>1, LeavingIsNext DEF IsRead
  <2>3. QED
    BY <2>1, <2>2 DEF ClientNotices, clientVars
<1>3. CASE UserCall(c)
  <2>1. PICK g : stack'[c] = <<g>>
    BY <1>3, UserCallBegins
  <2>2. PICK i \in 1..Len(stack'[c]) : stack'[c][i] = f
    BY CallsMember
  <2>3. QED
    BY <2>1, <2>2
<1>4. CASE (TakeResponses(c) \/ Timeout(c)) /\ f \notin CallsIn(stack[c])
  <2>1. PICK g \in GoodCalls(c) :
            TopBecomes(c, g) /\ stack'[c] = <<g>> \o Below(c)
    BY <1>4, LoopSteps
  <2>2. /\ f = g /\ stack[c] # <<>> /\ IsRead(Top(c))
    BY <1>4, <2>1, StackFacts DEF TopBecomes, IsRead
  <2>3. Below(c) = <<>>
    BY <2>2, ReadOnTop
  <2>4. QED
    BY <2>1, <2>2, <2>3
<1>5. QED
  BY <1>1, <1>2, <1>3, <1>4, ReadsBefore DEF TopStep

\* What was recorded when a call began.
LEMMA StartKept ==
    ASSUME SystemInv, RecordHistory, UNCHANGED serverVars,
           NEW c \in Connection, ClientThread(c), NEW f \in CallsIn(stack[c]),
           f.pn # 0
    PROVE  Readable(c, f)' <=> Readable(c, f)
<1>1. f.pn \in 1..packetCounter[c]
  BY StackFacts, CallsCounted
<1>2. TableKept /\ Grows(c) /\ HistoryOK(c)
  BY TableGrows, ClientMoves DEF SystemInv, Moves, Good
<1>3. savedAtStart'[c][f.pn] = savedAtStart[c][f.pn]
  BY <1>1, <1>2, HistoryGrows DEF HistoryKept
<1>4. QED
  BY <1>3 DEF Readable

\* A call that a step leaves alone is in time as before.
LEMMA ReadKept ==
    ASSUME "split" \notin Faults, "reuse" \in Faults => RowsOnly,
           SystemInv, LogInv, RecordHistory, UNCHANGED serverVars,
           NEW c \in Connection, ClientThread(c), ~ClientNotices(c),
           Inside(c) \subseteq Current(c), LeavesAlone(stack[c]),
           NEW f \in CallsIn(stack[c]), IsRead(f), InTime(c, f),
           TopStep(c) => f \in CallsIn(Below(c))
    PROVE  InTime(c, f)'
<1>1. f.pn # 0 /\ (Readable(c, f)' <=> Readable(c, f))
  BY StartKept DEF InTime
<1>2. CASE f.at # "wait"
  <2>1. ASSUME f.at = "leave"
        PROVE  FALSE
    <3>1. stack[c] = <<f>>
      BY <2>1 DEF LeavesAlone
    <3>2. QED
      BY <2>1, <3>1, LeavingIsNext DEF TopStep, IsRead
  <2>2. QED
    BY <1>1, <1>2, <2>1 DEF InTime
<1>3. CASE f.at = "wait"
  <2>1. FinishStays(c, f)
    BY <1>3, FinishIsKept DEF WaitsToRead
  <2>2. handshake'[c] = handshake[c]
    BY ClientLinks
  <2>3. Held(toServer[c]) \subseteq Held(toServer'[c])
    BY RequestsStay
  <2>4. stream' = stream /\ serving' = serving
    BY DEF serverVars, handlerVars
  <2>5. RequestOf(c, f)' = RequestOf(c, f)
    BY <2>2 DEF RequestOf, Packet, SavedEventsRequest, SendEvent,
       NumberOfSavedEventsRequest
  <2>6. OnItsWay(c, f) => OnItsWay(c, f)'
    <3>1. \A p : Finishes(c, f, p)' <=> Finishes(c, f, p)
      BY <2>2 DEF Finishes
    <3>2. Held(stream)' = Held(stream) /\ Held(toServer[c])' = Held(toServer'[c])
      BY <2>4 DEF Held
    <3>3. QED
      BY <2>1, <2>3, <2>4, <2>5, <3>1, <3>2 DEF OnItsWay, FinishStays
  <2>7. QED
    BY <1>1, <1>3, <2>6 DEF InTime
<1>4. QED
  BY <1>2, <1>3
\* A read that begins has sent its request.
LEMMA ReadBegins ==
    ASSUME SystemInv, UNCHANGED serverVars, NEW c \in Connection, UserCall(c),
           linkUp[c], clientValid[c], NEW f \in CallsIn(stack'[c]), IsRead(f)
    PROVE  InTime(c, f)'
<1>1. PICK g \in GoodCalls(c) :
          /\ stack'[c] = <<g>>
          /\ \/ FailsOffline(c, g)
             \/ FailsTooLong(c, g) /\ ~Encodable(g.request)
             \/ GoesOut(c, g)
  BY UserCallBegins
<1>2. f = g
  <2>1. PICK i \in 1..Len(stack'[c]) : stack'[c][i] = f
    BY CallsMember
  <2>2. QED
    BY <1>1, <2>1
<1>3. GoesOut(c, f)
  BY <1>1, <1>2 DEF FailsOffline, Encodable, IsRead
<1>4. /\ f.pn = packetCounter[c] + 1 /\ packetCounter[c] \in Nat /\ f.at = "wait"
      /\ toServer' = [toServer EXCEPT ![c] = Append(toServer[c], RequestOf(c, f))]
  BY <1>3, StackFacts DEF GoesOut, Sent, RequestOf
<1>5. handshake' = handshake
  BY DEF UserCall
<1>6. toServer[c] \in Seq(Packets) /\ toServer = [d \in Connection |-> toServer[d]]
  BY DEF SystemInv, CoreInv, ChannelsOK, IsChannel, Packets
<1>7. RequestOf(c, f) \in ClientPacket
  <2>1. f.request \in GoodRequest /\ f.pn \in Nat /\ handshake[c] \in Nat
    BY <1>1, <1>2 DEF GoodCalls, CallFrames, SystemInv, CoreInv, LinksOK
  <2>2. QED
    BY <2>1, PacketFields DEF RequestOf
<1>8. RequestOf(c, f) \in Held(toServer'[c])
  <2>1. toServer'[c] = Append(toServer[c], RequestOf(c, f))
    BY <1>4, <1>6
  <2>2. Held(Append(toServer[c], RequestOf(c, f)))
            = Held(toServer[c]) \cup {RequestOf(c, f)}
    BY <1>6, <1>7, HeldAppended DEF Packets
  <2>3. QED
    BY <2>1, <2>2
<1>9. OnItsWay(c, f)'
  <2>1. RequestOf(c, f)' = RequestOf(c, f)
    BY <1>5 DEF RequestOf, Packet, SavedEventsRequest, SendEvent,
       NumberOfSavedEventsRequest
  <2>2. Held(toServer[c])' = Held(toServer'[c])
    BY DEF Held
  <2>3. QED
    BY <1>8, <2>1, <2>2 DEF OnItsWay
<1>10. QED
  BY <1>4, <1>9 DEF InTime

\* The loop over the responses finds the last one if it is there.
LEMMA LastIsTaken ==
    ASSUME NEW M, NEW responses \in Seq(M), NEW p \in Held(responses), p.isLast
    PROVE  Complete(UpToLast(responses))
<1>. DEFINE Fine(n) == /\ n = Len(responses) \/ responses[n].isLast
                       /\ \A j \in 1..(n - 1) : ~responses[j].isLast
            Lasts == {n \in 1..Len(responses) : responses[n].isLast}
            n == CHOOSE i \in 1..Len(responses) : Fine(i)
<1>1. Lasts \subseteq Nat /\ Lasts # {} /\ Len(responses) \in Nat
  BY HeldMember
<1>2. PICK m \in Lasts : \A k \in Lasts : m <= k
  BY <1>1, Least
<1>3. m \in 1..Len(responses) /\ Fine(m)
  BY <1>1, <1>2
<1>4. n \in 1..Len(responses) /\ Fine(n)
  BY <1>3
<1>5. responses[n].isLast
  <2>1. CASE n = Len(responses)
    <3>1. m = n \/ m \in 1..(n - 1)
      BY <1>1, <1>3, <1>4, <2>1
    <3>2. QED
      BY <1>2, <1>4, <3>1
  <2>2. QED
    BY <1>4, <2>1
<1>6. UpToLast(responses) = SubSeq(responses, 1, n)
  BY DEF UpToLast
<1>. HIDE DEF n
<1>7. Len(SubSeq(responses, 1, n)) = n /\ SubSeq(responses, 1, n)[n] = responses[n]
  BY <1>1, <1>4, ChannelInTwo
<1>8. QED
  BY <1>5, <1>6, <1>7 DEF Complete

\* The frame that a read leaves behind is its own.
LEMMA ReadBecomes ==
    ASSUME SystemInv, RecordHistory, UNCHANGED serverVars,
           NEW c \in Connection, ClientThread(c), stack[c] # <<>>,
           IsRead(Top(c)), ReadsLast(stack[c]), InTime(c, Top(c)),
           NEW g, TopBecomes(c, g), NEW f \in CallsIn(stack'[c])
    PROVE  /\ f = g /\ f.pn # 0
           /\ Readable(c, f)' <=> Readable(c, Top(c))
<1>1. f = g
  BY ReadOnTop, NoCalls DEF TopBecomes
<1>2. /\ Top(c) \in CallsIn(stack[c]) /\ Top(c).pn # 0
      /\ f.pn = Top(c).pn /\ f.request = Top(c).request
  BY <1>1, ReadOnTop DEF InTime, TopBecomes
<1>3. PICK h : h = Top(c)
  OBVIOUS
<1>4. Readable(c, h)' <=> Readable(c, h)
  BY <1>2, <1>3, StartKept
<1>5. Readable(c, f)' <=> Readable(c, h)'
  BY <1>2, <1>3 DEF Readable
<1>6. QED
  BY <1>1, <1>2, <1>3, <1>4, <1>5
\* A read that leaves keeps its answer.
LEMMA ReadLeaves ==
    ASSUME SystemInv, RecordHistory, UNCHANGED serverVars,
           NEW c \in Connection, ClientThread(c), Leave(c),
           IsRead(Top(c)), ReadsLast(stack[c]), InTime(c, Top(c)),
           NEW f \in CallsIn(stack'[c])
    PROVE  InTime(c, f)'
<1>. DEFINE g == [Top(c) EXCEPT !.at = "return"]
<1>1. TopBecomes(c, g) /\ Calling(c, "leave") /\ g \in GoodCalls(c)
  BY LeaveSteps
<1>2. stack[c] # <<>> /\ Top(c).at = "leave" /\ Top(c) \in GoodCalls(c)
  BY <1>1, StackFacts DEF Calling, TopBecomes
<1>3. g.at = "return" /\ g.answer = Top(c).answer
  BY <1>2 DEF GoodCalls, CallFrames
<1>. HIDE DEF g
<1>4. /\ f = g /\ f.pn # 0
      /\ Readable(c, f)' <=> Readable(c, Top(c))
  BY <1>1, <1>2, ReadBecomes
<1>5. QED
  BY <1>2, <1>3, <1>4 DEF InTime

\* Unless the answer is late, a loop that runs out has waited for what is out
\* of reach: nothing else is left in the channels or at the server.
LEMMA ReadGivesUp ==
    ASSUME SystemInv, RecordHistory, UNCHANGED serverVars,
           NEW c \in Connection, ClientThread(c), Timeout(c), Overdue(c),
           clientValid[c], IsRead(Top(c)), ReadsLast(stack[c]), InTime(c, Top(c)),
           NEW f \in CallsIn(stack'[c])
    PROVE  InTime(c, f)'
<1>. DEFINE h == [Top(c) EXCEPT !.at = "leave", !.answer = NoAnswer]
<1>1. /\ stack[c] # <<>> /\ Top(c).at = "wait" /\ Mailbox(c) = <<>>
      /\ Top(c) \in GoodCalls(c) /\ stack = [d \in Connection |-> stack[d]]
  BY StackFacts DEF Timeout, Waiting, Calling, IsCall
<1>2. PICK g : TopBecomes(c, g)
  BY LoopSteps
<1>3. /\ f = g /\ f.pn # 0 /\ f.pn = Top(c).pn /\ f.request = Top(c).request
      /\ Readable(c, f)' <=> Readable(c, Top(c))
  BY <1>1, <1>2, ReadBecomes DEF TopBecomes
<1>4. f.at = "leave"
  <2>1. stack'[c] = <<h>> \o Below(c)
    BY <1>1 DEF Timeout, Decide
  <2>2. h.at = "leave" /\ IsCall(h)
    BY <1>1 DEF GoodCalls, CallFrames, IsCall
  <2>. HIDE DEF h
  <2>3. stack'[c] = <<h>>
    <3>1. Below(c) = <<>>
      BY <1>1, ReadOnTop
    <3>2. \A x : <<x>> \o <<>> = <<x>>
      OBVIOUS
    <3>3. QED
      BY <2>1, <3>1, <3>2
  <2>4. PICK i \in 1..Len(stack'[c]) : stack'[c][i] = f
    BY CallsMember
  <2>5. QED
    BY <2>2, <2>3, <2>4
<1>5. CASE "late" \in Faults
  BY <1>3, <1>4, <1>5 DEF InTime
<1>6. ASSUME "late" \notin Faults, Readable(c, Top(c))
      PROVE  OutOfReach(c, f)'
  <2>1. /\ Len(toServer[c]) = strandedAtServer[c] /\ serving # c
        /\ Len(toClient[c]) = strandedAtClient[c]
    BY <1>1, <1>6, ReadOnTop DEF Overdue
  <2>2. OnItsWay(c, Top(c))
    BY <1>1, <1>6 DEF InTime
  <2>3. ASSUME NEW p \in Inside(c), Finishes(c, Top(c), p)
        PROVE  p \in Held(toClient[c])
    <3>1. Batched(stack[c]) = {}
      BY <1>1, ReadOnTop
    <3>2. ASSUME p \in Kept(serverMessages[c])
          PROVE  FALSE
      <4>1. p \in Held(Mailbox(c))
        BY <2>3, <3>2, FinishIsMail DEF Mailbox
      <4>2. QED
        BY <1>1, <4>1, HeldNothing
    <3>3. QED
      BY <2>3, <3>1, <3>2 DEF Inside
  <2>4. /\ UNCHANGED <<toServer, toClient, handshake, strandedAtClient>>
        /\ UNCHANGED <<serving, strandedAtServer>>
    BY DEF Timeout, transportVars, serverVars, handlerVars
  <2>5. /\ RequestOf(c, f)' = RequestOf(c, Top(c))
        /\ \A p : Finishes(c, f, p)' <=> Finishes(c, Top(c), p)
    BY <1>3, <2>4 DEF RequestOf, Packet, SavedEventsRequest, SendEvent,
       NumberOfSavedEventsRequest, Finishes
  <2>6. CASE RequestOf(c, Top(c)) \in Held(toServer[c])
    <3>1. Held(toServer[c])' = Held(toServer[c])
      BY <2>4 DEF Held
    <3>2. QED
      BY <2>1, <2>4, <2>5, <2>6, <3>1 DEF OutOfReach
  <2>7. CASE \E p \in Inside(c) : Finishes(c, Top(c), p)
    <3>1. PICK p \in Held(toClient[c]) : Finishes(c, Top(c), p)
      BY <2>3, <2>7
    <3>2. PICK i \in 1..Len(toClient[c]) : toClient[c][i] = p
      BY <3>1, HeldMember
    <3>3. Len(toClient[c]) \in Nat
      BY LenProperties DEF SystemInv, Good, IsChannel
    <3>4. i <= strandedAtClient[c]
      BY <2>1, <3>2, <3>3
    <3>5. QED
      BY <2>4, <2>5, <3>1, <3>2, <3>4 DEF OutOfReach
  <2>8. QED
    BY <2>1, <2>2, <2>6, <2>7 DEF OnItsWay
<1>7. QED
  BY <1>3, <1>4, <1>5, <1>6 DEF InTime

\* A read that has the last response is answered, and one that has not waits
\* on for what is still under way.
LEMMA ReadTakes ==
    ASSUME SystemInv, RecordHistory, UNCHANGED serverVars,
           NEW c \in Connection, ClientThread(c), TakeResponses(c),
           IsRead(Top(c)), ReadsLast(stack[c]), InTime(c, Top(c)),
           NEW f \in CallsIn(stack'[c])
    PROVE  InTime(c, f)'
<1>. DEFINE taken == UpToLast(Mailbox(c))
            events == Top(c).events \o Events(taken)
            g == [Top(c) EXCEPT !.at = "leave", !.answer = EventsAnswer(events)]
            h == [Top(c) EXCEPT !.events = events]
<1>1. /\ stack[c] # <<>> /\ Top(c).at = "wait" /\ Top(c) \in GoodCalls(c)
      /\ stack = [d \in Connection |-> stack[d]]
      /\ Mailbox(c) \in Seq(Mail(c, Top(c).pn))
  BY StackFacts, WaitingFacts DEF TakeResponses, Waiting, Calling
<1>2. /\ UNCHANGED transportVars
      /\ IF Complete(taken) THEN stack' = [stack EXCEPT ![c] = <<g>> \o Below(c)]
                            ELSE stack' = [stack EXCEPT ![c] = <<h>> \o Below(c)]
  BY DEF TakeResponses, Decide, IsRead
<1>3. /\ g.at = "leave" /\ g.answer.ok /\ h.at = "wait"
      /\ h.pn = Top(c).pn /\ h.request = Top(c).request
  BY <1>1 DEF GoodCalls, CallFrames, EventsAnswer
<1>4. PICK k \in GoodCalls(c) :
          TopBecomes(c, k) /\ stack'[c] = <<k>> \o Below(c)
  BY LoopSteps
<1>5. /\ f = k /\ f.pn # 0
      /\ Readable(c, f)' <=> Readable(c, Top(c))
  BY <1>1, <1>4, ReadBecomes
<1>6. f = IF Complete(taken) THEN g ELSE h
  <2>1. Below(c) = <<>>
    BY <1>1, ReadOnTop
  <2>2. \A x, y : <<x>> \o <<>> = <<y>> \o <<>> => x = y
    <3>1. ASSUME NEW x, NEW y, <<x>> \o <<>> = <<y>> \o <<>>
          PROVE  x = y
      <4>1. <<>> \in Seq({x, y}) /\ x \in {x, y} /\ y \in {x, y}
        OBVIOUS
      <4>2. (<<x>> \o <<>>)[1] = x /\ (<<y>> \o <<>>)[1] = y
        BY <4>1, PushProperties
      <4>3. QED
        BY <3>1, <4>2
    <3>2. QED
      BY <3>1
  <2>3. stack'[c] = IF Complete(taken) THEN <<g>> \o Below(c)
                                       ELSE <<h>> \o Below(c)
    BY <1>1, <1>2
  <2>. HIDE DEF taken, g, h
  <2>4. QED
    BY <1>4, <1>5, <2>1, <2>2, <2>3
<1>. HIDE DEF g, h, events
<1>7. CASE Complete(taken)
  BY <1>3, <1>5, <1>6, <1>7 DEF InTime
<1>8. CASE ~Complete(taken)
  <2>1. OnItsWay(c, Top(c)) => OnItsWay(c, f)'
    <3>1. /\ toServer' = toServer /\ toClient' = toClient /\ handshake' = handshake
          /\ serving' = serving /\ stream' = stream
      BY <1>2 DEF transportVars, serverVars, handlerVars
    <3>2. /\ RequestOf(c, f)' = RequestOf(c, Top(c))
          /\ \A p : Finishes(c, f, p)' <=> Finishes(c, Top(c), p)
      BY <1>3, <1>6, <1>8, <3>1 DEF RequestOf, Packet, SavedEventsRequest,
         SendEvent, NumberOfSavedEventsRequest, Finishes
    <3>3. /\ Held(toServer[c])' = Held(toServer[c])
          /\ Held(stream)' = Held(stream)
          /\ Held(toClient[c]) \subseteq Inside(c)'
      BY <3>1 DEF Held, Inside
    <3>4. ASSUME NEW p \in Inside(c), Finishes(c, Top(c), p)
          PROVE  p \in Held(toClient[c])
      <4>1. Batched(stack[c]) = {}
        BY <1>1, ReadOnTop
      <4>2. p \notin Kept(serverMessages[c])
        <5>1. ASSUME p \in Kept(serverMessages[c])
              PROVE  FALSE
          <6>1. p \in Held(Mailbox(c)) /\ p.isLast
            BY <3>4, <5>1, FinishIsMail DEF Mailbox, Finishes
          <6>2. Complete(taken)
            BY <1>1, <6>1, LastIsTaken
          <6>3. QED
            BY <1>8, <6>2
        <5>2. QED
          BY <5>1
      <4>3. QED
        BY <3>4, <4>1, <4>2 DEF Inside
    <3>5. QED
      BY <3>1, <3>2, <3>3, <3>4 DEF OnItsWay
  <2>2. QED
    BY <1>1, <1>3, <1>5, <1>6, <1>8, <2>1 DEF InTime
<1>9. QED
  BY <1>7, <1>8
\* What nobody touches stays as it was.
LEMMA SameReading ==
    ASSUME NEW d \in Connection, Reading(d),
           linkUp'[d] = linkUp[d], serverValid'[d] = serverValid[d],
           clientValid'[d] = clientValid[d], handshake'[d] = handshake[d],
           toServer'[d] = toServer[d], toClient'[d] = toClient[d],
           stack'[d] = stack[d], serverMessages'[d] = serverMessages[d],
           savedAtStart'[d] = savedAtStart[d], stream' = stream,
           serving' = serving, strandedAtServer' = strandedAtServer,
           strandedAtClient'[d] = strandedAtClient[d]
    PROVE  Reading(d)'
<1>1. /\ CallsIn(stack[d])' = CallsIn(stack[d])
      /\ ReadsLast(stack[d])' = ReadsLast(stack[d])
      /\ LeavesAlone(stack[d])' = LeavesAlone(stack[d])
      /\ Held(toServer[d])' = Held(toServer[d]) /\ Held(stream)' = Held(stream)
      /\ Inside(d)' = Inside(d)
  BY DEF CallsIn, IsCall, ReadsLast, LeavesAlone, IsRead, Held, Inside, Batched,
     Kept
<1>2. ASSUME NEW f
      PROVE  InTime(d, f)' <=> InTime(d, f)
  <2>1. RequestOf(d, f)' = RequestOf(d, f)
    BY DEF RequestOf, Packet, SavedEventsRequest, SendEvent,
       NumberOfSavedEventsRequest
  <2>2. \A p : Finishes(d, f, p)' <=> Finishes(d, f, p)
    BY DEF Finishes
  <2>3. OnItsWay(d, f)' <=> OnItsWay(d, f)
    BY <1>1, <2>1, <2>2 DEF OnItsWay
  <2>4. Readable(d, f)' <=> Readable(d, f)
    BY DEF Readable
  <2>5. OutOfReach(d, f)' <=> OutOfReach(d, f)
    BY <1>1, <2>1, <2>2 DEF OutOfReach
  <2>6. QED
    BY <2>3, <2>4, <2>5 DEF InTime
<1>3. TAIL' = TAIL
  BY DEF TAIL
<1>4. QED
  BY <1>1, <1>2, <1>3 DEF Reading, IsRead, IsCall

\* The steps that leave the calls alone are no steps of the call on top.
LEMMA OthersAreNoTopSteps ==
    ASSUME SystemInv, NEW c \in Connection, Offline(c),
           SaveMessage(c) \/ DropMessage(c) \/ EndDrain(c) \/ OnDataArrived(c)
               \/ Poll(c) \/ Return(c)
    PROVE  ~TopStep(c)
<1>. SUFFICES ASSUME TopStep(c)
              PROVE  FALSE
  OBVIOUS
<1>1. /\ stack[c] # <<>> /\ IsCall(Top(c))
      /\ Top(c).at \in {"wait", "leave"}
  BY DEF TopStep, TakeResponses, Timeout, Leave, Waiting, Calling, IsCall
<1>2. Poll(c)
  BY <1>1, QuietSteps, ReturnSteps DEF OnDataArrived
<1>3. Timeout(c)
  BY <1>2 DEF Poll, TopStep, TakeResponses, Leave, Waiting, Calling
<1>4. /\ Top(c) \in CallsIn(stack[c]) /\ SameCalls(c) /\ Top(c).at = "wait"
      /\ \A f \in CallsIn(Below(c)) : f.pn # Top(c).pn
      /\ Top(c) \in GoodCalls(c) /\ stack = [d \in Connection |-> stack[d]]
  BY <1>1, <1>2, PollSteps, StackFacts, AloneOnTop DEF Poll, Waiting, Calling
<1>. DEFINE g == [Top(c) EXCEPT !.at = "leave", !.answer = NoAnswer]
<1>5. stack'[c] = <<g>> \o Below(c)
  BY <1>3, <1>4 DEF Timeout, Decide
<1>6. g.at = "leave" /\ IsCall(g) /\ Top(c) # g
  BY <1>1, <1>4 DEF IsCall, GoodCalls, CallFrames
<1>. HIDE DEF g
<1>7. PICK S : S = Frame(c) \cup {g}
  OBVIOUS
<1>8. Below(c) \in Seq(S) /\ g \in S
  BY <1>1, <1>7, StackFacts, SeqElements, ElementOfSeq
<1>9. CallsIn(stack'[c]) = CallsIn(Below(c)) \cup {g}
  BY <1>5, <1>6, <1>8, CallsPushed
<1>10. QED
  BY <1>4, <1>6, <1>9 DEF SameCalls

\* A step of c keeps what it promises its own calls.
LEMMA ClientKeepsReading ==
    ASSUME "split" \notin Faults, "reuse" \in Faults => RowsOnly,
           SystemInv, LogInv, RecordHistory, UNCHANGED serverVars,
           NEW c \in Connection, ClientThread(c), Inside(c) \subseteq Current(c),
           Reading(c)
    PROVE  Reading(c)'
<1>1. /\ UNCHANGED <<linkUp, serverValid, handshake>>
      /\ linkUp[c] => serverValid[c] /\ clientValid[c]
      /\ ReadsLast(stack[c]) /\ LeavesAlone(stack[c])
  BY ClientLinks DEF Reading
<1>2. linkUp'[c] => ~ClientNotices(c)
  BY <1>1 DEF ClientNotices
<1>3. linkUp'[c] => serverValid'[c] /\ clientValid'[c]
  <2>1. ~ClientNotices(c) => clientValid' = clientValid
    BY DEF ClientThread, InCall, ClientStep, UserCall, OnDataArrived, SaveMessage,
       FireNewEventCallback, DropMessage, EndDrain, Poll, TakeResponses, Leave,
       Return, Timeout, transportVars
  <2>2. QED
    BY <1>1, <1>2, <2>1
<1>4. TAIL \notin Held(toServer'[c])
  BY RequestsStay DEF Reading
<1>5. ReadsLast(stack'[c]) /\ LeavesAlone(stack'[c])
  BY <1>1, ClientReadsLast, ClientLeavesAlone
<1>6. ASSUME linkUp'[c], NEW f \in CallsIn(stack'[c]), IsRead(f)
      PROVE  InTime(c, f)'
  <2>1. /\ ~ClientNotices(c) /\ linkUp[c] /\ clientValid[c]
        /\ \A g \in CallsIn(stack[c]) : IsRead(g) => InTime(c, g)
    BY <1>1, <1>2, <1>6 DEF Reading
  <2>2. CASE f \in CallsIn(stack[c]) /\ ~TopStep(c)
    BY <1>1, <1>6, <2>1, <2>2, ReadKept
  <2>3. CASE UserCall(c)
    BY <1>6, <2>1, <2>3, ReadBegins
  <2>4. CASE ~UserCall(c) /\ ~TopStep(c)
    BY <1>6, <2>2, <2>4, ReadsBefore
  <2>5. CASE TakeResponses(c) \/ Leave(c) \/ (Timeout(c) /\ Overdue(c))
    <3>1. PICK g : TopBecomes(c, g)
      BY <2>5, LoopSteps, LeaveSteps
    <3>2. stack[c] # <<>> /\ g.request = Top(c).request /\ IsCall(Top(c))
          /\ CallsIn(stack'[c]) = CallsIn(Below(c)) \cup {g}
          /\ CallsIn(stack[c]) = CallsIn(Below(c)) \cup {Top(c)}
      BY <3>1, StackFacts DEF TopBecomes
    <3>3. CASE f \in CallsIn(Below(c))
      BY <1>1, <1>6, <2>1, <3>2, <3>3, ReadKept
    <3>4. CASE f = g
      <4>1. IsRead(Top(c)) /\ InTime(c, Top(c))
        BY <1>6, <2>1, <3>2, <3>4 DEF IsRead
      <4>2. QED
        BY <1>1, <1>6, <2>1, <2>5, <4>1, ReadTakes, ReadLeaves, ReadGivesUp
    <3>5. QED
      BY <1>6, <3>2, <3>3, <3>4
  <2>6. CASE SaveMessage(c) \/ DropMessage(c) \/ EndDrain(c) \/ OnDataArrived(c)
             \/ Poll(c) \/ Return(c)
    BY <2>3, <2>4, <2>6, OthersAreNoTopSteps DEF LogInv
  <2>7. CASE FireNewEventCallback(c)
    <3>1. ~TopStep(c) /\ ~UserCall(c)
      BY <2>7 DEF FireNewEventCallback, Processing, Draining, TopStep,
         TakeResponses, Timeout, Leave, Waiting, Calling, UserCall
    <3>2. QED
      BY <2>4, <3>1
  <2>8. QED
    BY <2>1, <2>3, <2>5, <2>6, <2>7 DEF ClientThread, InCall, ClientStep
<1>7. /\ ReadsLast(stack[c])' /\ LeavesAlone(stack[c])'
      /\ TAIL' = TAIL /\ CallsIn(stack[c])' = CallsIn(stack'[c])
      /\ Held(toServer[c])' = Held(toServer'[c])
  BY <1>5 DEF ReadsLast, LeavesAlone, CallsIn, Held, IsCall, IsRead, TAIL
<1>8. QED
  BY <1>3, <1>4, <1>6, <1>7 DEF Reading

\* Whoever sends an event sends one that can be sent back.
LEMMA ClientKeepsFits ==
    ASSUME ShortTexts, SystemInv, UNCHANGED serverVars, NEW c \in Connection,
           ClientThread(c), AllFit
    PROVE  AllFit'
<1>1. table' = table /\ reply' = reply
  BY DEF serverVars, handlerVars
<1>2. ASSUME NEW e \in EventsInTransit'
      PROVE  Fits(e)
  <2>1. CASE e \in EventsInTransit
    BY <2>1 DEF AllFit
  <2>2. CASE UserCall(c) /\ e \notin EventsInTransit
    <3>1. PICK f \in GoodCalls(c) :
              /\ \E call \in UserCalls : f.request = call[2]
              /\ \/ FailsOffline(c, f)
                 \/ FailsTooLong(c, f)
                 \/ GoesOut(c, f) /\ Encodable(f.request)
      BY <2>2, UserCallBegins
    <3>2. CASE FailsOffline(c, f) \/ FailsTooLong(c, f)
      BY <1>2, <2>2, <3>2, NothingSent DEF FailsOffline, FailsTooLong
    <3>3. CASE GoesOut(c, f) /\ Encodable(f.request)
      <4>1. f.request.op = "send" /\ e.size = f.request.size
        BY <1>2, <2>2, <3>3, SentIsSubmitted
      <4>2. Fits(f.request)
        BY <3>1, <3>3, <4>1 DEF ShortTexts
      <4>3. QED
        BY <4>1, <4>2 DEF Fits
    <3>4. QED
      BY <3>1, <3>2, <3>3
  <2>3. CASE ~UserCall(c)
    <3>1. CASE stack[c] # <<>>
      BY <2>1, <3>1, ClientEvents
    <3>2. CASE stack[c] = <<>>
      <4>1. OnDataArrived(c) \/ ClientNotices(c)
        BY <2>3, <3>2 DEF ClientThread, InCall, ClientStep, SaveMessage,
           FireNewEventCallback, DropMessage, EndDrain, Poll, TakeResponses, Leave,
           Return, Timeout, Processing, Draining, Waiting, Calling
      <4>2. toServer' = toServer
        BY <4>1 DEF OnDataArrived, ClientNotices
      <4>3. QED
        BY <1>2, <2>1, <4>2, NothingSent
    <3>3. QED
      BY <3>1, <3>2
  <2>4. QED
    BY <2>1, <2>2, <2>3
<1>3. QED
  BY <1>1, <1>2 DEF AllFit, Fits

LEMMA ClientKeepsReadInv ==
    ASSUME "split" \notin Faults, ShortTexts, "reuse" \in Faults => RowsOnly,
           SystemInv, LogInv, CountInv, ReadInv, StrandedOK, RecordHistory,
           UNCHANGED serverVars, NEW c \in Connection, ClientThread(c)
    PROVE  ReadInv'
<1>1. AllFit'
  BY ClientKeepsFits DEF ReadInv
<1>2. Reading(c)'
  BY ClientKeepsReading DEF ReadInv, CountInv, Counting
<1>3. ASSUME NEW d \in Connection \ {c}
      PROVE  Reading(d)'
  <2>1. /\ UNCHANGED <<linkUp, serverValid, handshake>>
        /\ stream' = stream /\ serving' = serving
        /\ strandedAtServer' = strandedAtServer
    BY ClientLinks DEF serverVars, handlerVars
  <2>2. /\ packetCounter'[d] = packetCounter[d] /\ toClient'[d] = toClient[d]
        /\ stack'[d] = stack[d] /\ serverMessages'[d] = serverMessages[d]
        /\ toServer'[d] = toServer[d]
    BY ClientMoves DEF Moves, OthersKept
  <2>3. savedAtStart'[d] = savedAtStart[d]
    BY <2>2 DEF RecordHistory
  <2>4. clientValid'[d] = clientValid[d]
    <3>1. \/ clientValid' = clientValid
          \/ clientValid' = [clientValid EXCEPT ![c] = FALSE]
      BY DEF ClientThread, InCall, ClientStep, UserCall, OnDataArrived, SaveMessage,
         FireNewEventCallback, DropMessage, EndDrain, Poll, TakeResponses, Leave,
         Return, Timeout, ClientNotices, transportVars
    <3>2. QED
      BY <3>1 DEF SystemInv, CoreInv, LinksOK
  <2>5. strandedAtClient'[d] = strandedAtClient[d]
    <3>1. \/ strandedAtClient' = strandedAtClient
          \/ \E k : strandedAtClient' = [strandedAtClient EXCEPT ![c] = k]
      BY DEF ClientThread, InCall, ClientStep, UserCall, OnDataArrived, SaveMessage,
         FireNewEventCallback, DropMessage, EndDrain, Poll, TakeResponses, Leave,
         Return, Timeout, ClientNotices, clientVars, Drain, TakenIn
    <3>2. QED
      BY <3>1 DEF StrandedOK
  <2>6. QED
    BY <2>1, <2>2, <2>3, <2>4, <2>5, SameReading DEF ReadInv
<1>4. QED
  BY <1>1, <1>2, <1>3 DEF ReadInv
------------------------------------------------------------------------------
(* A step of the server or the network keeps the invariant                 *)

\* Events that were in the table are found there.
LEMMA RequestedAreFound ==
    ASSUME table \in Seq(Event), NEW p, p.first \in Nat, p.last \in Nat,
           p.first < Len(table), p.first <= p.last
    PROVE  RequestedEvents(p) # <<>>
<1>. DEFINE from == IF FirstId(p.first) = 0 THEN 1 ELSE FirstId(p.first)
            to == IF LastId(p.last) < Len(table) THEN LastId(p.last)
                                                ELSE Len(table)
<1>1. Len(table) \in Nat \ {0}
  BY LenProperties
<1>2. /\ FirstId(p.first) \in 0..LAST_EVENT_NUMBER
      /\ p.first < LAST_EVENT_NUMBER => FirstId(p.first) = p.first + 1
  <2>1. \A a \in Nat, b \in Nat \ {0} :
            a % b \in 0..(b - 1) /\ (a < b => a % b = a)
    OBVIOUS
  <2>2. LAST_EVENT_NUMBER + 1 \in Nat \ {0} /\ p.first + 1 \in Nat
        /\ (LAST_EVENT_NUMBER + 1) - 1 = LAST_EVENT_NUMBER
    BY LastEventNumberAssumption
  <2>3. /\ (p.first + 1) % (LAST_EVENT_NUMBER + 1) \in 0..LAST_EVENT_NUMBER
        /\ p.first < LAST_EVENT_NUMBER =>
               (p.first + 1) % (LAST_EVENT_NUMBER + 1) = p.first + 1
    <3>1. p.first < LAST_EVENT_NUMBER => p.first + 1 < LAST_EVENT_NUMBER + 1
      BY LastEventNumberAssumption
    <3>2. QED
      BY <2>1, <2>2, <3>1
  <2>4. QED
    BY <2>3 DEF FirstId, Uint64
<1>3. /\ LastId(p.last) \in Nat \ {0}
      /\ LastId(p.last) = LAST_EVENT_NUMBER \/ LastId(p.last) > p.first
  BY LastEventNumberAssumption DEF LastId
<1>4. from \in 1..to /\ to \in 1..Len(table)
  BY <1>1, <1>2, <1>3, LastEventNumberAssumption
<1>5. RequestedEvents(p) = SubSeq(table, from, to)
  <2>1. ~(p.first > p.last)
    OBVIOUS
  <2>2. QED
    BY <2>1 DEF RequestedEvents, GetSavedEvents, Rows
<1>. HIDE DEF from, to
<1>6. \A i \in from..to : table[i] \in Event
  BY <1>1, <1>4, ElementOfSeq
<1>7. Len(SubSeq(table, from, to)) = to - from + 1
  <2>1. from \in Int /\ to \in Int /\ from <= to
    BY <1>1, <1>4
  <2>2. QED
    BY <1>6, <2>1, SubSeqProperties
<1>8. Len(<<>>) = 0
  OBVIOUS
<1>9. QED
  BY <1>1, <1>4, <1>5, <1>7, <1>8

\* A packet that waits behind the first of its batch goes on waiting.
LEMMA NextKeepsRest ==
    ASSUME HandlerOK, pc \notin {"idle", "receive"}, NextPacket,
           NEW q \in Held(stream), q # Head(stream)
    PROVE  serving' = serving /\ q \in Held(stream')
<1>1. stream \in Seq(ClientPacket) /\ stream # <<>>
  BY DEF HandlerOK
<1>2. q \in Held(Tail(stream))
  BY <1>1, HeldPopped
<1>3. Tail(stream) # <<>>
  BY <1>2, HeldNothing
<1>4. QED
  BY <1>2, <1>3 DEF NextPacket

\* The request of a call that reads.
LEMMA RequestSays ==
    ASSUME SystemInv, NEW c \in Connection, NEW f \in CallsIn(stack[c]), IsRead(f)
    PROVE  LET q == RequestOf(c, f) IN
           /\ q.type = "SavedEventsRequest" /\ q.pn = f.pn /\ q.hs = handshake[c]
           /\ q.first = f.request.first /\ q.last = f.request.last
           /\ q.first \in Nat /\ q.last \in Nat
           /\ f.pn \in 0..packetCounter[c]
<1>1. f \in GoodCalls(c) /\ f.pn \in 0..packetCounter[c]
  BY StackFacts, CallsTyped, CallsCounted DEF Frame
<1>2. f.request \in Request /\ f.request.op \in {"range", "row"}
  BY <1>1 DEF GoodCalls, CallFrames, GoodRequest, IsRead
<1>3. f.request.first \in Nat /\ f.request.last \in Nat
  BY <1>2 DEF Request
<1>4. QED
  BY <1>1, <1>2, <1>3 DEF RequestOf, Packet, SavedEventsRequest

\* What was in the table when the call began is there.
LEMMA ReadableFound ==
    ASSUME SystemInv, NEW c \in Connection, NEW f \in CallsIn(stack[c]), IsRead(f),
           f.pn # 0, Readable(c, f)
    PROVE  RequestedEvents(RequestOf(c, f)) # <<>>
<1>1. f.pn \in 1..packetCounter[c] /\ packetCounter[c] \in Nat
  BY RequestSays, StackFacts
<1>2. savedAtStart[c][f.pn] <= Len(table) /\ savedAtStart[c][f.pn] \in Nat
  BY <1>1, ElementOfSeq DEF SystemInv, Good, HistoryOK
<1>3. table \in Seq(Event) /\ Len(table) \in Nat
  BY LenProperties DEF SystemInv, CoreInv, StorageOK
<1>4. PICK q : q = RequestOf(c, f)
  OBVIOUS
<1>5. /\ q.first \in Nat /\ q.last \in Nat
      /\ q.first < Len(table) /\ q.first <= q.last
  BY <1>2, <1>3, <1>4, RequestSays DEF Readable
<1>6. QED
  BY <1>3, <1>4, <1>5, RequestedAreFound
\* The server neither loses nor refuses the request of a connection that
\* lives: it answers with all that is in the range.
LEMMA RequestIsServed ==
    ASSUME "storage" \notin Faults, SystemInv, AllFit, Server \/ Network,
           NEW c \in Connection, NEW f \in CallsIn(stack[c]), IsRead(f), f.pn # 0,
           Readable(c, f), linkUp[c], serverValid[c], linkUp'[c],
           serving = c, RequestOf(c, f) \in Held(stream)
    PROVE  \/ serving' = c /\ RequestOf(c, f) \in Held(stream')
           \/ \E p \in Held(toClient'[c]) : Finishes(c, f, p)
<1>1. PICK q : q = RequestOf(c, f)
  OBVIOUS
<1>2. /\ q.type = "SavedEventsRequest" /\ q.pn = f.pn /\ q.hs = handshake[c]
      /\ q \in Held(stream) /\ RequestedEvents(q) # <<>>
  BY <1>1, RequestSays, ReadableFound
<1>3. HandlerOK /\ HandlerRight /\ ChannelsOK
  BY DEF SystemInv, CoreInv
<1>4. stream # <<>> /\ pc \notin {"idle", "receive"}
  BY <1>2, <1>3, HeldNothing DEF HandlerOK
<1>5. CASE UNCHANGED <<serving, stream>>
  BY <1>1, <1>2, <1>5
<1>6. CASE NextPacket /\ q # Head(stream)
  BY <1>1, <1>2, <1>3, <1>4, <1>6, NextKeepsRest
<1>7. CASE IgnorePacket
  BY <1>2, <1>6, <1>7 DEF IgnorePacket, Accepts
<1>8. CASE OnSendEvent
  BY <1>5, <1>8 DEF OnSendEvent, StorageFails
<1>9. CASE SendAck
  BY <1>2, <1>3, <1>6, <1>9 DEF SendAck, HandlerRight
<1>10. CASE OnSavedEventsRequest
  BY <1>2, <1>5, <1>6, <1>10 DEF OnSavedEventsRequest, StorageFails
<1>11. CASE OnNumberOfSavedEventsRequest
  BY <1>2, <1>6, <1>11 DEF OnNumberOfSavedEventsRequest, Dispatching
<1>12. CASE AbandonReply
  <2>1. reply # <<>> /\ reply \in Seq(Event)
    BY <1>3, <1>12 DEF AbandonReply, HandlerOK
  <2>2. Head(reply) = reply[1] /\ 1 \in 1..Len(reply)
    BY <2>1, PopProperties
  <2>3. Fits(Head(reply))
    BY <2>2 DEF AllFit
  <2>4. QED
    BY <1>12, <2>3 DEF AbandonReply
<1>13. CASE SendSavedEvent
  <2>. DEFINE p == SavedEventsResponse(Head(stream).pn, Head(stream).hs,
                                       IsLast(reply), Head(reply))
  <2>1. CASE Tail(reply) # <<>>
    BY <1>5, <1>13, <2>1 DEF SendSavedEvent
  <2>2. CASE Tail(reply) = <<>> /\ q # Head(stream)
    BY <1>6, <1>13, <2>2 DEF SendSavedEvent
  <2>3. CASE Tail(reply) = <<>> /\ q = Head(stream)
    <3>1. reply # <<>> /\ reply \in Seq(Event)
      BY <1>3, <1>13 DEF SendSavedEvent, HandlerOK
    <3>2. Len(reply) = 1
      <4>1. Len(Tail(reply)) = Len(reply) - 1 /\ Len(reply) \in Nat
        BY <3>1, PopProperties
      <4>2. \A s : s = <<>> => Len(s) = 0
        OBVIOUS
      <4>3. Len(Tail(reply)) = 0
        BY <2>3, <4>2, Zenon
      <4>4. QED
        BY <4>1, <4>3
    <3>3. Finishes(c, f, p)
      BY <1>2, <2>3, <3>2 DEF Finishes, SavedEventsResponse, IsLast
    <3>4. toClient' = Sent(toClient, serverValid, c, p)
      BY <1>13 DEF SendSavedEvent, Send
    <3>. HIDE DEF p
    <3>5. toClient'[c] = Append(toClient[c], p)
      BY <3>4 DEF Sent, SystemInv, PerClient
    <3>6. PICK S : S = Replies(c) \cup {TAIL, p}
      OBVIOUS
    <3>7. toClient[c] \in Seq(S) /\ p \in S
      <4>1. toClient[c] \in Seq(Replies(c) \cup {TAIL})
        BY DEF SystemInv, Good, IsChannel
      <4>2. QED
        BY <3>6, <4>1, SeqElements, ElementOfSeq
    <3>8. p \in Held(toClient'[c])
      BY <3>5, <3>7, HeldAppended
    <3>9. QED
      BY <3>3, <3>8
  <2>4. QED
    BY <2>1, <2>2, <2>3
<1>14. CASE \/ CheckProtocolsExecutors
            \/ \E d \in Connection : \/ OnNewEventSaved(d) \/ Handshake(d)
                                     \/ LinkBreaks(d) \/ ServerNotices(d)
  BY <1>5, <1>14 DEF CheckProtocolsExecutors, OnNewEventSaved, Handshake,
     LinkBreaks, ServerNotices, serverVars, handlerVars
<1>15. CASE ReceiveAgain \/ Crash \/ \E d \in Connection : OnNewDataReceived(d)
  BY <1>4, <1>15 DEF ReceiveAgain, Crash, OnNewDataReceived
<1>16. QED
  BY <1>7, <1>8, <1>9, <1>10, <1>11, <1>12, <1>13, <1>14, <1>15
     DEF Server, ServerStep, Network

\* receive() and the decoder take whole packets out of the channel, and all of
\* them go into the batch.
LEMMA BatchIsWhole ==
    ASSUME "split" \notin Faults, SystemInv, NEW c \in Connection,
           TAIL \notin Held(toServer[c]), OnNewDataReceived(c)
    PROVE  /\ Held(toServer[c]) = Held(stream') \cup Held(toServer'[c])
           /\ serving' = c
<1>. DEFINE s == toServer[c]
<1>1. s \in Seq(Packets) /\ toServer = [d \in Connection |-> toServer[d]]
  BY DEF SystemInv, CoreInv, ChannelsOK, IsChannel, Packets
<1>2. PICK received \in Receive(s) :
          /\ toServer' = [toServer EXCEPT ![c] = received.rest]
          /\ stream' \in Decoded(received.batch)
          /\ serving' = c
  BY DEF OnNewDataReceived, Announced
<1>3. PICK n \in 1..Len(s) : received = [batch |-> SubSeq(s, 1, n),
                                         rest  |-> SubSeq(s, n + 1, Len(s))]
  BY <1>2 DEF Receive, WholePackets
<1>. DEFINE b == SubSeq(s, 1, n)
<1>4. /\ Len(b) = n /\ n \in Nat \ {0} /\ b[1] = s[1]
      /\ Held(s) = Held(b) \cup Held(SubSeq(s, n + 1, Len(s)))
  BY <1>1, ChannelInTwo, HeldCut
<1>5. b # <<>> /\ Head(b) # TAIL
  <2>1. s[1] \in Held(s)
    BY <1>4, HeldMember
  <2>2. b[1] \in Held(s)
    BY <1>4, <2>1
  <2>3. b \in Seq(Packets)
    BY <1>1, CutInTwo
  <2>. HIDE DEF b
  <2>4. b # <<>>
    BY <1>4
  <2>5. Head(b) = b[1]
    BY <2>3, <2>4, PopProperties
  <2>6. QED
    BY <2>2, <2>4, <2>5
<1>6. received.batch = b
  BY <1>3
<1>7. stream' = b /\ serving' = c
  BY <1>2, <1>5, <1>6 DEF Decoded
<1>8. toServer'[c] = SubSeq(s, n + 1, Len(s))
  BY <1>1, <1>2, <1>3
<1>9. QED
  BY <1>4, <1>7, <1>8

\* A request that has not been read stays in the channel or goes into the batch.
LEMMA RequestIsRead ==
    ASSUME "split" \notin Faults, SystemInv, Server \/ Network,
           NEW c \in Connection, TAIL \notin Held(toServer[c])
    PROVE  /\ TAIL \notin Held(toServer'[c])
           /\ linkUp'[c] => \A q \in Held(toServer[c]) :
                \/ q \in Held(toServer'[c])
                \/ serving' = c /\ q \in Held(stream')
<1>1. CASE OnNewDataReceived(c)
  BY <1>1, BatchIsWhole
<1>2. CASE Crash
  <2>1. toServer'[c] = <<>> /\ ~linkUp'[c]
    BY <1>2 DEF Crash
  <2>2. QED
    BY <2>1, HeldNothing
<1>3. ASSUME NEW d \in Connection \ {c}, OnNewDataReceived(d)
      PROVE  toServer'[c] = toServer[c]
  <2>1. PICK x : toServer' = [toServer EXCEPT ![d] = x]
    BY <1>3 DEF OnNewDataReceived
  <2>2. QED
    BY <2>1 DEF SystemInv, CoreInv, ChannelsOK
<1>4. CASE toServer'[c] = toServer[c]
  BY <1>4
<1>5. \/ toServer' = toServer \/ Crash
      \/ \E d \in Connection : OnNewDataReceived(d)
  BY DEF Server, ServerStep, Network, IgnorePacket, OnSendEvent,
     ReceiveAgain, OnNewEventSaved, SendAck, OnSavedEventsRequest,
     SendSavedEvent,
     AbandonReply, OnNumberOfSavedEventsRequest, CheckProtocolsExecutors,
     Handshake, LinkBreaks, ServerNotices, transportVars
<1>6. QED
  BY <1>1, <1>2, <1>3, <1>4, <1>5
\* The two ends of a connection are valid while it lives.
LEMMA EndsStayValid ==
    ASSUME SystemInv, Server \/ Network, NEW c \in Connection,
           linkUp[c] => serverValid[c] /\ clientValid[c]
    PROVE  linkUp'[c] => serverValid'[c] /\ clientValid'[c]
<1>1. LinksOK
  BY DEF SystemInv, CoreInv
<1>2. ASSUME NEW d \in Connection, Handshake(d) \/ LinkBreaks(d) \/ ServerNotices(d)
      PROVE  linkUp'[c] => serverValid'[c] /\ clientValid'[c]
  <2>1. CASE d = c
    BY <1>1, <1>2, <2>1 DEF Handshake, LinkBreaks, ServerNotices, LinksOK
  <2>2. CASE d # c
    BY <1>1, <1>2, <2>2 DEF Handshake, LinkBreaks, ServerNotices, LinksOK
  <2>3. QED
    BY <2>1, <2>2
<1>3. CASE Crash
  BY <1>3 DEF Crash
<1>4. UNCHANGED <<linkUp, serverValid, clientValid>>
      \/ Crash \/ \E d \in Connection : Handshake(d) \/ LinkBreaks(d) \/ ServerNotices(d)
  BY DEF Server, ServerStep, Network, IgnorePacket, OnSendEvent,
     ReceiveAgain, OnNewEventSaved, SendAck, OnSavedEventsRequest,
     SendSavedEvent,
     AbandonReply, OnNumberOfSavedEventsRequest, CheckProtocolsExecutors,
     OnNewDataReceived, transportVars
<1>5. QED
  BY <1>2, <1>3, <1>4

\* What is in a channel to a client stays there.
LEMMA RepliesStay ==
    ASSUME SystemInv, Server \/ Network, NEW c \in Connection
    PROVE  Held(toClient[c]) \subseteq Held(toClient'[c])
<1>1. \/ toClient'[c] = toClient[c]
      \/ \E p \in ServerPacket : toClient'[c] = Append(toClient[c], p)
  BY ServerSends DEF Sent, SystemInv, PerClient
<1>2. ASSUME NEW p \in ServerPacket
      PROVE  Held(Append(toClient[c], p)) = Held(toClient[c]) \cup {p}
  <2>1. PICK S : S = Replies(c) \cup {TAIL, p}
    OBVIOUS
  <2>2. toClient[c] \in Seq(Replies(c) \cup {TAIL})
    BY DEF SystemInv, Good, IsChannel
  <2>3. toClient[c] \in Seq(S) /\ p \in S
    BY <2>1, <2>2, SeqElements, ElementOfSeq
  <2>4. QED
    BY <2>3, HeldAppended
<1>3. QED
  BY <1>1, <1>2

\* What a call waits for stays on its way through the server.
LEMMA ServerKeepsOnItsWay ==
    ASSUME "split" \notin Faults, "storage" \notin Faults, SystemInv, AllFit,
           Server \/ Network, UNCHANGED clientVars,
           NEW c \in Connection, NEW f \in CallsIn(stack[c]), IsRead(f), f.pn # 0,
           Readable(c, f), linkUp[c], serverValid[c], linkUp'[c],
           TAIL \notin Held(toServer[c]), handshake'[c] = handshake[c],
           OnItsWay(c, f)
    PROVE  OnItsWay(c, f)'
<1>1. /\ RequestOf(c, f)' = RequestOf(c, f)
      /\ \A p : Finishes(c, f, p)' <=> Finishes(c, f, p)
  BY DEF RequestOf, Packet, SavedEventsRequest, SendEvent,
     NumberOfSavedEventsRequest, Finishes
<1>2. /\ Held(toServer[c])' = Held(toServer'[c]) /\ Held(stream)' = Held(stream')
      /\ Held(toClient'[c]) \subseteq Inside(c)'
  BY DEF Held, Inside
<1>3. Inside(c) \subseteq Inside(c)'
  <2>1. Batched(stack[c])' = Batched(stack[c])
        /\ Kept(serverMessages[c])' = Kept(serverMessages[c])
    BY DEF clientVars, Batched, Kept, Held
  <2>2. Held(toClient[c]) \subseteq Held(toClient'[c])
    BY RepliesStay
  <2>3. Inside(c)' = (Held(toClient'[c]) \cup Batched(stack[c])')
                         \cup Kept(serverMessages[c])'
    BY DEF Inside, Held
  <2>4. QED
    BY <2>1, <2>2, <2>3 DEF Inside
<1>4. CASE RequestOf(c, f) \in Held(toServer[c])
  BY <1>1, <1>2, <1>4, RequestIsRead DEF OnItsWay
<1>5. CASE serving = c /\ RequestOf(c, f) \in Held(stream)
  BY <1>1, <1>2, <1>5, RequestIsServed DEF OnItsWay
<1>6. CASE \E p \in Inside(c) : Finishes(c, f, p)
  BY <1>1, <1>3, <1>6 DEF OnItsWay
<1>7. QED
  BY <1>4, <1>5, <1>6 DEF OnItsWay

\* Nobody reads what is out of reach while the call that misses it is there.
LEMMA ServerLeavesOutOfReach ==
    ASSUME SystemInv, Server \/ Network, UNCHANGED clientVars,
           NEW c \in Connection, NEW f, linkUp'[c],
           handshake'[c] = handshake[c], OutOfReach(c, f)
    PROVE  OutOfReach(c, f)'
<1>1. /\ RequestOf(c, f)' = RequestOf(c, f)
      /\ \A p : Finishes(c, f, p)' <=> Finishes(c, f, p)
  BY DEF RequestOf, Packet, SavedEventsRequest, SendEvent,
     NumberOfSavedEventsRequest, Finishes
<1>2. /\ strandedAtServer \in [Connection -> Nat]
      /\ toServer = [d \in Connection |-> toServer[d]]
      /\ Len(toServer[c]) \in Nat
  BY LenProperties DEF SystemInv, CoreInv, StorageOK, ChannelsOK, IsChannel
<1>3. CASE /\ serving # c /\ Len(toServer[c]) = strandedAtServer[c]
           /\ RequestOf(c, f) \in Held(toServer[c])
  <2>1. ~Crash
    BY DEF Crash
  <2>2. ASSUME NEW d \in Connection, OnNewDataReceived(d)
        PROVE  /\ toServer'[c] = toServer[c] /\ serving' # c
               /\ strandedAtServer'[c] = strandedAtServer[c]
    <3>1. d # c
      BY <1>2, <1>3, <2>2 DEF OnNewDataReceived
    <3>2. PICK x : toServer' = [toServer EXCEPT ![d] = x]
      BY <2>2 DEF OnNewDataReceived
    <3>3. /\ strandedAtServer' = [strandedAtServer EXCEPT ![d] = 0]
          /\ serving' = d
      BY <2>2 DEF OnNewDataReceived
    <3>4. QED
      BY <1>2, <3>1, <3>2, <3>3
  <2>3. ASSUME ReceiveAgain
        PROVE  /\ toServer'[c] = toServer[c] /\ serving' # c
               /\ strandedAtServer'[c] = strandedAtServer[c]
    <3>1. PICK k :
              strandedAtServer' = [strandedAtServer EXCEPT ![serving] = k]
      BY <2>3 DEF ReceiveAgain
    <3>2. toServer' = toServer /\ serving' # c
      BY <2>3, ServerAssumption DEF ReceiveAgain, transportVars
    <3>3. QED
      BY <1>2, <1>3, <3>1, <3>2
  <2>4. \/ UNCHANGED <<toServer, strandedAtServer, serving>>
        \/ ReceiveAgain \/ \E d \in Connection : OnNewDataReceived(d)
    BY <2>1 DEF Server, ServerStep, Network, IgnorePacket, OnSendEvent,
       OnNewEventSaved, SendAck, OnSavedEventsRequest, SendSavedEvent,
       AbandonReply, OnNumberOfSavedEventsRequest, CheckProtocolsExecutors,
       Handshake, LinkBreaks, ServerNotices, NextPacket, StorageFails,
       transportVars, serverVars, handlerVars
  <2>5. /\ toServer'[c] = toServer[c] /\ serving' # c
        /\ strandedAtServer'[c] = strandedAtServer[c]
    BY <1>3, <2>2, <2>3, <2>4
  <2>6. Held(toServer[c])' = Held(toServer[c])
    BY <2>5 DEF Held
  <2>7. QED
    BY <1>1, <1>3, <2>5, <2>6 DEF OutOfReach
<1>4. ASSUME NEW i \in 1..Len(toClient[c]), i <= strandedAtClient[c],
             Finishes(c, f, toClient[c][i])
      PROVE  OutOfReach(c, f)'
  <2>1. \/ toClient'[c] = toClient[c]
        \/ \E p \in ServerPacket : toClient'[c] = Append(toClient[c], p)
    BY ServerSends DEF Sent, SystemInv, PerClient
  <2>2. toClient[c] \in Seq(Replies(c) \cup {TAIL})
    BY DEF SystemInv, Good, IsChannel
  <2>3. ASSUME NEW p \in ServerPacket, toClient'[c] = Append(toClient[c], p)
        PROVE  i \in 1..Len(toClient'[c]) /\ toClient'[c][i] = toClient[c][i]
    <3>1. PICK S : S = Replies(c) \cup {TAIL, p}
      OBVIOUS
    <3>2. toClient[c] \in Seq(S) /\ p \in S /\ Len(toClient[c]) \in Nat
      BY <2>2, <3>1, SeqElements, ElementOfSeq, LenProperties
    <3>3. /\ Len(toClient'[c]) = Len(toClient[c]) + 1
          /\ \A k \in 1..Len(toClient[c]) : toClient'[c][k] = toClient[c][k]
      BY <2>3, <3>2, AppendProperties
    <3>4. QED
      BY <3>2, <3>3
  <2>4. i \in 1..Len(toClient'[c]) /\ toClient'[c][i] = toClient[c][i]
    BY <2>1, <2>3
  <2>5. strandedAtClient' = strandedAtClient
    BY DEF clientVars
  <2>6. QED
    BY <1>1, <1>4, <2>4, <2>5 DEF OutOfReach
<1>5. QED
  BY <1>3, <1>4 DEF OutOfReach

LEMMA ServerKeepsReading ==
    ASSUME "split" \notin Faults, "storage" \notin Faults, SystemInv, LogInv, AllFit,
           Server \/ Network, UNCHANGED clientVars, RecordHistory,
           NEW c \in Connection, Reading(c)
    PROVE  Reading(c)'
<1>1. /\ stack' = stack /\ packetCounter' = packetCounter
      /\ savedAtStart'[c] = savedAtStart[c]
  BY ServerLinks DEF clientVars, RecordHistory
<1>2. /\ linkUp'[c] => serverValid'[c] /\ clientValid'[c]
      /\ TAIL \notin Held(toServer'[c])
  BY EndsStayValid, RequestIsRead DEF Reading
<1>3. ASSUME linkUp'[c], NEW f \in CallsIn(stack[c]), IsRead(f)
      PROVE  InTime(c, f)'
  <2>1. handshake'[c] = handshake[c] /\ linkUp[c]
    <3>1. stack[c] # <<>>
      BY <1>3, NoCalls
    <3>2. QED
      BY <1>3, <3>1, ServerLinks DEF LogInv, Unopened
  <2>2. InTime(c, f) /\ serverValid[c] /\ TAIL \notin Held(toServer[c])
    BY <1>3, <2>1 DEF Reading
  <2>3. Readable(c, f)' <=> Readable(c, f)
    BY <1>1 DEF Readable
  <2>4. ASSUME Readable(c, f), OnItsWay(c, f)
        PROVE  OnItsWay(c, f)'
    BY <1>3, <2>1, <2>2, <2>4, ServerKeepsOnItsWay DEF InTime
  <2>5. OutOfReach(c, f) => OutOfReach(c, f)'
    BY <1>3, <2>1, ServerLeavesOutOfReach
  <2>6. QED
    BY <2>2, <2>3, <2>4, <2>5 DEF InTime
<1>4. /\ ReadsLast(stack[c])' <=> ReadsLast(stack[c])
      /\ LeavesAlone(stack[c])' <=> LeavesAlone(stack[c])
      /\ CallsIn(stack[c])' = CallsIn(stack[c])
      /\ TAIL' = TAIL /\ Held(toServer[c])' = Held(toServer'[c])
  BY <1>1 DEF ReadsLast, LeavesAlone, CallsIn, Held, IsCall, IsRead, TAIL
<1>5. QED
  BY <1>2, <1>3, <1>4 DEF Reading

\* The server makes no event longer.
LEMMA ServerKeepsFits ==
    ASSUME SystemInv, Server \/ Network, AllFit
    PROVE  AllFit'
<1>. /\ table \in Seq(Event) /\ HandlerOK /\ CoreInv
  BY DEF SystemInv, CoreInv, StorageOK
<1>1. EventsInTransit' \subseteq EventsInTransit /\ RowsFromEvents
  BY ServerEvents
<1>2. \A k \in 1..Len(table') : Fits(table'[k])
  BY <1>1 DEF AllFit, RowsFromEvents
<1>3. PICK S : S = {e \in Event : Fits(e)}
  OBVIOUS
<1>4. table \in Seq(S) /\ reply \in Seq(S)
  BY <1>3, SeqElements, ElementOfSeq DEF AllFit, HandlerOK
<1>5. \/ reply' \in {reply, <<>>}
      \/ reply # <<>> /\ reply' = Tail(reply)
      \/ pc = "dispatch" /\ Head(stream).type = "SavedEventsRequest"
         /\ reply' = RequestedEvents(Head(stream))
  BY DEF Server, ServerStep, Network, IgnorePacket, OnSendEvent,
     ReceiveAgain, OnNewEventSaved, SendAck, OnSavedEventsRequest,
     SendSavedEvent,
     AbandonReply, OnNumberOfSavedEventsRequest, CheckProtocolsExecutors,
     Handshake, OnNewDataReceived, Crash, LinkBreaks, ServerNotices,
     NextPacket, StorageFails, Dispatching, serverVars, handlerVars, HandlerOK
<1>6. reply' \in Seq(S)
  <2>1. CASE reply # <<>> /\ reply' = Tail(reply)
    BY <1>4, <2>1, PopProperties
  <2>2. CASE /\ pc = "dispatch" /\ Head(stream).type = "SavedEventsRequest"
             /\ reply' = RequestedEvents(Head(stream))
    <3>1. Head(stream).first \in Nat /\ Head(stream).last \in Nat
      BY <2>2, PacketAtHand, RequestFields
    <3>2. QED
      BY <1>4, <2>2, <3>1, SavedEventsTyped DEF RequestedEvents
  <2>3. CASE reply' \in {reply, <<>>}
    <3>1. <<>> \in Seq(S)
      OBVIOUS
    <3>2. QED
      BY <1>4, <2>3, <3>1
  <2>4. QED
    BY <1>5, <2>1, <2>2, <2>3
<1>7. \A i \in 1..Len(reply') : Fits(reply'[i])
  BY <1>3, <1>6, ElementOfSeq
<1>8. \A e \in EventsInTransit' : Fits(e)
  BY <1>1 DEF AllFit
<1>9. QED
  BY <1>2, <1>7, <1>8 DEF AllFit, Fits
LEMMA ServerKeepsReadInv ==
    ASSUME "split" \notin Faults, "storage" \notin Faults, SystemInv, LogInv,
           ReadInv, Server \/ Network, UNCHANGED clientVars, RecordHistory
    PROVE  ReadInv'
BY ServerKeepsFits, ServerKeepsReading DEF ReadInv

------------------------------------------------------------------------------
(* The theorem                                                             *)

LEMMA InitRead == SystemInit => ReadInv
<1>. SUFFICES ASSUME SystemInit
              PROVE  ReadInv
  OBVIOUS
<1>1. /\ table = <<>> /\ reply = <<>> /\ pc = "idle" /\ stream = <<>>
      /\ \A c \in Connection : toServer[c] = <<>> /\ stack[c] = <<>> /\ ~linkUp[c]
  BY DEF SystemInit, Init, TransportInit, ServerInit, ClientInit
<1>2. EventsInTransit = {}
  BY <1>1 DEF EventsInTransit, EventsIn, Unsaved
<1>3. AllFit
  BY <1>1, <1>2 DEF AllFit
<1>4. \A c \in Connection : Reading(c)
  BY <1>1, HeldNothing, NoCalls DEF Reading, ReadsLast, LeavesAlone
<1>5. QED
  BY <1>3, <1>4 DEF ReadInv

LEMMA StepRead ==
    ASSUME "split" \notin Faults, "storage" \notin Faults,
           ShortTexts, "reuse" \in Faults => RowsOnly,
           SystemInv, LogInv, CountInv, ReadInv, StrandedOK,
           [SystemNext]_systemVars
    PROVE  ReadInv'
<1>1. CASE (Server \/ Network) /\ UNCHANGED clientVars /\ RecordHistory
  BY <1>1, ServerKeepsReadInv
<1>2. ASSUME NEW c \in Connection, ClientThread(c), UNCHANGED serverVars,
             RecordHistory
      PROVE  ReadInv'
  BY <1>2, ClientKeepsReadInv
<1>3. CASE UNCHANGED systemVars
  <2>1. /\ UNCHANGED <<transportVars, serverVars>>
        /\ UNCHANGED <<serverMessages, stack, savedAtStart, strandedAtClient>>
    BY <1>3 DEF systemVars, vars, clientVars, history
  <2>2. /\ UNCHANGED <<linkUp, serverValid, clientValid, toServer, toClient,
                       handshake>>
        /\ UNCHANGED <<table, pc, serving, stream, reply, strandedAtServer>>
    BY <2>1 DEF transportVars, serverVars, handlerVars
  <2>3. EventsInTransit' = EventsInTransit
    BY <2>2 DEF EventsInTransit, EventsIn, Unsaved
  <2>4. AllFit'
    BY <2>2, <2>3 DEF ReadInv, AllFit, Fits
  <2>5. \A c \in Connection : Reading(c)'
    BY <2>1, <2>2, SameReading DEF ReadInv
  <2>6. QED
    BY <2>4, <2>5 DEF ReadInv
<1>4. QED
  BY <1>1, <1>2, <1>3 DEF SystemNext

\* What is out of reach is stranded.
LEMMA StrandedThere ==
    ASSUME SystemInv, StrandedOK, NEW c \in Connection, NEW f, OutOfReach(c, f)
    PROVE  Stranded(c, f)
<1>1. strandedAtServer[c] \in Nat /\ strandedAtClient[c] \in Nat
  BY DEF SystemInv, CoreInv, StorageOK, StrandedOK
<1>2. CASE /\ Len(toServer[c]) = strandedAtServer[c]
           /\ RequestOf(c, f) \in Held(toServer[c])
  <2>1. PICK i \in 1..Len(toServer[c]) : toServer[c][i] = RequestOf(c, f)
    BY <1>2, HeldMember
  <2>2. QED
    BY <1>2, <2>1 DEF Stranded
<1>3. ASSUME NEW i \in 1..Len(toClient[c]), i <= strandedAtClient[c],
             Finishes(c, f, toClient[c][i])
      PROVE  Stranded(c, f)
  <2>1. Len(toClient[c]) \in Nat
    BY LenProperties DEF SystemInv, Good, IsChannel
  <2>2. i \in 1..strandedAtClient[c]
    BY <1>1, <1>3, <2>1
  <2>3. QED
    BY <1>3, <2>2 DEF Stranded
<1>4. QED
  BY <1>2, <1>3 DEF OutOfReach

\* What the invariant says of a call that waits or has stopped waiting.
LEMMA ReadInvImplies ==
    ASSUME SystemInv, StrandedOK, ReadInv
    PROVE  SavedEventsCanBeRead
<1>. SUFFICES ASSUME NEW c \in Connection, NEW f \in CallsIn(stack[c]),
                     f.request.op \in {"range", "row"}, linkUp[c],
                     Readable(c, f)
              PROVE  /\ f.at = "wait" => OnItsWay(c, f)
                     /\ (f.at = "leave" /\ "late" \notin Faults)
                            => Answered(f) \/ Stranded(c, f)
  BY FramesAreCalls DEF SavedEventsCanBeRead, Readable
<1>1. IsRead(f)
  BY CallsMember DEF IsRead
<1>2. InTime(c, f)
  BY <1>1 DEF ReadInv, Reading
<1>3. QED
  BY <1>2, StrandedThere DEF InTime, Answered

\* A call of getSavedEvents that asks for events that are in the table when it
\* is made does not wait in vain while its connection holds (REQ_0010): its
\* request is on the way to the server or in its hands, where
\* onPacket(SavedEventsRequest) answers with the whole range, or the response
\* that is marked last is on its way, and the client drops nothing of it before
\* the call has read it.  If the answer is not late, such a call fails only
\* because the request, or that response, was taken into a QTcpSocket by the
\* receive() at the end of a slot of readyRead, where no signal announces it
\* until more bytes come, which the client does not cause while it is blocked.
\* A batch that cuts a packet loses the request or the response; a database
\* that fails keeps the server from answering; an event that fits into a
\* SendEvent but not into a SavedEventsResponse ends the answer before its last
\* packet.  The invariant does not follow the order of the responses of one
\* range, so it has no ranges where responses are overwritten in freed memory.
THEOREM SavedEventsReadable ==
    ASSUME "split" \notin Faults, "storage" \notin Faults, ShortTexts,
           "reuse" \in Faults => RowsOnly
    PROVE  SystemSpec => []SavedEventsCanBeRead
<1>1. SystemInit => ReadInv
  BY InitRead
<1>2. SystemInv /\ LogInv /\ CountInv /\ StrandedOK /\ ReadInv
          /\ [SystemNext]_systemVars => ReadInv'
  BY StepRead
<1>3. SystemInv /\ StrandedOK /\ ReadInv => SavedEventsCanBeRead
  BY ReadInvImplies
<1>4. QED
  BY <1>1, <1>2, <1>3, SystemInvariant, LogInvariant, CountInvariant,
     StrandedTyped, PTL DEF SystemSpec
=============================================================================
