--------------------------- MODULE SessionProofs ---------------------------
(***************************************************************************)
(* What Session keeps for every number of windows, connections and         *)
(* invitations: its types, the state of a window between its slots, and    *)
(* that the server serves what a window calls connected.                   *)
(***************************************************************************)
EXTENDS Session, SequenceLemmas

------------------------------------------------------------------------------
(* What a reader gets of a channel                                         *)

\* receive() invents no packets.
LEMMA ReceiveKeeps ==
    ASSUME NEW S, NEW s \in Seq(S \cup {TAIL}), NEW r \in Receive(s)
    PROVE  r.batch \in Seq(S \cup {TAIL}) /\ r.rest \in Seq(S \cup {TAIL})
<1>1. Len(s) \in Nat
  BY LenProperties
<1>2. CASE r \in WholePackets(s)
  <2>1. PICK n \in 1..Len(s) : r = [batch |-> SubSeq(s, 1, n),
                                    rest  |-> SubSeq(s, n + 1, Len(s))]
    BY <1>2 DEF WholePackets
  <2>2. n \in Int /\ n <= Len(s) /\ n + 1 \in Nat \ {0} /\ Len(s) \in Int
    BY <1>1
  <2>3. QED
    BY <2>1, <2>2, PartOfSeq
<1>3. CASE r \in CutPacket(s)
  <2>1. PICK n \in 1..Len(s) :
            r = [batch |-> SubSeq(s, 1, n - 1),
                 rest  |-> <<TAIL>> \o SubSeq(s, n + 1, Len(s))]
    BY <1>3 DEF CutPacket
  <2>2. /\ n - 1 \in Int /\ n - 1 <= Len(s)
        /\ n + 1 \in Nat \ {0} /\ Len(s) \in Int /\ Len(s) <= Len(s)
    BY <1>1
  <2>3. SubSeq(s, 1, n - 1) \in Seq(S \cup {TAIL})
    BY <2>2, PartOfSeq
  <2>4. SubSeq(s, n + 1, Len(s)) \in Seq(S \cup {TAIL})
    BY <2>2, PartOfSeq
  <2>5. <<TAIL>> \in Seq(S \cup {TAIL})
    OBVIOUS
  <2>6. <<TAIL>> \o SubSeq(s, n + 1, Len(s)) \in Seq(S \cup {TAIL})
    BY <2>4, <2>5, ConcatProperties
  <2>7. QED
    BY <2>1, <2>3, <2>6
<1>4. QED
  BY <1>2, <1>3 DEF Receive

\* Neither does the decoder.
LEMMA DecodedKeeps ==
    ASSUME NEW S, NEW b \in Seq(S), NEW packets \in Decoded(b)
    PROVE  packets \in Seq(S)
<1>1. Len(b) \in Nat
  BY LenProperties
<1>2. CASE b # <<>> /\ Head(b) = TAIL
  <2>1. PICK n \in 2..(Len(b) + 1) : packets = SubSeq(b, n, Len(b))
    BY <1>2 DEF Decoded
  <2>2. n \in Nat \ {0} /\ Len(b) \in Int /\ Len(b) <= Len(b)
    BY <1>1
  <2>3. QED
    BY <2>1, <2>2, PartOfSeq
<1>3. CASE ~(b # <<>> /\ Head(b) = TAIL)
  BY <1>3 DEF Decoded
<1>4. QED
  BY <1>2, <1>3
------------------------------------------------------------------------------
(* The inductive invariant                                                 *)

AnyAck == [type: {"Ack"}, hs: Nat]

\* The types of everything the proof reads; what is on the way to the server
\* is not among it.
Types ==
    /\ linkUp \in [Connection -> BOOLEAN]
    /\ serverValid \in [Connection -> BOOLEAN]
    /\ clientValid \in [Connection -> BOOLEAN]
    /\ pendingConnections \subseteq Connection
    /\ waiting \subseteq Connection
    /\ executors \subseteq Connection
    /\ old \subseteq waiting
    /\ untried \subseteq waiting
    /\ handshakeId \in Nat
    /\ serverId \in [Connection -> Nat]
    /\ \A c \in Connection : serverId[c] <= handshakeId
    /\ owner \in [Connection -> Window \cup {NoWindow}]
    /\ phase \in [Window -> Phase]
    /\ transportConnection \in [Window -> Connection \cup {NoConnection}]
    /\ invites \in [Window -> 0..MaxInvites]
    /\ m_handshake \in [Window -> Connection \cup {NoConnection}]
    /\ m_protocolExecutor \in [Window -> Connection \cup {NoConnection}]
    /\ connectEnabled \in [Window -> BOOLEAN]

\* A connection is in one list of the server at most, and only once a window
\* has opened it.
Lists ==
    /\ pendingConnections \cap waiting = {}
    /\ executors \cap (pendingConnections \cup waiting) = {}
    /\ \A c \in Known : owner[c] # NoWindow

\* A window holds one connection at most: the one it is opening or the one it
\* shows, and the latter is valid and the executor's.
Holds(w) ==
    LET opening == transportConnection[w]
        shown == m_handshake[w]
    IN
    /\ opening # NoConnection =>
           owner[opening] = w /\ phase[w] \in {"inviting", "receiving", "connectBox"}
    /\ phase[w] \in {"inviting", "receiving"} => opening # NoConnection
    /\ shown # NoConnection =>
           /\ owner[shown] = w /\ clientValid[shown]
           /\ m_protocolExecutor[w] = shown
           /\ phase[w] \in {"idle", "counting", "sending", "sendBox"}
    /\ phase[w] # "counting" => (connectEnabled[w] <=> shown = NoConnection)

Windows ==
    /\ \A w \in Window : Holds(w)
    /\ \A c \in Connection : clientValid[c] =>
           /\ owner[c] \in Window
           /\ c \in {transportConnection[owner[c]], m_handshake[owner[c]]}

\* The server answers a connection once: while its end is valid, an Ack under
\* way is the executor's, and there is none without an executor.
Answers(c) ==
    IF serverValid[c] THEN {Ack(serverId[d]) : d \in executors \cap {c}} ELSE AnyAck

AnswersOnly ==
    /\ toClient \in [Connection -> Seq(AnyAck \cup {TAIL})]
    /\ \A c \in Connection : toClient[c] \in Seq(Answers(c) \cup {TAIL})
    /\ \A c \in Connection : owner[c] = NoWindow => toClient[c] = <<>>

\* What the window shows has an executor, unless the server's end is lost.
Served ==
    /\ clientId \in [Connection -> Nat]
    /\ \A w \in Window :
           LET c == m_handshake[w] IN
           (c # NoConnection /\ serverValid[c])
               => c \in executors /\ serverId[c] = clientId[c]

SessionInv == Types /\ Lists /\ Windows /\ AnswersOnly /\ Served
------------------------------------------------------------------------------
(* Types and lists                                                         *)

\* Nothing is open at the start.
LEMMA InitSession == SessionInit => SessionInv
<1>. SUFFICES ASSUME SessionInit
              PROVE  SessionInv
  OBVIOUS
<1>1. Types
  BY WindowAssumption DEF SessionInit, AcceptInit, WindowInit, Types, NoId, Phase
<1>2. Lists
  BY DEF SessionInit, AcceptInit, Lists, Known
<1>3. Windows
  BY DEF SessionInit, WindowInit, Windows, Holds
<1>4. AnswersOnly
  <2>1. \A S : <<>> \in Seq(S)
    BY EmptySeq
  <2>2. QED
    BY <2>1 DEF SessionInit, AnswersOnly
<1>5. Served
  BY DEF SessionInit, WindowInit, Served, NoId
<1>6. QED
  BY <1>1, <1>2, <1>3, <1>4, <1>5 DEF SessionInv

\* The steps of the server keep the types.
LEMMA ServerKeepsTypes ==
    ASSUME Types, ServerStep, UNCHANGED windowVars
    PROVE  Types'
<1>1. CASE OnNewConnection
  BY <1>1 DEF OnNewConnection, Types, socketVars, windowVars
<1>2. CASE StartTick
  BY <1>2 DEF StartTick, Types, windowVars, NotAged, Closed
<1>3. CASE EndTick
  BY <1>3 DEF EndTick, Types, socketVars, windowVars, Alive, NoId
<1>4. ASSUME NEW c \in Connection, HandshakeFails(c)
      PROVE  Types'
  BY <1>4 DEF HandshakeFails, Trying, Types, windowVars
<1>5. ASSUME NEW c \in Connection, AnswerFails(c)
      PROVE  Types'
  BY <1>5 DEF AnswerFails, Invited, Trying, NextId, Types, windowVars
<1>6. ASSUME NEW c \in Connection, HandshakeDone(c)
      PROVE  Types'
  BY <1>6 DEF HandshakeDone, Invited, Trying, NextId, NoLongerWaitingFor, Types,
     windowVars
<1>7. CASE Restart
  BY <1>7 DEF Restart, Types, windowVars, NoId
<1>8. ASSUME NEW c \in Connection,
             GrowsOld(c) \/ ExecutorReads(c) \/ LinkBreaks(c) \/ ServerNotices(c)
      PROVE  Types'
  BY <1>8 DEF GrowsOld, ExecutorReads, LinkBreaks, ServerNotices, Types,
     socketVars, acceptVars, windowVars
<1>9. QED
  BY <1>1, <1>2, <1>3, <1>4, <1>5, <1>6, <1>7, <1>8 DEF ServerStep, TickStep

\* So do the steps of a window inside its slots and those of its user.
LEMMA WindowKeepsTypes ==
    ASSUME Types, NEW w \in Window, SlotStep(w) \/ UserStep(w),
           UNCHANGED acceptVars
    PROVE  Types'
<1>. USE DEF In, Goes, Phase, UpdateWindow
<1>1. CASE SendInvite(w)
  BY <1>1, WindowAssumption DEF SendInvite, Types, acceptVars
<1>2. CASE HandshakeFailed(w)
  BY <1>2, WindowAssumption DEF HandshakeFailed, Types, acceptVars, socketVars
<1>3. CASE ReceiveNothing(w)
  BY <1>3 DEF ReceiveNothing, Types, acceptVars, socketVars
<1>4. CASE TakeAnswer(w)
  <2>. DEFINE c == transportConnection[w]
              Untaken == UNCHANGED <<transportConnection, m_handshake,
                                     m_protocolExecutor, invites>>
              Taken ==
                  /\ transportConnection' =
                         [transportConnection EXCEPT ![w] = NoConnection]
                  /\ m_handshake' = [m_handshake EXCEPT ![w] = c]
                  /\ m_protocolExecutor' = [m_protocolExecutor EXCEPT ![w] = c]
                  /\ invites' = [invites EXCEPT ![w] = 0]
  <2>1. /\ \/ Goes(w, "inviting") /\ Untaken
           \/ Goes(w, "counting") /\ Taken
        /\ UNCHANGED <<linkUp, serverValid, clientValid, owner, connectEnabled>>
    BY <1>4 DEF TakeAnswer, NewExecutor
  <2>2. phase' \in [Window -> Phase]
    BY <2>1 DEF Types
  <2>3. Untaken \/ Taken
    BY <2>1
  <2>4. QED
    BY <2>1, <2>2, <2>3, WindowAssumption DEF Types, acceptVars
<1>5. CASE ModelIsSet(w) \/ EventSent(w) \/ EventNotSent(w)
  BY <1>5 DEF ModelIsSet, EventSent, EventNotSent, Types, acceptVars, socketVars
<1>6. CASE ConnectRefused(w) \/ SendEvent(w) \/ CloseSendBox(w)
  BY <1>6 DEF ConnectRefused, SendEvent, CloseSendBox, ClickConnect, Types,
     acceptVars, socketVars
<1>7. CASE CloseConnectBox(w)
  BY <1>7 DEF CloseConnectBox, Dropped, Types, acceptVars
<1>8. QED
  BY <1>1, <1>2, <1>3, <1>4, <1>5, <1>6, <1>7 DEF SlotStep, UserStep

\* And opening a connection, and noticing that one is lost.
LEMMA OpeningKeepsTypes ==
    ASSUME Types, NEW w \in Window, NEW c \in Connection,
           Connect(w, c) \/ ConnectTimesOut(w, c), Accepts(c)
    PROVE  Types'
<1>1. CASE Connect(w, c)
  BY <1>1 DEF Connect, Opens, Goes, Phase, Accepts, Types
<1>2. CASE ConnectTimesOut(w, c)
  BY <1>2 DEF ConnectTimesOut, Opens, Goes, Phase, Accepts, Types
<1>3. QED
  BY <1>1, <1>2

LEMMA NoticingKeepsTypes ==
    ASSUME Types, NEW c \in Connection, ClientNotices(c), UNCHANGED acceptVars
    PROVE  Types'
  BY DEF ClientNotices, OnConnectionExpired, UpdateWindow, acceptVars, Types

\* Every step keeps the types.
LEMMA NextTypes == Types /\ [SessionNext]_sessionVars => Types'
<1>. SUFFICES ASSUME Types, [SessionNext]_sessionVars
              PROVE  Types'
  OBVIOUS
<1>1. CASE UNCHANGED sessionVars
  BY <1>1 DEF sessionVars, socketVars, acceptVars, windowVars, Types
<1>2. CASE SessionNext
  BY <1>2, ServerKeepsTypes, WindowKeepsTypes, OpeningKeepsTypes,
     NoticingKeepsTypes DEF SessionNext
<1>3. QED
  BY <1>1, <1>2

\* What leaves the owners and the lists alone keeps the lists apart.
LEMMA SameLists ==
    ASSUME Lists, UNCHANGED <<owner, pendingConnections, waiting, executors>>
    PROVE  Lists'
  BY DEF Lists, Known

\* Every step keeps a connection in one list at most.
LEMMA NextLists ==
    Types /\ Lists /\ [SessionNext]_sessionVars => Lists'
<1>. SUFFICES ASSUME Types, Lists, [SessionNext]_sessionVars
              PROVE  Lists'
  OBVIOUS
<1>1. CASE UNCHANGED sessionVars
  BY <1>1, SameLists DEF sessionVars, acceptVars, windowVars
<1>2. CASE ServerStep /\ UNCHANGED windowVars
  <2>1. UNCHANGED owner
    BY <1>2 DEF windowVars
  <2>2. CASE OnNewConnection
    BY <2>1, <2>2 DEF OnNewConnection, Lists, Known
  <2>3. CASE StartTick
    BY <2>1, <2>3 DEF StartTick, NotAged, Lists, Known
  <2>4. CASE EndTick
    BY <2>1, <2>4 DEF EndTick, Alive, Lists, Known
  <2>5. ASSUME NEW c \in Connection, HandshakeFails(c) \/ AnswerFails(c)
        PROVE  Lists'
    BY <2>1, <2>5, SameLists DEF HandshakeFails, AnswerFails
  <2>6. ASSUME NEW c \in Connection, HandshakeDone(c)
        PROVE  Lists'
    <3>1. c \in waiting /\ UNCHANGED pendingConnections
      BY <2>6 DEF HandshakeDone, Invited, Trying, Types
    <3>2. executors' = executors \cup {c} /\ waiting' = waiting \ {c}
      BY <2>6 DEF HandshakeDone, NoLongerWaitingFor
    <3>3. QED
      BY <2>1, <3>1, <3>2 DEF Lists, Known
  <2>7. CASE Restart
    BY <2>1, <2>7 DEF Restart, Lists, Known
  <2>8. ASSUME NEW c \in Connection,
               \/ GrowsOld(c) \/ ExecutorReads(c)
               \/ LinkBreaks(c) \/ ServerNotices(c)
        PROVE  Lists'
    BY <2>1, <2>8, SameLists DEF GrowsOld, ExecutorReads, LinkBreaks,
       ServerNotices, acceptVars
  <2>9. QED
    BY <1>2, <2>2, <2>3, <2>4, <2>5, <2>6, <2>7, <2>8 DEF ServerStep, TickStep
<1>3. ASSUME NEW w \in Window, SlotStep(w) \/ UserStep(w), UNCHANGED acceptVars
      PROVE  Lists'
  <2>1. UNCHANGED owner
    BY <1>3 DEF SlotStep, UserStep, SendInvite, HandshakeFailed, ReceiveNothing,
       TakeAnswer, ModelIsSet, EventSent, EventNotSent, ConnectRefused,
       CloseConnectBox, SendEvent, CloseSendBox
  <2>2. QED
    BY <1>3, <2>1, SameLists DEF acceptVars
<1>4. ASSUME NEW w \in Window, NEW c \in Connection,
             Connect(w, c) \/ ConnectTimesOut(w, c), Accepts(c)
      PROVE  Lists'
  <2>1. owner[c] = NoWindow /\ owner' = [owner EXCEPT ![c] = w]
    BY <1>4 DEF Connect, ConnectTimesOut, Opens, Fresh
  <2>2. c \notin Known
    BY <2>1 DEF Lists
  <2>3. /\ pendingConnections' = pendingConnections \cup {c}
        /\ UNCHANGED <<waiting, executors>>
    BY <1>4 DEF Accepts
  <2>4. \A d \in Known' : owner'[d] # NoWindow
    BY <2>1, <2>3, WindowAssumption DEF Lists, Known, Types
  <2>5. QED
    BY <2>2, <2>3, <2>4 DEF Lists, Known
<1>5. ASSUME NEW c \in Connection, ClientNotices(c), UNCHANGED acceptVars
      PROVE  Lists'
  BY <1>5, SameLists DEF ClientNotices, acceptVars
<1>6. QED
  BY <1>1, <1>2, <1>3, <1>4, <1>5 DEF SessionNext
------------------------------------------------------------------------------
(* What a window holds                                                     *)

windowState == <<owner, phase, transportConnection, m_handshake,
                 m_protocolExecutor, connectEnabled, clientValid>>

\* A step of one window leaves what the others hold.
LEMMA OthersHold ==
    ASSUME Types, Windows, NEW w \in Window, NEW v \in Window, v # w,
           UNCHANGED <<phase[v], transportConnection[v], m_handshake[v],
                       m_protocolExecutor[v], connectEnabled[v]>>,
           \A c \in Connection :
               owner[c] = v => owner'[c] = v /\ (clientValid[c] => clientValid'[c])
    PROVE  Holds(v)'
  BY DEF Types, Windows, Holds

\* updateWindow() sets the button to what the handshake says.
LEMMA Updated ==
    ASSUME Types, NEW w \in Window, UpdateWindow(w)
    PROVE  connectEnabled'[w] <=> m_handshake'[w] = NoConnection
<1>1. connectEnabled \in [Window -> BOOLEAN]
  BY DEF Types
<1>2. connectEnabled' = [connectEnabled EXCEPT ![w] = m_handshake'[w] = NoConnection]
  BY DEF UpdateWindow
<1>3. QED
  BY <1>1, <1>2, Zenon

\* The steps of a window that neither open nor close nor take an answer.
LEMMA PhaseStepHolds ==
    ASSUME Types, Windows, NEW w \in Window,
           \/ SendInvite(w) \/ HandshakeFailed(w) \/ ReceiveNothing(w)
           \/ ModelIsSet(w) \/ EventSent(w) \/ EventNotSent(w)
           \/ ConnectRefused(w) \/ SendEvent(w) \/ CloseSendBox(w)
    PROVE  Windows'
<1>1. UNCHANGED <<owner, transportConnection, m_handshake, m_protocolExecutor,
                  clientValid>>
  BY DEF SendInvite, HandshakeFailed, ReceiveNothing, ModelIsSet, EventSent,
     EventNotSent, ConnectRefused, SendEvent, CloseSendBox, socketVars
<1>2. \E p \in Phase : phase' = [phase EXCEPT ![w] = p]
  BY DEF SendInvite, HandshakeFailed, ReceiveNothing, ModelIsSet, EventSent,
     EventNotSent, ConnectRefused, SendEvent, CloseSendBox, Goes, Phase
<1>3. UNCHANGED connectEnabled \/ UpdateWindow(w)
  BY DEF SendInvite, HandshakeFailed, ReceiveNothing, ModelIsSet, EventSent,
     EventNotSent, ConnectRefused, SendEvent, CloseSendBox
<1>4. Holds(w)'
  <2>. USE <1>1 DEF In, Goes, Types, Windows, Holds, Phase, socketVars
  <2>1. CASE SendInvite(w)
    BY <2>1 DEF SendInvite
  <2>2. CASE HandshakeFailed(w)
    BY <2>2 DEF HandshakeFailed
  <2>3. CASE ReceiveNothing(w)
    BY <2>3 DEF ReceiveNothing
  <2>4. CASE ModelIsSet(w) \/ EventSent(w)
    <3>1. connectEnabled'[w] <=> m_handshake'[w] = NoConnection
      BY <2>4, Updated DEF ModelIsSet, EventSent
    <3>2. phase[w] \in {"counting", "sending"} /\ phase'[w] = "idle"
      BY <2>4 DEF ModelIsSet, EventSent
    <3>3. QED
      BY <3>1, <3>2
  <2>6. CASE EventNotSent(w)
    BY <2>6 DEF EventNotSent
  <2>7. CASE ConnectRefused(w)
    BY <2>7 DEF ConnectRefused, ClickConnect
  <2>8. CASE SendEvent(w)
    BY <2>8 DEF SendEvent
  <2>9. CASE CloseSendBox(w)
    BY <2>9 DEF CloseSendBox
  <2>10. QED
    BY <2>1, <2>2, <2>3, <2>4, <2>6, <2>7, <2>8, <2>9
<1>5. ASSUME NEW v \in Window, v # w
      PROVE  Holds(v)'
  <2>1. UNCHANGED <<phase[v], connectEnabled[v]>>
    BY <1>2, <1>3, <1>5 DEF Types, UpdateWindow
  <2>2. QED
    BY <1>1, <1>5, <2>1, OthersHold
<1>6. QED
  BY <1>1, <1>4, <1>5 DEF Windows

\* A window that may open a connection has none.
LEMMA ClickedHoldsNone ==
    ASSUME Types, Windows, NEW w \in Window, ClickConnect(w)
    PROVE  /\ transportConnection[w] = NoConnection
           /\ m_handshake[w] = NoConnection
           /\ connectEnabled[w]
           /\ \A c \in Connection : clientValid[c] => owner[c] # w
<1>1. /\ transportConnection[w] = NoConnection
      /\ m_handshake[w] = NoConnection
      /\ connectEnabled[w]
  BY DEF Windows, Holds, ClickConnect, In
<1>2. QED
  BY <1>1, WindowAssumption DEF Windows

LEMMA OpeningHolds ==
    ASSUME Types, Windows, NEW w \in Window, NEW c \in Connection,
           Connect(w, c) \/ ConnectTimesOut(w, c)
    PROVE  Windows'
<1>1. /\ ClickConnect(w) /\ owner[c] = NoWindow
      /\ owner' = [owner EXCEPT ![c] = w]
      /\ UNCHANGED <<m_handshake, m_protocolExecutor, connectEnabled>>
  BY DEF Connect, ConnectTimesOut, Opens, Fresh
<1>2. ASSUME NEW v \in Window, v # w
      PROVE  Holds(v)'
  <2>1. UNCHANGED <<phase[v], transportConnection[v]>>
    BY <1>2 DEF Connect, ConnectTimesOut, Goes, Types
  <2>2. \A d \in Connection : owner[d] = v => owner'[d] = v
    BY <1>1, WindowAssumption DEF Types
  <2>3. \A d \in Connection : clientValid[d] => clientValid'[d]
    BY DEF Connect, ConnectTimesOut, Types
  <2>4. QED
    BY <1>1, <1>2, <2>1, <2>2, <2>3, OthersHold
<1>3. CASE Connect(w, c)
  <2>1. /\ transportConnection' = [transportConnection EXCEPT ![w] = c]
        /\ clientValid' = [clientValid EXCEPT ![c] = TRUE]
        /\ phase' = [phase EXCEPT ![w] = "inviting"]
    BY <1>3 DEF Connect, Goes
  <2>2. Holds(w)'
    <3>1. transportConnection'[w] = c /\ owner'[c] = w /\ phase'[w] = "inviting"
      BY <1>1, <2>1 DEF Types
    <3>2. m_handshake'[w] = NoConnection
      BY <1>1, ClickedHoldsNone
    <3>3. connectEnabled'[w] <=> m_handshake'[w] = NoConnection
      BY <1>1, <3>2, ClickedHoldsNone
    <3>4. c # NoConnection
      BY WindowAssumption
    <3>5. QED
      BY <3>1, <3>2, <3>3, <3>4 DEF Holds
  <2>3. ASSUME NEW d \in Connection, clientValid'[d]
        PROVE  /\ owner'[d] \in Window
               /\ d \in {transportConnection'[owner'[d]], m_handshake'[owner'[d]]}
    BY <1>1, <2>1, <2>3, ClickedHoldsNone DEF Types, Windows
  <2>4. QED
    BY <1>2, <2>2, <2>3 DEF Windows
<1>4. CASE ConnectTimesOut(w, c)
  <2>1. /\ phase' = [phase EXCEPT ![w] = "connectBox"]
        /\ UNCHANGED <<clientValid, transportConnection>>
    BY <1>4 DEF ConnectTimesOut, Goes
  <2>2. Holds(w)'
    BY <1>1, <2>1, ClickedHoldsNone DEF Types, Holds
  <2>3. ~clientValid[c]
    BY <1>1, WindowAssumption DEF Windows
  <2>4. ASSUME NEW d \in Connection, clientValid'[d]
        PROVE  /\ owner'[d] \in Window
               /\ d \in {transportConnection'[owner'[d]], m_handshake'[owner'[d]]}
    BY <1>1, <2>1, <2>3, <2>4 DEF Types, Windows
  <2>5. QED
    BY <1>2, <2>2, <2>4 DEF Windows
<1>5. QED
  BY <1>3, <1>4

LEMMA ClosingHolds ==
    ASSUME Types, Windows, NEW w \in Window, CloseConnectBox(w)
    PROVE  Windows'
<1>. DEFINE c == transportConnection[w]
<1>1. /\ phase[w] = "connectBox" /\ phase' = [phase EXCEPT ![w] = "idle"]
      /\ transportConnection' = [transportConnection EXCEPT ![w] = NoConnection]
      /\ clientValid' = [d \in Connection |-> clientValid[d] /\ d # c]
      /\ UNCHANGED <<owner, m_handshake, m_protocolExecutor>>
      /\ UpdateWindow(w)
  BY DEF CloseConnectBox, In, Goes, Dropped
<1>2. m_handshake[w] = NoConnection
  BY <1>1 DEF Windows, Holds
<1>3. Holds(w)'
  <2>1. connectEnabled'[w] <=> m_handshake'[w] = NoConnection
    BY <1>1, Updated
  <2>2. phase'[w] = "idle" /\ transportConnection'[w] = NoConnection
    BY <1>1 DEF Types
  <2>3. QED
    BY <1>1, <1>2, <2>1, <2>2 DEF Holds
<1>4. ASSUME NEW v \in Window, v # w
      PROVE  Holds(v)'
  <2>1. UNCHANGED <<phase[v], transportConnection[v], connectEnabled[v]>>
    BY <1>1, <1>4 DEF Types, UpdateWindow
  <2>2. c # NoConnection => owner[c] = w
    BY DEF Windows, Holds
  <2>3. \A d \in Connection : owner[d] = v => (clientValid[d] => clientValid'[d])
    BY <1>1, <1>4, <2>2, WindowAssumption
  <2>4. QED
    BY <1>1, <1>4, <2>1, <2>3, OthersHold
<1>5. ASSUME NEW d \in Connection, clientValid'[d]
      PROVE  /\ owner'[d] \in Window
             /\ d \in {transportConnection'[owner'[d]], m_handshake'[owner'[d]]}
  <2>1. clientValid[d] /\ d # c
    BY <1>1, <1>5
  <2>2. owner[d] # w
    BY <1>2, <2>1, WindowAssumption DEF Windows
  <2>3. QED
    BY <1>1, <2>1, <2>2 DEF Types, Windows
<1>6. QED
  BY <1>3, <1>4, <1>5 DEF Windows

\* What TakeAnswer does to the window, whatever the channel brings.
LEMMA AnswerTakenOrNot ==
    ASSUME NEW w \in Window, TakeAnswer(w)
    PROVE  /\ phase[w] = "receiving" /\ clientValid[transportConnection[w]]
           /\ UNCHANGED <<linkUp, serverValid, clientValid, owner, connectEnabled>>
           /\ \/ /\ phase' = [phase EXCEPT ![w] = "inviting"]
                 /\ UNCHANGED <<transportConnection, m_handshake,
                                m_protocolExecutor, clientId>>
              \/ /\ phase' = [phase EXCEPT ![w] = "counting"]
                 /\ transportConnection' =
                        [transportConnection EXCEPT ![w] = NoConnection]
                 /\ m_handshake' =
                        [m_handshake EXCEPT ![w] = transportConnection[w]]
                 /\ m_protocolExecutor' =
                        [m_protocolExecutor EXCEPT ![w] = transportConnection[w]]
  BY DEF TakeAnswer, In, Goes, NewExecutor

LEMMA TakingHolds ==
    ASSUME Types, Windows, NEW w \in Window, TakeAnswer(w)
    PROVE  Windows'
<1>1. UNCHANGED <<clientValid, owner, connectEnabled>>
  BY AnswerTakenOrNot
<1>2. transportConnection[w] # NoConnection /\ m_handshake[w] = NoConnection
  BY AnswerTakenOrNot DEF Windows, Holds
<1>3. Holds(w)'
  BY <1>1, <1>2, AnswerTakenOrNot DEF Types, Windows, Holds
<1>4. ASSUME NEW v \in Window, v # w
      PROVE  Holds(v)'
  <2>1. UNCHANGED <<phase[v], transportConnection[v], m_handshake[v],
                    m_protocolExecutor[v]>>
    BY <1>4, AnswerTakenOrNot DEF Types
  <2>2. QED
    BY <1>1, <1>4, <2>1, OthersHold
<1>5. ASSUME NEW d \in Connection, clientValid'[d]
      PROVE  /\ owner'[d] \in Window
             /\ d \in {transportConnection'[owner'[d]], m_handshake'[owner'[d]]}
  BY <1>1, <1>2, <1>5, AnswerTakenOrNot, WindowAssumption DEF Types, Windows
<1>6. QED
  BY <1>3, <1>4, <1>5 DEF Windows

LEMMA NoticingHolds ==
    ASSUME Types, Windows, NEW c \in Connection, ClientNotices(c)
    PROVE  Windows'
<1>1. PICK w \in Window :
          owner[c] = w /\ c \in {transportConnection[w], m_handshake[w]}
  BY DEF ClientNotices, Windows
<1>2. /\ clientValid' = [clientValid EXCEPT ![c] = FALSE]
      /\ m_handshake' = [m_handshake EXCEPT ![w] = NoConnection]
      /\ UpdateWindow(w)
      /\ UNCHANGED <<owner, phase, transportConnection, m_protocolExecutor>>
  BY <1>1 DEF ClientNotices, OnConnectionExpired
<1>3. Holds(w)'
  <2>1. connectEnabled'[w] <=> m_handshake'[w] = NoConnection
    BY <1>1, <1>2, Updated
  <2>2. m_handshake'[w] = NoConnection
    BY <1>1, <1>2 DEF Types
  <2>3. QED
    BY <1>1, <1>2, <2>1, <2>2 DEF Windows, Holds
<1>4. ASSUME NEW v \in Window, v # w
      PROVE  Holds(v)'
  <2>1. UNCHANGED <<m_handshake[v], connectEnabled[v]>>
    BY <1>2, <1>4 DEF Types, UpdateWindow
  <2>2. \A d \in Connection : owner[d] = v => (clientValid[d] => clientValid'[d])
    BY <1>1, <1>2, <1>4 DEF Types
  <2>3. \A d \in Connection : owner[d] = v => owner'[d] = v
    BY <1>2
  <2>4. QED
    BY <1>2, <1>4, <2>1, <2>2, <2>3, OthersHold
<1>5. ASSUME NEW d \in Connection, clientValid'[d]
      PROVE  /\ owner'[d] \in Window
             /\ d \in {transportConnection'[owner'[d]], m_handshake'[owner'[d]]}
  <2>1. clientValid[d] /\ d # c
    BY <1>2, <1>5 DEF Types
  <2>2. owner[d] \in Window
        /\ d \in {transportConnection[owner[d]], m_handshake[owner[d]]}
    BY <2>1 DEF Windows
  <2>3. CASE owner[d] = w
    <3>1. transportConnection[w] = NoConnection \/ m_handshake[w] = NoConnection
      BY <1>1 DEF Windows, Holds
    <3>2. d = transportConnection[w]
      BY <1>1, <2>1, <2>2, <2>3, <3>1, WindowAssumption
    <3>3. QED
      BY <1>2, <2>2, <2>3, <3>2
  <2>4. CASE owner[d] # w
    BY <1>2, <2>2, <2>4 DEF Types
  <2>5. QED
    BY <2>3, <2>4
<1>6. QED
  BY <1>3, <1>4, <1>5 DEF Windows

\* The server's steps leave the windows and their ends of the connections.
LEMMA ServerLeavesWindows ==
    ASSUME ServerStep, UNCHANGED windowVars
    PROVE  UNCHANGED windowState
<1>1. UNCHANGED clientValid
  BY DEF ServerStep, TickStep, OnNewConnection, StartTick, HandshakeFails,
     AnswerFails, HandshakeDone, EndTick, Restart, GrowsOld, ExecutorReads,
     LinkBreaks, ServerNotices, socketVars
<1>2. QED
  BY <1>1 DEF windowVars, windowState

LEMMA SameWindows ==
    ASSUME Windows, UNCHANGED windowState
    PROVE  Windows'
  BY DEF Windows, Holds, windowState

\* Every step keeps what the windows hold.
LEMMA NextWindows ==
    Types /\ Windows /\ [SessionNext]_sessionVars => Windows'
<1>. SUFFICES ASSUME Types, Windows, [SessionNext]_sessionVars
              PROVE  Windows'
  OBVIOUS
<1>1. CASE UNCHANGED sessionVars
  BY <1>1, SameWindows DEF sessionVars, socketVars, windowVars, windowState
<1>2. CASE ServerStep /\ UNCHANGED windowVars
  BY <1>2, ServerLeavesWindows, SameWindows
<1>3. ASSUME NEW w \in Window, SlotStep(w) \/ UserStep(w)
      PROVE  Windows'
  BY <1>3, PhaseStepHolds, TakingHolds, ClosingHolds DEF SlotStep, UserStep
<1>4. QED
  BY <1>1, <1>2, <1>3, OpeningHolds, NoticingHolds DEF SessionNext
------------------------------------------------------------------------------
(* What is on the way to a window                                          *)

LEMMA AnswersAreAcks ==
    ASSUME Types, NEW c \in Connection
    PROVE  Answers(c) \subseteq AnyAck
  BY DEF Types, Answers, AnyAck, Ack

\* What is not sent to a client does not matter, but for the answers there
\* may be.
LEMMA NothingSent ==
    ASSUME AnswersOnly,
           toClient' = [c \in Connection |-> toClient'[c]],
           \A c \in Connection :
               /\ toClient'[c] \in {toClient[c], <<>>}
               /\ owner'[c] = NoWindow => owner[c] = NoWindow
               /\ Answers(c) \subseteq Answers(c)'
    PROVE  AnswersOnly'
<1>1. ASSUME NEW S, NEW c \in Connection, toClient[c] \in Seq(S)
      PROVE  toClient'[c] \in Seq(S)
  BY <1>1, EmptySeq
<1>2. toClient' \in [Connection -> Seq(AnyAck \cup {TAIL})]
  BY <1>1 DEF AnswersOnly
<1>3. ASSUME NEW c \in Connection
      PROVE  toClient'[c] \in Seq(Answers(c)' \cup {TAIL})
  <2>1. toClient'[c] \in Seq(Answers(c) \cup {TAIL})
    BY <1>1 DEF AnswersOnly
  <2>2. Answers(c) \cup {TAIL} \subseteq Answers(c)' \cup {TAIL}
    OBVIOUS
  <2>3. QED
    BY <2>1, <2>2, SeqMonotonic
<1>4. \A c \in Connection : owner'[c] = NoWindow => toClient'[c] = <<>>
  BY DEF AnswersOnly
<1>5. QED
  BY <1>2, <1>3, <1>4 DEF AnswersOnly

\* An end that is lost lets through whatever there is, and one that is not
\* keeps its executor.
LEMMA AnswersGrow ==
    ASSUME Types, NEW c \in Connection,
           serverValid'[c] =>
               /\ serverValid[c]
               /\ c \in executors => c \in executors' /\ serverId'[c] = serverId[c]
    PROVE  Answers(c) \subseteq Answers(c)'
<1>1. CASE serverValid'[c]
  BY <1>1 DEF Answers
<1>2. CASE ~serverValid'[c]
  <2>1. Answers(c)' = AnyAck
    BY <1>2 DEF Answers, AnyAck
  <2>2. QED
    BY <2>1, AnswersAreAcks
<1>3. QED
  BY <1>1, <1>2

\* The first answer over a connection is that of its executor.
LEMMA AnswerSent ==
    ASSUME Types, Lists, AnswersOnly, NEW c \in Connection, HandshakeDone(c),
           UNCHANGED windowVars, Types'
    PROVE  AnswersOnly'
<1>1. /\ c \in waiting /\ serverValid[c]
      /\ UNCHANGED <<serverValid, owner>>
      /\ executors' = executors \cup {c}
      /\ serverId' = [serverId EXCEPT ![c] = handshakeId']
      /\ toClient' = Sent(toClient, serverValid, c, Ack(handshakeId'))
  BY DEF HandshakeDone, Invited, Trying, Types, windowVars
<1>2. c \notin executors /\ owner[c] # NoWindow
  BY <1>1 DEF Lists, Known
<1>3. Answers(c)' = {Ack(handshakeId')} /\ Answers(c) = {}
  BY <1>1, <1>2 DEF Answers, Types
<1>4. ASSUME NEW d \in Connection, d # c
      PROVE  Answers(d)' = Answers(d)
  <2>1. executors' \cap {d} = executors \cap {d}
    BY <1>1, <1>4
  <2>2. \A e \in executors \cap {d} : Ack(serverId'[e]) = Ack(serverId[e])
    BY <1>1, <1>4 DEF Types
  <2>3. {Ack(serverId'[e]) : e \in executors' \cap {d}}
            = {Ack(serverId[e]) : e \in executors \cap {d}}
    BY <2>1, <2>2
  <2>4. QED
    BY <1>1, <2>3 DEF Answers
<1>5. toClient'[c] \in Seq(Answers(c)' \cup {TAIL})
  <2>1. toClient[c] \in Seq(Answers(c)' \cup {TAIL})
    <3>1. toClient[c] \in Seq(Answers(c) \cup {TAIL})
      BY DEF AnswersOnly
    <3>2. QED
      BY <1>3, <3>1, SeqMonotonic
  <2>2. Append(toClient[c], Ack(handshakeId')) \in Seq(Answers(c)' \cup {TAIL})
    BY <1>3, <2>1, AppendProperties
  <2>3. toClient'[c] \in {toClient[c], Append(toClient[c], Ack(handshakeId'))}
    BY <1>1 DEF Sent, AnswersOnly
  <2>4. QED
    BY <2>1, <2>2, <2>3
<1>6. \A d \in Connection : d # c => toClient'[d] = toClient[d]
  BY <1>1 DEF Sent, AnswersOnly
<1>7. \A d \in Connection : toClient'[d] \in Seq(Answers(d)' \cup {TAIL})
  BY <1>4, <1>5, <1>6 DEF AnswersOnly
<1>8. ASSUME NEW d \in Connection
      PROVE  toClient'[d] \in Seq(AnyAck \cup {TAIL})
  <2>1. Answers(d)' \subseteq AnyAck
    BY AnswersAreAcks DEF Types, Answers, AnyAck, Ack
  <2>2. QED
    BY <1>7, <2>1, SeqMonotonic
<1>9. toClient' = [d \in Connection |-> toClient'[d]]
  BY <1>1 DEF Sent, AnswersOnly
<1>10. \A d \in Connection : owner'[d] = NoWindow => toClient'[d] = <<>>
  BY <1>1, <1>2, <1>6 DEF AnswersOnly
<1>11. toClient' \in [Connection -> Seq(AnyAck \cup {TAIL})]
  BY <1>8, <1>9
<1>12. QED
  BY <1>7, <1>10, <1>11 DEF AnswersOnly

LEMMA ServerAnswersOnly ==
    ASSUME Types, Lists, AnswersOnly, ServerStep, UNCHANGED windowVars, Types'
    PROVE  AnswersOnly'
<1>1. UNCHANGED owner
  BY DEF windowVars
<1>2. CASE UNCHANGED toClient /\ \A c \in Connection :
             serverValid'[c] =>
                 /\ serverValid[c]
                 /\ c \in executors => c \in executors' /\ serverId'[c] = serverId[c]
  <2>1. toClient' = [c \in Connection |-> toClient'[c]]
    BY <1>2 DEF AnswersOnly
  <2>2. QED
    BY <1>1, <1>2, <2>1, AnswersGrow, NothingSent
<1>3. ASSUME NEW c \in Connection, HandshakeDone(c)
      PROVE  AnswersOnly'
  BY <1>3, AnswerSent
<1>4. CASE StartTick
  BY <1>2, <1>4 DEF StartTick, Closed
<1>5. CASE EndTick
  BY <1>2, <1>5 DEF EndTick, Alive, socketVars, Types
<1>6. ASSUME NEW c \in Connection, AnswerFails(c) \/ ServerNotices(c)
      PROVE  AnswersOnly'
  BY <1>2, <1>6 DEF AnswerFails, ServerNotices, Types, acceptVars
<1>7. CASE Restart
  BY <1>2, <1>7 DEF Restart
<1>8. CASE OnNewConnection
  BY <1>2, <1>8 DEF OnNewConnection, socketVars
<1>9. ASSUME NEW c \in Connection,
             HandshakeFails(c) \/ GrowsOld(c) \/ ExecutorReads(c) \/ LinkBreaks(c)
      PROVE  AnswersOnly'
  BY <1>2, <1>9 DEF HandshakeFails, GrowsOld, ExecutorReads, LinkBreaks,
     socketVars, acceptVars
<1>10. QED
  BY <1>3, <1>4, <1>5, <1>6, <1>7, <1>8, <1>9 DEF ServerStep, TickStep

\* What a window reads are answers: it takes the identifier of one, or none.
LEMMA AnswerRead ==
    ASSUME Types, Windows, AnswersOnly, NEW w \in Window, TakeAnswer(w)
    PROVE  /\ transportConnection[w] \in Connection
           /\ \E rest \in Seq(Answers(transportConnection[w]) \cup {TAIL}) :
                 toClient' = [toClient EXCEPT ![transportConnection[w]] = rest]
           /\ \/ UNCHANGED <<clientId, m_handshake>>
              \/ /\ \E a \in Answers(transportConnection[w]) :
                       clientId' = [clientId EXCEPT ![transportConnection[w]] = a.hs]
                 /\ m_handshake' =
                        [m_handshake EXCEPT ![w] = transportConnection[w]]
<1>. DEFINE c == transportConnection[w]
            S == Answers(c) \cup {TAIL}
<1>1. phase[w] = "receiving"
  BY DEF TakeAnswer, In
<1>2. c \in Connection
  BY <1>1 DEF Types, Windows, Holds
<1>3. PICK received \in Receive(toClient[c]) : \E packets \in Decoded(received.batch) :
          /\ toClient' = [toClient EXCEPT ![c] = received.rest]
          /\ \/ UNCHANGED <<clientId, m_handshake>>
             \/ /\ \E i \in 1..Len(packets) :
                      /\ packets[i].type = "Ack"
                      /\ clientId' = [clientId EXCEPT ![c] = packets[i].hs]
                /\ m_handshake' = [m_handshake EXCEPT ![w] = c]
  BY DEF TakeAnswer, FirstAck
<1>4. toClient[c] \in Seq(S)
  BY <1>2 DEF AnswersOnly
<1>5. received.batch \in Seq(S) /\ received.rest \in Seq(S)
  BY <1>4, ReceiveKeeps
<1>6. PICK packets \in Decoded(received.batch) :
          \/ UNCHANGED <<clientId, m_handshake>>
          \/ /\ \E i \in 1..Len(packets) :
                   /\ packets[i].type = "Ack"
                   /\ clientId' = [clientId EXCEPT ![c] = packets[i].hs]
             /\ m_handshake' = [m_handshake EXCEPT ![w] = c]
  BY <1>3
<1>7. packets \in Seq(S)
  BY <1>5, DecodedKeeps
<1>8. ASSUME NEW i \in 1..Len(packets), packets[i].type = "Ack"
      PROVE  packets[i] \in Answers(c)
  <2>1. packets[i] \in S
    BY <1>7, ElementOfSeq
  <2>2. TAIL.type # "Ack"
    BY DEF TAIL
  <2>3. QED
    BY <1>8, <2>1, <2>2
<1>9. QED
  BY <1>2, <1>3, <1>5, <1>6, <1>8

LEMMA TakenAnswersOnly ==
    ASSUME Types, Windows, AnswersOnly, NEW w \in Window, TakeAnswer(w),
           UNCHANGED acceptVars
    PROVE  AnswersOnly'
<1>. DEFINE c == transportConnection[w]
<1>1. /\ c \in Connection /\ clientValid[c]
      /\ UNCHANGED <<serverValid, owner, executors, serverId>>
  BY AnswerRead, AnswerTakenOrNot DEF acceptVars
<1>2. PICK rest \in Seq(Answers(c) \cup {TAIL}) :
          toClient' = [toClient EXCEPT ![c] = rest]
  BY AnswerRead
<1>3. \A d \in Connection : Answers(d)' = Answers(d)
  BY <1>1 DEF Answers, AnyAck
<1>4. \A d \in Connection : toClient'[d] \in Seq(Answers(d)' \cup {TAIL})
  BY <1>2, <1>3 DEF AnswersOnly
<1>5. toClient' \in [Connection -> Seq(AnyAck \cup {TAIL})]
  <2>1. rest \in Seq(AnyAck \cup {TAIL})
    BY <1>1, AnswersAreAcks, SeqMonotonic
  <2>2. QED
    BY <1>2, <2>1 DEF AnswersOnly
<1>6. owner[c] # NoWindow
  BY <1>1, WindowAssumption DEF Windows
<1>7. \A d \in Connection : owner'[d] = NoWindow => toClient'[d] = <<>>
  BY <1>1, <1>2, <1>6 DEF AnswersOnly
<1>8. QED
  BY <1>4, <1>5, <1>7 DEF AnswersOnly

LEMMA OpeningAnswersOnly ==
    ASSUME Types, Lists, AnswersOnly, NEW w \in Window, NEW c \in Connection,
           Connect(w, c) \/ ConnectTimesOut(w, c), Accepts(c)
    PROVE  AnswersOnly'
<1>1. /\ owner[c] = NoWindow /\ owner' = [owner EXCEPT ![c] = w]
      /\ serverValid' = [serverValid EXCEPT ![c] = TRUE]
      /\ UNCHANGED <<toClient, executors, serverId>>
  BY DEF Connect, ConnectTimesOut, Opens, Fresh, Accepts
<1>2. toClient[c] = <<>>
  BY <1>1 DEF AnswersOnly
<1>3. \A d \in Connection : d # c => Answers(d)' = Answers(d)
  BY <1>1 DEF Answers, AnyAck, Types
<1>4. <<>> \in Seq(Answers(c)' \cup {TAIL})
  BY EmptySeq
<1>5. \A d \in Connection : toClient'[d] \in Seq(Answers(d)' \cup {TAIL})
  BY <1>1, <1>2, <1>3, <1>4 DEF AnswersOnly
<1>6. \A d \in Connection : owner'[d] = NoWindow => toClient'[d] = <<>>
  BY <1>1, <1>2, WindowAssumption DEF AnswersOnly, Types
<1>7. QED
  BY <1>1, <1>5, <1>6 DEF AnswersOnly

\* Every step keeps the answers what they are.
LEMMA NextAnswersOnly ==
    Types /\ Types' /\ Lists /\ Windows /\ AnswersOnly /\ [SessionNext]_sessionVars
        => AnswersOnly'
<1>. SUFFICES ASSUME Types, Types', Lists, Windows, AnswersOnly,
                     [SessionNext]_sessionVars
              PROVE  AnswersOnly'
  OBVIOUS
<1>1. CASE UNCHANGED <<serverValid, executors, serverId, owner>>
           /\ toClient' = [c \in Connection |-> toClient'[c]]
           /\ \A c \in Connection : toClient'[c] \in {toClient[c], <<>>}
  BY <1>1, AnswersGrow, NothingSent
<1>2. CASE UNCHANGED sessionVars
  BY <1>1, <1>2 DEF sessionVars, socketVars, acceptVars, windowVars, AnswersOnly
<1>3. CASE ServerStep /\ UNCHANGED windowVars
  BY <1>3, ServerAnswersOnly
<1>4. ASSUME NEW w \in Window, SlotStep(w) \/ UserStep(w), UNCHANGED acceptVars
      PROVE  AnswersOnly'
  <2>1. CASE TakeAnswer(w)
    BY <1>4, <2>1, TakenAnswersOnly
  <2>2. CASE CloseConnectBox(w)
    BY <1>1, <1>4, <2>2 DEF CloseConnectBox, Readable, acceptVars
  <2>3. CASE \/ SendInvite(w) \/ HandshakeFailed(w) \/ ReceiveNothing(w)
             \/ ModelIsSet(w) \/ EventSent(w) \/ EventNotSent(w)
             \/ ConnectRefused(w) \/ SendEvent(w) \/ CloseSendBox(w)
    <3>1. UNCHANGED <<serverValid, owner, toClient>>
      BY <2>3 DEF SendInvite, HandshakeFailed, ReceiveNothing, ModelIsSet,
         EventSent, EventNotSent, ConnectRefused, SendEvent, CloseSendBox,
         socketVars
    <3>2. QED
      BY <1>1, <1>4, <3>1 DEF acceptVars, AnswersOnly
  <2>4. QED
    BY <1>4, <2>1, <2>2, <2>3 DEF SlotStep, UserStep
<1>5. ASSUME NEW c \in Connection, ClientNotices(c), UNCHANGED acceptVars
      PROVE  AnswersOnly'
  BY <1>1, <1>5 DEF ClientNotices, Readable, acceptVars
<1>6. QED
  BY <1>2, <1>3, <1>4, <1>5, OpeningAnswersOnly DEF SessionNext

------------------------------------------------------------------------------
(* What the windows show is served                                         *)

LEMMA StillServed ==
    ASSUME Served, UNCHANGED clientId,
           \A w \in Window :
               LET c == m_handshake[w] IN
               /\ m_handshake'[w] \in {c, NoConnection}
               /\ (c # NoConnection /\ serverValid'[c]) =>
                      /\ serverValid[c]
                      /\ c \in executors =>
                             c \in executors' /\ serverId'[c] = serverId[c]
    PROVE  Served'
  BY DEF Served

LEMMA ServerServes ==
    ASSUME Types, Lists, Served, ServerStep, UNCHANGED windowVars
    PROVE  Served'
<1>1. UNCHANGED <<clientId, m_handshake>>
  BY DEF windowVars
<1>2. CASE \A c \in Connection : serverValid'[c] =>
             /\ serverValid[c]
             /\ c \in executors => c \in executors' /\ serverId'[c] = serverId[c]
  BY <1>1, <1>2, StillServed DEF Types
<1>3. ASSUME NEW c \in Connection, HandshakeDone(c)
      PROVE  Served'
  <2>1. /\ c \in waiting /\ UNCHANGED serverValid
        /\ executors' = executors \cup {c}
        /\ serverId' = [serverId EXCEPT ![c] = handshakeId']
    BY <1>3 DEF HandshakeDone, Trying, Invited, Types
  <2>2. c \notin executors
    BY <2>1 DEF Lists
  <2>3. QED
    BY <1>2, <2>1, <2>2 DEF Types
<1>4. CASE StartTick
  BY <1>2, <1>4 DEF StartTick, Closed
<1>5. CASE EndTick
  BY <1>2, <1>5 DEF EndTick, Alive, socketVars, Types
<1>6. ASSUME NEW c \in Connection, AnswerFails(c) \/ ServerNotices(c)
      PROVE  Served'
  BY <1>2, <1>6 DEF AnswerFails, ServerNotices, Types, acceptVars
<1>7. CASE Restart
  BY <1>2, <1>7 DEF Restart
<1>8. CASE OnNewConnection
  BY <1>2, <1>8 DEF OnNewConnection, socketVars
<1>9. ASSUME NEW c \in Connection,
             HandshakeFails(c) \/ GrowsOld(c) \/ ExecutorReads(c) \/ LinkBreaks(c)
      PROVE  Served'
  BY <1>2, <1>9 DEF HandshakeFails, GrowsOld, ExecutorReads, LinkBreaks,
     socketVars, acceptVars
<1>10. QED
  BY <1>3, <1>4, <1>5, <1>6, <1>7, <1>8, <1>9 DEF ServerStep, TickStep

\* The window that takes an answer takes the identifier of the executor.
LEMMA TakenIsServed ==
    ASSUME Types, Windows, AnswersOnly, Served, NEW w \in Window, TakeAnswer(w),
           UNCHANGED acceptVars
    PROVE  Served'
<1>. DEFINE c == transportConnection[w]
<1>1. /\ c \in Connection
      /\ UNCHANGED <<serverValid, executors, serverId>>
  BY AnswerRead, AnswerTakenOrNot DEF acceptVars
<1>2. CASE UNCHANGED <<clientId, m_handshake>>
  BY <1>1, <1>2, StillServed
<1>3. ASSUME NEW a \in Answers(c),
             clientId' = [clientId EXCEPT ![c] = a.hs],
             m_handshake' = [m_handshake EXCEPT ![w] = c]
      PROVE  Served'
  <2>1. a \in AnyAck /\ a.hs \in Nat
    BY <1>1, AnswersAreAcks DEF AnyAck
  <2>2. clientId' \in [Connection -> Nat]
    BY <1>3, <2>1 DEF Served
  <2>3. serverValid[c] => c \in executors /\ serverId[c] = a.hs
    BY <1>3 DEF Answers, Ack
  <2>4. clientId'[c] = a.hs /\ m_handshake'[w] = c
    BY <1>1, <1>3 DEF Served, Types
  <2>5. owner[c] = w
    BY <1>1, WindowAssumption DEF Windows, Holds
  <2>6. ASSUME NEW v \in Window, v # w, m_handshake'[v] # NoConnection,
               serverValid[m_handshake'[v]]
        PROVE  /\ m_handshake'[v] \in executors
               /\ serverId[m_handshake'[v]] = clientId'[m_handshake'[v]]
    <3>1. m_handshake'[v] = m_handshake[v]
      BY <1>3, <2>6 DEF Types
    <3>2. m_handshake[v] # c
      BY <2>5, <2>6, <3>1 DEF Windows, Holds
    <3>3. clientId'[m_handshake[v]] = clientId[m_handshake[v]]
      BY <1>3, <2>6, <3>1, <3>2 DEF Served, Types
    <3>4. QED
      BY <2>6, <3>1, <3>3 DEF Served
  <2>7. QED
    BY <1>1, <2>2, <2>3, <2>4, <2>6 DEF Served
<1>4. QED
  BY <1>2, <1>3, AnswerRead

LEMMA OpeningServes ==
    ASSUME Types, Windows, Served, NEW w \in Window, NEW c \in Connection,
           Connect(w, c) \/ ConnectTimesOut(w, c), Accepts(c)
    PROVE  Served'
<1>1. /\ owner[c] = NoWindow
      /\ serverValid' = [serverValid EXCEPT ![c] = TRUE]
      /\ UNCHANGED <<clientId, m_handshake, executors, serverId>>
  BY DEF Connect, ConnectTimesOut, Opens, Fresh, Accepts
<1>2. \A v \in Window : m_handshake[v] # c
  BY <1>1, WindowAssumption DEF Windows, Holds
<1>3. \A v \in Window :
          (m_handshake[v] # NoConnection /\ serverValid'[m_handshake[v]])
              => serverValid[m_handshake[v]]
  BY <1>1, <1>2 DEF Types
<1>4. QED
  BY <1>1, <1>3, StillServed

\* Every step keeps what is shown served.
LEMMA NextServed ==
    Types /\ Lists /\ Windows /\ AnswersOnly /\ Served /\ [SessionNext]_sessionVars
        => Served'
<1>. SUFFICES ASSUME Types, Lists, Windows, AnswersOnly, Served,
                     [SessionNext]_sessionVars
              PROVE  Served'
  OBVIOUS
<1>1. CASE UNCHANGED <<serverValid, executors, serverId, clientId>>
           /\ \A w \in Window : m_handshake'[w] \in {m_handshake[w], NoConnection}
  BY <1>1, StillServed
<1>2. CASE UNCHANGED sessionVars
  BY <1>1, <1>2 DEF sessionVars, socketVars, acceptVars, windowVars
<1>3. CASE ServerStep /\ UNCHANGED windowVars
  BY <1>3, ServerServes
<1>4. ASSUME NEW w \in Window, SlotStep(w) \/ UserStep(w), UNCHANGED acceptVars
      PROVE  Served'
  <2>1. CASE TakeAnswer(w)
    BY <1>4, <2>1, TakenIsServed
  <2>2. CASE \/ SendInvite(w) \/ HandshakeFailed(w) \/ ReceiveNothing(w)
             \/ ModelIsSet(w) \/ EventSent(w) \/ EventNotSent(w)
             \/ ConnectRefused(w) \/ SendEvent(w) \/ CloseSendBox(w)
             \/ CloseConnectBox(w)
    <3>1. UNCHANGED <<serverValid, clientId, m_handshake>>
      BY <2>2 DEF SendInvite, HandshakeFailed, ReceiveNothing, ModelIsSet,
         EventSent, EventNotSent, ConnectRefused, SendEvent, CloseSendBox,
         CloseConnectBox, socketVars
    <3>2. QED
      BY <1>1, <1>4, <3>1 DEF acceptVars
  <2>3. QED
    BY <1>4, <2>1, <2>2 DEF SlotStep, UserStep
<1>5. ASSUME NEW c \in Connection, ClientNotices(c), UNCHANGED acceptVars
      PROVE  Served'
  <2>1. UNCHANGED <<serverValid, executors, serverId, clientId>>
    BY <1>5 DEF ClientNotices, acceptVars
  <2>2. m_handshake' = [m_handshake EXCEPT ![owner[c]] = NoConnection]
    BY <1>5 DEF ClientNotices, OnConnectionExpired
  <2>3. QED
    BY <1>1, <2>1, <2>2 DEF Types
<1>6. QED
  BY <1>2, <1>3, <1>4, <1>5, OpeningServes DEF SessionNext
------------------------------------------------------------------------------
(* Theorems                                                                *)

LEMMA SessionInvariant == SessionSpec => []SessionInv
<1>1. SessionInv /\ [SessionNext]_sessionVars => SessionInv'
  BY NextTypes, NextLists, NextWindows, NextAnswersOnly, NextServed DEF SessionInv
<1>2. QED
  BY InitSession, <1>1, PTL DEF SessionSpec

\* The state keeps its types; a connection is taken in at most once, and only
\* after a window has opened it.
THEOREM SessionTypeCorrect == SessionSpec => []SessionTypeOK
<1>1. SessionInv => SessionTypeOK
  <2>. SUFFICES ASSUME SessionInv
                PROVE  SessionTypeOK
    OBVIOUS
  <2>1. \A c \in Known : c \in Connection /\ owner[c] \in Window
    BY DEF SessionInv, Types, Lists, Known
  <2>2. \A c \in Connection : serverId[c] \in 0..handshakeId
    BY DEF SessionInv, Types
  <2>3. QED
    BY <2>1, <2>2 DEF SessionInv, Types, Lists, Served, SessionTypeOK
<1>2. QED
  BY SessionInvariant, <1>1, PTL

\* A window that shows a connection has an executor of the server, with the
\* same identifier, for as long as neither end is lost: whatever invitations
\* were sent again, cut, left unread or answered late.
THEOREM ConnectedIsServedCorrect == SessionSpec => []ConnectedIsServed
<1>1. SessionInv => ConnectedIsServed
  BY DEF SessionInv, Served, ConnectedIsServed
<1>2. QED
  BY SessionInvariant, <1>1, PTL

\* In the event loop a window has its live connection and no other.
THEOREM ConnectedMeansValidCorrect == SessionSpec => []ConnectedMeansValid
<1>1. SessionInv => ConnectedMeansValid
  <2>. SUFFICES ASSUME Types, Windows, NEW w \in Window, phase[w] = "idle"
                PROVE  {c \in Connection : owner[c] = w /\ clientValid[c]}
                           = {m_handshake[w]} \ {NoConnection}
    BY DEF SessionInv, ConnectedMeansValid, In
  <2>1. transportConnection[w] = NoConnection
    BY DEF Windows, Holds
  <2>2. ASSUME NEW c \in Connection, owner[c] = w, clientValid[c]
        PROVE  c = m_handshake[w]
    BY <2>1, <2>2, WindowAssumption DEF Windows
  <2>3. ASSUME m_handshake[w] # NoConnection
        PROVE  /\ m_handshake[w] \in Connection
               /\ owner[m_handshake[w]] = w /\ clientValid[m_handshake[w]]
    BY <2>3 DEF Types, Windows, Holds
  <2>4. QED
    BY <2>2, <2>3, WindowAssumption
<1>2. QED
  BY SessionInvariant, <1>1, PTL

\* The assertion in the slot of the connect button never fails.
THEOREM ButtonCorrect == SessionSpec => []ButtonMatches
<1>1. SessionInv => ButtonMatches
  BY DEF SessionInv, Windows, Holds, ButtonMatches, In
<1>2. QED
  BY SessionInvariant, <1>1, PTL

\* No event is sent over a connection that the window has lost.
THEOREM ExecutorCorrect == SessionSpec => []ExecutorIsCurrent
<1>1. SessionInv => ExecutorIsCurrent
  BY DEF SessionInv, Windows, Holds, ExecutorIsCurrent
<1>2. QED
  BY SessionInvariant, <1>1, PTL
==============================================================================
