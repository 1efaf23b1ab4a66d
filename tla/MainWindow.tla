----------------------------- MODULE MainWindow -----------------------------
(***************************************************************************)
(* The application's window: the button that connects, with HandshakeV1 of *)
(* the client inside its slot, the button that sends, and the callback for *)
(* a lost connection.                                                      *)
(*                                                                         *)
(* A window is one thread.  A slot blocks it, and Qt reports the loss of a *)
(* connection from inside the slot, from the event loop of a message box   *)
(* or from the event loop of the application.                              *)
(***************************************************************************)
EXTENDS Handshake

CONSTANTS
    Window,        \* the running applications
    MaxInvites,    \* invitations of a handshake, 10 in the code
    NoConnection,  \* an empty shared_ptr
    NoWindow

ASSUME WindowAssumption ==
    /\ MaxInvites \in Nat \ {0}
    /\ NoConnection \notin Connection
    /\ NoWindow \notin Window

VARIABLES
    owner,               \* the window that has opened the connection
    phase,               \* what the window's thread is in
    transportConnection, \* local variable of onButtonConnectClicked
    invites,             \* the loop counter of HandshakeV1
    m_handshake,         \* the connection of the object, or NoConnection
    m_protocolExecutor,  \* likewise
    connectEnabled,      \* m_connectButton is enabled
    clientId             \* m_identifier of the client's HandshakeV1

windowVars == <<owner, phase, transportConnection, invites, m_handshake,
                m_protocolExecutor, connectEnabled, clientId>>

\* inviting, receiving  in the loop of HandshakeV1
\* counting             setModel: the view asks for the number of rows
\* sending              sendEvent
\* connectBox, sendBox  a message box of either slot
Phase == {"idle", "inviting", "receiving", "counting", "sending",
          "connectBox", "sendBox"}

In(w, p) == phase[w] = p
Goes(w, p) == phase' = [phase EXCEPT ![w] = p]

WindowInit ==
    /\ owner = [c \in Connection |-> NoWindow]
    /\ phase = [w \in Window |-> "idle"]
    /\ transportConnection = [w \in Window |-> NoConnection]
    /\ invites = [w \in Window |-> 0]
    /\ m_handshake = [w \in Window |-> NoConnection]
    /\ m_protocolExecutor = [w \in Window |-> NoConnection]
    /\ connectEnabled = [w \in Window |-> TRUE]
    /\ clientId = [c \in Connection |-> NoId]

\* m_connectButton->setEnabled( !m_handshake ), after the step.
UpdateWindow(w) ==
    connectEnabled' =
        [connectEnabled EXCEPT ![w] = m_handshake'[w] = NoConnection]
------------------------------------------------------------------------------
(* onButtonConnectClicked up to the handshake.                             *)

ClickConnect(w) == In(w, "idle") /\ connectEnabled[w]

\* Connections have no names before they are opened: any order will do.
Fresh(c) == owner[c] = NoWindow /\ c = CHOOSE d \in Connection : owner[d] = NoWindow

Opens(w, c) ==
    /\ ClickConnect(w)
    /\ Fresh(c)
    /\ owner' = [owner EXCEPT ![c] = w]
    /\ serverValid' = [serverValid EXCEPT ![c] = TRUE]

\* connectToServer, and both callbacks are set.
Connect(w, c) ==
    /\ Opens(w, c)
    /\ linkUp' = [linkUp EXCEPT ![c] = TRUE]
    /\ clientValid' = [clientValid EXCEPT ![c] = TRUE]
    /\ transportConnection' = [transportConnection EXCEPT ![w] = c]
    /\ Goes(w, "inviting")
    /\ UNCHANGED <<toServer, toClient, invites, m_handshake, m_protocolExecutor,
                   connectEnabled, clientId>>

\* waitForConnected gives up on a connection that the server has accepted.
ConnectTimesOut(w, c) ==
    /\ Opens(w, c)
    /\ Goes(w, "connectBox")
    /\ UNCHANGED <<linkUp, clientValid, toServer, toClient, transportConnection,
                   invites, m_handshake, m_protocolExecutor, connectEnabled,
                   clientId>>

\* The server never sees the connection.
ConnectRefused(w) ==
    /\ ClickConnect(w)
    /\ Goes(w, "connectBox")
    /\ UNCHANGED <<socketVars, owner, transportConnection, invites,
                   m_handshake, m_protocolExecutor, connectEnabled, clientId>>
------------------------------------------------------------------------------
(* HandshakeV1::HandshakeV1                                                *)

SendInvite(w) ==
    LET c == transportConnection[w] IN
    /\ In(w, "inviting")
    /\ invites[w] < MaxInvites
    /\ clientValid[c]
    /\ toServer' = Sent(toServer, clientValid, c, HandshakeInvite)
    /\ invites' = [invites EXCEPT ![w] = @ + 1]
    /\ Goes(w, "receiving")
    /\ UNCHANGED <<linkUp, serverValid, clientValid, toClient, owner,
                   transportConnection, m_handshake, m_protocolExecutor,
                   connectEnabled, clientId>>

\* The constructor throws: the loop has ended, or send() fails.
HandshakeFailed(w) ==
    /\ In(w, "inviting")
    /\ invites[w] = MaxInvites \/ ~clientValid[transportConnection[w]]
    /\ invites' = [invites EXCEPT ![w] = 0]
    /\ Goes(w, "connectBox")
    /\ UNCHANGED <<socketVars, owner, transportConnection, m_handshake,
                   m_protocolExecutor, connectEnabled, clientId>>

\* Mutant: receive() waits for the answer.
NoAnswerEver(c) == ~clientValid[c]

\* receive() returns nullopt or no bytes.
NoAnswerYet(c) == TRUE

ReceiveNothing(w) ==
    /\ In(w, "receiving")
    /\ NoAnswerYet(transportConnection[w])
    /\ Goes(w, "inviting")
    /\ UNCHANGED <<socketVars, owner, transportConnection, invites,
                   m_handshake, m_protocolExecutor, connectEnabled, clientId>>

FirstAck(packets, i) ==
    /\ packets[i].type = "Ack"
    /\ \A j \in 1..(i - 1) : packets[j].type # "Ack"

\* Mutant: the executor is made once and kept.
FirstExecutor(w, c) ==
    IF m_protocolExecutor[w] = NoConnection THEN c ELSE m_protocolExecutor[w]

\* IProtocolExecutor::create
NewExecutor(w, c) == c

\* The first Ack ends the handshake, and what came with it is dropped; the
\* slot goes on with the executor and the model.
TakeAnswer(w) ==
    LET c == transportConnection[w] IN
    /\ In(w, "receiving")
    /\ clientValid[c]
    /\ \E received \in Receive(toClient[c]) : \E packets \in Decoded(received.batch) :
         /\ toClient' = [toClient EXCEPT ![c] = received.rest]
         /\ \/ /\ \A i \in 1..Len(packets) : packets[i].type # "Ack"
               /\ Goes(w, "inviting")
               /\ UNCHANGED <<transportConnection, invites, m_handshake,
                              m_protocolExecutor, clientId>>
            \/ /\ \E i \in 1..Len(packets) :
                     /\ FirstAck(packets, i)
                     /\ clientId' = [clientId EXCEPT ![c] = packets[i].hs]
               /\ m_handshake' = [m_handshake EXCEPT ![w] = c]
               /\ m_protocolExecutor' =
                      [m_protocolExecutor EXCEPT ![w] = NewExecutor(w, c)]
               /\ transportConnection' =
                      [transportConnection EXCEPT ![w] = NoConnection]
               /\ invites' = [invites EXCEPT ![w] = 0]
               /\ Goes(w, "counting")
    /\ UNCHANGED <<linkUp, serverValid, clientValid, toServer, owner,
                   connectEnabled>>
------------------------------------------------------------------------------
(* The end of the slots.                                                   *)

\* The call of setModel has returned; action( updateWindow ) runs.
ModelIsSet(w) ==
    /\ In(w, "counting")
    /\ Goes(w, "idle")
    /\ UNCHANGED <<socketVars, owner, transportConnection, invites,
                   m_handshake, m_protocolExecutor, clientId>>
    /\ UpdateWindow(w)

\* The last shared_ptr of a connection goes: the socket is closed.
Dropped(flags, c) == [d \in Connection |-> flags[d] /\ d # c]

CloseConnectBox(w) ==
    LET c == transportConnection[w] IN
    /\ In(w, "connectBox")
    /\ Goes(w, "idle")
    /\ transportConnection' = [transportConnection EXCEPT ![w] = NoConnection]
    /\ linkUp' = Dropped(linkUp, c)
    /\ clientValid' = Dropped(clientValid, c)
    /\ toClient' = Readable(toClient, clientValid')
    /\ UNCHANGED <<serverValid, toServer, owner, invites,
                   m_handshake, m_protocolExecutor, clientId>>
    /\ UpdateWindow(w)

\* onButtonSendNewEventClicked; the button is enabled with a handshake only.
SendEvent(w) ==
    /\ In(w, "idle")
    /\ m_handshake[w] # NoConnection
    /\ Goes(w, "sending")
    /\ UNCHANGED <<socketVars, owner, transportConnection, invites,
                   m_handshake, m_protocolExecutor, connectEnabled, clientId>>

\* sendEvent returns true only over a connection that was valid when it began.
EventSent(w) ==
    /\ In(w, "sending")
    /\ Goes(w, "idle")
    /\ UNCHANGED <<socketVars, owner, transportConnection, invites,
                   m_handshake, m_protocolExecutor, clientId>>
    /\ UpdateWindow(w)

EventNotSent(w) ==
    /\ In(w, "sending")
    /\ Goes(w, "sendBox")
    /\ UNCHANGED <<socketVars, owner, transportConnection, invites,
                   m_handshake, m_protocolExecutor, connectEnabled, clientId>>

CloseSendBox(w) ==
    /\ In(w, "sendBox")
    /\ Goes(w, "idle")
    /\ UNCHANGED <<socketVars, owner, transportConnection, invites,
                   m_handshake, m_protocolExecutor, connectEnabled, clientId>>
------------------------------------------------------------------------------

\* Mutants: the callback is registered when the slot of the button is done;
\* it resets the handshake and forgets the window.
ExpiredAfterSlot(w) ==
    IF In(w, "counting")
    THEN UNCHANGED <<m_handshake, connectEnabled>>
    ELSE m_handshake' = [m_handshake EXCEPT ![w] = NoConnection] /\ UpdateWindow(w)
ExpiredSilently(w) ==
    /\ m_handshake' = [m_handshake EXCEPT ![w] = NoConnection]
    /\ UNCHANGED connectEnabled

OnConnectionExpired(w) ==
    /\ m_handshake' = [m_handshake EXCEPT ![w] = NoConnection]
    /\ UpdateWindow(w)

\* Qt emits disconnected.
ClientNotices(c) ==
    /\ ~linkUp[c]
    /\ clientValid[c]
    /\ clientValid' = [clientValid EXCEPT ![c] = FALSE]
    /\ toClient' = Readable(toClient, clientValid')
    /\ OnConnectionExpired(owner[c])
    /\ UNCHANGED <<linkUp, serverValid, toServer, owner, phase,
                   transportConnection, invites, m_protocolExecutor, clientId>>

\* The steps that end a slot of the window without the user.
SlotStep(w) ==
    \/ SendInvite(w) \/ HandshakeFailed(w) \/ ReceiveNothing(w) \/ TakeAnswer(w)
    \/ ModelIsSet(w) \/ EventSent(w) \/ EventNotSent(w)

UserStep(w) ==
    \/ ConnectRefused(w) \/ CloseConnectBox(w) \/ SendEvent(w) \/ CloseSendBox(w)
==============================================================================
