----------------------------- MODULE AcceptList -----------------------------
(***************************************************************************)
(* How the server takes in connections: QTcpServer's pending connections,  *)
(* the list of those that wait for a handshake, the handshake itself       *)
(* (HandshakeV1 of the server) and the list of protocol executors.         *)
(*                                                                         *)
(* The server works in the ticks of a 200 ms timer.  A tick drops what has *)
(* waited for a second, tries a handshake on everything that is left and   *)
(* destroys the executors of lost connections; the network and the clients *)
(* act between its steps.  The lists are sets here: a handshake does not   *)
(* depend on its place in one.                                             *)
(***************************************************************************)
EXTENDS Handshake

VARIABLES
    pendingConnections,  \* connections QTcpServer has not handed over yet
    waiting,             \* m_connectionWaitingForHandshake
    old,                 \* the connections that have waited for a second
    executors,           \* m_protocolsExecutors
    serverId,            \* the identifier an executor's handshake has drawn
    handshakeId,         \* the static counter of HandshakeV1
    ticking,             \* onServicesCheck is running
    untried              \* connections this tick is yet to try

acceptVars == <<pendingConnections, waiting, old, executors, serverId,
                handshakeId, ticking, untried>>
------------------------------------------------------------------------------

AcceptInit ==
    /\ pendingConnections = {}
    /\ waiting = {}
    /\ old = {}
    /\ executors = {}
    /\ serverId = [c \in Connection |-> NoId]
    /\ handshakeId = 0
    /\ ticking = FALSE
    /\ untried = {}

\* TcpTransportConnectivityManager::onNewConnection takes all there are.  For a
\* socket that is lost already ITransportConnection::create returns null, and
\* nobody keeps it; Server::onNewConnection puts the others on the list.
OnNewConnection ==
    /\ ~ticking
    /\ pendingConnections # {}
    /\ waiting' = waiting \cup {c \in pendingConnections : serverValid[c]}
    /\ pendingConnections' = {}
    /\ UNCHANGED <<socketVars, old, executors, serverId, handshakeId, ticking,
                   untried>>

\* A second has passed since onNewConnection.
GrowsOld(c) ==
    /\ c \in waiting \ old
    /\ old' = old \cup {c}
    /\ UNCHANGED <<socketVars, pendingConnections, waiting, executors, serverId,
                   handshakeId, ticking, untried>>

\* Mutant: remove_if without erase.
NobodyAged == waiting

\* Server::agingConnections.
NotAged == waiting \ old

\* Nobody else has the dropped connections: their sockets are closed.
Closed(flags, connections) ==
    [c \in Connection |-> flags[c] /\ c \notin connections]

StartTick ==
    LET dropped == waiting \ NotAged IN
    /\ ~ticking
    /\ ticking' = TRUE
    /\ waiting' = NotAged
    /\ untried' = NotAged
    /\ old' = old \cap NotAged
    /\ linkUp' = Closed(linkUp, dropped)
    /\ serverValid' = Closed(serverValid, dropped)
    /\ toServer' = Readable(toServer, serverValid')
    /\ UNCHANGED <<clientValid, toClient, pendingConnections,
                   executors, serverId, handshakeId>>
------------------------------------------------------------------------------
(* Server::handshakeOnConnections, one connection a step.                  *)

Trying(c) ==
    /\ ticking
    /\ c \in untried
    /\ untried' = untried \ {c}

Invites(batch) == batch # <<>> /\ Head(batch) = HandshakeInvite

\* The constructor throws before it draws an identifier: the connection is
\* lost, nothing has arrived, or the first packet of the batch, the only one
\* it looks at, is not an invitation or is not whole.
HandshakeFails(c) ==
    /\ Trying(c)
    /\ \/ UNCHANGED toServer
       \/ /\ serverValid[c]
          /\ \E received \in Receive(toServer[c]) :
               /\ ~Invites(received.batch)
               /\ toServer' = [toServer EXCEPT ![c] = received.rest]
    /\ UNCHANGED <<linkUp, serverValid, clientValid, toClient,
                   pendingConnections, waiting, old, executors, serverId,
                   handshakeId, ticking>>

\* Mutant: the counter runs backwards.
NextIdDown == handshakeId - 1

NextId == handshakeId + 1

Invited(c) ==
    /\ Trying(c)
    /\ serverValid[c]
    /\ \E received \in Receive(toServer[c]) :
         /\ Invites(received.batch)
         /\ toServer' = [toServer EXCEPT ![c] = received.rest]
    /\ handshakeId' = NextId

\* The invitation is good, but the socket is lost in send(), which throws, or
\* IProtocolExecutor::create finds it so: the connection goes on waiting.
AnswerFails(c) ==
    /\ ~linkUp[c]
    /\ Invited(c)
    /\ serverValid' = [serverValid EXCEPT ![c] = FALSE]
    /\ UNCHANGED <<linkUp, clientValid, toClient, pendingConnections, waiting,
                   old, executors, serverId, ticking>>

\* Mutant: createHandshake returns false although it has made an executor.
StillWaitingFor(c) == waiting

NoLongerWaitingFor(c) == waiting \ {c}

\* The answer is sent and the executor created.
HandshakeDone(c) ==
    /\ Invited(c)
    /\ toClient' = Sent(toClient, serverValid, c, Ack(handshakeId'))
    /\ serverId' = [serverId EXCEPT ![c] = handshakeId']
    /\ executors' = executors \cup {c}
    /\ waiting' = NoLongerWaitingFor(c)
    /\ old' = old \ {c}
    /\ UNCHANGED <<linkUp, serverValid, clientValid, pendingConnections, ticking>>

\* Mutant: onServicesCheck returns early when no connection is waiting.
AliveIfBusy ==
    IF waiting = {} THEN executors ELSE {c \in executors : serverValid[c]}

Alive == {c \in executors : serverValid[c]}

\* checkProtocolsExecutors, the end of the tick.
EndTick ==
    /\ ticking
    /\ untried = {}
    /\ ticking' = FALSE
    /\ executors' = Alive
    /\ serverId' = [c \in Connection |->
                       IF c \in executors' THEN serverId[c] ELSE NoId]
    /\ UNCHANGED <<socketVars, pendingConnections, waiting, old, handshakeId,
                   untried>>
------------------------------------------------------------------------------

\* onNewDataReceived: the executor ignores the invitations that were left.
ExecutorReads(c) ==
    /\ ~ticking
    /\ c \in executors
    /\ serverValid[c]
    /\ \E received \in Receive(toServer[c]) :
         toServer' = [toServer EXCEPT ![c] = received.rest]
    /\ UNCHANGED <<linkUp, serverValid, clientValid, toClient, acceptVars>>

LinkBreaks(c) ==
    /\ "break" \in Faults
    /\ linkUp[c]
    /\ linkUp' = [linkUp EXCEPT ![c] = FALSE]
    /\ UNCHANGED <<serverValid, clientValid, toServer, toClient, acceptVars>>

ServerNotices(c) ==
    /\ ~linkUp[c]
    /\ serverValid[c]
    /\ serverValid' = [serverValid EXCEPT ![c] = FALSE]
    /\ toServer' = Readable(toServer, serverValid')
    /\ UNCHANGED <<linkUp, clientValid, toClient, acceptVars>>

\* The process dies between two steps, and systemd starts it again.
Restart ==
    /\ "crash" \in Faults
    /\ linkUp' = [c \in Connection |-> FALSE]
    /\ serverValid' = [c \in Connection |-> FALSE]
    /\ toServer' = [c \in Connection |-> <<>>]
    /\ pendingConnections' = {}
    /\ waiting' = {}
    /\ old' = {}
    /\ executors' = {}
    /\ serverId' = [c \in Connection |-> NoId]
    /\ handshakeId' = 0
    /\ ticking' = FALSE
    /\ untried' = {}
    /\ UNCHANGED <<clientValid, toClient>>

TickStep ==
    \/ EndTick
    \/ \E c \in Connection :
         HandshakeFails(c) \/ AnswerFails(c) \/ HandshakeDone(c)

ServerStep ==
    \/ OnNewConnection \/ StartTick \/ TickStep \/ Restart
    \/ \E c \in Connection :
         GrowsOld(c) \/ ExecutorReads(c) \/ LinkBreaks(c) \/ ServerNotices(c)

\* The connections the server holds in one of its lists.
Known == pendingConnections \cup waiting \cup executors
==============================================================================
