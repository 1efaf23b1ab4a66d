------------------------------- MODULE Session -------------------------------
(***************************************************************************)
(* Windows that connect, lose their connection and connect again, and the  *)
(* server that takes them in: how the two ends of a connection come to     *)
(* agree, and how everything of a connection goes when it is lost.         *)
(***************************************************************************)
EXTENDS AcceptList, MainWindow

sessionVars == <<socketVars, acceptVars, windowVars>>

SessionInit ==
    /\ linkUp = [c \in Connection |-> FALSE]
    /\ serverValid = [c \in Connection |-> FALSE]
    /\ clientValid = [c \in Connection |-> FALSE]
    /\ toServer = [c \in Connection |-> <<>>]
    /\ toClient = [c \in Connection |-> <<>>]
    /\ AcceptInit
    /\ WindowInit

\* QTcpServer accepts the connection that a window opens.
Accepts(c) ==
    /\ pendingConnections' = pendingConnections \cup {c}
    /\ UNCHANGED <<waiting, old, executors, serverId, handshakeId, ticking,
                   untried>>

SessionNext ==
    \/ ServerStep /\ UNCHANGED windowVars
    \/ \E w \in Window :
         \/ (SlotStep(w) \/ UserStep(w)) /\ UNCHANGED acceptVars
         \/ \E c \in Connection :
              (Connect(w, c) \/ ConnectTimesOut(w, c)) /\ Accepts(c)
    \/ \E c \in Connection : ClientNotices(c) /\ UNCHANGED acceptVars

SessionSpec == SessionInit /\ [][SessionNext]_sessionVars

InServer(step) == step /\ UNCHANGED windowVars
InWindow(step) == step /\ UNCHANGED acceptVars

\* The server's event loop comes back to its timer and to the listening
\* socket, and a tick ends; a second passes, and the kernel reports a lost
\* peer; a slot of a window runs to its end or to its message box.  Nothing is
\* assumed of the user, and nothing of what the network delivers.
SessionFairSpec ==
    /\ SessionSpec
    /\ WF_sessionVars(InServer(StartTick \/ TickStep))
    /\ SF_sessionVars(InServer(OnNewConnection))
    /\ WF_sessionVars(InServer(\E c \in Connection : GrowsOld(c) \/ ServerNotices(c)))
    /\ \A w \in Window : WF_sessionVars(InWindow(SlotStep(w)))
------------------------------------------------------------------------------
(* Safety                                                                  *)

\* The types of the state; a connection is taken in at most once, and an
\* executor's identifier has been drawn from the counter.
SessionTypeOK ==
    /\ pendingConnections \cap waiting = {}
    /\ \A c \in Known : owner[c] \in Window
    /\ old \cup untried \subseteq waiting
    /\ handshakeId \in Nat
    /\ \A c \in Connection : serverId[c] \in 0..handshakeId
    /\ clientId \in [Connection -> Nat]
    /\ phase \in [Window -> Phase]
    /\ invites \in [Window -> 0..MaxInvites]
    /\ connectEnabled \in [Window -> BOOLEAN]

\* What a window calls connected is served: while nothing is lost the server
\* has an executor for the connection and both ends hold one identifier,
\* however many invitations crossed its answer.
ConnectedIsServed ==
    \A w \in Window :
        LET c == m_handshake[w] IN
        (c # NoConnection /\ linkUp[c] /\ serverValid[c])
            => c \in executors /\ serverId[c] = clientId[c]

\* A window in the event loop holds its live connection and no other: it is
\* never stuck with a lost one, and no failed attempt leaves one behind.
ConnectedMeansValid ==
    \A w \in Window : In(w, "idle") =>
        {c \in Connection : owner[c] = w /\ clientValid[c]}
            = {m_handshake[w]} \ {NoConnection}

\* The button is enabled exactly when the assertion in its slot holds
\* (MainWindow.cpp:34).
ButtonMatches ==
    \A w \in Window :
        In(w, "idle") => (connectEnabled[w] <=> m_handshake[w] = NoConnection)

\* Events are sent over the connection that the window shows, and not over
\* the one it had before.
ExecutorIsCurrent ==
    \A w \in Window :
        m_handshake[w] # NoConnection => m_protocolExecutor[w] = m_handshake[w]
------------------------------------------------------------------------------
(* Liveness                                                                *)

\* The server keeps nothing of a lost connection: not in the list of those
\* that wait, and not as an executor whose client never had the answer.
ServerForgets ==
    \A c \in Connection : (c \in Known /\ ~linkUp[c]) ~> c \notin Known

\* A connection that sends nothing does not wait forever.
WaitingEnds ==
    \A c \in Connection : c \in waiting ~> c \notin waiting

\* The slots of the window end, with a message box at worst, whatever the
\* server does.
SlotsEnd ==
    \A w \in Window :
        phase[w] # "idle" ~> phase[w] \in {"idle", "connectBox", "sendBox"}
==============================================================================
