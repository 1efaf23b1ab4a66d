------------------------------- MODULE Sockets -------------------------------
(***************************************************************************)
(* The sockets of every TCP connection between a client and the server, as *)
(* the rest of the program sees them through ITransportConnection: send(), *)
(* receive() and isValid() of either end.                                  *)
(***************************************************************************)
EXTENDS Batches

CONSTANT Connection  \* every TCP connection that may ever be opened

VARIABLES
    linkUp,         \* the two sockets can still exchange bytes
    serverValid,    \* isValid() of the server's ITransportConnection
    clientValid,    \* isValid() of the client's ITransportConnection
    toServer,       \* bytes sent by the client, not yet read by the server
    toClient        \* bytes sent by the server, not yet read by the client

socketVars == <<linkUp, serverValid, clientValid, toServer, toClient>>

\* send(): nothing is written to an invalid socket, and what is written to
\* a valid one whose peer is gone is lost.
Sent(channel, valid, c, packet) ==
    IF valid[c] /\ linkUp[c]
    THEN [channel EXCEPT ![c] = Append(@, packet)]
    ELSE channel
==============================================================================
