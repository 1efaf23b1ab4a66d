--------------------------- MODULE ChallengeSystem ---------------------------
(***************************************************************************)
(* The clients and the server together: the environment of ServerProtocol  *)
(* is ClientProtocol and the other way round.                              *)
(***************************************************************************)
EXTENDS ServerProtocol, ClientProtocol

\* The rows of a view are those of the row count it was given.
ASSUME UserCallsAssumption ==
    \A call \in UserCalls :
        /\ call[2] \in Request
        /\ call[2].op = "row" => /\ call[2].first = call[2].last
                                /\ call[2].first < LAST_EVENT_NUMBER

VARIABLES
    savedAtStart,  \* history: number of events when a packet number was drawn
    confirmed      \* history: packet numbers of the calls of sendEvent that
                   \* have decided to return true

history == <<savedAtStart, confirmed>>
systemVars == <<vars, clientVars, history>>
------------------------------------------------------------------------------

SystemInit ==
    /\ Init /\ ClientInit
    /\ savedAtStart = [c \in Connection |-> <<>>]
    /\ confirmed = [c \in Connection |-> {}]

\* The calls that c is inside of.
Frames(c) ==
    {stack[c][i] : i \in {k \in 1..Len(stack[c]) : stack[c][k].kind = "call"}}

Decided(frame) == frame.at # "wait"
Answered(frame) == frame.answer.ok

ConfirmedNow(c) ==
    {f.pn : f \in {g \in Frames(c) : g.request.op = "send" /\ Answered(g)}}

RecordHistory ==
    /\ savedAtStart' = [c \in Connection |->
           IF packetCounter'[c] = packetCounter[c] THEN savedAtStart[c]
           ELSE Append(savedAtStart[c], Len(table))]
    /\ confirmed' = [c \in Connection |-> confirmed[c] \cup ConfirmedNow(c)']

\* Mutant: the loops do not count.
NeverOverdue(c) == ~clientValid[c]

\* A call waits for 1000 ms to 2 s.  With the "late" fault an answer may take
\* longer; without it, the loop runs out only if no answer can come any more:
\* what is left in the channels, if anything, is stranded in the sockets, and
\* the client sends nothing that could free it before the call is over.
Overdue(c) ==
    \/ "late" \in Faults
    \/ InSlot(c)
    \/ ~clientValid[c]
    \/ /\ serving # c
       /\ Len(toServer[c]) = strandedAtServer[c]
       /\ Len(toClient[c]) = strandedAtClient[c]

InCall(c) == ClientStep(c) \/ (Overdue(c) /\ Timeout(c))

ClientThread(c) ==
    UserCall(c) \/ OnDataArrived(c) \/ InCall(c) \/ ClientNotices(c)

SystemNext ==
    /\ \/ (Server \/ Network) /\ UNCHANGED clientVars
       \/ (\E c \in Connection : ClientThread(c)) /\ UNCHANGED serverVars
    /\ RecordHistory

SystemSpec == SystemInit /\ [][SystemNext]_systemVars

\* A polling loop counts its iterations, so the thread of a client never
\* stops inside a call.  Nothing is assumed of the server or the network.
SystemFairSpec ==
    /\ SystemSpec
    /\ \A c \in Connection :
         WF_systemVars(InCall(c) /\ UNCHANGED serverVars /\ RecordHistory)

\* The server's steps as they are in the system: a handler that has started
\* runs, its timer fires, the kernel closes what has lost its peer.
Serving(step) == step /\ UNCHANGED clientVars /\ RecordHistory

FairServer ==
    /\ WF_systemVars(Serving(ServerStep))
    /\ SF_systemVars(Serving(CheckProtocolsExecutors))
    /\ \A c \in Connection : WF_systemVars(Serving(ServerNotices(c)))

------------------------------------------------------------------------------
(* Safety                                                                  *)

\* sendEvent returns true only if the event is in the database, and stays
\* there ("true when server confirmed hat event was saved").
ConfirmedEventIsSaved ==
    \A c \in Connection : \A pn \in confirmed[c] :
        \E k \in 1..Len(table) : table[k].from = c /\ table[k].pn = pn

\* The assertions in the polling loops: a waiting call finds its mailbox,
\* whatever nested calls opened and closed in between.
ResponseIsExpected ==
    \A c \in Connection : \A f \in Frames(c) :
        f.at = "wait" => f.pn \in Expecting(c)

\* A client back in its event loop has the callback connected and no mailbox
\* left, so no notification goes unseen and no late answer is kept.
EventLoopIsClean ==
    \A c \in Connection :
        stack[c] = <<>> => callbackOn[c] /\ Expecting(c) = {}

\* A row the model has cached is that row of the table.
CacheMatchesStorage ==
    \A c \in Connection : \A row \in DOMAIN cache[c] :
        row + 1 <= Len(table) /\ cache[c][row] = table[row + 1]

\* Once sendEvent has returned true, the row count the table shows covers the
\* event: the notification overtakes the acknowledgement, never the reverse.
ReadYourWrites ==
    \A c \in Connection :
        (stack[c] = <<>> /\ cachedRowCount[c] # NoValue) =>
            \A k \in 1..Len(table) :
                (table[k].from = c /\ table[k].pn \in confirmed[c])
                    => k <= cachedRowCount[c]

\* A client at rest with nothing under way and a live connection shows the
\* number of events the server has, or asks for it at the next paint.
AtRest(c) ==
    /\ stack[c] = <<>>
    /\ linkUp[c]
    /\ toServer[c] = <<>> /\ serving # c /\ toClient[c] = <<>>
    /\ c \in executors \ pending

CachedRowCountFresh ==
    \A c \in Connection :
        AtRest(c) => cachedRowCount[c] \in {NoValue, Len(table)}

\* getSavedEvents returns a range of the table, complete and in order, as it
\* was at some moment of the call.
RangeIsExact ==
    \A c \in Connection : \A f \in Frames(c) :
        (f.request.op \in {"range", "row"} /\ Answered(f)) =>
            \E n \in savedAtStart[c][f.pn]..Len(table) :
                f.answer.events = SubSeq(table, f.request.first + 1,
                    IF f.request.last < n THEN f.request.last + 1 ELSE n)

\* The packets in a channel or in a batch; in the batches of a stack; in the
\* mailboxes.  What is inside of client c it has been sent and not yet used.
Held(s) == {s[i] : i \in 1..Len(s)}
Batched(s) ==
    UNION {Held(s[i].packets) : i \in {k \in 1..Len(s) : s[k].kind = "drain"}}
Kept(messages) == UNION {Held(messages[n]) : n \in DOMAIN messages}
Inside(c) ==
    (Held(toClient[c]) \cup Batched(stack[c])) \cup Kept(serverMessages[c])

RequestOf(c, f) == Packet(f.request, f.pn, handshake[c])

\* The response that ends the answer to call f.
Finishes(c, f, p) ==
    /\ p.type = "SavedEventsResponse" /\ p.isLast
    /\ p.pn = f.pn /\ p.hs = handshake[c]

OnItsWay(c, f) ==
    \/ RequestOf(c, f) \in Held(toServer[c])
    \/ serving = c /\ RequestOf(c, f) \in Held(stream)
    \/ \E p \in Inside(c) : Finishes(c, f, p)

Stranded(c, f) ==
    \/ \E i \in 1..strandedAtServer[c] : toServer[c][i] = RequestOf(c, f)
    \/ \E i \in 1..strandedAtClient[c] : Finishes(c, f, toClient[c][i])

\* Over a connection that holds, a request for events that were in the table
\* when it was made is answered (REQ_0010): neither the server nor the client
\* drops it or the end of the answer while the call waits, and if the timing
\* is good, the call ends without an answer only when one of the two lies in
\* a socket that nobody is told to read.
SavedEventsCanBeRead ==
    \A c \in Connection : \A f \in Frames(c) :
        (/\ f.request.op \in {"range", "row"} /\ linkUp[c]
         /\ f.request.first < savedAtStart[c][f.pn]
         /\ f.request.first <= f.request.last)
            => /\ f.at = "wait" => OnItsWay(c, f)
               /\ (f.at = "leave" /\ "late" \notin Faults)
                      => Answered(f) \/ Stranded(c, f)
------------------------------------------------------------------------------
(* The system implements EventLog.                                         *)

EventsIn(packets, c) ==
    {[from |-> c, pn |-> packets[i].pn, size |-> packets[i].size] :
        i \in {k \in 1..Len(packets) : packets[k].type = "SendEvent"}}

\* The handler saves the head of its batch before it is done with it.
Unsaved == IF pc = "notify" THEN Tail(stream) ELSE stream

EventsInTransit ==
    (UNION {EventsIn(toServer[c], c) : c \in Connection})
        \cup EventsIn(Unsaved, serving)

OpenCall(c, frame) ==
    [from |-> c, pn |-> frame.pn, request |-> frame.request,
     since |-> IF frame.pn = 0 THEN 0 ELSE savedAtStart[c][frame.pn],
     outcome |-> IF Decided(frame)
                 THEN [decided |-> TRUE, answer |-> frame.answer]
                 ELSE [decided |-> FALSE]]

OpenCalls == UNION {{OpenCall(c, f) : f \in Frames(c)} : c \in Connection}

Log == INSTANCE EventLog WITH
    log <- table, inTransit <- EventsInTransit, open <- OpenCalls

\* Every step of clients, server and network is a step of the log or changes
\* nothing its callers can see.
ImplementsEventLog == Log!Spec
------------------------------------------------------------------------------
(* Liveness                                                                *)

\* Every call comes back to the event loop, whether or not the server lives.
EveryCallReturns ==
    \A c \in Connection : stack[c] # <<>> ~> stack[c] = <<>>

\* A handler of the server that has started returns to the event loop,
\* whatever the database and the connections do meanwhile.
HandlerReturns == FairServer => (pc # "idle" ~> pc = "idle")

\* The executor of a lost connection is destroyed.
ExpiredExecutorLeaves ==
    FairServer => \A c \in Connection :
        (c \in executors /\ ~linkUp[c]) ~> c \notin executors
==============================================================================
