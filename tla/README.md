# A TLA+ model of the event challenge

The program in `src/` lets GUI clients send events (a text and a priority) to a
server, which keeps them in an SQLite file, answers requests for ranges of them
and tells every connected client when one is added. This directory models how
clients and server find each other and talk, from the bytes of a socket to the
rows of a table, checks the models with TLC on small instances and proves with
TLAPS, for all instances, invariants of each model and that clients and server
together implement an abstract log of events.

## 1. Inventory

| Part | Code | State | Operations |
|---|---|---|---|
| Server | `src/src/Server/Server.cpp` | connections that wait for a handshake, `m_protocolsExecutors`, a 200 ms timer | `onNewConnection`, `agingConnections`, `handshakeOnConnections`, `checkProtocolsExecutors` |
| Server handshake | `src/src/Communication/Server/Handshake/HandshakeV1` | a static counter, the identifier | the constructor answers one invitation |
| Server protocol executor | `src/src/Communication/Server/ProtocolExecutor/ProtocolExecutorV1` | handshake, storage (nothing between two handlers) | `onNewDataReceived`, `onPacket` (three kinds), `onNewEventSaved`, the destructor |
| SqliteStorage | `src/src/EventsStorage/SqliteStorage` | the events table, `m_callbacks` | `saveEvent`, `getSavedEvents`, `getNumberOfEvents`, `registerEventAddedCallback` |
| Client handshake | `src/src/Communication/Client/Handshake/HandshakeV1` | the identifier | the constructor invites up to ten times |
| Client protocol executor | `src/src/Communication/Client/ProtocolExecutor/ProtocolExecutorV1` with `ServerMessagesContainer` | packet counter, mailboxes by packet number, which callback is connected | `sendEvent`, `getSavedEvents`, `getNumberOfSavedEvents`, `tryToGetServerMessages`, `fireNewEventCallback` |
| TableEventsModel | `src/src/Lib/TableEventsModel` | cached row count, cached rows | `rowCount`, `data`, `onNewEventAdded` |
| QtTcpConnectionHelper | `src/src/Lib/QtTcpConnectionHelper` | the bytes in `QTcpSocket`, `m_rawDataFromSocket`, the callbacks | `send`, `receive`, `isValid`, `onDataArrived`, `onDisconnected` |
| PacketCoderV1 | `src/src/Lib/PacketCoderV1` | the bytes of a `BytesStream`, of a `DecodedPacket` | build, cut and decode packets |
| MainWindow | `src/src/Application/MainWindow.cpp` | handshake, executor, model, the enabled button | connect, send, connection lost |
| Connectivity managers, connections | `.../TransportConnectivityManager` | QTcpServer's pending connections | accept, connect; the rest forwards to Qt |

**Who calls whom.** `Server` takes connections in, tries a handshake on each that
waits and makes one executor for each handshake that succeeds. An executor
runs when its socket has bytes, and saves, reads or counts in the storage that
all executors share. `saveEvent` calls back every registered executor, and each
sends a `NewEventsNotification` to its client; only then does the executor that
saved the event send its `Ack`. On the client, a window connects, shakes hands and
makes an executor and a table model inside one slot; afterwards the user and the
table view make blocking calls. A call sends one request and polls the socket;
what it finds is put in a mailbox, or, if it is a notification, resets the table
model. The reset makes the view ask for the row count, which is a second blocking
call *inside* the first.

**What is hard here.**

- *Nested calls.* Scoped actions of an inner call reconnect the `readyRead`
  callback, poll once more and erase mailboxes under the feet of the outer one.
- *Answers that come late,* after their call has returned `false` or `nullopt`,
  or after the window has given up a handshake the server has finished.
- *Stale values:* the row count is assigned after the call that fetched it has
  returned, a saved packet is read after its bytes were freed, a loss is reported
  in the middle of the slot that makes the connection.
- *Two buffers and a signal* that Qt does not emit inside its own slot.
- *Broken batches:* the decoder's buffer is local to one read, so a packet cut by
  the end of a read is lost and the next read starts in the middle of a packet.
- *Crashes* between the insert and its acknowledgement, or between the two halves
  of a handshake; systemd restarts the server, identifiers start from 1 again and
  only the file is left.
- *Lost connections* in the middle of a reply, executors that outlive them,
  connections that age out with their invitation unread.
- *Boundaries:* the last `uint64_t` as an event number; two packets with
  different headers and one 16-bit size; a length of 0 in a stream.

`PROJECT.json` lists each of these at its line, with the properties that watch it.

**What makes each part correct.** The storage and the executors: one row for one
`SendEvent`, an acknowledgement only for a row, nobody left out of a
notification, no callback of a dead executor. The client executor: true, a
number or a range only if the log of events says so, every call returns, nothing
is left behind in the event loop. The table model: its rows are the rows of the
table, and its count becomes the count of the table. The socket helper: bytes in
order, each once, and none left without a callback. The sessions: what a window
calls connected is served under its identifier, a window never shows a lost
connection, and the server keeps nothing of one.

## 2. Modules

| Module | Models | Code |
|---|---|---|
| `Batches` | what a read of a socket gives: `Receive`, `Decoded`; the constant `Faults` | BytesStream, the loops over a stream |
| `Sockets` | both ends of every connection: `linkUp`, validity, channels, `Sent` | QtTcpConnectionHelper as its callers see it |
| `Transport` | the packets of an established session and their sizes, a link that breaks | PacketFactory |
| `SqliteStorage` | the table and its queries, as operators | SqliteStorage.cpp |
| `ServerProtocol` | executors, handlers step by step, callbacks, crash and restart, arbitrary clients | Server.cpp, server ProtocolExecutorV1.cpp |
| `ClientProtocol` | the three blocking calls, the polling loop, nested calls, the table model | client ProtocolExecutorV1.cpp, ServerMessagesContainer.cpp, TableEventsModel.cpp |
| `EventLog` | *abstract:* one growing log, and calls answered from it | IProtocolExecutor.h |
| `ChallengeSystem` | the two protocols composed, the end-to-end properties, the refinement of `EventLog` | |
| `Framing` | `BytesStream::getPacket` and the checks of `DecodedPacket`, in bytes | BytesStream.cpp, PacketDecoder |
| `ReceivePath` | one end of a connection in bytes: the two buffers, `readyRead` and its slot, every loop that reads | QtTcpConnectionHelper, both executors and handshakes |
| `PacketChannel` | *abstract:* packets come out as they went in, in batches | |
| `Handshake` | what the two `HandshakeV1` objects say to each other | |
| `AcceptList` | the server's tick: pending connections, aging, handshakes, executors | Server.cpp, server HandshakeV1.cpp, TcpTransportConnectivityManager.cpp |
| `MainWindow` | the window's slots, with the client's handshake inside | MainWindow.cpp, client HandshakeV1.cpp, TcpConnectivityManager.cpp |
| `Session` | windows and accept list composed: connect, lose, connect again | |
| `MCServerProtocol`, `MCChallengeSystem`, `MCReceivePath`, `MCSession` | the small instances | |
| `ServerProtocolProofs` | theorems about `ServerProtocol` | |
| `SystemProofs` | theorems about `ChallengeSystem` | |
| `EventLogProofs` | the refinement of `EventLog` by `ChallengeSystem` | |
| `CountProofs` | the row count covers what was confirmed: `ReadYourWrites` | |
| `ReadProofs` | stored events can be read: `SavedEventsCanBeRead` | |
| `SessionProofs` | theorems about `Session` | |
| `PathProofs` | theorems about `ReceivePath` | |
| `SequenceLemmas` | what all of these need of numbers and sequences | |

There are three models, one for each distance from which the program can be
looked at. They share the operators that say what a read may give.

    Batches -- Sockets -+- Transport -+- ServerProtocol (+ SqliteStorage) -+- ChallengeSystem => EventLog
                        |             +- ClientProtocol -------------------+
                        +- Handshake -+- AcceptList -+- Session
                                      +- MainWindow -+
    Framing -- ReceivePath => PacketChannel -- Batches

*Established sessions* (`ChallengeSystem`): a step of the system is a step of the
server or the network that leaves the clients alone, or a step of a client's
thread that leaves the server alone. The arbitrary clients of `ServerProtocol`
(`ClientSends`, `ClientReads`) are replaced by `ClientProtocol`. A connection is
opened with its handshake in one step here.

*How sessions begin and end* (`Session`): that one step in full, the exchange of
invitation and answer, both of which may be cut, left unread or come too late.
What the calls of an established session do takes only time here.

*Below the packets* (`ReceivePath`): what either of the other models takes for
granted of its channels, `Receive` and `Decoded`, is shown for the bytes, the two
buffers and the loops: each step of `ReceivePath` is a step of `PacketChannel` or
none. `PacketChannel` is written with the same two operators.

**The server's thread.** The server runs in the Qt event loop, so two handlers
never overlap. In `ServerProtocol` `pc` says where the handler that runs is,
`serving` whose it is, `stream` the packets of its batch that are left, `pending`
the callbacks `saveEvent` is yet to run and `reply` the events yet to be sent.
When the batch is done with, the handler calls `receive()` once more
(`"receive"`, `ReceiveAgain`) before it returns.
Between any two of these steps the network, the clients and a crash may act. A
handler's step is one `send` or one database query with what follows it up to the
next. In `AcceptList` a tick of the timer drops what is old, tries one waiting
connection a step (`untried`) and ends with `checkProtocolsExecutors`.

**The client's thread.** In `ClientProtocol` `stack` is the C++ stack. A `call`
frame is a call of the executor (`at` is `"wait"` in the polling loop, `"leave"`
before its scoped actions, `"return"` after them); a `drain` frame is the loop over
one batch. `FireNewEventCallback` pushes a new call on top of the batch it was
found in. `readyRead` is not emitted inside its own slot, so a drain made in the
slot (`slot`) keeps every nested call from receiving anything: it times out, and
the window stands still for up to two seconds. That is Qt's behaviour, not a
fault; `NothingArrivesInSlot` shows it for the bytes. In `Session` `phase` says
which slot a window is in; `ClientNotices` may come in any phase, since Qt reports
a lost peer from the blocking calls and message boxes of a slot too.

**Bytes.** `ReceivePath` keeps the bytes on the wire, in `QTcpSocket`
(`readBuffer`) and in `m_rawDataFromSocket` (`rawData`), and a `stack` of the
readers and calls that are on the C++ stack. A `reader` is one loop over one
`receive()`: `"receive"` before `waitForReadyRead`, `"take"` before it takes
`m_rawDataFromSocket`, `"packets"` in its loop. `Framing` computes what
`getPacket` and `DecodedPacket` do with those bytes. The histories `sent`, `taken`
and `delivered` serve the properties only.

**Stranded bytes.** That last `receive()` runs in the slot of `readyRead`, as every
nested call of a client may. Its `waitForReadyRead(0)` takes what has arrived into
`QTcpSocket`, but the signal for it is not emitted. `strandedAtServer` and
`strandedAtClient` say how many packets of a channel are in a socket like this.
They are read only together with packets behind them, whose own `readyRead`
announces all (`Announced`, the guards of `OnNewDataReceived` and `Drain`). A client
that is blocked in its call sends nothing behind its request, so a stranded request
is never served and the call times out over a good connection (`Overdue`). What
strands is all of a channel or nothing: if a part of it arrives later, that part
announces itself and the rest with it.

**Packets.** A channel is a sequence of packets, and `Receive` takes any prefix
of it. With the `"split"` fault the prefix may end in the middle of a packet,
whose rest stays in front of the channel as `TAIL`; `Decoded` then drops any
number of packets until the reader is aligned again. An event is its sender and
packet number; texts are their length, which is all that the size checks see.

**Faults.** `"split"` cut packets; `"break"` connections break; `"crash"` the server
dies and restarts; `"storage"` any query may fail; `"late"` an answer may take
longer than its caller waits; `"reuse"` the freed bytes of a saved packet are
overwritten before they are read. Without `"late"` a call times out only if no
answer can come any more: nothing is at work for it and the channels hold only what
is stranded. Without `"reuse"` freed bytes are still intact when they
are read; that is undefined behaviour of the code that happens to work, and the
runs that do not name the fault assume it. `ReceivePath` cuts its bytes anywhere
under any fault; in `Session` any iteration of a handshake may find no answer.

### Assumptions

- SQLite gives the rows of a range in the order of their ids; ids have no gaps,
  because rows are only inserted.
- Texts are valid in the locale's encoding (UTF-8): `QString` gives back the bytes
  it was made of.
- No text holds bytes that look like a packet: bytes read from the middle of a
  packet are decoded in `ReceivePath`, but only of the packets of its instance.
- Qt does not emit `readyRead` recursively ("readyRead() is not emitted
  recursively; if you reenter the event loop or call waitForReadyRead() inside a
  slot connected to the readyRead() signal, the signal will not be reemitted").
- In `ServerProtocol` and `ChallengeSystem` a connection is opened and its
  handshake done in one step. In all models each element of `Connection` lives
  once, so a client that reconnects does so over another element.
- The lists of `Server` are sets: a handshake does not depend on its place in one.
- A window that gives up `connectToServer` may have been accepted
  (`ConnectTimesOut`). Its socket is never closed, so the server keeps it until it
  ages out; that the `QTcpSocket` leaks on the client is not modelled.
- A socket may notice at any time that its peer is gone (`ServerNotices`,
  `ClientNotices`): more behaviours than Qt's, which does it in the event loop, in
  `waitForReadyRead` and in `flush`.
- In the models of packets bytes may stay in a channel for any time. That they lie
  stranded in a socket is followed in `ServerProtocol` and `ClientProtocol`, where a
  property depends on it; the executors of `Session`, of which no property asks that
  they read, may read at any time.
- With `"reuse"`, an earlier response of the same mailbox may read as a later one.
  On allocators that also overwrite the bytes behind the first eight, more can
  happen.
- The 32-bit counters of packets and handshakes do not wrap around.
- The table view asks for one row at a time, and for none above the largest number
  (`UserCallsAssumption`, evaluated by the runs, used by the proofs).

## 3. Runs

| Run | Instance | Question |
|---|---|---|
| `server_faults` | 2 arbitrary clients, 2 requests each; split, break, crash | types, registry, one row for one packet, acknowledgements, notifications, order of numbers, identifiers |
| `one_client` | 1 client with a table, two calls; late, break, storage; fairness | a clean event loop, no acknowledgement of a failed insert, every call returns, handlers return, executors of lost connections go |
| `system_crash` | a writer with a table, which shows a row and tries a text that is too long, and a reader without; crash | sendEvent's "true" is true for ever; own writes are shown; ranges are exact, and are answered unless request or answer is stranded in a socket; the system implements `EventLog` |
| `system_split` | a writer of two events, a reader with a table that shows the second row; split | cached rows are rows of the table; the system implements `EventLog` |
| `receive_path` | either end of a connection, three packets; split, break; fairness | bytes in order, none left in `m_rawDataFromSocket`, readers end, bytes are read; the bytes implement `PacketChannel` |
| `session` | a window that connects twice, two invitations a handshake; split, break, crash; fairness | both ends agree, the window knows what it has, the server forgets what is lost, slots and waiting end |
| `stale_row_count` | no fault | **violated:** the table shows the number of events |
| `overtaken_response` | no fault; reader with a table | **violated:** ranges are exact |
| `hole_in_range` | split | **violated:** ranges are exact |
| `overwritten_response` | reuse | **violated:** ranges are exact |
| `oversized_event` | no fault; a text of 65507 bytes | **violated:** saved events can be read |
| `stranded_bytes` | no fault; fairness | **violated:** new bytes are announced |

Every property of a passing run has a mutant in `PROJECT.json`: an operator that
stands next to the one it replaces (marked "Mutant"), changed as a slip in the code
would change it, under which the property fails.

**Bounds.** Two connections are enough for every interference: a client disturbs
another one only through the table, the registry, the counter and the server's
thread. Two requests a client (`MaxRequests`, `MaxCalls`) give a late answer a next
call to disturb, and a range two responses to be reordered, lost or abandoned.
The writer of `system_crash` has a third, since the row count that its table asks for
takes one: so it saves two events, or shows a row. A nested call has a packet number of its own beyond `MaxCalls`, so notifications
are always answered with a call. `LAST_EVENT_NUMBER` is 3, one more than any
number of events here, so the wrap-around is where it is in the code: one above
the largest number. Text sizes are real; only those at the two limits differ.
Runs over two like clients of `ServerProtocol` use symmetry, never together with
liveness.

The packets of `receive_path` are real ones, byte for byte, of the three kinds a
handshake and an executor meet: to the server two invitations and an event, the
client reads an answer, a notification and another answer. Three are the least
that lets one be cut, one be dropped and one be read by a nested reader. `session`
has two connections for one window: the second is what a reconnect needs. Two
invitations (`MaxInvites`, 10 in the code) are enough for one to be answered and
one to be left. Its safety properties do not need the bound, see section 5.

Deadlock is not checked: users make a bounded number of calls, and a system in
which nobody wants anything is at rest.

**Fairness.** Nothing is assumed of users, of the network, of crashes, or, for
calls of clients to return, of the server.

- `SystemFairSpec`: `WF` of a client's steps inside a call. The loops of the calls
  count their iterations, so each ends by itself.
- `FairServer`, the hypothesis of `HandlerReturns` and `ExpiredExecutorLeaves`:
  `WF(ServerStep)`, a handler is straight-line code; `SF(CheckProtocolsExecutors)`,
  the 200 ms timer fires in between whatever the sockets do; `WF(ServerNotices)`,
  the kernel reports a closed peer.
- `PathSpec`: `WF(ReaderStep)`, for the same reason as the handlers';
  `SF(ReadyRead)` and `SF(TryHandshake)`, since Qt comes back to a socket that has
  bytes, and the timer to a connection that waits; `SF(EndCall)` and `SF(GiveUp)`,
  since a polling loop counts its iterations, however many readers it starts.
- `SessionFairSpec`: `WF` of a tick's start and steps, `SF(OnNewConnection)` since
  the event loop comes back to the listening socket between ticks, `WF` of the
  second that passes and the lost peer that is reported, `WF` of a window's slot.
  A message box waits for its user for ever.

## 4. Where code and documentation disagree

1. `stale_row_count` - `rowCount()` assigns its cache after the call has returned,
   but the call's last scoped action may already have handled a notification and
   reset the cache. The older count then stays until the next event.
2. `overtaken_response` - a notification in the middle of a batch makes a nested
   call; it reads the later responses of the outer range, the last one included,
   before the rest of the batch. The outer call returns a part of its range, or
   takes what is missing for a complete answer.
3. `hole_in_range` - a response lost to a cut batch is not missed: the next one is
   appended, and the range is returned with a hole.
4. `overwritten_response` - `ServerMessagesContainer` keeps a copy of a
   `DecodedPacket` that points into the bytes of the original. A later packet of
   the batch that is decoded into the same memory is read in its place.
5. `oversized_event` - texts of 65507 to 65515 bytes are saved, acknowledged, and
   end every reply that reaches them.
6. `stranded_bytes` - bytes that `waitForReadyRead(0)` takes into `QTcpSocket`
   inside the slot of `readyRead` are announced to nobody: they are read when the
   next ones come, if any do. On the server this happens to a request that arrives
   while the handler of the one before it ends. Its client waits, sends nothing else,
   and its call ends without an answer over a good connection, with a working
   database. The models of packets have these behaviours, and `SavedEventsCanBeRead`
   allows for exactly them.

Both notes under "Unresolved problems" of `doc/documentation.md` are part of the
model: `EventLog` lets the event of a failed `sendEvent` enter the log, and a
request for an empty range is never answered.

What `receive_path` shows of a length of 0: a cut packet may leave a stream that
starts with two zero bytes, and `getPacket` then gives an empty packet and takes
nothing out. The loop over such a stream never ends. It is the case `Spinning`
that `ReaderReturns` and `EveryByteIsRead` leave out, and the only one besides the
stranded bytes.

Seen on the way, and not modelled: the range from `LAST_EVENT_NUMBER` on is the
whole table, since the SQL id of the last `uint64_t` is 0 (the arithmetic is in
`SqliteStorage`, no client of the program asks for it);
`registerEventAddedCallback` returns the opposite of what `IEventsStorage.h:61`
says (nobody reads it); the sequence diagram of the handshake has a version check
and a longer wait than the code; `TcpConnection.cpp:123` may replace a
`std::function` while it runs; executor and model of a lost connection stay until
the next one is made, and then the old model leaks.

## 5. Proofs

The theorems hold for all connections, windows, requests, ranges, invitations,
traffic, depths of nested calls and faults:

| Module | Theorem | Statement |
|---|---|---|
| `ServerProtocolProofs` | `TypeCorrect` | `ServerSpec => []ServerTypeOK` |
| | `RegistryCorrect` | `ServerSpec => []RegistryMatchesExecutors` |
| | `HandshakesDistinct` | `ServerSpec => []HandshakeIdsDistinct` |
| | `NotificationsCorrect` | `"storage" \notin Faults` implies `ServerSpec => []NotificationsComplete` |
| | `AcknowledgementsCorrect` | `ServerSpec => []AckOnlyForSavedEvent` |
| | `NumbersCorrect` | `ServerSpec => []NumbersInOrder` |
| | `SavedOnce` | `ServerSpec => []SavedAtMostOnce` |
| `SystemProofs` | `ClientTypeCorrect` | `SystemSpec => []ClientTypeOK` |
| | `ResponsesExpected` | `SystemSpec => []ResponseIsExpected` |
| | `EventLoopCleanCorrect` | `SystemSpec => []EventLoopIsClean` |
| | `SystemAcknowledgements` | `SystemSpec => []AckOnlyForSavedEvent` |
| | `ConfirmedCorrect` | `SystemSpec => []ConfirmedEventIsSaved` |
| | `CacheCorrect` | `SystemSpec => []CacheMatchesStorage` |
| | `SystemRegistry` | `SystemSpec => []RegistryMatchesExecutors` |
| | `SystemHandshakes` | `SystemSpec => []HandshakeIdsDistinct` |
| | `SystemNotifications` | `"storage" \notin Faults` implies `SystemSpec => []NotificationsComplete` |
| | `SystemNumbers` | `SystemSpec => []NumbersInOrder` |
| `EventLogProofs` | `SystemSavedOnce` | `SystemSpec => []SavedAtMostOnce` |
| | `RowAnswersExact` | `RowsOnly` implies `SystemSpec => []RangeIsExact` |
| | `LogImplemented` | `RowsOnly` implies `SystemSpec => ImplementsEventLog` |
| `CountProofs` | `ReadYourWritesCorrect` | `"split" \notin Faults` and `"storage" \notin Faults` imply `SystemSpec => []ReadYourWrites` |
| `ReadProofs` | `SavedEventsReadable` | `"split" \notin Faults`, `"storage" \notin Faults`, `ShortTexts` and `"reuse" \in Faults => RowsOnly` imply `SystemSpec => []SavedEventsCanBeRead` |
| `PathProofs` | `PathTypeCorrect` | `PathSpec => []PathTypeOK` |
| | `BytesInOrderCorrect` | `PathSpec => []BytesInOrder` |
| | `RawDataCorrect` | `PathSpec => []NothingLeftInRawData` |
| | `SlotCorrect` | `PathSpec => []NothingArrivesInSlot` |
| `SessionProofs` | `SessionTypeCorrect` | `SessionSpec => []SessionTypeOK` |
| | `ConnectedIsServedCorrect` | `SessionSpec => []ConnectedIsServed` |
| | `ConnectedMeansValidCorrect` | `SessionSpec => []ConnectedMeansValid` |
| | `ButtonCorrect` | `SessionSpec => []ButtonMatches` |
| | `ExecutorCorrect` | `SessionSpec => []ExecutorIsCurrent` |

They rest on the assumptions of the modules alone (`FaultsAssumption`,
`LastEventNumberAssumption`, `ServerAssumption`, `ClientAssumption`,
`UserCallsAssumption`, `WindowAssumption`, `TrafficAssumption`) and the hypotheses
in the table: faults that are left out, each with the counterexample named below,
and `RowsOnly`, which says that nobody calls `getSavedEvents` for more than one row.
That is all the program does: its one caller, `TableEventsModel::data`, asks for
`(row, row)`. It is needed, too: the runs `overtaken_response`, `hole_in_range` and
`overwritten_response` refute `RangeIsExact` for longer ranges. Every invariant
that a passing run checks is the statement of a theorem. `ShortTexts` says that an
event that fits into a `SendEvent` fits into a `SavedEventsResponse`, whose header
is longer: the run `oversized_event` shows what happens to the others.

**The server.** `ServerTypeOK` is not inductive: that the decoder only yields whole
packets needs to know where a `TAIL` can be, and that a handler finds a packet
needs to know when there is one. `TypeInv` adds both: a tail only comes first in
its channel (`IsChannel`), and while a handler runs it has a packet, a connection
and, while it responds, an event. The lemmas before it say what receiving,
decoding and appending do to a channel, and that a range query returns events. The
other theorems use `TypeInv` through the lemma `Typing`. `IdsInv` says that the
identifier of an executor was drawn from the counter; the proof for notifications
uses that the registry is the set of executors and that `pending` is empty outside
`saveEvent`; `AckInv` adds that while `saveEvent` runs its callbacks, the event is
in the table, and `SavedForGood` that it stays there. `NotificationsCorrect` needs
its hypothesis: if the count of the table fails in `onNewEventSaved`, that client
is not told.

**Order.** `NumbersInOrder` is inductive with the types (`NumbersInv`): a number is
sent when it is the size of the table (`Due`), so nothing larger is under way, and
a channel only loses packets at its front. `SavedAtMostOnce` is far from inductive: a
second row needs a second packet, so `OrderInv` follows the packet numbers of a
client from the channel over the batch at hand (`Todo`, without the packet that
has just been saved) to the rows. Each of the three ascends, each lies below the
next, and all are at most the client's counter. Cut batches and dropped packets
only take numbers out of the middle (`PieceAscends`), and saving moves one from the
front of the batch to the rows.

**Clients and server together.** The typing of the server is proved for any readers
and writers of its channels: `CoreInv` is what does not depend on them, and
`ServerSends` says of every step of the server that it sends nothing or one packet
that is due to its receiver (`Due`). `SystemInv` adds, for each client, three things.

- *The shape of its stack* (`Nested`): no two calls share a number, a call that waits
  has its mailbox, a mailbox has a call that will erase it, and if the callback is
  off, some call below will connect it again. It says all of a stack that pushing a
  call or a batch, deciding, leaving and returning need of it, so each of these is
  one lemma on sequences (`PushCall`, `PushDrain`, `ChangeTop`, `LeaveTop`,
  `PopFrame`). `EventLoopIsClean` is `Nested` of the empty stack.
- *What is under way* (`Asked`, `Replies`, `Mail`): whoever waits for the number of a
  packet asked for what the packet asks, or is answered by it, and no packet has a
  number that is still to be drawn. The sets depend on the stack, but no step makes
  them smaller: a call starts to wait only for a new number (`NoNewWait`), rows stay
  where they are (`RowsKept`), and so everything that is in a channel, a batch or a
  mailbox may stay there (`GoodGrows`). That is why a late response, one that outlives
  its call, is harmless.
- *What is returned* (`Right`): an event that `sendEvent` confirms is in the table,
  and the events given to a request for one row are that row.

The server's half of the second point is `HandlerRight`: what it is about to
acknowledge is saved, and what it is about to send is what the packet at hand asked
for. A range of more rows is left out, since cut batches and nested calls do break
it (section 4); for one row it holds even then, and the table model asks for nothing
else.

What the server promises to arbitrary clients it keeps with these (`SystemRegistry`
and the three after it, `SystemAcknowledgements`, `SystemSavedOnce`). The clients of
`ServerProtocol` read whole packets one by one, the real ones batches that a cut may
end, so this is not the first result again: the lemmas on the server's steps
(`RegistryKept`, `IdsKept`, `NotificationsKept`, `ServerKeepsNumbers`) assume nothing
of who empties the channels, and of a client it is left to show that its thread
leaves the server's state alone (`ServerPartKept`) and that what it leaves in its
channel is still in order (`RestInOrder`).

**The system implements the log.** `ImplementsEventLog` maps the table to the log,
the events in channels and in the batch at hand to `inTransit`, and the `call` frames
of all stacks to `open`. `LogImplemented` shows, from `SystemInv`, `OrderInv` and
`LogInv`, that the initial states map to initial states and each step to one step of
the log or none:

- *Pushing a call* is `Begin`, with `since` the size of the table, or with the
  outcome "no answer" if the connection is gone or the text too long
  (`NewCallMaps`). That it is the call of no other packet number needs the counts
  of `Nested`; a call without a connection has number 0, so `LogInv` adds that it
  is alone of its kind: it is the top of its stack and lasts for one step
  (`Offline`), because the callback of a lost connection starts nothing.
- *Deciding* is `Decide` (`LoopMaps`). The answer is allowed by `Right`: a
  confirmed event is in the log, a number is one the log had during the call,
  a row is that row (`AnswerAllowed`).
- *Leaving* shows nothing, *returning* is `End`; what moves between mailboxes,
  batches and the cache changes no call (`SameCallsShowNothing`).
- *Saving* is `Save` (`SaveMaps`). That the event leaves `inTransit` with that step
  needs that no second copy of it is under way: `OrderInv`, whose packet numbers
  ascend. `Unsaved` takes the packet out of the batch in the step that saves it,
  not in the one that acknowledges it.
- *Everything else* of the server and the network is `Lose` or nothing
  (`NothingAdded`): a read, a cut, a crash and a broken link only make fewer
  events be under way (`InTransitOnly`).

Two things had to be strengthened for it. `Right` now bounds the answer to
`getNumberOfSavedEvents` from both sides, and `Replies` says so of each response
under way: not less than the table had when the number of the packet was drawn,
not more than it has (`Since`). `OrderInv`, shown before for arbitrary clients that
send one packet number after another, is shown for the real ones, whose nested
calls draw their numbers inside one another (`ClientKeepsOrder`).

**The row count.** `ReadYourWrites` speaks of two pieces of memory, the events
`sendEvent` has confirmed and `m_cachedRowCount`, that different packets write at
different depths of the stack. `CountInv` follows both back to the server. It rests
on two orders. The server answers a client's packets as they were sent, so what
answers packet `n` was made when everything the client had sent up to `n` was
already saved. And `saveEvent` runs the callbacks before it returns, so the
notification of an event is in the channel before its acknowledgement.

- *Numbers* (`Current`, `CountsRight`). A response to packet `n` means that nothing
  the client sent up to `n` is left to be saved (`Settled`), and a number in it
  covers every event sent before `n` (`Covers`). A call for the number is younger
  than all events of its client, because what is nested in it sends none: so what it
  returns to `rowCount` covers them all (`CoversAll`).
- *News* (`NewsFirst`). If the table does not show a row of its client and no
  notification in a batch is about to reset it (`Hidden`), the client has not heard
  of that row, neither from a mailbox nor a batch nor the return of its call
  (`Heard`), and in the channel the response lies behind a notification
  (`AfterNews`). While `saveEvent` has run this client's callback and not yet
  returned (`Told`), the notification is in the channel, so the acknowledgement
  that is appended next comes behind it (`AnswerAfterNews`).
- *Reading* keeps it because a batch is a front piece of the channel: the
  acknowledgement is in it only if the notification is (`CutBeforeNews`), and then
  the row is not `Hidden` until the loop has fired the callback, which resets the
  cache. What a step of the client does to its packets is one of two things
  (`ClientPackets`): it adds none (`Quiet`), or it takes a batch (`Takes`).
- *Saving* adds a row that is unheard of: nothing a client has heard, or is about
  to hear, answers an event that is yet to be saved (`HeardIsOld`). A link that
  breaks before the callback has run changes nothing about that, since no
  acknowledgement is sent over it either.

Both hypotheses are needed. With the constants of `system_crash` and either "split"
or "storage" as the only fault, TLC refutes `ReadYourWrites`: a cut takes the
notification out of the batch and leaves the acknowledgement, and a count that
fails in `onNewEventSaved` sends no notification at all.

**Reading.** `SavedEventsCanBeRead` says of a call of `getSavedEvents` for stored rows,
while the connection holds, that what it waits for is not dropped, and that, if
nothing is late, it ends without an answer only when its request or the end of its
answer is stranded in a socket. `ReadInv` says so of each call that reads
(`InTime`):

- *While it waits* (`OnItsWay`), its request is in the channel or in the batch of the
  server, or the response marked as the last is under way, in the batch of the
  client or in the mailbox.
- *Once it has given up* (`OutOfReach`), request or response is among the stranded
  packets. Without `"late"` its loop may run out only when the server is not at work
  for it and the channels hold nothing but what is stranded (`Overdue`), so this
  follows from the first point (`ReadGivesUp`). It stays so until the call returns:
  the server gets no signal for that channel (`ServerLeavesOutOfReach`), and the
  client's next step is to leave (`LeavesAlone`, `LeavingIsNext`).

The first point holds because

- *the request* leaves the channel only with a whole batch (`BatchIsWhole`: no cut,
  so no `TAIL`), is read for what it is (`RequestIsRead`), and finds its rows, since
  they were in the table when the packet number was drawn (`ReadableFound`). The
  handler goes on to the last of them (`RequestIsServed`), because each fits into a
  packet (`AllFit`) and the server's end is valid as long as the link is up.
- *the response* is not dropped: who waits for it has a mailbox (`FinishExpected`),
  and no step of another call touches that (`MailboxStays`).
- *the call* reads its mailbox in one go and is done when the last response is in
  it (`LastIsTaken`). It is at the bottom of the stack (`ReadsLast`): views and
  callbacks ask for numbers, so a nested call never reads.

Each hypothesis has its counterexample. With "split" and with "storage" TLC refutes
`SavedEventsCanBeRead` (the request is cut off, or dropped by a query that fails); a text above
the limit ends the reply before the last row (`oversized_event`). With "reuse", a
range of more rows and a view, `SavedEventsCanBeRead` itself fails: a nested poll
saves the last response first, and the responses before it, saved after it, are
decoded into its memory, so that no packet says any longer that it is the last.
One row has one response, which nothing overtakes, so `RowsOnly` is enough.

**Bytes.** `BytesInOrder` is inductive with the types of the buffers: the peer adds
at the end of the wire (`SentBytes`), `readyRead`, `waitForReadyRead` and `receive()`
move a border between two neighbours (`ArrivedBytes`, `WaitedBytes`, `TakenBytes`).
`FlattenSeq` is recursive, but in a function that is local to the library, and
`FlattenAppend`, the one thing needed of it, follows from its defining equation by
a least counterexample; so do the laws of concatenation in `SequenceLemmas`.
`NothingLeftInRawData` and `NothingArrivesInSlot` are two ends of one invariant
about the stack. `StackOK`: at most one frame runs in the slot, the reader of a
handshake's answer is never at the bottom, and while bytes are in
`m_rawDataFromSocket` no frame of the slot is in its batch. `Settled`: while the
connection lives, such bytes wait only for a reader that is about to look at them,
or for a callback nobody has registered yet. The interesting step is
`WaitForReadyRead`: outside the slot it may put bytes below a reader that is past
`waitForReadyRead`, and the slot it pushes takes them before anybody else; inside
it moves no bytes out of the socket.

**Sessions.** `SessionInv` has five parts. `Types`; `Lists`: a connection is in one
of the server's lists at most, and in none before a window has opened it;
`Windows`: which of its connections a window holds in each phase, and that any
other it has ever had is closed on its side; `AnswersOnly`: while the server's end
is valid, every `Ack` under way carries the identifier of the connection's
executor, and there is none without an executor; `Served`: `ConnectedIsServed`
without the hypothesis that the link is up. The interesting part is the step from
`AnswersOnly` to `Served`: the window has an `Ack` in its hand, so the server has
an executor of that identifier or its end is lost. `Served` then stays, because a
tick drops an executor only when `serverValid` is gone (`Alive`), and
`handshakeId` starting again does no harm, because a restart leaves no connection
valid on the server's side.

**Model-checked only:** `ImplementsPacketChannel`, whose mapping computes packets from
bytes by recursion over the data, and which needs traffic whose texts do not look
like packets when a packet before them is cut; what `Framing` decodes, for the same
reason; liveness, which is outside the prover's reach.

## 6. Not modelled, and the plan

Left out for good: byte order of integers and cell texts and headers of the table
(conversions without state); logging; the mutexes of `QtTcpConnectionHelper` (each
program has one thread that uses it); the `TcpConnection` classes of client and
server, which forward every call; lifetimes of C++ objects, but for the two cases
where they decide what a caller reads (`"reuse"`, the registry); the `Main.cpp` of
both programs; tests and mocks, which were read for what they state.

The plan is done: every component that keeps state is a module, every invariant that a
passing run checks is a theorem, and what remains for TLC alone is listed at the end
of section 5.
